---------------------------- MODULE ConsoleRing -----------------------------
(***************************************************************************)
(* The console of a flash job (db_fc_flash.c, "console ring"), from the    *)
(* lines the firmware logs to the lines the page shows.                    *)
(*                                                                         *)
(* Any task logs a line, under the lock, into a ring of numbered slots.    *)
(* The page polls with the number it wants next; the web server answers    *)
(* with the lines that fit its buffer and the number to ask for next.  An  *)
(* answer may never arrive: the page then asks again from where it was.    *)
(* The companion may restart while the page stays open.                    *)
(*                                                                         *)
(* Lines differ in length, so an answer holds a varying number of them,    *)
(* but never fewer than MinFit when there are that many.                   *)
(***************************************************************************)
EXTENDS Naturals, Sequences

CONSTANTS
  Lines,     \* CONSOLE_LINES
  MinFit,    \* console_max / CONSOLE_LINE_MAX: lines an answer surely holds
  MaxLog,    \* bound: lines logged in one boot
  MaxBoots   \* bound: boots of the companion

ASSUME ConsoleAssumption ==
  /\ Lines \in Nat \ {0}
  /\ MinFit \in Nat /\ MaxLog \in Nat /\ MaxBoots \in Nat \ {0}

VARIABLES
  boot,     \* which boot of the companion this is
  ring,     \* g_console.line and .seq, slot by slot
  nextSeq,  \* g_console.next_seq
  since,    \* the page's cursor (seq in fcflash.js)
  answer,   \* an answer on its way: a set with at most one
  shown,    \* the lines the page has shown, in order
  passed    \* numbers of this boot's lines that left the ring (history)

consoleVars == <<boot, ring, nextSeq, since, answer, shown, passed>>

Slots  == 0 .. Lines - 1
Line   == [boot: 1 .. MaxBoots, n: 0 .. MaxLog]
Zeroed == [s \in Slots |-> [boot |-> 0, n |-> 0]]

ConsoleInit ==
  /\ boot = 1
  /\ ring = Zeroed
  /\ nextSeq = 0
  /\ since = 0
  /\ answer = {}
  /\ shown = <<>>
  /\ passed = {}

(* Mutation: the number is taken after the increment.                      *)
LogNumberedLate ==
  /\ nextSeq < MaxLog
  /\ ring' = [ring EXCEPT ![nextSeq % Lines] = [boot |-> boot, n |-> nextSeq + 1]]
  /\ nextSeq' = nextSeq + 1
  /\ passed' = IF nextSeq >= Lines THEN passed \cup {nextSeq - Lines} ELSE passed
  /\ UNCHANGED <<boot, since, answer, shown>>

(* db_fc_flash_log                                                         *)
Log ==
  /\ nextSeq < MaxLog
  /\ ring' = [ring EXCEPT ![nextSeq % Lines] = [boot |-> boot, n |-> nextSeq]]
  /\ nextSeq' = nextSeq + 1
  /\ passed' = IF nextSeq >= Lines THEN passed \cup {nextSeq - Lines} ELSE passed
  /\ UNCHANGED <<boot, since, answer, shown>>

(* Mutation: one line too few is thought to be in the ring.                *)
FirstTooLate == IF nextSeq >= Lines THEN nextSeq + 1 - Lines ELSE 0

(* db_fc_flash_console_read, reached by a poll: the numbers still in the   *)
(* ring from the cursor on, up to the first line that does not fit.        *)
First == IF nextSeq > Lines THEN nextSeq - Lines ELSE 0
From  == IF since < First THEN First ELSE since
Waiting == IF From < nextSeq THEN nextSeq - From ELSE 0

(* Mutation: the cursor names the last line the page has, not the next.    *)
PollFromLast ==
  /\ answer = {}
  /\ LET from == IF From > First THEN From - 1 ELSE From IN
     answer' = { [lines |-> [i \in 1 .. (IF from < nextSeq THEN nextSeq - from ELSE 0) |->
                               ring[(from + i - 1) % Lines]],
                  next |-> nextSeq] }
  /\ UNCHANGED <<boot, ring, nextSeq, since, shown, passed>>

Poll ==
  /\ answer = {}
  /\ \E k \in 0 .. Waiting :
       /\ k = Waiting \/ k >= MinFit
       /\ answer' = { [lines |-> [i \in 1 .. k |-> ring[(From + i - 1) % Lines]],
                       next |-> nextSeq] }
  /\ UNCHANGED <<boot, ring, nextSeq, since, shown, passed>>

(* poll() in fcflash.js.  The next poll is scheduled only when this one is *)
(* over, so answers do not overtake each other.                            *)
Receive ==
  /\ \E a \in answer : shown' = shown \o a.lines /\ since' = a.next
  /\ answer' = {}
  /\ UNCHANGED <<boot, ring, nextSeq, passed>>

AnswerLost ==
  /\ answer # {}
  /\ answer' = {}
  /\ UNCHANGED <<boot, ring, nextSeq, since, shown, passed>>

(* The companion restarts; the page, and an answer already sent, do not.   *)
Restart ==
  /\ boot < MaxBoots
  /\ boot' = boot + 1
  /\ ring' = Zeroed /\ nextSeq' = 0 /\ passed' = {}
  /\ UNCHANGED <<since, answer, shown>>

ConsoleNext == Log \/ Poll \/ Receive \/ AnswerLost \/ Restart

ConsoleSpec == ConsoleInit /\ [][ConsoleNext]_consoleVars

-----------------------------------------------------------------------------
(* Types; and every line still in the ring is where its number says, so    *)
(* that the reader's test of the slot's number never fails.                *)
ConsoleTypeOK ==
  /\ boot \in 1 .. MaxBoots
  /\ nextSeq \in 0 .. MaxLog /\ since \in 0 .. MaxLog
  /\ ring \in [Slots -> Line \cup {[boot |-> 0, n |-> 0]}]
  /\ answer \subseteq [lines: Seq(Line), next: 0 .. MaxLog]
  /\ shown \in Seq(Line)
  /\ passed \subseteq 0 .. MaxLog
  /\ \A n \in First .. nextSeq - 1 : ring[n % Lines] = [boot |-> boot, n |-> n]

(* No line is shown twice or out of order: not after a lost answer, not    *)
(* when the page fell behind the ring, not across a restart.               *)
ShownOnce ==
  \A i, j \in 1 .. Len(shown) : i < j =>
    \/ shown[i].boot < shown[j].boot
    \/ shown[i].boot = shown[j].boot /\ shown[i].n < shown[j].n

(* db_fc_flash.c:159: "a slow or briefly disconnected client resumes       *)
(* without duplicating or losing lines".  Whatever the page's cursor has   *)
(* gone past was shown, unless it had left the ring.                       *)
NothingSkipped ==
  boot = 1 =>
    \A n \in 0 .. since - 1 :
      n \in passed \/ \E i \in 1 .. Len(shown) : shown[i] = [boot |-> 1, n |-> n]
=============================================================================
