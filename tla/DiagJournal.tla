---------------------------- MODULE DiagJournal -----------------------------
(***************************************************************************)
(* The diagnostic journal (db_diag.c): a ring of flash sectors with one    *)
(* numbered record each, written at boot, when an update is confirmed and  *)
(* on request.                                                             *)
(*                                                                         *)
(* One mutex is held from choosing a number to verifying what was written, *)
(* so there is one record in hand at most; but erasing, writing and        *)
(* reading back are steps of their own, because each may fail and power    *)
(* may go in the middle.  What the checksum refuses (erased, half written, *)
(* rotten) is blank here.  An event is known by its number in time; its    *)
(* text, and the figures of the status page, are left out.                 *)
(***************************************************************************)
EXTENDS Naturals

CONSTANTS
  Count,     \* s_sector_count
  MaxEvents  \* bound: events ever logged

ASSUME JournalAssumption == Count \in Nat /\ Count >= 2 /\ MaxEvents \in Nat

VARIABLES
  flash,  \* the partition
  diag,   \* s_init_attempted and s_init_result
  latest, \* s_latest_sequence and s_latest_sector
  step,   \* where db_diag_log_event is
  rec,    \* the record in its hand
  events, \* how many events there were
  acked   \* history: the records reported as stored

journalVars == <<flash, diag, latest, step, rec, events, acked>>

Sectors == 0 .. Count - 1
Blank   == [seq |-> 0, ev |-> 0]
Nothing == [seq |-> 0, sector |-> 0]

Readable == { i \in Sectors : flash[i].seq # 0 }
Kept     == { flash[i] : i \in Readable }

(* Mutation: a record is written over the one before it.                   *)
TargetSame == latest.sector

(* The sector after the latest record's, around the ring.                  *)
Target ==
  IF latest.seq = 0 \/ latest.sector = Count - 1 THEN 0 ELSE latest.sector + 1

JournalInit ==
  /\ flash = [i \in Sectors |-> Blank]
  /\ diag = "no" /\ latest = Nothing
  /\ step = "idle" /\ rec = Blank
  /\ events = 0 /\ acked = {}

(* Mutation: the scan settles for the first record it finds.               *)
NewestFirst(i) == i \in Readable /\ \A j \in Readable : i <= j

(* db_diag_sequence_is_newer, over the whole scan.                         *)
Newest(i) == i \in Readable /\ \A j \in Readable : flash[j].seq <= flash[i].seq

(* db_diag_init: looks for the latest record, once per boot; a sector that *)
(* cannot be read fails it until the next.                                 *)
DiagInit ==
  /\ diag = "no"
  /\ \/ /\ diag' = "ready"
        /\ IF Readable = {} THEN latest' = Nothing
           ELSE \E i \in Sectors : /\ Newest(i)
                                   /\ latest' = [seq |-> flash[i].seq, sector |-> i]
     \/ diag' = "failed" /\ UNCHANGED latest
  /\ UNCHANGED <<flash, step, rec, events, acked>>

(* db_diag_log_event takes the mutex and the next number.                  *)
LogEvent ==
  /\ diag = "ready" /\ step = "idle" /\ events < MaxEvents
  /\ events' = events + 1
  /\ rec' = [seq |-> latest.seq + 1, ev |-> events']
  /\ step' = "erase"
  /\ UNCHANGED <<flash, diag, latest, acked>>

(* What may be in the target while it is erased, or written.               *)
Erasing == { flash[Target], Blank }
Writing == { Blank, rec }

Store(c) == flash' = [flash EXCEPT ![Target] = c]

Erase ==
  /\ step = "erase"
  /\ \/ Store(Blank) /\ step' = "write" /\ UNCHANGED rec
     \/ (\E c \in Erasing : Store(c)) /\ step' = "idle" /\ rec' = Blank
  /\ UNCHANGED <<diag, latest, events, acked>>

(* A write may fail, or be wrong without saying so.                        *)
Write ==
  /\ step = "write"
  /\ \E c \in Writing : Store(c)
  /\ \/ step' = "verify" /\ UNCHANGED rec
     \/ step' = "idle" /\ rec' = Blank
  /\ UNCHANGED <<diag, latest, events, acked>>

(* Mutation: what was written is not read back.                            *)
VerifyBlindly ==
  /\ step = "verify"
  /\ latest' = [seq |-> rec.seq, sector |-> Target]
  /\ acked' = acked \cup {rec}
  /\ step' = "idle" /\ rec' = Blank
  /\ UNCHANGED <<flash, diag, events>>

(* Reads the record back.  Only a whole record with the number makes the   *)
(* event a stored one; any failure leaves number and sector to the next.   *)
Verify ==
  /\ step = "verify"
  /\ \/ /\ flash[Target].seq = rec.seq
        /\ latest' = [seq |-> rec.seq, sector |-> Target]
        /\ acked' = acked \cup {rec}
     \/ UNCHANGED <<latest, acked>>
  /\ step' = "idle" /\ rec' = Blank
  /\ UNCHANGED <<flash, diag, events>>

(* The companion loses power, or panics: what was in hand is lost, and the *)
(* target may be left in any state of the operation on it.                 *)
JournalRestart ==
  /\ CASE step = "erase" -> \E c \in Erasing : Store(c)
       [] step = "write" -> \E c \in Writing : Store(c)
       [] OTHER          -> UNCHANGED flash
  /\ diag' = "no" /\ latest' = Nothing
  /\ step' = "idle" /\ rec' = Blank
  /\ UNCHANGED <<events, acked>>

JournalStep == DiagInit \/ LogEvent \/ Erase \/ Write \/ Verify
JournalNext == JournalStep \/ JournalRestart
JournalSpec == JournalInit /\ [][JournalNext]_journalVars

-----------------------------------------------------------------------------
JournalTypeOK ==
  /\ flash \in [Sectors -> [seq: Nat, ev: Nat]]
  /\ diag \in {"no", "ready", "failed"}
  /\ latest \in [seq: Nat, sector: Sectors]
  /\ step \in {"idle", "erase", "write", "verify"}
  /\ rec \in [seq: Nat, ev: Nat]
  /\ events \in 0 .. MaxEvents
  /\ acked \subseteq [seq: Nat, ev: Nat]

(* An event that was reported as stored can be read until one that came    *)
(* Count - 1 later took over the ring: interrupted erases, failed writes   *)
(* and restarts cost at most the oldest record.                            *)
RecentKept ==
  \A a \in acked :
    a \in Kept \/ \E r \in Kept : r.seq >= a.seq + Count - 1

(* Sorting by number (db_diag_ref_compare) is sorting by time, across      *)
(* restarts, failures and numbers that are used again: no two stored       *)
(* events ever share a number, and a later one has a higher.               *)
NumbersFollowTime ==
  \A a, b \in Kept \cup acked : a.seq < b.seq <=> a.ev < b.ev

(* The journal is an event log of Count records.                           *)
Contract == INSTANCE EventLog WITH Depth <- Count, kept <- Kept
KeepsContract == Contract!EventLogSpec
=============================================================================
