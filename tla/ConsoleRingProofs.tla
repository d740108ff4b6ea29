------------------------- MODULE ConsoleRingProofs --------------------------
(***************************************************************************)
(* The console of ConsoleRing for every size of the ring: slots never      *)
(* collide, nothing is shown twice, and nothing is skipped as long as the  *)
(* web server's buffer takes a whole ring (MinFit >= Lines).               *)
(***************************************************************************)
EXTENDS ConsoleRing, Integers, TLAPS

(* What orders the lines of all boots.                                     *)
Before(l, m) == l.boot < m.boot \/ (l.boot = m.boot /\ l.n < m.n)
Ordered(s)   == \A i, j \in 1 .. Len(s) : i < j => Before(s[i], s[j])

(* A line that a page with cursor c has, or is about to get.               *)
Behind(l, c) == l.boot <= boot /\ (l.boot = boot => l.n < c /\ c <= nextSeq)

RingHolds == \A n \in First .. nextSeq - 1 : ring[n % Lines] = [boot |-> boot, n |-> n]

PassedHolds == \A n \in 0 .. First - 1 : n \in passed

PageInv ==
  /\ Ordered(shown)
  /\ \A i \in 1 .. Len(shown) : Behind(shown[i], since)

AnswerInv ==
  \A a \in answer :
    /\ Ordered(a.lines)
    /\ \A j \in 1 .. Len(a.lines) : Behind(a.lines[j], a.next)
    /\ \A i \in 1 .. Len(shown) : Behind(shown[i], a.next)
    /\ \A i \in 1 .. Len(shown), j \in 1 .. Len(a.lines) : Before(shown[i], a.lines[j])

Has(s, n) == \E i \in 1 .. Len(s) : s[i] = [boot |-> 1, n |-> n]

SkipInv ==
  boot = 1 => \A a \in answer : \A n \in 0 .. a.next - 1 :
    n \in passed \/ Has(shown, n) \/ Has(a.lines, n)

-----------------------------------------------------------------------------
LEMMA Times ==
  ASSUME NEW m \in Nat, NEW k \in Int, k >= 1
  PROVE  m * k >= m
  OBVIOUS

(* Numbers less than a ring apart have slots of their own.                 *)
LEMMA Slot ==
  ASSUME NEW a \in Nat, NEW b \in Nat, a < b, b - a < Lines
  PROVE  a % Lines # b % Lines
<1> USE ConsoleAssumption
<1> DEFINE p == a \div Lines
           q == b \div Lines
<1>1. p \in Int /\ q \in Int /\ a = (Lines * p) + (a % Lines) /\ b = (Lines * q) + (b % Lines)
      /\ a % Lines \in Int /\ b % Lines \in Int
  OBVIOUS
<1> SUFFICES ASSUME a % Lines = b % Lines PROVE FALSE  OBVIOUS
<1> HIDE DEF p, q
<1>2. Lines * (q - p) = Lines * q - Lines * p  BY <1>1
<1>3. Lines * (q - p) = b - a  BY <1>1, <1>2
<1>4. q - p >= 1
  <2>1. CASE q - p <= 0
    <3>1. Lines * (q - p) <= 0  BY <1>1, <2>1
    <3> QED  BY <1>3, <3>1
  <2> QED  BY <1>1, <2>1
<1> QED  BY <1>1, <1>3, <1>4, Times

LEMMA SlotRange ==
  ASSUME NEW a \in Nat
  PROVE  a % Lines \in Slots
  BY ConsoleAssumption DEF Slots

(* What is still in the ring when a line is logged keeps its slot.         *)
LEMMA RingStep ==
  ASSUME ConsoleTypeOK, PassedHolds, [ConsoleNext]_consoleVars
  PROVE  RingHolds' /\ PassedHolds'
<1>0. ConsoleAssumption /\ RingHolds /\ PassedHolds
  BY ConsoleAssumption DEF ConsoleTypeOK, RingHolds
<1>1. CASE Log
  <2>1. /\ nextSeq \in Nat /\ Lines \in Nat \ {0} /\ boot' = boot /\ nextSeq' = nextSeq + 1
        /\ ring \in [Slots -> Line \cup {[boot |-> 0, n |-> 0]}]
        /\ ring' = [ring EXCEPT ![nextSeq % Lines] = [boot |-> boot, n |-> nextSeq]]
        /\ passed' = IF nextSeq >= Lines THEN passed \cup {nextSeq - Lines} ELSE passed
    BY <1>0, <1>1 DEF Log, ConsoleTypeOK, ConsoleAssumption
  <2>2. ASSUME NEW n \in First' .. nextSeq' - 1
        PROVE  ring'[n % Lines] = [boot |-> boot', n |-> n]
    <3>1. CASE n = nextSeq
      BY <2>1, <3>1, SlotRange
    <3>2. CASE n # nextSeq
      <4>1. n \in Nat /\ n < nextSeq /\ nextSeq - n < Lines /\ n \in First .. nextSeq - 1
        BY <2>1, <2>2, <3>2 DEF First
      <4>2. n % Lines # nextSeq % Lines  BY <2>1, <4>1, Slot
      <4>3. ring'[n % Lines] = ring[n % Lines]
        BY <2>1, <4>1, <4>2, SlotRange
      <4> QED  BY <1>0, <2>1, <4>1, <4>3 DEF RingHolds
    <3> QED  BY <3>1, <3>2
  <2>3. ASSUME NEW n \in 0 .. First' - 1
        PROVE  n \in passed'
    <3>1. n \in 0 .. First - 1 \/ (n = nextSeq - Lines /\ nextSeq >= Lines)
      BY <2>1, <2>3 DEF First
    <3> QED  BY <1>0, <2>1, <3>1 DEF PassedHolds
  <2> QED  BY <2>2, <2>3 DEF RingHolds, PassedHolds
<1>2. CASE Restart
  <2>1. First' = 0 /\ nextSeq' = 0
    BY <1>0, <1>2 DEF Restart, First, ConsoleAssumption
  <2> QED  BY <2>1 DEF RingHolds, PassedHolds
<1>3. CASE UNCHANGED <<boot, ring, nextSeq, passed>>
  BY <1>0, <1>3 DEF RingHolds, PassedHolds, First
<1> QED
  BY <1>1, <1>2, <1>3 DEF ConsoleNext, Poll, Receive, AnswerLost, consoleVars

(* The lines of an answer, by their numbers.                               *)
Run(from, k) == [i \in 1 .. k |-> [boot |-> boot, n |-> from + i - 1]]

LEMMA PollGives ==
  ASSUME ConsoleTypeOK, Poll
  PROVE  \E k \in 0 .. Waiting :
           /\ k = Waiting \/ k >= MinFit
           /\ answer' = { [lines |-> Run(From, k), next |-> nextSeq] }
<1>0. RingHolds /\ nextSeq \in Nat /\ since \in Nat /\ Lines \in Nat
  BY ConsoleAssumption DEF ConsoleTypeOK, RingHolds, ConsoleAssumption
<1>1. PICK k \in 0 .. Waiting :
        /\ k = Waiting \/ k >= MinFit
        /\ answer' = { [lines |-> [i \in 1 .. k |-> ring[(From + i - 1) % Lines]], next |-> nextSeq] }
  BY DEF Poll
<1>2. ASSUME NEW i \in 1 .. k
      PROVE  ring[(From + i - 1) % Lines] = [boot |-> boot, n |-> From + i - 1]
  <2>1. From + i - 1 \in First .. nextSeq - 1
    BY <1>0, <1>1, <1>2 DEF From, First, Waiting
  <2> QED  BY <1>0, <2>1 DEF RingHolds
<1>3. [i \in 1 .. k |-> ring[(From + i - 1) % Lines]] = Run(From, k)
  BY <1>2 DEF Run
<1> QED  BY <1>1, <1>3

LEMMA RunFacts ==
  ASSUME ConsoleTypeOK, NEW k \in 0 .. Waiting
  PROVE  /\ Run(From, k) \in Seq(Line) /\ Len(Run(From, k)) = k /\ k \in Nat
         /\ \A i \in 1 .. k : Run(From, k)[i] = [boot |-> boot, n |-> From + i - 1]
         /\ From \in Nat /\ since <= From /\ (From + k <= nextSeq \/ k = 0)
<1>0. nextSeq \in 0 .. MaxLog /\ since \in 0 .. MaxLog /\ Lines \in Nat /\ MaxLog \in Nat /\ boot \in 1 .. MaxBoots
  BY ConsoleAssumption DEF ConsoleTypeOK, ConsoleAssumption
<1>1. k \in Nat /\ From \in Nat /\ since <= From /\ (From + k <= nextSeq \/ k = 0)
  BY <1>0 DEF From, First, Waiting
<1>2. ASSUME NEW i \in 1 .. k PROVE From + i - 1 \in 0 .. MaxLog
  BY <1>0, <1>1, <1>2
<1>3. Run(From, k) \in [1 .. k -> Line]
  BY <1>0, <1>2 DEF Run, Line
<1> QED  BY <1>1, <1>3 DEF Run

LEMMA TypeStep ==
  ASSUME ConsoleTypeOK, PassedHolds, [ConsoleNext]_consoleVars
  PROVE  ConsoleTypeOK'
<1> USE ConsoleAssumption DEF ConsoleAssumption
<1>1. RingHolds'  BY RingStep
<1> DEFINE Types ==
      /\ boot \in 1 .. MaxBoots
      /\ nextSeq \in 0 .. MaxLog /\ since \in 0 .. MaxLog
      /\ ring \in [Slots -> Line \cup {[boot |-> 0, n |-> 0]}]
      /\ answer \subseteq [lines: Seq(Line), next: 0 .. MaxLog]
      /\ shown \in Seq(Line)
      /\ passed \subseteq 0 .. MaxLog
<1>2. Types  BY DEF ConsoleTypeOK
<1>3. Types'
  <2>1. CASE Log
    <3>1. [boot |-> boot, n |-> nextSeq] \in Line  BY <1>2, <2>1 DEF Log, Line
    <3>2. nextSeq' \in 0 .. MaxLog /\ passed' \subseteq 0 .. MaxLog  BY <1>2, <2>1 DEF Log
    <3> QED  BY <1>2, <2>1, <3>1, <3>2 DEF Log
  <2>2. CASE Poll
    <3>1. PICK k \in 0 .. Waiting : answer' = { [lines |-> Run(From, k), next |-> nextSeq] }
      BY <2>2, PollGives
    <3>2. Run(From, k) \in Seq(Line)  BY RunFacts
    <3>3. answer' \subseteq [lines: Seq(Line), next: 0 .. MaxLog]  BY <1>2, <3>1, <3>2
    <3> QED  BY <1>2, <2>2, <3>3 DEF Poll
  <2>3. CASE Receive
    BY <1>2, <2>3 DEF Receive
  <2>4. CASE AnswerLost
    BY <1>2, <2>4 DEF AnswerLost
  <2>5. CASE Restart
    <3>1. ring' \in [Slots -> Line \cup {[boot |-> 0, n |-> 0]}]  BY <2>5 DEF Restart, Zeroed
    <3> QED  BY <1>2, <2>5, <3>1 DEF Restart
  <2>6. CASE UNCHANGED consoleVars
    BY <1>2, <2>6 DEF consoleVars
  <2> QED  BY <2>1, <2>2, <2>3, <2>4, <2>5, <2>6 DEF ConsoleNext
<1> QED  BY <1>1, <1>3 DEF ConsoleTypeOK, RingHolds

-----------------------------------------------------------------------------
(* Logging and restarting only push lines further behind.                  *)
LEMMA BehindStays ==
  ASSUME ConsoleTypeOK, Log \/ Restart
  PROVE  \A l \in Line, c \in Nat :
           Behind(l, c) => l.boot <= boot' /\ (l.boot = boot' => l.n < c /\ c <= nextSeq')
  BY DEF ConsoleTypeOK, Log, Restart, Behind, Line

(* What the page shows, followed by an answer, is in order.                *)
LEMMA Joined ==
  ASSUME NEW s \in Seq(Line), NEW t \in Seq(Line), Ordered(s), Ordered(t),
         \A i \in 1 .. Len(s), j \in 1 .. Len(t) : Before(s[i], t[j])
  PROVE  Ordered(s \o t)
<1> SUFFICES ASSUME NEW i \in 1 .. Len(s \o t), NEW j \in 1 .. Len(s \o t), i < j
             PROVE  Before((s \o t)[i], (s \o t)[j])
  BY DEF Ordered
<1>0. Len(s) \in Nat /\ Len(t) \in Nat /\ Len(s \o t) = Len(s) + Len(t)  OBVIOUS
<1>1. CASE j <= Len(s)
  <2>1. (s \o t)[i] = s[i] /\ (s \o t)[j] = s[j] /\ i \in 1 .. Len(s) /\ j \in 1 .. Len(s)
    BY <1>0, <1>1
  <2> QED  BY <2>1 DEF Ordered
<1>2. CASE i > Len(s)
  <2>1. (s \o t)[i] = t[i - Len(s)] /\ (s \o t)[j] = t[j - Len(s)]
    BY <1>0, <1>2
  <2>2. i - Len(s) \in 1 .. Len(t) /\ j - Len(s) \in 1 .. Len(t) /\ i - Len(s) < j - Len(s)
    BY <1>0, <1>2
  <2> QED  BY <2>1, <2>2 DEF Ordered
<1>3. CASE i <= Len(s) /\ j > Len(s)
  <2>1. (s \o t)[i] = s[i] /\ (s \o t)[j] = t[j - Len(s)]
    BY <1>0, <1>3
  <2>2. i \in 1 .. Len(s) /\ j - Len(s) \in 1 .. Len(t)
    BY <1>0, <1>3
  <2> QED  BY <2>1, <2>2
<1> QED  BY <1>0, <1>1, <1>2, <1>3

LEMMA PageStep ==
  ASSUME ConsoleTypeOK, PageInv, AnswerInv, [ConsoleNext]_consoleVars
  PROVE  PageInv' /\ AnswerInv'
<1>0. /\ nextSeq \in Nat /\ since \in Nat /\ boot \in Nat /\ shown \in Seq(Line)
      /\ answer \subseteq [lines: Seq(Line), next: Nat]
      /\ \A i \in 1 .. Len(shown) : shown[i] \in Line
  BY ConsoleAssumption DEF ConsoleTypeOK, ConsoleAssumption
<1>1. CASE Log \/ Restart
  <2>1. UNCHANGED <<since, answer, shown>>  BY <1>1 DEF Log, Restart
  <2> DEFINE Later(l, c) == l.boot <= boot' /\ (l.boot = boot' => l.n < c /\ c <= nextSeq')
  <2>2. \A l \in Line, c \in Nat : Behind(l, c) => Later(l, c)  BY <1>1, BehindStays
  <2> HIDE DEF Later
  <2>3. \A i \in 1 .. Len(shown) : Later(shown[i], since)
    BY <1>0, <2>2 DEF PageInv
  <2>4. ASSUME NEW a \in answer
        PROVE  /\ \A j \in 1 .. Len(a.lines) : Later(a.lines[j], a.next)
               /\ \A i \in 1 .. Len(shown) : Later(shown[i], a.next)
    <3>1. a.lines \in Seq(Line) /\ a.next \in Nat  BY <1>0
    <3>2. \A j \in 1 .. Len(a.lines) : a.lines[j] \in Line  BY <3>1
    <3> QED  BY <1>0, <2>2, <3>1, <3>2 DEF AnswerInv
  <2>5. PageInv'  BY <2>1, <2>3 DEF PageInv, Ordered, Behind, Later
  <2>6. AnswerInv'  BY <2>1, <2>4 DEF AnswerInv, Ordered, Behind, Later
  <2> QED  BY <2>5, <2>6
<1>2. CASE Poll
  <2>1. UNCHANGED <<boot, nextSeq, since, shown>>  BY <1>2 DEF Poll
  <2>2. PICK k \in 0 .. Waiting : answer' = { [lines |-> Run(From, k), next |-> nextSeq] }
    BY <1>2, PollGives
  <2> DEFINE r == Run(From, k)
  <2>3. /\ Len(r) = k /\ k \in Nat
        /\ \A i \in 1 .. k : r[i] = [boot |-> boot, n |-> From + i - 1]
        /\ From \in Nat /\ since <= From /\ (From + k <= nextSeq \/ k = 0)
    BY RunFacts
  <2> HIDE DEF r
  <2>4. Ordered(r)
    BY <2>3 DEF Ordered, Before
  <2>5. \A j \in 1 .. Len(r) : Behind(r[j], nextSeq)
    BY <1>0, <2>3 DEF Behind
  <2>6. ASSUME NEW i \in 1 .. Len(shown)
        PROVE  Behind(shown[i], nextSeq) /\ \A j \in 1 .. Len(r) : Before(shown[i], r[j])
    <3>1. Behind(shown[i], since) /\ shown[i] \in Line  BY <1>0 DEF PageInv
    <3>2. Behind(shown[i], nextSeq)  BY <1>0, <3>1 DEF Behind, Line
    <3>3. ASSUME NEW j \in 1 .. Len(r) PROVE Before(shown[i], r[j])
      <4>1. r[j].boot = boot /\ r[j].n = From + j - 1 /\ r[j].n >= since /\ r[j].n \in Nat
        BY <1>0, <2>3
      <4> QED  BY <1>0, <3>1, <4>1 DEF Behind, Before, Line
    <3> QED  BY <3>2, <3>3
  <2>7. PageInv'  BY <2>1 DEF PageInv, Ordered, Behind
  <2>8. AnswerInv'
    <3>1. answer' = { [lines |-> r, next |-> nextSeq] }  BY <2>2 DEF r
    <3> QED  BY <2>1, <2>4, <2>5, <2>6, <3>1 DEF AnswerInv, Ordered, Behind
  <2> QED  BY <2>7, <2>8
<1>3. CASE Receive
  <2>1. PICK a \in answer : shown' = shown \o a.lines /\ since' = a.next
    BY <1>3 DEF Receive
  <2>2. UNCHANGED <<boot, nextSeq>> /\ answer' = {}  BY <1>3 DEF Receive
  <2>3. a.lines \in Seq(Line) /\ Len(a.lines) \in Nat /\ Len(shown) \in Nat  BY <1>0
  <2>4. Ordered(shown')
    BY <1>0, <2>1, <2>3, Joined DEF PageInv, AnswerInv
  <2>5. ASSUME NEW i \in 1 .. Len(shown') PROVE Behind(shown'[i], since')
    <3>1. CASE i <= Len(shown)
      BY <1>0, <2>1, <2>3, <3>1 DEF AnswerInv
    <3>2. CASE i > Len(shown)
      <4>1. shown'[i] = a.lines[i - Len(shown)] /\ i - Len(shown) \in 1 .. Len(a.lines)
        BY <1>0, <2>1, <2>3, <3>2
      <4> QED  BY <2>1, <4>1 DEF AnswerInv
    <3> QED  BY <2>3, <3>1, <3>2
  <2>6. PageInv'
    BY <2>2, <2>4, <2>5 DEF PageInv, Ordered, Behind
  <2> QED  BY <2>2, <2>6 DEF AnswerInv
<1>4. CASE AnswerLost
  BY <1>4 DEF AnswerLost, PageInv, AnswerInv, Ordered, Behind
<1>5. CASE UNCHANGED consoleVars
  BY <1>5 DEF consoleVars, PageInv, AnswerInv, Ordered, Behind
<1> QED  BY <1>1, <1>2, <1>3, <1>4, <1>5 DEF ConsoleNext

-----------------------------------------------------------------------------
(* What an answer leaves out left the ring, or was shown before.           *)
LEMMA SkipStep ==
  ASSUME MinFit >= Lines, ConsoleTypeOK, PassedHolds, NothingSkipped, SkipInv, [ConsoleNext]_consoleVars
  PROVE  NothingSkipped' /\ SkipInv'
<1>0. /\ nextSeq \in Nat /\ since \in Nat /\ boot \in 1 .. MaxBoots /\ shown \in Seq(Line)
      /\ MaxBoots \in Nat /\ Lines \in Nat /\ MinFit \in Nat
      /\ answer \subseteq [lines: Seq(Line), next: Nat]
  BY ConsoleAssumption DEF ConsoleTypeOK, ConsoleAssumption
<1>a. boot = 1 => \A n \in 0 .. since - 1 : n \in passed \/ Has(shown, n)
  BY DEF NothingSkipped, Has
<1>1. CASE Log
  <2>1. UNCHANGED <<boot, since, answer, shown>> /\ passed \subseteq passed'  BY <1>1 DEF Log
  <2> QED  BY <2>1 DEF NothingSkipped, SkipInv, Has
<1>2. CASE Poll
  <2>1. UNCHANGED <<boot, since, shown, passed>>  BY <1>2 DEF Poll
  <2>2. PICK k \in 0 .. Waiting :
          /\ k = Waiting \/ k >= MinFit
          /\ answer' = { [lines |-> Run(From, k), next |-> nextSeq] }
    BY <1>2, PollGives
  <2>3. k = Waiting /\ From = (IF since < First THEN First ELSE since) /\ First \in Nat
        /\ (From < nextSeq => From + k = nextSeq)
    BY <1>0, <2>2 DEF Waiting, From, First
  <2>4. /\ Len(Run(From, k)) = k /\ k \in Nat /\ From \in Nat
        /\ \A i \in 1 .. k : Run(From, k)[i] = [boot |-> boot, n |-> From + i - 1]
    BY RunFacts
  <2>5. ASSUME boot = 1, NEW n \in 0 .. nextSeq - 1
        PROVE  n \in passed \/ Has(shown, n) \/ Has(Run(From, k), n)
    <3>1. CASE n < First
      BY <2>3, <3>1 DEF PassedHolds
    <3>2. CASE n < since
      BY <1>0, <1>a, <2>5, <3>2
    <3>3. CASE n >= From
      <4>1. n - From + 1 \in 1 .. k /\ From + (n - From + 1) - 1 = n
        BY <1>0, <2>3, <2>4, <3>3
      <4>2. Run(From, k)[n - From + 1] = [boot |-> 1, n |-> n]
        BY <2>4, <2>5, <4>1
      <4> QED  BY <2>4, <4>1, <4>2 DEF Has
    <3> QED  BY <1>0, <2>3, <3>1, <3>2, <3>3
  <2>6. SkipInv'
    BY <2>1, <2>2, <2>5 DEF SkipInv, Has
  <2> QED  BY <2>1, <2>6 DEF NothingSkipped
<1>3. CASE Receive
  <2>1. PICK a \in answer : shown' = shown \o a.lines /\ since' = a.next
    BY <1>3 DEF Receive
  <2>2. UNCHANGED <<boot, passed>> /\ answer' = {}  BY <1>3 DEF Receive
  <2>3. a.lines \in Seq(Line) /\ Len(a.lines) \in Nat /\ Len(shown) \in Nat  BY <1>0
  <2>4. ASSUME NEW n, Has(shown, n) \/ Has(a.lines, n)
        PROVE  Has(shown, n)'
    <3>1. CASE Has(shown, n)
      <4>1. PICK i \in 1 .. Len(shown) : shown[i] = [boot |-> 1, n |-> n]  BY <3>1 DEF Has
      <4>2. i \in 1 .. Len(shown') /\ shown'[i] = shown[i]  BY <1>0, <2>1, <2>3
      <4> QED  BY <4>1, <4>2 DEF Has
    <3>2. CASE Has(a.lines, n)
      <4>1. PICK i \in 1 .. Len(a.lines) : a.lines[i] = [boot |-> 1, n |-> n]  BY <3>2 DEF Has
      <4>2. Len(shown) + i \in 1 .. Len(shown') /\ shown'[Len(shown) + i] = a.lines[i]
        BY <1>0, <2>1, <2>3
      <4> QED  BY <4>1, <4>2 DEF Has
    <3> QED  BY <2>4, <3>1, <3>2
  <2>5. boot = 1 => \A n \in 0 .. a.next - 1 : n \in passed \/ Has(shown, n)'
    BY <2>4 DEF SkipInv
  <2>6. NothingSkipped'
    BY <2>1, <2>2, <2>5 DEF NothingSkipped, Has
  <2> QED  BY <2>2, <2>6 DEF SkipInv
<1>4. CASE AnswerLost
  BY <1>4 DEF AnswerLost, NothingSkipped, SkipInv, Has
<1>5. CASE Restart
  <2>1. boot' # 1  BY <1>0, <1>5 DEF Restart
  <2> QED  BY <2>1 DEF NothingSkipped, SkipInv
<1>6. CASE UNCHANGED consoleVars
  BY <1>6 DEF consoleVars, NothingSkipped, SkipInv, Has
<1> QED  BY <1>1, <1>2, <1>3, <1>4, <1>5, <1>6 DEF ConsoleNext

-----------------------------------------------------------------------------
ConsoleInv == ConsoleTypeOK /\ PassedHolds /\ PageInv /\ AnswerInv

LEMMA ConsoleInvStart == ConsoleInit => ConsoleInv /\ NothingSkipped /\ SkipInv
<1> SUFFICES ASSUME ConsoleInit PROVE ConsoleInv /\ NothingSkipped /\ SkipInv  OBVIOUS
<1> USE ConsoleAssumption DEF ConsoleAssumption, ConsoleInit
<1>1. First = 0  BY DEF First
<1>2. ConsoleTypeOK  BY <1>1 DEF ConsoleTypeOK, Zeroed
<1>3. PassedHolds /\ PageInv /\ AnswerInv  BY <1>1 DEF PassedHolds, PageInv, AnswerInv, Ordered
<1>4. NothingSkipped /\ SkipInv  BY DEF NothingSkipped, SkipInv
<1> QED  BY <1>2, <1>3, <1>4 DEF ConsoleInv

LEMMA ConsoleInvAlways == ConsoleSpec => []ConsoleInv
<1>1. ConsoleInv /\ [ConsoleNext]_consoleVars => ConsoleInv'
  BY RingStep, TypeStep, PageStep DEF ConsoleInv
<1> QED
  BY <1>1, ConsoleInvStart, PTL DEF ConsoleSpec

(* However many lines are logged, every line that is still in the ring is  *)
(* in the slot of its number (db_fc_flash_log, db_fc_flash_console_read).  *)
THEOREM ConsoleTypeCorrect == ConsoleSpec => []ConsoleTypeOK
  BY ConsoleInvAlways, PTL DEF ConsoleInv

(* The page (poll in fcflash.js) shows no line twice and none out of       *)
(* order, whatever is lost and whenever the companion restarts.            *)
THEOREM AlwaysShownOnce == ConsoleSpec => []ShownOnce
<1>1. ConsoleInv => ShownOnce
  BY DEF ConsoleInv, PageInv, Ordered, Before, ShownOnce
<1> QED
  BY <1>1, ConsoleInvAlways, PTL

(* And if an answer of the web server has room for a whole ring, nothing   *)
(* is skipped that had not left the ring: the finding about truncated      *)
(* answers (db_fc_flash.c:159) has no other cause.                         *)
THEOREM NothingSkippedIfAllFits ==
  ASSUME MinFit >= Lines
  PROVE  ConsoleSpec => []NothingSkipped
<1>1. ConsoleInv /\ NothingSkipped /\ SkipInv /\ [ConsoleNext]_consoleVars
        => NothingSkipped' /\ SkipInv'
  BY SkipStep DEF ConsoleInv
<1> QED
  BY <1>1, ConsoleInvStart, ConsoleInvAlways, PTL DEF ConsoleSpec
=============================================================================
