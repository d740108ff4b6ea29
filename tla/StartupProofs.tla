--------------------------- MODULE StartupProofs ----------------------------
(***************************************************************************)
(* Proofs about the diagnostic journal (DiagJournal, EventLog), and about  *)
(* start-up, which runs it beside the station (Startup, WifiLink).         *)
(***************************************************************************)
EXTENDS Startup, TLAPS

(***************************************************************************)
(* The diagnostic journal keeps its promises, for any number of sectors    *)
(* and of events: it is well typed, keeps the recent events, numbers them  *)
(* in the order of time, and implements EventLog.                          *)
(*                                                                         *)
(* The invariant: records lie around the ring in the order of their        *)
(* numbers without a gap (Aligned); once the journal is ready the latest   *)
(* record is the one it thinks it is, and only the target can hold a newer *)
(* one, not acknowledged (LatestInv); and what an acknowledged record may  *)
(* be lost to is a record that is not the next to be erased (AckedInv).    *)
(***************************************************************************)

(* Two readable sectors hold numbers as far apart as the sectors are, one  *)
(* way around the ring or the other.                                       *)
Align(i, j) ==
  \/ flash[j].seq = flash[i].seq + (j - i)
  \/ flash[i].seq = flash[j].seq + (Count - (j - i))

Aligned == \A i, j \in Readable : i < j => Align(i, j)

LatestInv ==
  diag = "ready" =>
    IF latest.seq = 0
    THEN acked = {} /\ \A i \in Readable : i = 0 /\ flash[i].seq = 1
    ELSE /\ flash[latest.sector].seq = latest.seq
         /\ \A i \in Readable :
              \/ flash[i].seq <= latest.seq
              \/ i = Target /\ flash[i].seq = latest.seq + 1

(* What the record in hand and the target have to do with each other.      *)
StepInv ==
  /\ step # "idle" => diag = "ready" /\ rec = [seq |-> latest.seq + 1, ev |-> events]
  /\ step = "write" => flash[Target] = Blank
  /\ step = "verify" => flash[Target] \in {Blank, rec}

AckedInv ==
  \A a \in acked :
    /\ a.seq # 0
    /\ diag = "ready" => a.seq <= latest.seq
    /\ \A i \in Sectors : flash[i].seq = a.seq => flash[i] = a
    /\ \/ a \in Kept
       \/ \E r \in Kept : /\ r.seq >= a.seq + Count - 1
                          /\ diag = "ready" => r.seq <= latest.seq

(* Events come in time: none is later than the last, and none but the one  *)
(* in hand is as late as that.                                             *)
TimeInv ==
  /\ \A k \in Kept \cup acked : k.ev <= events
  /\ step \in {"erase", "write"} => \A k \in Kept \cup acked : k.ev < events
  /\ step = "verify" => \A k \in Kept \cup acked : k = rec \/ k.ev < events
  /\ NumbersFollowTime

JournalInv ==
  JournalTypeOK /\ Aligned /\ LatestInv /\ StepInv /\ AckedInv /\ TimeInv

-----------------------------------------------------------------------------
(* The target is a sector, and never the latest record's.                  *)
LEMMA TargetSector ==
  ASSUME JournalTypeOK
  PROVE  /\ Target \in Sectors
         /\ latest.seq # 0 => Target # latest.sector
  BY JournalAssumption DEF JournalTypeOK, Target, Sectors

(* A record that is not in the target lies behind the latest one, as far   *)
(* as its sector; one that is, and is not newer, lies Count - 1 behind.    *)
LEMMA Behind ==
  ASSUME JournalTypeOK, Aligned, LatestInv, diag = "ready", latest.seq # 0,
         NEW i \in Readable
  PROVE  /\ i # Target /\ i <= latest.sector => latest.seq = flash[i].seq + (latest.sector - i)
         /\ i # Target /\ i > latest.sector =>
              latest.seq = flash[i].seq + (Count - (i - latest.sector))
         /\ i = Target /\ flash[i].seq <= latest.seq => latest.seq = flash[i].seq + Count - 1
<1> DEFINE l == latest.sector
<1>1. /\ i \in Sectors /\ l \in Sectors /\ l \in Readable
      /\ flash[i].seq \in Nat /\ latest.seq \in Nat /\ Count \in Nat /\ Count >= 2
      /\ flash[l].seq = latest.seq
  BY JournalAssumption DEF JournalTypeOK, LatestInv, Readable
<1>2. CASE i = l
  <2>1. Target # l  BY TargetSector
  <2> QED  BY <1>1, <1>2, <2>1 DEF Sectors
<1>3. CASE i < l
  <2>1. Align(i, l)
    BY <1>1, <1>3 DEF Aligned
  <2>2. flash[i].seq <= latest.seq \/ (i = Target /\ flash[i].seq = latest.seq + 1)
    BY DEF LatestInv
  <2> QED
    BY <1>1, <1>3, <2>1, <2>2 DEF Align, Target, Sectors
<1>4. CASE i > l
  <2>1. Align(l, i)
    BY <1>1, <1>4 DEF Aligned
  <2>2. flash[i].seq <= latest.seq \/ (i = Target /\ flash[i].seq = latest.seq + 1)
    BY DEF LatestInv
  <2> QED
    BY <1>1, <1>4, <2>1, <2>2 DEF Align, Target, Sectors
<1> QED
  BY <1>1, <1>2, <1>3, <1>4 DEF Sectors

(* What a step of the journal, or a restart in the middle of it, leaves of *)
(* the target costs an acknowledged record only when the latest one came   *)
(* Count - 1 later, and upsets neither the ring nor the order of time.     *)
LEMMA TargetChanges ==
  ASSUME JournalInv, step \in {"erase", "write"}, acked' = acked,
         NEW c, Store(c),
         c \in Erasing \/ (step = "write" /\ c = rec)
  PROVE  /\ flash' \in [Sectors -> [seq: Nat, ev: Nat]]
         /\ flash'[Target] = c /\ \A i \in Sectors : i # Target => flash'[i] = flash[i]
         /\ \A k \in Kept' : k \in Kept \/ (step = "write" /\ k = rec)
         /\ Aligned' /\ NumbersFollowTime'
         /\ \A a \in acked :
              /\ \A i \in Sectors : flash'[i].seq = a.seq => flash'[i] = a
              /\ \/ a \in Kept'
                 \/ \E r \in Kept' : r.seq >= a.seq + Count - 1 /\ r.seq <= latest.seq
<1> DEFINE t == Target
           l == latest.sector
<1>1. /\ JournalTypeOK /\ Aligned /\ LatestInv /\ StepInv /\ AckedInv /\ TimeInv
      /\ t \in Sectors /\ diag = "ready"
      /\ rec = [seq |-> latest.seq + 1, ev |-> events] /\ rec \in [seq: Nat, ev: Nat]
  BY TargetSector DEF JournalInv, StepInv, JournalTypeOK
<1>2. /\ c \in [seq: Nat, ev: Nat] /\ flash[t] \in [seq: Nat, ev: Nat]
      /\ flash' = [flash EXCEPT ![t] = c]
  BY <1>1 DEF JournalTypeOK, Erasing, Blank, Store
<1>3. /\ flash' \in [Sectors -> [seq: Nat, ev: Nat]]
      /\ flash'[t] = c /\ \A i \in Sectors : i # t => flash'[i] = flash[i]
  BY <1>1, <1>2 DEF JournalTypeOK
<1> HIDE DEF t, l
<1>4. /\ Readable' \subseteq Readable \cup {t}
      /\ \A i \in Readable' : i # t => i \in Readable /\ flash'[i] = flash[i]
      /\ \A i \in Readable : i # t => i \in Readable' /\ flash'[i] = flash[i]
      /\ t \in Readable' => c.seq # 0
      /\ Readable \subseteq Sectors /\ Readable' \subseteq Sectors
  BY <1>1, <1>3 DEF Readable
<1>5. Kept' \subseteq Kept \cup {c}
  BY <1>3, <1>4 DEF Kept
<1>6. \A i \in Readable : i # t => flash[i] \in Kept' /\ flash'[i] = flash[i]
  BY <1>4 DEF Kept
<1>7. Aligned'
  <2> SUFFICES ASSUME NEW i \in Readable', NEW j \in Readable', i < j
               PROVE  Align(i, j)'
    BY DEF Aligned
  <2>1. CASE i # t /\ j # t
    <3>1. Align(i, j)  BY <1>1, <1>4, <2>1 DEF Aligned
    <3> QED  BY <1>4, <2>1, <3>1 DEF Align
  <2>2. CASE (i = t \/ j = t) /\ c = flash[t]
    <3>1. i \in Readable /\ j \in Readable /\ flash'[i] = flash[i] /\ flash'[j] = flash[j]
      BY <1>3, <1>4, <2>2 DEF Readable
    <3>2. Align(i, j)  BY <1>1, <3>1 DEF Aligned
    <3> QED  BY <3>1, <3>2 DEF Align
  <2>3. CASE (i = t \/ j = t) /\ c = rec
    <3>1. c.seq = latest.seq + 1 /\ latest.seq \in Nat /\ latest.sector \in Sectors
          /\ Count \in Nat /\ Count >= 2
      BY <1>1, <2>3, JournalAssumption DEF JournalTypeOK
    <3>2. CASE latest.seq = 0
      BY <1>1, <1>4, <2>3, <3>1, <3>2 DEF LatestInv, Target, t, Sectors
    <3>3. CASE latest.seq # 0
      <4>1. \A k \in Readable : k # t =>
              /\ k <= l => latest.seq = flash[k].seq + (l - k)
              /\ k > l => latest.seq = flash[k].seq + (Count - (k - l))
        BY <1>1, <3>3, Behind DEF t, l
      <4>2. t = IF l = Count - 1 THEN 0 ELSE l + 1
        BY <3>3 DEF Target, t, l
      <4>3. \A k \in Readable : flash[k].seq \in Nat
        BY <1>1, <1>4 DEF JournalTypeOK
      <4>4. CASE i = t
        <5>1. j \in Readable /\ j # t /\ flash'[j] = flash[j] /\ flash'[i] = c
              /\ i \in 0 .. Count - 1 /\ j \in 0 .. Count - 1 /\ l \in 0 .. Count - 1
          BY <1>3, <1>4, <3>1, <4>4 DEF Sectors, l
        <5> QED  BY <3>1, <4>1, <4>2, <4>3, <4>4, <5>1 DEF Align
      <4>5. CASE j = t
        <5>1. i \in Readable /\ i # t /\ flash'[i] = flash[i] /\ flash'[j] = c
              /\ i \in 0 .. Count - 1 /\ j \in 0 .. Count - 1 /\ l \in 0 .. Count - 1
          BY <1>3, <1>4, <3>1, <4>5 DEF Sectors, l
        <5> QED  BY <3>1, <4>1, <4>2, <4>3, <4>5, <5>1 DEF Align
      <4> QED  BY <2>3, <4>4, <4>5
    <3> QED  BY <3>2, <3>3
  <2>4. CASE (i = t \/ j = t) /\ c = Blank
    BY <1>4, <2>4 DEF Blank
  <2> QED  BY <2>1, <2>2, <2>3, <2>4 DEF Erasing, t
<1>8. /\ c \in Kept' => c \in Kept \/ (step = "write" /\ c = rec)
      /\ rec.seq \in Nat /\ rec.ev \in Nat /\ latest.seq \in Nat /\ events \in Nat
  <2>1. c = flash[t] /\ c \in Kept' => c \in Kept
    <3> HAVE c = flash[t] /\ c \in Kept'
    <3>1. PICK i \in Readable' : c = flash'[i]  BY DEF Kept
    <3>2. c.seq # 0  BY <3>1 DEF Readable
    <3>3. t \in Readable  BY <1>1, <3>2 DEF Readable
    <3> QED  BY <3>3 DEF Kept
  <2>2. Blank \notin Kept'
    BY DEF Kept, Readable, Blank
  <2> QED  BY <1>1, <2>1, <2>2 DEF Erasing, t, JournalTypeOK
<1>9. NumbersFollowTime'
  <2>1. /\ \A k \in Kept' \cup acked : k \in Kept \cup acked \/ (step = "write" /\ k = rec)
    BY <1>5, <1>8
  <2>2. step = "write" => \A k \in Kept' \cup acked : k = rec \/ (k.seq < rec.seq /\ k.ev < rec.ev)
    <3> HAVE step = "write"
    <3>1. flash[t] = Blank  BY <1>1 DEF StepInv, t
    <3>2. \A k \in Kept \cup acked : k.seq \in Nat /\ k.seq <= latest.seq /\ k.ev < events
      <4>1. \A a \in acked : a.seq \in Nat /\ a.seq <= latest.seq
        BY <1>1 DEF AckedInv, JournalTypeOK
      <4>2. \A i \in Readable : i # t
        BY <3>1 DEF Readable, Blank
      <4>3. \A i \in Readable : flash[i].seq \in Nat /\ flash[i].seq <= latest.seq
        BY <1>1, <1>4, <4>2 DEF LatestInv, JournalTypeOK, t, Target, Sectors
      <4> QED  BY <1>1, <4>1, <4>3 DEF Kept, TimeInv
    <3>3. \A k \in Kept \cup acked : k.ev \in Nat
      BY <1>1, <1>4 DEF Kept, JournalTypeOK
    <3> QED  BY <1>1, <1>8, <2>1, <3>2, <3>3
  <2>3. \A k \in Kept' \cup acked : k.seq \in Nat /\ k.ev \in Nat
    BY <1>1, <1>3, <1>4 DEF Kept, JournalTypeOK
  <2>4. NumbersFollowTime  BY <1>1 DEF TimeInv
  <2> QED  BY <1>8, <2>1, <2>2, <2>3, <2>4 DEF NumbersFollowTime
<1>10. ASSUME NEW a \in acked, NEW i \in Sectors, flash'[i].seq = a.seq
       PROVE  flash'[i] = a
  <2>1. /\ a.seq \in Nat /\ a.seq # 0 /\ a.seq <= latest.seq
        /\ \A j \in Sectors : flash[j].seq = a.seq => flash[j] = a
    BY <1>1 DEF AckedInv, JournalTypeOK
  <2> QED  BY <1>1, <1>3, <1>8, <1>10, <2>1 DEF Erasing, Blank, t
<1>11. ASSUME NEW a \in acked
       PROVE  \/ a \in Kept'
              \/ \E r \in Kept' : r.seq >= a.seq + Count - 1 /\ r.seq <= latest.seq
  <2>1. /\ a.seq \in Nat /\ a.seq # 0 /\ a.seq <= latest.seq
        /\ a \in Kept \/ \E r \in Kept : r.seq >= a.seq + Count - 1 /\ r.seq <= latest.seq
    BY <1>1 DEF AckedInv, JournalTypeOK
  <2>2. /\ latest.seq # 0 /\ l \in Readable /\ l # t /\ flash[l].seq = latest.seq
    BY <1>1, <1>8, <2>1, TargetSector DEF LatestInv, Readable, JournalTypeOK, l, t
  <2>3. flash[l] \in Kept'  BY <1>6, <2>2
  <2>4. CASE a \in Kept
    <3>1. PICK i \in Readable : a = flash[i]  BY <2>4 DEF Kept
    <3>2. CASE i # t  BY <1>6, <3>1, <3>2
    <3>3. CASE i = t
      <4>1. latest.seq = a.seq + Count - 1
        BY <1>1, <2>1, <2>2, <3>1, <3>3, Behind DEF t
      <4> QED  BY <1>8, <2>2, <2>3, <4>1
    <3> QED  BY <3>2, <3>3
  <2>5. CASE \E r \in Kept : r.seq >= a.seq + Count - 1 /\ r.seq <= latest.seq
    <3>1. PICK i \in Readable : flash[i].seq >= a.seq + Count - 1 /\ flash[i].seq <= latest.seq
      BY <2>5 DEF Kept
    <3>2. flash[i].seq \in Nat  BY <1>1, <1>4 DEF JournalTypeOK
    <3>3. latest.seq >= a.seq + Count - 1  BY <1>8, <2>1, <3>1, <3>2, JournalAssumption
    <3> QED  BY <1>8, <2>2, <2>3, <3>3
  <2> QED  BY <2>1, <2>4, <2>5
<1> QED
  BY <1>3, <1>5, <1>7, <1>8, <1>9, <1>10, <1>11 DEF t

(* The same step while the journal goes on: its invariant stays true.      *)
LEMMA StepOnTarget ==
  ASSUME JournalInv, step \in {"erase", "write"}, UNCHANGED <<diag, latest, events, acked>>,
         NEW c, Store(c),
         c \in Erasing \/ (step = "write" /\ c = rec),
         \/ step' = "idle" /\ rec' = Blank
         \/ step = "erase" /\ c = Blank /\ step' = "write" /\ rec' = rec
         \/ step = "write" /\ c \in {Blank, rec} /\ step' = "verify" /\ rec' = rec
  PROVE  JournalInv'
<1>1. /\ JournalTypeOK /\ LatestInv /\ StepInv /\ AckedInv /\ TimeInv
      /\ Target \in Sectors /\ (latest.seq # 0 => Target # latest.sector)
      /\ Target' = Target /\ diag = "ready" /\ latest.sector \in Sectors
      /\ rec = [seq |-> latest.seq + 1, ev |-> events]
      /\ latest.seq \in Nat /\ events \in Nat
  BY TargetSector DEF JournalInv, StepInv, JournalTypeOK, Target
<1>2. /\ flash' \in [Sectors -> [seq: Nat, ev: Nat]]
      /\ flash'[Target] = c /\ \A i \in Sectors : i # Target => flash'[i] = flash[i]
      /\ \A k \in Kept' : k \in Kept \/ (step = "write" /\ k = rec)
      /\ Aligned' /\ NumbersFollowTime'
      /\ \A a \in acked :
           /\ \A i \in Sectors : flash'[i].seq = a.seq => flash'[i] = a
           /\ \/ a \in Kept'
              \/ \E r \in Kept' : r.seq >= a.seq + Count - 1 /\ r.seq <= latest.seq
  BY TargetChanges
<1>3. JournalTypeOK'
  BY <1>1, <1>2 DEF JournalTypeOK, Blank
<1>4. LatestInv'
  <2>1. \A i \in Readable' : i \in Sectors /\ (i # Target => i \in Readable /\ flash'[i] = flash[i])
    BY <1>2 DEF Readable
  <2>2. Target \in Readable' => (Target \in Readable /\ c = flash[Target]) \/ c = rec
    BY <1>1, <1>2 DEF Readable, Erasing, Blank
  <2>3. CASE latest.seq = 0
    BY <1>1, <1>2, <2>1, <2>2, <2>3 DEF LatestInv, Target
  <2>4. CASE latest.seq # 0
    BY <1>1, <1>2, <2>1, <2>2, <2>4 DEF LatestInv
  <2> QED  BY <2>3, <2>4
<1>5. StepInv'
  BY <1>1, <1>2 DEF StepInv
<1>6. AckedInv'
  BY <1>1, <1>2 DEF AckedInv
<1>7. TimeInv'
  BY <1>1, <1>2 DEF TimeInv
<1> QED
  BY <1>2, <1>3, <1>4, <1>5, <1>6, <1>7 DEF JournalInv

-----------------------------------------------------------------------------
LEMMA JournalInvInit == JournalInit => JournalInv
  BY JournalAssumption
     DEF JournalInit, JournalInv, JournalTypeOK, Aligned, LatestInv, StepInv, AckedInv, TimeInv,
         NumbersFollowTime, Kept, Readable, Sectors, Blank, Nothing

(* The scan finds the latest of all records, if there is one.              *)
LEMMA DiagInitKeeps ==
  ASSUME JournalInv, DiagInit
  PROVE  JournalInv'
<1>1. /\ JournalTypeOK /\ Aligned /\ StepInv /\ AckedInv /\ TimeInv
      /\ UNCHANGED <<flash, step, rec, events, acked>>
      /\ step = "idle" /\ Kept' = Kept /\ Readable' = Readable
  BY DEF JournalInv, DiagInit, StepInv, Kept, Readable
<1>2. Aligned' /\ TimeInv'
  BY <1>1 DEF Aligned, Align, TimeInv, NumbersFollowTime
<1>3. StepInv'
  BY <1>1 DEF StepInv
<1>4. CASE diag' = "failed" /\ UNCHANGED latest
  <2>1. JournalTypeOK'  BY <1>1, <1>4 DEF JournalTypeOK
  <2>2. LatestInv'  BY <1>4 DEF LatestInv
  <2>3. AckedInv'  BY <1>1, <1>4 DEF AckedInv, DiagInit
  <2> QED  BY <1>2, <1>3, <2>1, <2>2, <2>3 DEF JournalInv
<1>5. CASE diag' = "ready" /\ Readable = {} /\ latest' = Nothing
  <2>1. acked = {}
    <3>1. Kept = {}  BY <1>5 DEF Kept
    <3> QED  BY <1>1, <3>1 DEF AckedInv
  <2>2. JournalTypeOK'
    BY <1>1, <1>5, JournalAssumption DEF JournalTypeOK, Nothing, Sectors
  <2>3. LatestInv'  BY <1>1, <1>5, <2>1 DEF LatestInv, Nothing
  <2>4. AckedInv'  BY <1>1, <2>1 DEF AckedInv
  <2> QED  BY <1>2, <1>3, <2>2, <2>3, <2>4 DEF JournalInv
<1>6. CASE /\ diag' = "ready"
           /\ \E i \in Sectors : Newest(i) /\ latest' = [seq |-> flash[i].seq, sector |-> i]
  <2>1. PICK i \in Sectors : Newest(i) /\ latest' = [seq |-> flash[i].seq, sector |-> i]
    BY <1>6
  <2>2. /\ flash[i].seq \in Nat /\ flash[i].seq # 0 /\ latest'.seq = flash[i].seq
        /\ \A r \in Kept : r.seq \in Nat /\ r.seq <= flash[i].seq
    BY <1>1, <2>1 DEF Newest, Readable, Kept, JournalTypeOK
  <2>3. JournalTypeOK'  BY <1>1, <1>6, <2>1, <2>2 DEF JournalTypeOK
  <2>4. LatestInv'  BY <1>1, <2>1, <2>2 DEF LatestInv, Kept
  <2>5. AckedInv'
    <3>1. \A a \in acked : a.seq \in Nat  BY <1>1 DEF JournalTypeOK
    <3> QED  BY <1>1, <2>2, <3>1, JournalAssumption DEF AckedInv
  <2> QED  BY <1>2, <1>3, <2>3, <2>4, <2>5 DEF JournalInv
<1> QED
  BY <1>4, <1>5, <1>6 DEF DiagInit

LEMMA LogEventKeeps ==
  ASSUME JournalInv, LogEvent
  PROVE  JournalInv'
<1>1. /\ JournalTypeOK /\ Aligned /\ LatestInv /\ AckedInv /\ TimeInv
      /\ UNCHANGED <<flash, diag, latest, acked>> /\ diag = "ready" /\ step' = "erase"
      /\ events' = events + 1 /\ rec' = [seq |-> latest.seq + 1, ev |-> events + 1]
      /\ Kept' = Kept /\ Readable' = Readable /\ Target' = Target
  BY DEF JournalInv, LogEvent, Kept, Readable, Target
<1>2. JournalTypeOK'
  BY <1>1, JournalAssumption DEF JournalTypeOK, LogEvent
<1>3. Aligned' /\ LatestInv' /\ AckedInv'
  BY <1>1 DEF Aligned, Align, LatestInv, AckedInv
<1>4. StepInv'
  BY <1>1 DEF StepInv
<1>5. TimeInv'
  <2>1. \A k \in Kept \cup acked : k.ev \in Nat
    BY <1>1 DEF Kept, Readable, JournalTypeOK
  <2> QED  BY <1>1, <2>1 DEF TimeInv, NumbersFollowTime, JournalTypeOK
<1> QED
  BY <1>2, <1>3, <1>4, <1>5 DEF JournalInv

LEMMA EraseKeeps ==
  ASSUME JournalInv, Erase
  PROVE  JournalInv'
<1>1. CASE Store(Blank) /\ step' = "write" /\ UNCHANGED rec
  <2>1. Blank \in Erasing  BY DEF Erasing
  <2> QED  BY <1>1, <2>1, StepOnTarget DEF Erase
<1>2. CASE (\E c \in Erasing : Store(c)) /\ step' = "idle" /\ rec' = Blank
  <2>1. PICK c \in Erasing : Store(c)  BY <1>2
  <2> QED  BY <1>2, <2>1, StepOnTarget DEF Erase
<1> QED
  BY <1>1, <1>2 DEF Erase

LEMMA WriteKeeps ==
  ASSUME JournalInv, Write
  PROVE  JournalInv'
<1>1. PICK c \in Writing : Store(c)  BY DEF Write
<1>2. c \in {Blank, rec} /\ (c \in Erasing \/ c = rec)  BY DEF Writing, Erasing
<1>3. step = "write" /\ UNCHANGED <<diag, latest, events, acked>>
      /\ \/ step' = "verify" /\ UNCHANGED rec
         \/ step' = "idle" /\ rec' = Blank
  BY DEF Write
<1> QED
  BY <1>1, <1>2, <1>3, StepOnTarget

(* What reads back whole with the number is the record in hand.            *)
LEMMA ReadBack ==
  ASSUME JournalInv, step = "verify", flash[Target].seq = rec.seq
  PROVE  /\ flash[Target] = rec /\ Target \in Readable /\ rec \in Kept
         /\ \A i \in Readable : flash[i].seq \in Nat /\ flash[i].seq <= rec.seq
         /\ \A i \in Sectors : flash[i].seq = rec.seq => i = Target
<1>1. /\ JournalTypeOK /\ LatestInv /\ Target \in Sectors /\ diag = "ready"
      /\ rec = [seq |-> latest.seq + 1, ev |-> events] /\ latest.seq \in Nat
      /\ flash[Target] \in {Blank, rec}
  BY TargetSector DEF JournalInv, StepInv, JournalTypeOK
<1>2. flash[Target] = rec /\ Target \in Readable /\ rec \in Kept
  BY <1>1 DEF Blank, Readable, Kept
<1>3. \A i \in Readable : /\ i \in Sectors /\ flash[i].seq \in Nat
                          /\ flash[i].seq <= latest.seq \/ (i = Target /\ flash[i].seq = rec.seq)
  <2>1. \A i \in Readable : i \in Sectors /\ flash[i].seq \in Nat
    BY <1>1 DEF Readable, JournalTypeOK
  <2>2. CASE latest.seq = 0
    BY <1>1, <2>1, <2>2 DEF LatestInv, Target
  <2>3. CASE latest.seq # 0
    BY <1>1, <2>1, <2>3 DEF LatestInv
  <2> QED  BY <2>2, <2>3
<1>4. \A i \in Sectors : flash[i].seq = rec.seq => i \in Readable
  BY <1>1 DEF Readable
<1> QED
  BY <1>1, <1>2, <1>3, <1>4

LEMMA VerifyKeeps ==
  ASSUME JournalInv, Verify
  PROVE  JournalInv'
<1>1. /\ JournalTypeOK /\ Aligned /\ LatestInv /\ StepInv /\ AckedInv /\ TimeInv
      /\ UNCHANGED <<flash, diag, events>> /\ step = "verify" /\ step' = "idle" /\ rec' = Blank
      /\ diag = "ready" /\ rec = [seq |-> latest.seq + 1, ev |-> events] /\ rec \in [seq: Nat, ev: Nat]
      /\ latest.seq \in Nat /\ events \in Nat /\ Target \in Sectors
      /\ Kept' = Kept /\ Readable' = Readable
  BY TargetSector DEF JournalInv, Verify, StepInv, JournalTypeOK, Kept, Readable
<1>2. Aligned' /\ StepInv'
  BY <1>1 DEF Aligned, Align, StepInv
<1>3. CASE /\ flash[Target].seq = rec.seq
           /\ latest' = [seq |-> rec.seq, sector |-> Target]
           /\ acked' = acked \cup {rec}
  <2>1. /\ flash[Target] = rec /\ Target \in Readable /\ rec \in Kept
        /\ \A i \in Readable : flash[i].seq \in Nat /\ flash[i].seq <= rec.seq
        /\ \A i \in Sectors : flash[i].seq = rec.seq => i = Target
    BY <1>1, <1>3, ReadBack
  <2>2. JournalTypeOK'
    BY <1>1, <1>3 DEF JournalTypeOK, Blank
  <2>3. LatestInv'
    BY <1>1, <1>3, <2>1 DEF LatestInv
  <2>4. AckedInv'
    <3>1. ASSUME NEW a \in acked
          PROVE  /\ a.seq # 0 /\ a.seq <= latest'.seq
                 /\ \A i \in Sectors : flash'[i].seq = a.seq => flash'[i] = a
                 /\ a \in Kept' \/ \E r \in Kept' : r.seq >= a.seq + Count - 1 /\ r.seq <= latest'.seq
      <4>1. a.seq \in Nat /\ \A r \in Kept : r.seq \in Nat  BY <1>1, <2>1 DEF JournalTypeOK, Kept
      <4> QED  BY <1>1, <1>3, <3>1, <4>1 DEF AckedInv
    <3>2. /\ rec.seq # 0 /\ rec.seq <= latest'.seq /\ rec \in Kept'
          /\ \A i \in Sectors : flash'[i].seq = rec.seq => flash'[i] = rec
      BY <1>1, <1>3, <2>1
    <3> QED  BY <1>3, <3>1, <3>2 DEF AckedInv
  <2>5. TimeInv'
    BY <1>1, <1>3, <2>1 DEF TimeInv, NumbersFollowTime
  <2> QED  BY <1>2, <2>2, <2>3, <2>4, <2>5 DEF JournalInv
<1>4. CASE UNCHANGED <<latest, acked>>
  <2>1. Target' = Target  BY <1>4 DEF Target
  <2>2. JournalTypeOK'  BY <1>1, <1>4 DEF JournalTypeOK, Blank
  <2>3. LatestInv' /\ AckedInv'  BY <1>1, <1>4, <2>1 DEF LatestInv, AckedInv
  <2>4. TimeInv'  BY <1>1, <1>4 DEF TimeInv, NumbersFollowTime
  <2> QED  BY <1>2, <2>2, <2>3, <2>4 DEF JournalInv
<1> QED
  BY <1>3, <1>4 DEF Verify

LEMMA RestartKeeps ==
  ASSUME JournalInv, JournalRestart
  PROVE  JournalInv'
<1>1. /\ JournalTypeOK /\ Aligned /\ AckedInv /\ TimeInv
      /\ UNCHANGED <<events, acked>> /\ diag' = "no" /\ latest' = Nothing
      /\ step' = "idle" /\ rec' = Blank /\ StepInv
  BY DEF JournalInv, JournalRestart
<1>2. LatestInv' /\ StepInv'
  BY <1>1 DEF LatestInv, StepInv
<1>3. CASE UNCHANGED flash
  <2>1. Kept' = Kept /\ Readable' = Readable  BY <1>3 DEF Kept, Readable
  <2>2. JournalTypeOK'
    BY <1>1, <1>3, JournalAssumption DEF JournalTypeOK, Nothing, Blank, Sectors
  <2>3. Aligned' /\ AckedInv'  BY <1>1, <1>3, <2>1 DEF Aligned, Align, AckedInv
  <2>4. TimeInv'  BY <1>1, <1>3, <2>1 DEF TimeInv, NumbersFollowTime
  <2> QED  BY <1>2, <2>2, <2>3, <2>4 DEF JournalInv
<1>4. CASE step \in {"erase", "write"}
  <2>1. PICK c : Store(c) /\ (c \in Erasing \/ (step = "write" /\ c = rec))
    BY <1>4 DEF JournalRestart, Erasing, Writing
  <2>2. /\ flash' \in [Sectors -> [seq: Nat, ev: Nat]]
        /\ \A k \in Kept' : k \in Kept \/ (step = "write" /\ k = rec)
        /\ Aligned' /\ NumbersFollowTime'
        /\ \A a \in acked :
             /\ \A i \in Sectors : flash'[i].seq = a.seq => flash'[i] = a
             /\ a \in Kept' \/ \E r \in Kept' : r.seq >= a.seq + Count - 1
    BY <1>1, <1>4, <2>1, TargetChanges
  <2>3. JournalTypeOK'
    BY <1>1, <2>2, JournalAssumption DEF JournalTypeOK, Nothing, Blank, Sectors
  <2>4. AckedInv'  BY <1>1, <2>2 DEF AckedInv
  <2>5. TimeInv'
    <3>1. rec.ev = events /\ events \in Nat  BY <1>1, <1>4 DEF StepInv, JournalTypeOK
    <3> QED  BY <1>1, <2>2, <3>1 DEF TimeInv
  <2> QED  BY <1>2, <2>2, <2>3, <2>4, <2>5 DEF JournalInv
<1> QED
  BY <1>3, <1>4 DEF JournalRestart

LEMMA JournalInvStep ==
  ASSUME JournalInv, [JournalNext]_journalVars
  PROVE  JournalInv'
<1>1. CASE DiagInit  BY <1>1, DiagInitKeeps
<1>2. CASE LogEvent  BY <1>2, LogEventKeeps
<1>3. CASE Erase  BY <1>3, EraseKeeps
<1>4. CASE Write  BY <1>4, WriteKeeps
<1>5. CASE Verify  BY <1>5, VerifyKeeps
<1>6. CASE JournalRestart  BY <1>6, RestartKeeps
<1>7. CASE UNCHANGED journalVars
  BY <1>7 DEF journalVars, JournalInv, JournalTypeOK, Aligned, Align, LatestInv, StepInv, AckedInv,
              TimeInv, NumbersFollowTime, Kept, Readable, Target, Erasing
<1> QED
  BY <1>1, <1>2, <1>3, <1>4, <1>5, <1>6, <1>7 DEF JournalNext, JournalStep

(***************************************************************************)
(* The journal implements the event log.                                   *)
(***************************************************************************)

(* What becomes of the target is a record more, a record less that may be  *)
(* forgotten, or nothing.                                                  *)
LEMMA TargetImplements ==
  ASSUME JournalInv, step \in {"erase", "write"}, acked' = acked,
         NEW c, Store(c),
         c \in Erasing \/ (step = "write" /\ c = rec)
  PROVE  [Contract!EventLogNext]_<<Kept, acked>>
<1>1. /\ JournalTypeOK /\ Aligned /\ LatestInv /\ StepInv /\ AckedInv /\ TimeInv
      /\ Target \in Sectors /\ (latest.seq # 0 => Target # latest.sector) /\ diag = "ready"
      /\ rec = [seq |-> latest.seq + 1, ev |-> events] /\ latest.seq \in Nat /\ events \in Nat
      /\ flash[Target].seq \in Nat
  BY TargetSector DEF JournalInv, StepInv, JournalTypeOK
<1>2. /\ flash'[Target] = c /\ \A i \in Sectors : i # Target => flash'[i] = flash[i]
      /\ \A k \in Kept' : k \in Kept \/ (step = "write" /\ k = rec)
  BY TargetChanges
<1>3. \A i \in Readable : i # Target => flash[i] \in Kept'
  BY <1>2 DEF Readable, Kept
<1>4. CASE step = "write"
  <2>1. \A i \in Readable : i # Target
    BY <1>1, <1>4 DEF StepInv, Readable, Blank
  <2>2. Kept \subseteq Kept'  BY <1>3, <2>1 DEF Kept
  <2>3. CASE rec \notin Kept'
    BY <1>2, <2>2, <2>3
  <2>4. CASE rec \in Kept'
    <3>1. \A k \in Kept : k.seq <= latest.seq
      BY <1>1, <2>1 DEF LatestInv, Kept, Target
    <3>2. \A k \in Kept : k.seq \in Nat
      BY <1>1 DEF Kept, Readable, JournalTypeOK
    <3>3. \A a \in acked : a.seq \in Nat /\ a.seq <= latest.seq
      BY <1>1 DEF AckedInv, JournalTypeOK
    <3>4. \A k \in Kept \cup acked : k.seq < rec.seq /\ k.ev < rec.ev
      BY <1>1, <1>4, <3>1, <3>2, <3>3 DEF TimeInv
    <3>5. Kept' = Kept \cup {rec}  BY <1>2, <2>2, <2>4
    <3>6. Contract!Record(rec)  BY <3>4, <3>5 DEF Contract!Record
    <3> QED  BY <2>4, <3>6 DEF Contract!EventLogNext
  <2> QED  BY <2>3, <2>4
<1>5. CASE step = "erase"
  <2>1. Kept' \subseteq Kept  BY <1>2, <1>5
  <2>2. CASE flash[Target] \in Kept' \/ Target \notin Readable
    <3>1. Kept \subseteq Kept'  BY <1>3, <2>2 DEF Kept
    <3> QED  BY <2>1, <3>1
  <2>3. CASE flash[Target] \notin Kept' /\ Target \in Readable
    <3>1. Kept' = Kept \ {flash[Target]}  BY <1>3, <2>1, <2>3 DEF Kept
    <3>2. flash[Target] \in Kept  BY <2>3 DEF Kept
    <3>3. flash[Target] \in acked =>
            \E k \in Kept : k.seq >= flash[Target].seq + Count - 1
      <4> HAVE flash[Target] \in acked
      <4>1. flash[Target].seq <= latest.seq /\ flash[Target].seq # 0
        BY <1>1 DEF AckedInv
      <4>2. latest.seq # 0  BY <1>1, <4>1
      <4>3. latest.seq = flash[Target].seq + Count - 1
        BY <1>1, <2>3, <4>1, <4>2, Behind
      <4>4. latest.sector \in Readable /\ flash[latest.sector].seq = latest.seq
        BY <1>1, <4>2 DEF LatestInv, Readable, JournalTypeOK
      <4> QED  BY <1>1, <4>3, <4>4 DEF Kept
    <3>4. Contract!Forget(flash[Target])
      BY <3>1, <3>3 DEF Contract!Forget
    <3> QED  BY <3>2, <3>4 DEF Contract!EventLogNext
  <2> QED  BY <2>2, <2>3
<1> QED
  BY <1>4, <1>5

LEMMA ContractStep ==
  ASSUME JournalInv, [JournalNext]_journalVars
  PROVE  [Contract!EventLogNext]_<<Kept, acked>>
<1>1. CASE UNCHANGED <<flash, acked>>
  BY <1>1 DEF Kept, Readable
<1>2. CASE Erase
  <2>1. PICK c \in Erasing : Store(c)
    BY <1>2 DEF Erase, Erasing
  <2> QED  BY <1>2, <2>1, TargetImplements DEF Erase
<1>3. CASE Write
  <2>1. PICK c \in Writing : Store(c)  BY <1>3 DEF Write
  <2>2. c \in Erasing \/ c = rec  BY DEF Erasing, Writing
  <2> QED  BY <1>3, <2>1, <2>2, TargetImplements DEF Write
<1>4. CASE Verify /\ ~UNCHANGED acked
  <2>1. /\ flash[Target].seq = rec.seq /\ acked' = acked \cup {rec} /\ UNCHANGED flash
        /\ step = "verify"
    BY <1>4 DEF Verify
  <2>2. rec \in Kept /\ \A k \in Kept : k.seq <= rec.seq
    BY <2>1, ReadBack DEF Kept
  <2>3. Kept' = Kept  BY <2>1 DEF Kept, Readable
  <2>4. Contract!Acknowledge(rec)  BY <2>1, <2>2, <2>3 DEF Contract!Acknowledge
  <2> QED  BY <2>2, <2>4 DEF Contract!EventLogNext
<1>5. CASE JournalRestart /\ ~UNCHANGED flash
  <2>1. PICK c : Store(c) /\ (c \in Erasing \/ (step = "write" /\ c = rec))
    BY <1>5 DEF JournalRestart, Erasing, Writing
  <2>2. step \in {"erase", "write"} /\ acked' = acked
    BY <1>5 DEF JournalRestart, JournalInv, JournalTypeOK
  <2> QED  BY <2>1, <2>2, TargetImplements
<1> QED
  BY <1>1, <1>2, <1>3, <1>4, <1>5
     DEF JournalNext, JournalStep, DiagInit, LogEvent, Verify, JournalRestart, journalVars

-----------------------------------------------------------------------------
(* The invariant holds throughout, and it is what the properties need.     *)
LEMMA JournalInvAlways == JournalSpec => []JournalInv
<1>1. JournalInit => JournalInv  BY JournalInvInit
<1>2. JournalInv /\ [JournalNext]_journalVars => JournalInv'  BY JournalInvStep
<1> QED  BY <1>1, <1>2, PTL DEF JournalSpec

LEMMA JournalInvImplies == JournalInv => JournalTypeOK /\ RecentKept /\ NumbersFollowTime
  BY DEF JournalInv, AckedInv, TimeInv, RecentKept

(* The journal stays well typed (db_diag.c:31-39), for any number of       *)
(* sectors.                                                                *)
THEOREM JournalTypeCorrect == JournalSpec => []JournalTypeOK
  BY JournalInvAlways, JournalInvImplies, PTL

(* An event reported as stored can be read until one that came Count - 1   *)
(* later took over the ring (db_diag_log_event), whatever is interrupted,  *)
(* fails or cannot be read back, and however often the boat restarts.      *)
THEOREM RecentAlwaysKept == JournalSpec => []RecentKept
  BY JournalInvAlways, JournalInvImplies, PTL

(* Sorting by number (db_diag_ref_compare) is always sorting by time.      *)
THEOREM NumbersAlwaysFollowTime == JournalSpec => []NumbersFollowTime
  BY JournalInvAlways, JournalInvImplies, PTL

(* The journal (db_diag.c) implements an event log of as many records as   *)
(* there are sectors.                                                      *)
THEOREM JournalImplementsEventLog == JournalSpec => KeepsContract
<1>1. JournalInit => Contract!EventLogInit
  BY DEF JournalInit, Contract!EventLogInit, Kept, Readable, Blank
<1>2. JournalInv /\ [JournalNext]_journalVars => [Contract!EventLogNext]_<<Kept, acked>>
  BY ContractStep
<1> QED
  BY <1>1, <1>2, JournalInvAlways, PTL DEF JournalSpec, KeepsContract, Contract!EventLogSpec

-----------------------------------------------------------------------------
(***************************************************************************)
(* Start-up is a journal and a station beside each other: what is proved   *)
(* of the journal alone holds of the whole, and the station's events never *)
(* pile up.                                                                *)
(***************************************************************************)

(* A link that has not been lost yet has no event of a loss waiting, and a *)
(* lost one is not tried again before its event was handled.               *)
EventsInv ==
  /\ inbox \in Seq({"start", "got_ip", "disconnected"})
  /\ link \in {"off", "trying", "joined"} => Len(inbox) = 0
  /\ link = "up" => Len(inbox) <= 1 /\ (Len(inbox) = 1 => inbox[1] = "got_ip")
  /\ link = "down" => Len(inbox) <= 2 /\ (Len(inbox) = 2 => inbox[1] = "got_ip")

(* The slow timer runs only when nothing else is going on.                 *)
TimerInv == timer = TRUE => link \in {"down", "off"} /\ Len(inbox) = 0
BootInv  == main = "boot" => timer # TRUE /\ link = "off"

WifiTypes ==
  /\ main \in {"boot", "waiting", "station", "ap"}
  /\ link \in {"off", "down", "trying", "joined", "up"}
  /\ retries \in 0 .. FastRetries
  /\ window \in {"none", "open", "over"}
  /\ bits \subseteq {"connected", "fail"}
  /\ radio \in {"on", "stopped", "off"}

WifiInv == WifiTypes /\ EventsInv /\ TimerInv /\ BootInv

WifiAction ==
  WifiStep \/ StartStation \/ StartAp \/ WifiRestart \/ UNCHANGED wifiVars

(* What a step may do to the link and to the events that wait.             *)
LinkStep ==
  \/ UNCHANGED <<link, inbox>>
  \/ link' = "off" /\ inbox' = <<>>
  \/ link' = "down" /\ inbox' = << "start" >>
  \/ /\ Event("start") \/ Event("disconnected")
     /\ link' = link \/ (link = "down" /\ link' = "trying")
  \/ Event("got_ip") /\ link' = link
  \/ timer = TRUE /\ link = "down" /\ link' = "trying" /\ inbox' = inbox
  \/ link = "trying" /\ link' \in {"down", "joined"} /\ inbox' = inbox
  \/ link = "joined" /\ link' = "up" /\ inbox' = Append(inbox, "got_ip")
  \/ link \in {"trying", "joined", "up"} /\ link' = "down" /\ inbox' = Append(inbox, "disconnected")

LEMMA StepsLink ==
  ASSUME WifiTypes, WifiAction
  PROVE  LinkStep
<1> USE DEF WifiTypes, LinkStep, retry
<1>1. CASE StartStation
  BY <1>1 DEF StartStation
<1>2. CASE StartAp
  BY <1>2 DEF StartAp
<1>3. CASE WaitConnected
  BY <1>3 DEF WaitConnected
<1>4. CASE WaitFails
  BY <1>4 DEF WaitFails
<1>5. CASE WindowCloses
  BY <1>5 DEF WindowCloses
<1>6. CASE OnStart
  BY <1>6 DEF OnStart, Connect
<1>7. CASE OnDisconnected
  BY <1>7 DEF OnDisconnected, Connect
<1>8. CASE OnGotIp
  BY <1>8 DEF OnGotIp
<1>9. CASE TimerFires
  BY <1>9 DEF TimerFires, Connect
<1>10. CASE RadioStop
  BY <1>10 DEF RadioStop
<1>11. CASE RadioOff
  BY <1>11 DEF RadioOff
<1>12. CASE Joins
  BY <1>12 DEF Joins
<1>13. CASE GetsAddress
  BY <1>13 DEF GetsAddress
<1>14. CASE Drops
  BY <1>14 DEF Drops
<1>15. CASE WifiRestart
  BY <1>15 DEF WifiRestart
<1>16. CASE UNCHANGED wifiVars
  BY <1>16 DEF wifiVars
<1> QED
  BY <1>1, <1>2, <1>3, <1>4, <1>5, <1>6, <1>7, <1>8, <1>9, <1>10, <1>11, <1>12, <1>13, <1>14, <1>15, <1>16
     DEF WifiAction, WifiStep, MainStep, Handle

(* An event that is handled was the first that waited.                     *)
LEMMA TakesEvent ==
  ASSUME EventsInv, NEW e \in {"start", "got_ip", "disconnected"}, Event(e)
  PROVE  /\ inbox' \in Seq({"start", "got_ip", "disconnected"})
         /\ Len(inbox') = Len(inbox) - 1 /\ Len(inbox) \in Nat /\ Len(inbox) # 0 /\ inbox[1] = e
  BY DEF EventsInv, Event

LEMMA EventsStep ==
  ASSUME WifiTypes, EventsInv, TimerInv, LinkStep
  PROVE  EventsInv'
<1> USE DEF WifiTypes, EventsInv
<1>2. CASE UNCHANGED <<link, inbox>>  BY <1>2
<1>3. CASE link' = "off" /\ inbox' = <<>>  BY <1>3
<1>4. CASE link' = "down" /\ inbox' = << "start" >>  BY <1>4
<1>5. CASE /\ Event("start") \/ Event("disconnected")
           /\ link' = link \/ (link = "down" /\ link' = "trying")
  <2>1. /\ inbox' \in Seq({"start", "got_ip", "disconnected"})
        /\ Len(inbox') = Len(inbox) - 1 /\ Len(inbox) \in Nat /\ Len(inbox) # 0 /\ inbox[1] # "got_ip"
    BY <1>5, TakesEvent
  <2>2. Len(inbox) = 1 /\ link = "down"  BY <2>1
  <2>3. Len(inbox') = 0  BY <2>1, <2>2
  <2> QED  BY <1>5, <2>1, <2>2, <2>3
<1>6. CASE Event("got_ip") /\ link' = link
  <2>1. /\ inbox' \in Seq({"start", "got_ip", "disconnected"})
        /\ Len(inbox') = Len(inbox) - 1 /\ Len(inbox) \in Nat /\ Len(inbox) # 0
    BY <1>6, TakesEvent
  <2>2. CASE link = "up"
    <3>1. Len(inbox') = 0 /\ link' = "up"  BY <1>6, <2>1, <2>2
    <3> QED  BY <2>1, <3>1
  <2>3. CASE link = "down"
    <3>1. Len(inbox') <= 1 /\ Len(inbox') # 2 /\ link' = "down"  BY <1>6, <2>1, <2>3
    <3> QED  BY <2>1, <3>1
  <2> QED  BY <2>1, <2>2, <2>3
<1>7. CASE timer = TRUE /\ link = "down" /\ link' = "trying" /\ inbox' = inbox
  <2>1. Len(inbox) = 0  BY <1>7 DEF TimerInv
  <2> QED  BY <1>7, <2>1
<1>8. CASE link = "trying" /\ link' \in {"down", "joined"} /\ inbox' = inbox  BY <1>8
<1>9. CASE link = "joined" /\ link' = "up" /\ inbox' = Append(inbox, "got_ip")  BY <1>9
<1>10. CASE /\ link \in {"trying", "joined", "up"} /\ link' = "down"
            /\ inbox' = Append(inbox, "disconnected")
  <2>1. /\ Len(inbox) \in Nat /\ Len(inbox) <= 1 /\ (Len(inbox) = 1 => inbox[1] = "got_ip")
        /\ inbox' \in Seq({"start", "got_ip", "disconnected"})
        /\ Len(inbox') = Len(inbox) + 1 /\ (Len(inbox) = 1 => inbox'[1] = inbox[1])
    BY <1>10
  <2>2. Len(inbox') <= 2  BY <2>1
  <2>3. Len(inbox') = 2 => Len(inbox) = 1  BY <2>1
  <2>4. Len(inbox') = 2 => inbox'[1] = "got_ip"  BY <2>1, <2>3, Zenon
  <2> HIDE DEF EventsInv
  <2> QED  BY <1>10, <2>1, <2>2, <2>4 DEF EventsInv
<1> QED
  BY <1>2, <1>3, <1>4, <1>5, <1>6, <1>7, <1>8, <1>9, <1>10 DEF LinkStep

(* What becomes of a lost link.                                            *)
LEMMA LosesLink ==
  ASSUME OnDisconnected
  PROVE  /\ Event("disconnected") /\ UNCHANGED <<main, radio, ever, window>>
         /\ \/ UNCHANGED <<link, retries, timer, bits>>
            \/ /\ Connect /\ UNCHANGED <<timer, bits>>
               /\ retries' = IF retries < FastRetries THEN retries + 1 ELSE retries
            \/ timer' = TRUE /\ UNCHANGED <<link, retries, bits>>
            \/ bits' = bits \cup {"fail"} /\ UNCHANGED <<link, retries, timer>>
  BY DEF OnDisconnected, retry

LEMMA TypeStep ==
  ASSUME WifiTypes, WifiAction
  PROVE  WifiTypes'
<1> USE WifiAssumption DEF WifiTypes, retry
<1>1. CASE StartStation
  BY <1>1 DEF StartStation
<1>2. CASE StartAp
  BY <1>2 DEF StartAp
<1>3. CASE WaitConnected
  BY <1>3 DEF WaitConnected
<1>4. CASE WaitFails
  BY <1>4 DEF WaitFails
<1>5. CASE WindowCloses
  BY <1>5 DEF WindowCloses
<1>6. CASE OnStart
  BY <1>6 DEF OnStart, Connect
<1>7. CASE OnDisconnected
  <2>1. link' \in {"off", "down", "trying", "joined", "up"}
    BY <1>7, LosesLink DEF Connect
  <2>2. retries' \in 0 .. FastRetries
    <3>1. UNCHANGED retries \/ retries' = IF retries < FastRetries THEN retries + 1 ELSE retries
      BY <1>7, LosesLink, Zenon
    <3> QED  BY <3>1
  <2>3. bits' \subseteq {"connected", "fail"}
    BY <1>7, LosesLink
  <2> QED  BY <1>7, <2>1, <2>2, <2>3, LosesLink
<1>8. CASE OnGotIp
  BY <1>8 DEF OnGotIp
<1>9. CASE TimerFires
  BY <1>9 DEF TimerFires, Connect
<1>10. CASE RadioStop
  BY <1>10 DEF RadioStop
<1>11. CASE RadioOff
  BY <1>11 DEF RadioOff
<1>12. CASE Joins
  BY <1>12 DEF Joins
<1>13. CASE GetsAddress
  BY <1>13 DEF GetsAddress
<1>14. CASE Drops
  BY <1>14 DEF Drops
<1>15. CASE WifiRestart
  BY <1>15 DEF WifiRestart
<1>16. CASE UNCHANGED wifiVars
  BY <1>16 DEF wifiVars
<1> QED
  BY <1>1, <1>2, <1>3, <1>4, <1>5, <1>6, <1>7, <1>8, <1>9, <1>10, <1>11, <1>12, <1>13, <1>14, <1>15, <1>16
     DEF WifiAction, WifiStep, MainStep, Handle

LEMMA TimerStep ==
  ASSUME WifiTypes, EventsInv, TimerInv, BootInv, WifiAction
  PROVE  TimerInv'
<1> USE DEF WifiTypes, EventsInv, TimerInv, BootInv, retry
<1>1. CASE StartStation
  BY <1>1 DEF StartStation
<1>2. CASE StartAp
  BY <1>2 DEF StartAp
<1>3. CASE WaitConnected
  BY <1>3 DEF WaitConnected
<1>4. CASE WaitFails
  BY <1>4 DEF WaitFails
<1>5. CASE WindowCloses
  BY <1>5 DEF WindowCloses
<1>6. CASE OnStart
  <2>1. Event("start") /\ UNCHANGED timer  BY <1>6 DEF OnStart
  <2>2. Len(inbox) # 0  BY <2>1, TakesEvent
  <2> QED  BY <2>1, <2>2
<1>7. CASE OnDisconnected
  <2>1. Event("disconnected")  BY <1>7, LosesLink
  <2>2. /\ Len(inbox) # 0 /\ Len(inbox) \in Nat /\ Len(inbox') = Len(inbox) - 1 /\ inbox[1] = "disconnected"
    BY <2>1, TakesEvent
  <2>3. Len(inbox') = 0 /\ link \in {"down", "off"}  BY <2>2
  <2>4. CASE UNCHANGED timer  BY <2>2, <2>4
  <2>5. CASE UNCHANGED link  BY <2>3, <2>5
  <2> QED  BY <1>7, <2>4, <2>5, LosesLink
<1>8. CASE OnGotIp
  BY <1>8 DEF OnGotIp
<1>9. CASE TimerFires
  BY <1>9 DEF TimerFires, Connect
<1>10. CASE RadioStop
  BY <1>10 DEF RadioStop
<1>11. CASE RadioOff
  BY <1>11 DEF RadioOff
<1>12. CASE Joins
  BY <1>12 DEF Joins
<1>13. CASE GetsAddress
  BY <1>13 DEF GetsAddress
<1>14. CASE Drops
  BY <1>14 DEF Drops
<1>15. CASE WifiRestart
  BY <1>15 DEF WifiRestart
<1>16. CASE UNCHANGED wifiVars
  BY <1>16 DEF wifiVars
<1> QED
  BY <1>1, <1>2, <1>3, <1>4, <1>5, <1>6, <1>7, <1>8, <1>9, <1>10, <1>11, <1>12, <1>13, <1>14, <1>15, <1>16
     DEF WifiAction, WifiStep, MainStep, Handle

LEMMA BootStep ==
  ASSUME WifiTypes, EventsInv, BootInv, WifiAction
  PROVE  BootInv'
<1> USE DEF WifiTypes, BootInv, retry
<1>1. CASE StartStation
  BY <1>1 DEF StartStation
<1>2. CASE StartAp
  BY <1>2 DEF StartAp
<1>3. CASE WaitConnected
  BY <1>3 DEF WaitConnected
<1>4. CASE WaitFails
  BY <1>4 DEF WaitFails
<1>5. CASE WindowCloses
  BY <1>5 DEF WindowCloses
<1>6. CASE OnStart
  BY <1>6 DEF OnStart, Connect
<1>7. CASE OnDisconnected
  <2>1. Event("disconnected") /\ UNCHANGED main  BY <1>7, LosesLink
  <2>2. Len(inbox) # 0  BY <2>1, TakesEvent
  <2>3. main # "boot"  BY <2>2 DEF EventsInv
  <2> QED  BY <2>1, <2>3
<1>8. CASE OnGotIp
  BY <1>8 DEF OnGotIp
<1>9. CASE TimerFires
  BY <1>9 DEF TimerFires, Connect
<1>10. CASE RadioStop
  BY <1>10 DEF RadioStop
<1>11. CASE RadioOff
  BY <1>11 DEF RadioOff
<1>12. CASE Joins
  BY <1>12 DEF Joins
<1>13. CASE GetsAddress
  BY <1>13 DEF GetsAddress
<1>14. CASE Drops
  BY <1>14 DEF Drops
<1>15. CASE WifiRestart
  BY <1>15 DEF WifiRestart
<1>16. CASE UNCHANGED wifiVars
  BY <1>16 DEF wifiVars
<1> QED
  BY <1>1, <1>2, <1>3, <1>4, <1>5, <1>6, <1>7, <1>8, <1>9, <1>10, <1>11, <1>12, <1>13, <1>14, <1>15, <1>16
     DEF WifiAction, WifiStep, MainStep, Handle

(* Each part of the invariant is kept, whichever task, timer or access     *)
(* point moves.                                                            *)
LEMMA WifiInvStep ==
  ASSUME WifiInv, WifiAction
  PROVE  WifiInv'
  BY StepsLink, EventsStep, TypeStep, TimerStep, BootStep DEF WifiInv

-----------------------------------------------------------------------------
(* A step of start-up is a step of the journal or leaves it alone, and so  *)
(* for the station.                                                        *)
LEMMA PartsStep ==
  ASSUME [StartupNext]_startupVars
  PROVE  /\ [JournalNext]_journalVars
         /\ WifiAction
  BY DEF WifiAction, StartupNext, startupVars, JournalNext, JournalStep, BootInit, BootRecord, LaterRecord,
         Recording, StartWifi, Restart

(* The boot is recorded before Wi-Fi.                                      *)
OrderInv == app \in {"new", "ready", "writing", "recorded"} /\ (app # "recorded" => main = "boot")

StartupInv == WifiInv /\ OrderInv

LEMMA StartupInvAlways == StartupSpec => []StartupInv
<1>1. StartupInit => StartupInv
  <2> SUFFICES ASSUME StartupInit PROVE StartupInv  OBVIOUS
  <2>1. WifiTypes /\ EventsInv
    BY WifiAssumption DEF StartupInit, WifiInit, WifiTypes, EventsInv
  <2>2. TimerInv /\ BootInv
    BY DEF StartupInit, WifiInit, TimerInv, BootInv
  <2>3. OrderInv
    BY DEF StartupInit, WifiInit, OrderInv
  <2> QED  BY <2>1, <2>2, <2>3 DEF StartupInv, WifiInv
<1>2. ASSUME StartupInv, [StartupNext]_startupVars
      PROVE  StartupInv'
  <2>1. WifiInv'  BY <1>2, PartsStep, WifiInvStep DEF StartupInv
  <2>2. OrderInv'
    <3>1. CASE WifiStep /\ UNCHANGED <<journalVars, app>>
      BY <1>2, <3>1 DEF StartupInv, OrderInv, WifiStep, MainStep, WaitConnected, WaitFails, WindowCloses,
                        Handle, OnStart, OnDisconnected, OnGotIp, TimerFires, RadioStop, RadioOff,
                        Joins, GetsAddress, Drops
    <3>2. CASE Restart
      BY <3>2 DEF Restart, WifiRestart, OrderInv
    <3>3. CASE BootInit \/ BootRecord \/ LaterRecord \/ Recording \/ StartWifi
      BY <1>2, <3>3 DEF StartupInv, OrderInv, BootInit, BootRecord, LaterRecord, Recording, StartWifi, wifiVars
    <3>4. CASE UNCHANGED startupVars
      BY <1>2, <3>4 DEF StartupInv, OrderInv, startupVars, wifiVars
    <3> QED  BY <1>2, <3>1, <3>2, <3>3, <3>4 DEF StartupNext
  <2> QED  BY <2>1, <2>2 DEF StartupInv
<1> QED
  BY <1>1, <1>2, PTL DEF StartupSpec

(* Wi-Fi does not disturb the journal: start-up (app_main, main.c:1186)    *)
(* behaves as the journal of DiagJournal does.                             *)
THEOREM StartupRunsJournal == StartupSpec => JournalSpec
<1>1. StartupInit => JournalInit
  BY DEF StartupInit
<1>2. [StartupNext]_startupVars => [JournalNext]_journalVars
  BY PartsStep
<1> QED
  BY <1>1, <1>2, PTL DEF StartupSpec, JournalSpec

(* So the boots, and all other events, that were reported as stored stay   *)
(* readable until Count - 1 later ones took over the ring.                 *)
THEOREM StartupKeepsRecent == StartupSpec => []RecentKept
  BY StartupRunsJournal, RecentAlwaysKept, PTL

(* And start-up implements an event log.                                   *)
THEOREM StartupImplementsEventLog == StartupSpec => KeepsContract
  BY StartupRunsJournal, JournalImplementsEventLog, PTL

(* Start-up is well typed, no Wi-Fi is brought up before the boot was      *)
(* recorded, or failed to be (main.c:1225), and the driver's events never  *)
(* pile up (wifi_event_handler).                                           *)
THEOREM StartupTypeCorrect == StartupSpec => []StartupTypeOK
<1>1. StartupInv /\ JournalTypeOK => StartupTypeOK
  <2> SUFFICES ASSUME StartupInv, JournalTypeOK PROVE StartupTypeOK  OBVIOUS
  <2>1. Len(inbox) <= 3
    BY DEF StartupInv, WifiInv, WifiTypes, EventsInv
  <2> QED
    BY <2>1 DEF StartupInv, WifiInv, WifiTypes, WifiTypeOK, OrderInv, StartupTypeOK
<1> QED
  BY <1>1, StartupInvAlways, StartupRunsJournal, JournalTypeCorrect, PTL
=============================================================================
