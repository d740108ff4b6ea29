--------------------------- MODULE FcParamsProofs ---------------------------
(***************************************************************************)
(* Proofs about FcParams, for any number of parameters, uploads and        *)
(* requests on the link, and any behaviour of the flight controller, the   *)
(* link and another station.                                               *)
(*                                                                         *)
(* The invariant has three parts.  JobInv is the job's table and counters, *)
(* where a dump's count is the number of entries present.  LinkInv says    *)
(* that what is on its way from the flight controller was once held by it. *)
(* DiskInv follows held values into the backup, of which only the last     *)
(* line of one that lost its end may say anything else.  CountedOnce needs *)
(* no strengthening but JobInv.                                            *)
(***************************************************************************)
EXTENDS FcParams, FiniteSetTheorems, TLAPS

Entry   == [id: Ids \cup {0}, value: Values \cup {0}, present: BOOLEAN]
Answers == [id: Ids, value: Values, index: Ids \cup {0}, count: {FcCount}]
Asked   == [op: {"list"}] \cup [op: {"read"}, id: Ids] \cup [op: {"set"}, id: Ids, value: Values]

(* The files there may be.                                                 *)
Stored ==
  { f \in [kind: {"none", "half", "whole", "short"}, pairs: SUBSET Pairs] :
      \A p, q \in f.pairs \ held : f.kind = "short" /\ p = q }

Small(S) == IsFiniteSet(S) /\ Cardinality(S) <= Capacity

PresentSet == { i \in DOMAIN entries : entries[i].present }

JobInv ==
  /\ state \in {"idle", "dumping", "loading", "complete", "failed"}
  /\ entries \in Seq(Entry) /\ Len(entries) <= Capacity
  /\ count \in 0 .. Len(entries) /\ expected \in {0, FcCount}
  /\ index \in 1 .. count + 1 /\ written \in Nat /\ failed \in Seq(Ids)
  /\ written + Len(failed) < index
  /\ retries \in 0 .. RetryLimit /\ stalls \in 0 .. StallLimit + 1
  /\ pending \in BOOLEAN /\ (pending => state = "complete")
  /\ state = "dumping" => /\ Len(entries) = Capacity /\ stalls <= StallLimit
                          /\ count = Cardinality(PresentSet) /\ index = 1
  /\ state = "loading" => /\ count = Len(entries) /\ index <= count
                          /\ \A i \in DOMAIN entries : entries[i].id \in Ids /\ entries[i].value \in Values

LinkInv ==
  /\ fc \in Settings /\ held \subseteq Pairs /\ \A i \in Ids : Holds(i) \in held
  /\ toFc \in Seq(Asked) /\ Len(toFc) <= MaxOut
  /\ fromFc \in Seq(Answers) /\ Len(fromFc) <= MaxQueue
  /\ \A k \in DOMAIN fromFc : [id |-> fromFc[k].id, value |-> fromFc[k].value] \in held

PresentHeld ==
  \A i \in DOMAIN entries :
    entries[i].present => [id |-> entries[i].id, value |-> entries[i].value] \in held

DiskInv ==
  /\ PresentHeld
  /\ tick \in {"idle", "store", "write", "remove", "rename"}
  /\ file \in Stored /\ Small(file.pairs) /\ file.kind # "half"
  /\ tmp \in Stored /\ Small(tmp.pairs) /\ (tick \in {"remove", "rename"} => tmp.kind # "half")
  /\ req \in Seq(Pairs) /\ Len(req) <= Capacity

ParamsInv == JobInv /\ LinkInv /\ DiskInv

-----------------------------------------------------------------------------
(* What is unchanged keeps its part.                                       *)

LEMMA JobFrame == ASSUME JobInv, UNCHANGED job PROVE JobInv'
  BY DEF job, JobInv, PresentSet

LEMMA LinkFrame == ASSUME LinkInv, UNCHANGED fcAll PROVE LinkInv'
  BY DEF fcAll, LinkInv, Holds

LEMMA SendInv ==
  ASSUME LinkInv, NEW m \in Asked, Send(m), UNCHANGED <<fc, fromFc, held>>
  PROVE  LinkInv'
<1>1. toFc' \in Seq(Asked) /\ Len(toFc') <= MaxOut
  BY ParamsAssumption DEF LinkInv, Send
<1> QED  BY <1>1 DEF LinkInv, Holds

LEMMA DiskFrame ==
  ASSUME DiskInv, UNCHANGED <<tick, req, disk>>, held \subseteq held', PresentHeld'
  PROVE  DiskInv'
  BY DEF DiskInv, disk, Stored

LEMMA NothingSmall == Small({})
  BY FS_EmptySet, ParamsAssumption DEF Small

LEMMA PresentFinite ==
  ASSUME NEW table \in Seq(Entry), NEW S, S = { i \in DOMAIN table : table[i].present }
  PROVE  /\ IsFiniteSet(S) /\ Cardinality(S) \in Nat
         /\ Cardinality(S) <= Len(table)
<1>1. Len(table) \in Nat /\ DOMAIN table = 1 .. Len(table)
  OBVIOUS
<1>2. IsFiniteSet(1 .. Len(table)) /\ Cardinality(1 .. Len(table)) = Len(table)
  BY <1>1, FS_Interval
<1>3. S \in SUBSET (1 .. Len(table))
  BY <1>1
<1> QED  BY <1>2, <1>3, FS_Subset, FS_CardinalityType

(* The lines of a table's first n entries are at most n.                   *)
LEMMA LinesSmall ==
  ASSUME entries \in Seq(Entry), Len(entries) <= Capacity, NEW n \in 0 .. Len(entries)
  PROVE  IsFiniteSet(Lines(n)) /\ Cardinality(Lines(n)) \in 0 .. n
<1> DEFINE P == { j \in 1 .. n : entries[j].present }
           f == [i \in P |-> [id |-> entries[i].id, value |-> entries[i].value]]
<1>1. n \in Nat
  OBVIOUS
<1>2. IsFiniteSet(1 .. n) /\ Cardinality(1 .. n) = n
  BY <1>1, FS_Interval
<1>3. P \in SUBSET (1 .. n)
  OBVIOUS
<1>4. IsFiniteSet(P) /\ Cardinality(P) <= n /\ Cardinality(P) \in Nat
  BY <1>2, <1>3, FS_Subset, FS_CardinalityType
<1>5. f \in Surjection(P, Lines(n))
  BY DEF Surjection, Lines
<1>6. IsFiniteSet(Lines(n)) /\ Cardinality(Lines(n)) <= Cardinality(P)
  BY <1>4, <1>5, FS_Surjection
<1> QED  BY <1>1, <1>4, <1>6, FS_CardinalityType

(* A backup is no longer than the table, also one cut short.               *)
LEMMA BackupSmall ==
  ASSUME JobInv
  PROVE  /\ Small(Rendered)
         /\ \A i \in DOMAIN entries : \A s \in CutAt(i) : Small(s)
<1>1. entries \in Seq(Entry) /\ Len(entries) \in Nat /\ Len(entries) <= Capacity /\ Capacity \in Nat
      /\ DOMAIN entries = 1 .. Len(entries)
  BY ParamsAssumption DEF JobInv
<1>2. Small(Rendered)
  BY <1>1, LinesSmall DEF Rendered, Small
<1>3. ASSUME NEW i \in DOMAIN entries, NEW s \in CutAt(i)
      PROVE  Small(s)
  <2>1. i - 1 \in 0 .. Len(entries) /\ i \in Nat /\ i <= Capacity
    BY <1>1
  <2>2. IsFiniteSet(Lines(i - 1)) /\ Cardinality(Lines(i - 1)) \in 0 .. i - 1
    BY <1>1, <2>1, LinesSmall
  <2>3. CASE s = Lines(i - 1)
    BY <1>1, <2>1, <2>2, <2>3 DEF Small
  <2>4. CASE \E x : s = Lines(i - 1) \cup {x}
    <3>1. PICK x : s = Lines(i - 1) \cup {x}
      BY <2>4
    <3>2. IsFiniteSet(s) /\ Cardinality(s) <= Cardinality(Lines(i - 1)) + 1
      BY <2>2, <3>1, FS_AddElement
    <3>3. Cardinality(s) \in Nat
      BY <3>2, FS_CardinalityType
    <3> QED  BY <1>1, <2>1, <2>2, <3>2, <3>3 DEF Small
  <2> QED  BY <2>3, <2>4 DEF CutAt
<1> QED  BY <1>2, <1>3

(* Of what is in a backup only a number cut short was perhaps never held.  *)
LEMMA BackupHeld ==
  ASSUME JobInv, LinkInv, PresentHeld
  PROVE  /\ Rendered \subseteq held
         /\ \A i \in DOMAIN entries : \A s \in CutAt(i) :
              s \subseteq Pairs /\ \A p, q \in s \ held : p = q
<1>1. DOMAIN entries = 1 .. Len(entries) /\ Len(entries) \in Nat
  BY DEF JobInv
<1>2. ASSUME NEW n \in 0 .. Len(entries)
      PROVE  Lines(n) \subseteq held
  <2>1. 1 .. n \subseteq DOMAIN entries  BY <1>1
  <2> QED  BY <2>1 DEF PresentHeld, Lines
<1>3. Rendered \subseteq held
  BY <1>1, <1>2 DEF Rendered
<1>4. ASSUME NEW i \in DOMAIN entries, NEW s \in CutAt(i)
      PROVE  s \subseteq Pairs /\ \A p, q \in s \ held : p = q
  <2>1. Lines(i - 1) \subseteq held /\ held \subseteq Pairs
    <3>1. i - 1 \in 0 .. Len(entries)  BY <1>1
    <3> QED  BY <1>2, <3>1 DEF LinkInv
  <2>2. CASE s = Lines(i - 1)
    BY <2>1, <2>2
  <2>3. ASSUME NEW v \in { w \in Values : entries[i].present },
               s = Lines(i - 1) \cup { [id |-> entries[i].id, value |-> v] }
        PROVE  s \subseteq Pairs /\ \A p, q \in s \ held : p = q
    <3>1. [id |-> entries[i].id, value |-> entries[i].value] \in Pairs
      BY <2>1, <2>3 DEF PresentHeld
    <3>2. entries[i].id \in Ids
      BY <3>1 DEF Pairs
    <3>3. [id |-> entries[i].id, value |-> v] \in Pairs
      BY <2>3, <3>2 DEF Pairs
    <3> QED  BY <2>1, <2>3, <3>3
  <2> QED  BY <2>2, <2>3 DEF CutAt
<1> QED  BY <1>3, <1>4

LEMMA NoneLeft ==
  /\ <<>> \in Seq(Entry) /\ <<>> \in Seq(Ids) /\ Len(<<>>) = 0
  OBVIOUS

(* The counters a job starts from.                                         *)
LEMMA FreshCounters ==
  ASSUME FreeAll
  PROVE  /\ expected' \in {0, FcCount} /\ index' = 1
         /\ written' \in Nat /\ failed' \in Seq(Ids) /\ written' + Len(failed') < index'
         /\ retries' \in 0 .. RetryLimit
         /\ stalls' \in 0 .. StallLimit + 1 /\ stalls' <= StallLimit
         /\ pending' = FALSE
<1>1. failed' \in Seq(Ids) /\ Len(failed') = 0  BY NoneLeft DEF FreeAll
<1> QED  BY <1>1, ParamsAssumption DEF FreeAll

LEMMA ParamsInitInv == ParamsInit => ParamsInv
<1> SUFFICES ASSUME ParamsInit PROVE ParamsInv  OBVIOUS
<1> USE ParamsAssumption DEF ParamsInit
<1>1. JobInv
  <2>1. failed \in Seq(Ids) /\ Len(failed) = 0 /\ entries \in Seq(Entry) /\ Len(entries) = 0
    BY NoneLeft
  <2>2. expected \in {0, FcCount} /\ index \in 1 .. count + 1 /\ count \in 0 .. Len(entries)
        /\ written + Len(failed) < index /\ Len(entries) <= Capacity
    BY <2>1
  <2>3. retries \in 0 .. RetryLimit /\ stalls \in 0 .. StallLimit + 1 /\ pending = FALSE /\ written \in Nat
    OBVIOUS
  <2>4. state = "idle"
    OBVIOUS
  <2> HIDE DEF ParamsInit
  <2> QED  BY <2>1, <2>2, <2>3, <2>4 DEF JobInv
<1>2. LinkInv
  <2>1. fc \in [Ids -> Values] /\ held = { Holds(i) : i \in Ids }
    BY DEF Settings
  <2>2. held \subseteq Pairs
    BY <2>1 DEF Holds, Pairs
  <2> QED  BY <2>1, <2>2 DEF LinkInv
<1>3. DiskInv
  BY NothingSmall DEF DiskInv, PresentHeld, Stored, NoFile
<1> QED  BY <1>1, <1>2, <1>3 DEF ParamsInv

-----------------------------------------------------------------------------
(* The web server task.                                                    *)

LEMMA NoMemoryInv == ASSUME FreeAll, NoMemory PROVE JobInv' /\ PresentHeld'
<1>1. entries' \in Seq(Entry) /\ Len(entries') = 0
  BY NoneLeft DEF NoMemory
<1>2. state' = "failed" /\ count' = 0 /\ entries' = <<>>
  BY DEF NoMemory
<1>3. JobInv'
  BY <1>1, <1>2, FreshCounters, ParamsAssumption DEF JobInv
<1>4. PresentHeld'
  BY <1>2 DEF PresentHeld
<1> QED  BY <1>3, <1>4

LEMMA StartDumpInv == ASSUME ParamsInv, StartDump PROVE ParamsInv'
<1> USE DEF ParamsInv
<1>1. CASE FreeAll /\ NoMemory /\ UNCHANGED toFc
  <2>1. JobInv' /\ PresentHeld'  BY <1>1, NoMemoryInv
  <2>2. LinkInv'  BY <1>1, LinkFrame DEF StartDump, fcAll
  <2>3. DiskInv'  BY <2>1, DiskFrame DEF StartDump
  <2> QED  BY <2>1, <2>2, <2>3
<1>2. CASE /\ FreeAll /\ state' = "dumping" /\ count' = 0
           /\ entries' = [i \in 1 .. Capacity |-> Blank]
           /\ Send([op |-> "list"])
  <2>1. entries' \in Seq(Entry) /\ Len(entries') = Capacity /\ DOMAIN entries' = 1 .. Capacity
    BY <1>2, ParamsAssumption DEF Blank, Entry
  <2>2. PresentSet' = {}
    BY <1>2, <2>1 DEF PresentSet, Blank
  <2>3. JobInv'
    BY <1>2, <2>1, <2>2, FS_EmptySet, FreshCounters, ParamsAssumption DEF JobInv
  <2>4. PresentHeld'
    BY <2>2 DEF PresentHeld, PresentSet
  <2>5. LinkInv'
    BY <1>2, SendInv DEF StartDump, Asked
  <2>6. DiskInv'  BY <2>4, DiskFrame DEF StartDump
  <2> QED  BY <2>3, <2>5, <2>6
<1> QED  BY <1>1, <1>2 DEF StartDump

LEMMA LoadInv ==
  ASSUME NEW list \in Seq(Pairs), Len(list) \in 1 .. Capacity, Load(list)
  PROVE  JobInv' /\ PresentHeld'
<1>1. CASE NoMemory  BY <1>1, NoMemoryInv DEF Load
<1>2. CASE /\ state' = "loading" /\ count' = Len(list)
           /\ entries' = [i \in DOMAIN list |->
                [id |-> list[i].id, value |-> list[i].value, present |-> FALSE]]
  <2>1. DOMAIN list = 1 .. Len(list) /\ \A i \in DOMAIN list : list[i].id \in Ids /\ list[i].value \in Values
    <3>1. \A i \in DOMAIN list : list[i] \in Pairs  OBVIOUS
    <3> QED  BY <3>1 DEF Pairs
  <2>2. entries' \in Seq(Entry) /\ Len(entries') = Len(list) /\ DOMAIN entries' = 1 .. Len(list)
    BY <1>2, <2>1 DEF Entry
  <2>3. \A i \in DOMAIN entries' : entries'[i].id \in Ids /\ entries'[i].value \in Values
                                  /\ ~entries'[i].present
    BY <1>2, <2>1, <2>2
  <2>4. JobInv'
    BY <1>2, <2>2, <2>3, FreshCounters, ParamsAssumption DEF Load, JobInv
  <2>5. PresentHeld'
    BY <2>3 DEF PresentHeld
  <2> QED  BY <2>4, <2>5
<1> QED  BY <1>1, <1>2 DEF Load

LEMMA StartLoadInv == ASSUME ParamsInv, StartLoad PROVE ParamsInv'
<1> USE DEF ParamsInv
<1>1. PICK list \in Lists : Load(list)  BY DEF StartLoad
<1>2. JobInv' /\ PresentHeld'
  BY <1>1, LoadInv, ParamsAssumption
<1>3. LinkInv'  BY LinkFrame DEF StartLoad
<1>4. DiskInv'  BY <1>2, DiskFrame DEF StartLoad, fcAll
<1> QED  BY <1>2, <1>3, <1>4

LEMMA RestoreReadInv == ASSUME ParamsInv, RestoreRead PROVE ParamsInv'
<1> USE DEF ParamsInv
<1>1. JobInv' /\ LinkInv'
  BY JobFrame, LinkFrame DEF RestoreRead
<1>2. Cardinality(file.pairs) \in Nat /\ Cardinality(file.pairs) <= Capacity
  BY FS_CardinalityType DEF DiskInv, Small
<1>3. req' \in [1 .. Cardinality(file.pairs) -> file.pairs]
  BY DEF RestoreRead, Listed
<1>4. file.pairs \subseteq Pairs
  BY DEF DiskInv, Stored
<1>5. req' \in Seq(Pairs) /\ Len(req') <= Capacity
  BY <1>2, <1>3, <1>4
<1>6. DiskInv'
  BY <1>5 DEF RestoreRead, DiskInv, PresentHeld, job, disk, fcAll, Stored
<1> QED  BY <1>1, <1>6

LEMMA RestoreLoadInv == ASSUME ParamsInv, RestoreLoad PROVE ParamsInv'
<1> USE DEF ParamsInv
<1>1. JobInv' /\ PresentHeld'
  <2>1. CASE UNCHANGED job
    BY <2>1, JobFrame DEF DiskInv, PresentHeld, job, RestoreLoad, fcAll
  <2>2. CASE Load(req)
    <3>1. req \in Seq(Pairs) /\ Len(req) \in 1 .. Capacity
      BY ParamsAssumption DEF RestoreLoad, DiskInv
    <3> QED  BY <2>2, <3>1, LoadInv
  <2> QED  BY <2>1, <2>2 DEF RestoreLoad
<1>2. LinkInv'  BY LinkFrame DEF RestoreLoad
<1>3. DiskInv'
  BY <1>1, ParamsAssumption DEF RestoreLoad, DiskInv, disk, fcAll, Stored
<1> QED  BY <1>1, <1>2, <1>3

LEMMA DeleteStoredInv == ASSUME ParamsInv, DeleteStored PROVE ParamsInv'
<1> USE DEF ParamsInv
<1>1. JobInv' /\ LinkInv'
  BY JobFrame, LinkFrame DEF DeleteStored
<1>2. DiskInv'
  BY NothingSmall DEF DeleteStored, DiskInv, PresentHeld, job, fcAll, Stored, NoFile
<1> QED  BY <1>1, <1>2

-----------------------------------------------------------------------------
(* The MAVLink task.                                                       *)

(* A value that arrives was once held, and is one the flight controller    *)
(* sent.                                                                   *)
LEMMA ArrivedInv ==
  ASSUME ParamsInv, OnParamValue
  PROVE  /\ Head(fromFc) \in Answers
         /\ [id |-> Head(fromFc).id, value |-> Head(fromFc).value] \in held
         /\ LinkInv'
<1>1. fromFc \in Seq(Answers) /\ fromFc # <<>> /\ Len(fromFc) <= MaxQueue
  BY DEF ParamsInv, LinkInv, OnParamValue
<1>2. Head(fromFc) = fromFc[1] /\ 1 \in DOMAIN fromFc /\ fromFc[1] \in Answers
  BY <1>1
<1>3. fromFc' = Tail(fromFc) /\ UNCHANGED <<fc, toFc, held>>
  BY DEF OnParamValue
<1>4. /\ fromFc' \in Seq(Answers) /\ Len(fromFc') <= MaxQueue
      /\ \A k \in DOMAIN fromFc' : k + 1 \in DOMAIN fromFc /\ fromFc'[k] = fromFc[k + 1]
  BY <1>1, <1>3, ParamsAssumption
<1>5. LinkInv'
  BY <1>3, <1>4 DEF ParamsInv, LinkInv, Holds
<1> QED  BY <1>2, <1>5 DEF ParamsInv, LinkInv

(* Filing one value keeps the count the number of entries present.         *)
LEMMA FiledInv ==
  ASSUME JobInv, state = "dumping", NEW i \in 1 .. Capacity, NEW e \in Entry, e.present,
         entries' = [entries EXCEPT ![i] = e],
         count' = IF entries[i].present THEN count ELSE count + 1
  PROVE  /\ entries' \in Seq(Entry) /\ Len(entries') = Capacity
         /\ count' = Cardinality(PresentSet') /\ count' \in 0 .. Capacity
<1>1. entries \in Seq(Entry) /\ Len(entries) = Capacity /\ DOMAIN entries = 1 .. Capacity
      /\ count = Cardinality(PresentSet)
  BY ParamsAssumption DEF JobInv
<1>2. entries' \in Seq(Entry) /\ Len(entries') = Capacity /\ DOMAIN entries' = 1 .. Capacity
  BY <1>1, ParamsAssumption
<1>3. PresentSet' = PresentSet \cup {i}
  BY <1>1, <1>2 DEF PresentSet
<1>4. IsFiniteSet(PresentSet) /\ Cardinality(PresentSet) \in Nat
  BY <1>1, PresentFinite DEF PresentSet
<1>5. i \in PresentSet <=> entries[i].present
  BY <1>1 DEF PresentSet
<1>6. count' = Cardinality(PresentSet')
  BY <1>1, <1>3, <1>4, <1>5, FS_AddElement
<1>7. Cardinality(PresentSet') <= Len(entries') /\ Cardinality(PresentSet') \in Nat
  BY <1>2, PresentFinite DEF PresentSet
<1> QED  BY <1>2, <1>6, <1>7, ParamsAssumption

LEMMA DumpValueInv ==
  ASSUME JobInv, PresentHeld, UNCHANGED held, NEW m \in Answers, DumpValue(m),
         [id |-> m.id, value |-> m.value] \in held
  PROVE  JobInv' /\ PresentHeld'
<1>1. m.count = FcCount /\ expected' = FcCount /\ state = "dumping"
      /\ UNCHANGED <<index, written, retries, failed>>
  BY ParamsAssumption DEF Answers, DumpValue
<1>2. CASE m.index \notin 1 .. Capacity
  <2>1. UNCHANGED <<entries, count, stalls, state, pending>>
    BY <1>2 DEF DumpValue
  <2>2. JobInv'
    BY <1>1, <2>1 DEF JobInv, PresentSet
  <2>3. PresentHeld'
    BY <2>1 DEF PresentHeld
  <2> QED  BY <2>2, <2>3
<1>3. CASE m.index \in 1 .. Capacity
  <2> DEFINE e == [id |-> m.id, value |-> m.value, present |-> TRUE]
  <2>1. entries' = [entries EXCEPT ![m.index] = e]
        /\ count' = IF entries[m.index].present THEN count ELSE count + 1
    BY <1>3 DEF DumpValue
  <2>2. e \in Entry /\ e.present
    BY DEF Answers, Entry
  <2>3. /\ entries' \in Seq(Entry) /\ Len(entries') = Capacity
        /\ count' = Cardinality(PresentSet') /\ count' \in 0 .. Capacity
    BY <1>1, <1>3, <2>1, <2>2, FiledInv
  <2>4. stalls' = 0 /\ (\/ state' = "complete" /\ pending' = TRUE
                        \/ UNCHANGED <<state, pending>>)
    BY <1>3 DEF DumpValue
  <2>5. JobInv'
    <3>1. stalls' \in 0 .. StallLimit + 1 /\ stalls' <= StallLimit
      BY <2>4, ParamsAssumption
    <3>2. pending' \in BOOLEAN /\ (pending' => state' = "complete")
          /\ state' \in {"dumping", "complete"}
      <4>1. CASE state' = "complete" /\ pending' = TRUE
        BY <4>1
      <4>2. CASE UNCHANGED <<state, pending>>
        BY <1>1, <4>2 DEF JobInv
      <4> QED  BY <2>4, <4>1, <4>2
    <3>3. index' = 1 /\ written' \in Nat /\ failed' \in Seq(Ids)
          /\ written' + Len(failed') < index' /\ retries' \in 0 .. RetryLimit
      BY <1>1 DEF JobInv
    <3> QED  BY <1>1, <2>3, <3>1, <3>2, <3>3, ParamsAssumption DEF JobInv
  <2>6. PresentHeld'
    <3>1. DOMAIN entries' = DOMAIN entries
      BY <2>1
    <3>2. \A i \in DOMAIN entries : entries'[i] = IF i = m.index THEN e ELSE entries[i]
      BY <2>1
    <3> QED  BY <3>1, <3>2 DEF PresentHeld
  <2> QED  BY <2>5, <2>6
<1> QED  BY <1>2, <1>3

(* What both ways of moving on do to the counters.                         *)
LEMMA AdvanceInv ==
  ASSUME JobInv, state = "loading", Advance, UNCHANGED <<count, expected, stalls, pending>>,
         entries' \in Seq(Entry), Len(entries') = Len(entries),
         \A i \in DOMAIN entries : entries'[i].id = entries[i].id
                                   /\ entries'[i].value = entries[i].value,
         written' \in Nat, failed' \in Seq(Ids),
         written' + Len(failed') <= written + Len(failed) + 1
  PROVE  JobInv'
<1>1. index' = index + 1 /\ retries' = 0 /\ state' = IF index' > count THEN "complete" ELSE "loading"
  BY DEF Advance
<1>2. index' \in 1 .. count' + 1 /\ written' + Len(failed') < index'
  BY <1>1 DEF JobInv
<1>3. DOMAIN entries' = DOMAIN entries
  BY DEF JobInv
<1>4. state' = "loading" => /\ count' = Len(entries') /\ index' <= count'
                            /\ \A i \in DOMAIN entries' : entries'[i].id \in Ids /\ entries'[i].value \in Values
  <2>1. \A i \in DOMAIN entries : entries[i].id \in Ids /\ entries[i].value \in Values
    BY DEF JobInv
  <2>2. \A i \in DOMAIN entries' : entries'[i].id \in Ids /\ entries'[i].value \in Values
    BY <1>3, <2>1
  <2>3. count' = Len(entries') /\ (state' = "loading" => index' <= count')
    BY <1>1 DEF JobInv
  <2> QED  BY <2>2, <2>3
<1>5. state' \in {"loading", "complete"} /\ pending' \in BOOLEAN /\ ~pending'
  BY <1>1 DEF JobInv
<1>6. Len(entries') <= Capacity /\ count' \in 0 .. Len(entries') /\ expected' \in {0, FcCount}
      /\ retries' \in 0 .. RetryLimit /\ stalls' \in 0 .. StallLimit + 1
  BY <1>1, ParamsAssumption DEF JobInv
<1> QED  BY <1>2, <1>4, <1>5, <1>6 DEF JobInv

LEMMA RecordFailureInv ==
  ASSUME failed \in Seq(Ids), NEW id \in Ids, RecordFailure(id)
  PROVE  failed' \in Seq(Ids) /\ Len(failed') <= Len(failed) + 1 /\ Len(failed) \in Nat
  BY DEF RecordFailure

LEMMA LoadValueInv ==
  ASSUME JobInv, PresentHeld, UNCHANGED held, NEW m \in Answers, LoadValue(m),
         [id |-> m.id, value |-> m.value] \in held
  PROVE  JobInv' /\ PresentHeld'
<1>1. /\ state = "loading" /\ index <= count /\ m.id = entries[index].id /\ Advance
      /\ UNCHANGED <<count, expected, stalls, pending>>
  BY DEF LoadValue
<1>2. index \in DOMAIN entries /\ entries \in Seq(Entry) /\ written \in Nat
      /\ failed \in Seq(Ids) /\ m.id \in Ids
  BY <1>1 DEF JobInv, Answers
<1>3. CASE /\ m.value = entries[index].value
           /\ entries' = [entries EXCEPT ![index].present = TRUE]
           /\ written' = written + 1
           /\ UNCHANGED failed
  <2>1. DOMAIN entries' = DOMAIN entries /\ Len(entries') = Len(entries)
    BY <1>2, <1>3
  <2>2. \A i \in DOMAIN entries :
          entries'[i] = IF i = index THEN [entries[i] EXCEPT !.present = TRUE] ELSE entries[i]
    BY <1>3
  <2>3. \A i \in DOMAIN entries : entries[i] \in Entry
    BY <1>2
  <2>4. \A i \in DOMAIN entries : entries'[i].id = entries[i].id /\ entries'[i].value = entries[i].value
    BY <2>2, <2>3 DEF Entry
  <2>5. entries' \in Seq(Entry)
    <3>1. \A i \in DOMAIN entries : entries'[i] \in Entry
      BY <2>2, <2>3 DEF Entry
    <3>2. DOMAIN entries = 1 .. Len(entries) /\ Len(entries) \in Nat
      BY <1>2
    <3>3. entries' = [i \in 1 .. Len(entries) |-> entries'[i]]
      BY <1>3, <2>1, <3>2
    <3> QED  BY <3>1, <3>2, <3>3
  <2>6. JobInv'
    BY <1>1, <1>2, <1>3, <2>1, <2>4, <2>5, AdvanceInv
  <2>7. PresentHeld'
    BY <1>1, <1>3, <2>1, <2>2, <2>4 DEF PresentHeld
  <2> QED  BY <2>6, <2>7
<1>4. CASE RecordFailure(m.id) /\ UNCHANGED <<entries, written>>
  <2>1. JobInv'
    BY <1>1, <1>2, <1>4, RecordFailureInv, AdvanceInv
  <2>2. PresentHeld'
    BY <1>4 DEF PresentHeld
  <2> QED  BY <2>1, <2>2
<1> QED  BY <1>3, <1>4 DEF LoadValue

LEMMA OnParamValueInv == ASSUME ParamsInv, OnParamValue PROVE ParamsInv'
<1> DEFINE m == Head(fromFc)
<1>1. /\ m \in Answers /\ [id |-> m.id, value |-> m.value] \in held /\ LinkInv'
  BY ArrivedInv
<1>2. JobInv /\ PresentHeld /\ DiskInv /\ UNCHANGED <<tick, req, disk, held>>
  BY DEF ParamsInv, DiskInv, OnParamValue
<1>3. JobInv' /\ PresentHeld'
  <2>1. CASE DumpValue(m)  BY <1>1, <1>2, <2>1, DumpValueInv
  <2>2. CASE LoadValue(m)  BY <1>1, <1>2, <2>2, LoadValueInv
  <2>3. CASE Ignored(m)
    BY <1>2, <2>3, JobFrame DEF Ignored, job, PresentHeld
  <2> QED  BY <2>1, <2>2, <2>3 DEF OnParamValue
<1>4. DiskInv'  BY <1>2, <1>3, DiskFrame
<1> QED  BY <1>1, <1>3, <1>4 DEF ParamsInv

-----------------------------------------------------------------------------
(* The publish task.                                                       *)

(* The files a step may leave behind.                                      *)
LEMMA FilesFit ==
  /\ NoFile \in Stored /\ Small(NoFile.pairs) /\ NoFile.kind = "none"
  /\ Half \in Stored /\ Small(Half.pairs)
  BY NothingSmall DEF NoFile, Half, Stored

LEMMA WrittenFits ==
  ASSUME LinkInv, NEW S \in SUBSET Pairs, Small(S)
  PROVE  /\ S \subseteq held =>
              Whole(S) \in Stored /\ Small(Whole(S).pairs) /\ Whole(S).kind # "half"
         /\ (\A p, q \in S \ held : p = q) =>
              Short(S) \in Stored /\ Small(Short(S).pairs) /\ Short(S).kind # "half"
  BY DEF Whole, Short, Stored

(* A storing step that leaves fitting files.                               *)
LEMMA StoredInv ==
  ASSUME DiskInv, UNCHANGED <<job, req, fcAll>>,
         tick' \in {"idle", "store", "write", "remove", "rename"},
         file' \in Stored, Small(file'.pairs), file'.kind # "half",
         tmp' \in Stored, Small(tmp'.pairs),
         tick' \in {"remove", "rename"} => tmp'.kind # "half"
  PROVE  DiskInv'
<1>1. PresentHeld' /\ UNCHANGED <<held, req>>
  BY DEF DiskInv, PresentHeld, job, fcAll
<1>2. file' \in Stored' /\ tmp' \in Stored'
  BY <1>1 DEF Stored
<1>3. Small(file.pairs)' /\ Small(tmp.pairs)'
  BY DEF Small
<1> QED  BY <1>1, <1>2, <1>3 DEF DiskInv

LEMMA TickStepInv == ASSUME ParamsInv, TickStep PROVE ParamsInv'
<1> USE DEF ParamsInv
<1>1. CASE TickTake
  <2>1. JobInv'
    BY <1>1 DEF TickTake, JobInv, PresentSet
  <2>2. LinkInv'
    BY <1>1, LinkFrame DEF TickTake
  <2>3. DiskInv'
    BY <1>1 DEF TickTake, DiskInv, PresentHeld, disk, fcAll, Stored
  <2> QED  BY <2>1, <2>2, <2>3
<1>2. CASE StoreOpen
  <2>1. JobInv' /\ LinkInv'
    BY <1>2, JobFrame, LinkFrame DEF StoreOpen
  <2>2. DiskInv'
    <3>1. /\ file' = file /\ UNCHANGED <<job, req, fcAll>>
          /\ \/ tmp' = Half /\ tick' = "write"
             \/ tmp' = tmp /\ tick' = "idle"
      BY <1>2 DEF StoreOpen
    <3>2. file' \in Stored /\ Small(file'.pairs) /\ file'.kind # "half"
      BY <3>1 DEF DiskInv
    <3>3. CASE tmp' = Half /\ tick' = "write"
      BY <3>1, <3>2, <3>3, FilesFit, StoredInv
    <3>4. CASE tmp' = tmp /\ tick' = "idle"
      <4>1. tmp' \in Stored /\ Small(tmp'.pairs)
        BY <3>4 DEF DiskInv
      <4> QED  BY <3>1, <3>2, <3>4, <4>1, StoredInv
    <3> QED  BY <3>1, <3>3, <3>4
  <2> QED  BY <2>1, <2>2
<1>3. CASE StoreWrite
  <2>1. JobInv' /\ LinkInv'
    BY <1>3, JobFrame, LinkFrame DEF StoreWrite
  <2>2. UNCHANGED <<job, req, fcAll>> /\ file' \in Stored /\ Small(file'.pairs) /\ file'.kind # "half"
    BY <1>3 DEF StoreWrite, DiskInv
  <2>3. /\ Small(Rendered) /\ Rendered \subseteq held /\ held \subseteq Pairs
        /\ \A i \in DOMAIN entries : \A s \in CutAt(i) :
             Small(s) /\ s \subseteq Pairs /\ \A p, q \in s \ held : p = q
    BY BackupSmall, BackupHeld DEF DiskInv, LinkInv
  <2>4. CASE tick' = "remove" /\ tmp' \in Stored /\ Small(tmp'.pairs) /\ tmp'.kind # "half"
    BY <2>1, <2>2, <2>4, StoredInv
  <2>5. CASE \/ tmp' = Whole(Rendered) /\ tick' = "remove"
             \/ /\ \E i \in DOMAIN entries : \E s \in CutAt(i) : tmp' = Short(s)
                /\ tick' = "remove"
    <3>1. tmp' \in Stored /\ Small(tmp'.pairs) /\ tmp'.kind # "half" /\ tick' = "remove"
      BY <2>3, <2>5, WrittenFits
    <3> QED  BY <2>4, <3>1
  <2>6. CASE tmp' = NoFile /\ tick' = "idle"
    <3>1. tmp' \in Stored /\ Small(tmp'.pairs)
      BY <2>6, FilesFit
    <3>2. tick' \in {"idle", "store", "write", "remove", "rename"} /\ tick' \notin {"remove", "rename"}
      BY <2>6
    <3> QED  BY <2>1, <2>2, <3>1, <3>2, StoredInv
  <2> QED  BY <1>3, <2>1, <2>5, <2>6 DEF StoreWrite
<1>4. CASE StoreRemove
  <2>1. JobInv' /\ LinkInv'
    BY <1>4, JobFrame, LinkFrame DEF StoreRemove
  <2>2. DiskInv'
    BY <1>4, NothingSmall DEF StoreRemove, DiskInv, PresentHeld, job, fcAll, Stored, NoFile
  <2> QED  BY <2>1, <2>2
<1>5. CASE StoreRename
  <2>1. JobInv' /\ LinkInv'
    BY <1>5, JobFrame, LinkFrame DEF StoreRename
  <2>2. tmp.kind # "half"
    BY <1>5 DEF StoreRename, DiskInv
  <2>3. DiskInv'
    <3>1. UNCHANGED <<job, req, fcAll>> /\ tick' = "idle"
          /\ file' \in {tmp, file} /\ tmp' = NoFile
      BY <1>5 DEF StoreRename, disk
    <3>2. file' \in Stored /\ Small(file'.pairs) /\ file'.kind # "half"
      BY <2>2, <3>1 DEF DiskInv
    <3>3. tmp' \in Stored /\ Small(tmp'.pairs)
      BY <3>1, FilesFit
    <3> QED  BY <3>1, <3>2, <3>3, StoredInv
  <2> QED  BY <2>1, <2>3
<1> QED  BY <1>1, <1>2, <1>3, <1>4, <1>5 DEF TickStep

LEMMA TickDumpInv == ASSUME ParamsInv, TickDump PROVE ParamsInv'
<1> USE DEF ParamsInv
<1>1. /\ state = "dumping" /\ stalls' = stalls + 1 /\ stalls' \in 0 .. StallLimit + 1
      /\ \/ state' = "failed"
         \/ UNCHANGED state /\ stalls' <= StallLimit
      /\ UNCHANGED <<entries, count, expected, index, written, retries, failed, pending>>
  BY ParamsAssumption DEF TickDump, JobInv
<1>2. JobInv'
  BY <1>1 DEF JobInv, PresentSet
<1>3. LinkInv'
  <2>1. UNCHANGED <<fc, fromFc, held>>
    BY DEF TickDump
  <2>2. CASE UNCHANGED toFc
    BY <2>1, <2>2, LinkFrame DEF fcAll
  <2>3. CASE Send([op |-> "list"])
    BY <2>1, <2>3, SendInv DEF Asked
  <2>4. ASSUME NEW i \in Holes, Send([op |-> "read", id |-> i])  PROVE LinkInv'
    <3>1. i \in Ids
      BY ParamsAssumption DEF Holes, Ids, JobInv
    <3> QED  BY <2>1, <2>4, <3>1, SendInv DEF Asked
  <2> QED  BY <2>2, <2>3, <2>4 DEF TickDump
<1>4. DiskInv'
  BY <1>1, DiskFrame DEF TickDump, DiskInv, PresentHeld
<1> QED  BY <1>2, <1>3, <1>4

LEMMA TickLoadInv == ASSUME ParamsInv, TickLoad PROVE ParamsInv'
<1> USE DEF ParamsInv
<1>1. /\ state = "loading" /\ index \in DOMAIN entries /\ entries[index].id \in Ids
      /\ entries \in Seq(Entry) /\ written \in Nat /\ failed \in Seq(Ids)
      /\ UNCHANGED <<entries, count, expected, written, stalls, pending>>
  BY DEF TickLoad, JobInv
<1>2. JobInv'
  <2>1. CASE RecordFailure(entries[index].id) /\ Advance
    BY <1>1, <2>1, RecordFailureInv, AdvanceInv
  <2>2. CASE retries < RetryLimit /\ retries' = retries + 1 /\ UNCHANGED <<index, state, failed>>
    BY <1>1, <2>2, ParamsAssumption DEF JobInv, PresentSet
  <2>3. retries >= RetryLimit \/ retries < RetryLimit
    BY ParamsAssumption DEF JobInv
  <2> QED  BY <2>1, <2>2, <2>3 DEF TickLoad
<1>3. LinkInv'
  <2>1. UNCHANGED <<fc, fromFc, held>>
    BY DEF TickLoad
  <2>2. CASE UNCHANGED toFc
    BY <2>1, <2>2, LinkFrame DEF fcAll
  <2>3. CASE /\ ~(index' > count)
             /\ Send([op |-> "set", id |-> entries[index'].id, value |-> entries[index'].value])
    <3>1. index' \in DOMAIN entries
      BY <1>1, <1>2, <2>3 DEF JobInv
    <3>2. entries[index'].id \in Ids /\ entries[index'].value \in Values
      BY <1>1, <3>1 DEF JobInv
    <3> QED  BY <2>1, <2>3, <3>2, SendInv DEF Asked
  <2> QED  BY <2>2, <2>3 DEF TickLoad
<1>4. DiskInv'
  BY <1>1, DiskFrame DEF TickLoad, DiskInv, PresentHeld
<1> QED  BY <1>2, <1>3, <1>4

-----------------------------------------------------------------------------
(* The flight controller, the link, another station.                       *)

LEMMA AnswerInv ==
  ASSUME LinkInv, held \subseteq held', NEW seq \in Seq(Answers), Answer(seq),
         \A k \in DOMAIN seq : [id |-> seq[k].id, value |-> seq[k].value] \in held'
  PROVE  /\ fromFc' \in Seq(Answers) /\ Len(fromFc') <= MaxQueue
         /\ \A k \in DOMAIN fromFc' : [id |-> fromFc'[k].id, value |-> fromFc'[k].value] \in held'
<1>1. fromFc \in Seq(Answers) /\ fromFc' = fromFc \o seq
  BY DEF LinkInv, Answer
<1>2. fromFc' \in Seq(Answers) /\ Len(fromFc') <= MaxQueue
  BY <1>1 DEF Answer
<1>3. ASSUME NEW k \in DOMAIN fromFc'
      PROVE  [id |-> fromFc'[k].id, value |-> fromFc'[k].value] \in held'
  <2>1. CASE k \in DOMAIN fromFc
    <3>1. fromFc'[k] = fromFc[k]  BY <1>1, <2>1
    <3> QED  BY <2>1, <3>1 DEF LinkInv
  <2>2. CASE k \notin DOMAIN fromFc
    <3>1. k - Len(fromFc) \in DOMAIN seq /\ fromFc'[k] = seq[k - Len(fromFc)]
      BY <1>1, <1>3, <2>2
    <3> QED  BY <3>1
  <2> QED  BY <2>1, <2>2
<1> QED  BY <1>2, <1>3

LEMMA AnswerOneInv ==
  ASSUME LinkInv, held \subseteq held', NEW a \in Answers, Answer(<<a>>),
         [id |-> a.id, value |-> a.value] \in held'
  PROVE  /\ fromFc' \in Seq(Answers) /\ Len(fromFc') <= MaxQueue
         /\ \A k \in DOMAIN fromFc' : [id |-> fromFc'[k].id, value |-> fromFc'[k].value] \in held'
<1>1. <<a>> \in Seq(Answers) /\ DOMAIN <<a>> = {1} /\ <<a>>[1] = a
  OBVIOUS
<1>2. \A k \in DOMAIN <<a>> : [id |-> <<a>>[k].id, value |-> <<a>>[k].value] \in held'
  BY <1>1
<1> HIDE <1>1
<1> QED  BY <1>1, <1>2, AnswerInv

LEMMA AskedInv ==
  ASSUME LinkInv, toFc # <<>>
  PROVE  /\ Head(toFc) \in Asked
         /\ Tail(toFc) \in Seq(Asked) /\ Len(Tail(toFc)) <= MaxOut
<1>1. toFc \in Seq(Asked) /\ Len(toFc) <= MaxOut  BY DEF LinkInv
<1> QED  BY <1>1, ParamsAssumption

(* Only what the flight controller accepts comes to be held.               *)
LEMMA SetInv ==
  ASSUME LinkInv, NEW i \in Ids, NEW v \in Values,
         fc' = IF [id |-> i, value |-> v] \in Accepts THEN [fc EXCEPT ![i] = v] ELSE fc,
         held' = held \cup { [id |-> i, value |-> fc'[i]] }
  PROVE  /\ fc' \in Settings /\ held' \subseteq Pairs
         /\ \A j \in Ids : Holds(j)' \in held'
         /\ fc'[i] \in Values
<1>1. fc \in [Ids -> Values] /\ \A j \in Ids : [id |-> j, value |-> fc[j]] \in Accepts
  BY DEF LinkInv, Settings
<1>2. fc' \in [Ids -> Values] /\ \A j \in Ids : fc'[j] = fc[j] \/ (j = i /\ fc'[j] = v)
  BY <1>1
<1>3. fc' \in Settings
  BY <1>1, <1>2 DEF Settings
<1>4. held' \subseteq Pairs
  BY <1>2 DEF LinkInv, Pairs
<1>5. \A j \in Ids : Holds(j)' \in held'
  BY <1>1, <1>2 DEF LinkInv, Holds
<1> QED  BY <1>2, <1>3, <1>4, <1>5

LEMMA FcAnswersInv == ASSUME ParamsInv, FcAnswers PROVE ParamsInv'
<1> USE DEF ParamsInv
<1> DEFINE m == Head(toFc)
<1>1. m \in Asked /\ toFc' \in Seq(Asked) /\ Len(toFc') <= MaxOut
  BY AskedInv DEF FcAnswers
<1>2. /\ fc' \in Settings /\ held' \subseteq Pairs /\ held \subseteq held'
      /\ \A j \in Ids : Holds(j)' \in held'
      /\ fromFc' \in Seq(Answers) /\ Len(fromFc') <= MaxQueue
      /\ \A k \in DOMAIN fromFc' : [id |-> fromFc'[k].id, value |-> fromFc'[k].value] \in held'
  <2>1. CASE m.op = "list" /\ Answer([i \in Ids |-> Value(i, i)]) /\ UNCHANGED <<fc, held>>
    <3>1. [i \in Ids |-> Value(i, i)] \in Seq(Answers)
      BY ParamsAssumption DEF Ids, Value, Answers, LinkInv, Settings
    <3>2. \A i \in Ids : [id |-> Value(i, i).id, value |-> Value(i, i).value] \in held
      BY DEF LinkInv, Holds, Value
    <3>3. \A i \in Ids : Holds(i)' \in held'
      BY <2>1 DEF LinkInv, Holds
    <3> QED  BY <2>1, <3>1, <3>2, <3>3, AnswerInv DEF LinkInv
  <2>2. CASE m.op = "read" /\ Answer(<< Value(m.id, m.id) >>) /\ UNCHANGED <<fc, held>>
    <3>1. m.id \in Ids
      BY <1>1, <2>2 DEF Asked
    <3>2. Value(m.id, m.id) \in Answers
      BY <3>1 DEF Value, Answers, LinkInv, Settings
    <3>3. [id |-> Value(m.id, m.id).id, value |-> Value(m.id, m.id).value] \in held
      BY <3>1 DEF LinkInv, Holds, Value
    <3>4. \A i \in Ids : Holds(i)' \in held'
      BY <2>2 DEF LinkInv, Holds
    <3> QED  BY <2>2, <3>2, <3>3, <3>4, AnswerOneInv DEF LinkInv
  <2>3. CASE /\ m.op = "set"
             /\ fc' = IF [id |-> m.id, value |-> m.value] \in Accepts
                        THEN [fc EXCEPT ![m.id] = m.value] ELSE fc
             /\ held' = held \cup { [id |-> m.id, value |-> fc'[m.id]] }
             /\ Answer(<< [Value(m.id, 0) EXCEPT !.value = fc'[m.id]] >>)
    <3> DEFINE a == [Value(m.id, 0) EXCEPT !.value = fc'[m.id]]
    <3>1. m.id \in Ids /\ m.value \in Values
      BY <1>1, <2>3 DEF Asked
    <3>2. /\ fc' \in Settings /\ held' \subseteq Pairs
          /\ \A j \in Ids : Holds(j)' \in held'
          /\ fc'[m.id] \in Values
      BY <2>3, <3>1, SetInv
    <3>3. a \in Answers /\ a.id = m.id /\ a.value = fc'[m.id]
      BY <3>1, <3>2 DEF Value, Answers
    <3>4. [id |-> a.id, value |-> a.value] \in held' /\ Answer(<<a>>) /\ held \subseteq held'
      BY <2>3, <3>3
    <3> HIDE DEF a
    <3> QED  BY <2>3, <3>2, <3>3, <3>4, AnswerOneInv
  <2> QED  BY <2>1, <2>2, <2>3 DEF FcAnswers
<1>3. LinkInv'
  BY <1>1, <1>2 DEF LinkInv
<1>4. JobInv'
  BY JobFrame DEF FcAnswers
<1>5. DiskInv'
  BY <1>2, DiskFrame DEF FcAnswers, DiskInv, PresentHeld, job
<1> QED  BY <1>3, <1>4, <1>5

LEMMA LinkLosesInv == ASSUME ParamsInv, LinkLoses PROVE ParamsInv'
<1> USE DEF ParamsInv
<1>1. JobInv'
  BY JobFrame DEF LinkLoses
<1>2. DiskInv'
  BY DiskFrame DEF LinkLoses, DiskInv, PresentHeld, job
<1>3. UNCHANGED <<fc, held>>
  BY DEF LinkLoses
<1>4. CASE toFc # <<>> /\ toFc' = Tail(toFc) /\ UNCHANGED fromFc
  <2>1. LinkInv'
    BY <1>3, <1>4, AskedInv DEF LinkInv, Holds
  <2> QED  BY <1>1, <1>2, <2>1
<1>5. CASE fromFc # <<>> /\ fromFc' = Tail(fromFc) /\ UNCHANGED toFc
  <2>1. fromFc \in Seq(Answers) /\ Len(fromFc) <= MaxQueue
    BY DEF LinkInv
  <2>2. /\ fromFc' \in Seq(Answers) /\ Len(fromFc') <= MaxQueue
        /\ \A k \in DOMAIN fromFc' : k + 1 \in DOMAIN fromFc /\ fromFc'[k] = fromFc[k + 1]
    BY <1>5, <2>1, ParamsAssumption
  <2>3. LinkInv'
    BY <1>3, <1>5, <2>2 DEF LinkInv, Holds
  <2> QED  BY <1>1, <1>2, <2>3
<1> QED  BY <1>1, <1>2, <1>4, <1>5 DEF LinkLoses

LEMMA StationActsInv == ASSUME ParamsInv, StationActs PROVE ParamsInv'
<1> USE DEF ParamsInv
<1>1. PICK i \in Ids :
        \/ \E v \in Values :
             /\ [id |-> i, value |-> v] \in Accepts
             /\ fc' = [fc EXCEPT ![i] = v]
             /\ held' = held \cup { [id |-> i, value |-> v] }
             /\ Answer(<< [Value(i, 0) EXCEPT !.value = v] >>)
        \/ Answer(<< Value(i, i) >>) /\ UNCHANGED <<fc, held>>
  BY DEF StationActs
<1>2. fc \in [Ids -> Values]
  BY DEF LinkInv, Settings
<1> DEFINE Kept ==
      /\ fc' \in Settings /\ held' \subseteq Pairs /\ held \subseteq held'
      /\ \A j \in Ids : Holds(j)' \in held'
      /\ fromFc' \in Seq(Answers) /\ Len(fromFc') <= MaxQueue
      /\ \A k \in DOMAIN fromFc' : [id |-> fromFc'[k].id, value |-> fromFc'[k].value] \in held'
<1>3. Kept
  <2>1. ASSUME NEW v \in Values, [id |-> i, value |-> v] \in Accepts,
               fc' = [fc EXCEPT ![i] = v],
               held' = held \cup { [id |-> i, value |-> v] },
               Answer(<< [Value(i, 0) EXCEPT !.value = v] >>)
        PROVE  Kept
    <3> DEFINE a == [Value(i, 0) EXCEPT !.value = v]
    <3>1. fc'[i] = v
      BY <1>2, <2>1
    <3>2. /\ fc' \in Settings /\ held' \subseteq Pairs
          /\ \A j \in Ids : Holds(j)' \in held'
      BY <2>1, <3>1, SetInv
    <3>3. a \in Answers /\ a.id = i /\ a.value = v
      BY DEF Value, Answers
    <3>4. [id |-> a.id, value |-> a.value] \in held' /\ Answer(<<a>>) /\ held \subseteq held'
      BY <2>1, <3>3
    <3> HIDE DEF a
    <3> QED  BY <2>1, <3>2, <3>3, <3>4, AnswerOneInv
  <2>2. CASE Answer(<< Value(i, i) >>) /\ UNCHANGED <<fc, held>>
    <3>1. Value(i, i) \in Answers /\ [id |-> Value(i, i).id, value |-> Value(i, i).value] \in held
      BY <1>2 DEF Value, Answers, LinkInv, Holds
    <3>2. \A j \in Ids : Holds(j)' \in held'
      BY <2>2 DEF LinkInv, Holds
    <3> QED  BY <2>2, <3>1, <3>2, AnswerOneInv DEF LinkInv
  <2> QED  BY <1>1, <2>1, <2>2
<1>4. LinkInv'
  BY <1>3 DEF StationActs, LinkInv
<1>5. JobInv'
  BY JobFrame DEF StationActs
<1>6. DiskInv'
  BY <1>3, DiskFrame DEF StationActs, DiskInv, PresentHeld, job
<1> QED  BY <1>4, <1>5, <1>6

LEMMA PowerCutInv == ASSUME ParamsInv, PowerCut PROVE ParamsInv'
<1> USE DEF ParamsInv
<1>1. entries' \in Seq(Entry) /\ Len(entries') = 0 /\ state' = "idle" /\ count' = 0 /\ FreeAll
  BY NoneLeft DEF PowerCut
<1>2. JobInv'
  BY <1>1, FreshCounters, ParamsAssumption DEF JobInv
<1>3. LinkInv'
  BY ParamsAssumption DEF PowerCut, LinkInv, Holds
<1>4. DiskInv'
  BY ParamsAssumption, NothingSmall DEF PowerCut, DiskInv, PresentHeld, Stored, NoFile
<1> QED  BY <1>2, <1>3, <1>4

-----------------------------------------------------------------------------
LEMMA ParamsStepInv == ParamsInv /\ [ParamsNext]_paramsVars => ParamsInv'
<1> SUFFICES ASSUME ParamsInv, [ParamsNext]_paramsVars PROVE ParamsInv'  OBVIOUS
<1>1. CASE WebStep
  BY <1>1, StartDumpInv, StartLoadInv, RestoreReadInv, RestoreLoadInv, DeleteStoredInv DEF WebStep
<1>2. CASE OnParamValue  BY <1>2, OnParamValueInv
<1>3. CASE TickStep  BY <1>3, TickStepInv
<1>4. CASE TimedOut  BY <1>4, TickDumpInv, TickLoadInv DEF TimedOut
<1>5. CASE FcAnswers  BY <1>5, FcAnswersInv
<1>6. CASE LinkLoses  BY <1>6, LinkLosesInv
<1>7. CASE StationActs  BY <1>7, StationActsInv
<1>8. CASE PowerCut  BY <1>8, PowerCutInv
<1>9. CASE UNCHANGED paramsVars
  BY <1>9, JobFrame, LinkFrame, DiskFrame
     DEF ParamsInv, paramsVars, DiskInv, PresentHeld, job, fcAll
<1> QED  BY <1>1, <1>2, <1>3, <1>4, <1>5, <1>6, <1>7, <1>8, <1>9 DEF ParamsNext

LEMMA ParamsInvariant == ParamsSpec => []ParamsInv
  BY ParamsInitInv, ParamsStepInv, PTL DEF ParamsSpec

-----------------------------------------------------------------------------
(* Every entry of a load is counted once.                                  *)

LEMMA LoadFacts ==
  ASSUME JobInv, state = "loading"
  PROVE  /\ index \in DOMAIN entries /\ DOMAIN entries = 1 .. Len(entries) /\ Len(entries) \in Nat
         /\ count = Len(entries) /\ index \in Nat /\ entries \in Seq(Entry)
         /\ written \in Nat /\ failed \in Seq(Ids) /\ Len(failed) \in Nat
         /\ DOMAIN failed = 1 .. Len(failed)
         /\ written + Len(failed) < index /\ entries[index].id \in Ids
  BY DEF JobInv

LEMMA CountedFrame ==
  ASSUME CountedOnce, UNCHANGED <<state, entries, index, written, failed>>
  PROVE  CountedOnce'
  BY DEF CountedOnce, Passed

(* A job starts with nothing counted, and a dump counts nothing.           *)
LEMMA CountedFresh ==
  ASSUME FreeAll, \A i \in DOMAIN entries' : ~entries'[i].present
  PROVE  CountedOnce'
<1>1. written' = 0 /\ failed' = <<>> /\ DOMAIN failed' = {}
  BY DEF FreeAll
<1>2. { i \in DOMAIN entries' : entries'[i].present } = {}
  OBVIOUS
<1>3. \E of \in [DOMAIN failed' -> Passed'] : TRUE
  <2> DEFINE none == [k \in {} |-> 0]
  <2>1. none \in [DOMAIN failed' -> Passed']
    BY <1>1
  <2> QED  BY <2>1
<1> QED  BY <1>1, <1>2, <1>3, FS_EmptySet DEF CountedOnce

LEMMA CountedNone ==
  ASSUME state' # "loading", index' = 1
  PROVE  CountedOnce'
  BY DEF CountedOnce

LEMMA CountedLoad ==
  ASSUME NEW list \in Seq(Pairs), Load(list)
  PROVE  CountedOnce'
<1>1. CASE NoMemory
  BY <1>1, CountedFresh DEF Load, NoMemory
<1>2. CASE entries' = [i \in DOMAIN list |->
                        [id |-> list[i].id, value |-> list[i].value, present |-> FALSE]]
  BY <1>2, CountedFresh DEF Load
<1> QED  BY <1>1, <1>2 DEF Load

(* The entry in hand is passed by, and its name is lost ...                *)
LEMMA CountedLost ==
  ASSUME JobInv, CountedOnce, state = "loading", index' = index + 1, UNCHANGED <<entries, written, failed>>
  PROVE  CountedOnce'
<1>1. \A i \in DOMAIN entries : i \in Nat  BY LoadFacts
<1>2. Passed \subseteq Passed'
  BY <1>1, LoadFacts DEF Passed
<1>3. PICK of \in [DOMAIN failed -> Passed] :
        /\ \A j, k \in DOMAIN failed : j < k => of[j] < of[k]
        /\ \A k \in DOMAIN failed : failed[k] = entries[of[k]].id
  BY DEF CountedOnce
<1>4. of \in [DOMAIN failed' -> Passed']
  BY <1>2, <1>3
<1>5. \A i \in DOMAIN entries' : entries'[i].present => i < index'
  BY <1>1, LoadFacts DEF CountedOnce
<1> QED  BY <1>3, <1>4, <1>5 DEF CountedOnce

(* ... or noted after those of the entries before it ...                   *)
LEMMA CountedNoted ==
  ASSUME JobInv, CountedOnce, state = "loading", index' = index + 1, UNCHANGED <<entries, written>>,
         failed' = Append(failed, entries[index].id)
  PROVE  CountedOnce'
<1>1. \A i \in DOMAIN entries : i \in Nat  BY LoadFacts
<1>2. Passed \subseteq Passed' /\ index \in Passed' /\ \A i \in Passed : i < index
  BY <1>1, LoadFacts DEF Passed, CountedOnce
<1>3. PICK of \in [DOMAIN failed -> Passed] :
        /\ \A j, k \in DOMAIN failed : j < k => of[j] < of[k]
        /\ \A k \in DOMAIN failed : failed[k] = entries[of[k]].id
  BY DEF CountedOnce
<1>4. /\ DOMAIN failed' = 1 .. Len(failed) + 1 /\ DOMAIN failed = 1 .. Len(failed) /\ Len(failed) \in Nat
      /\ failed'[Len(failed) + 1] = entries[index].id
      /\ \A k \in DOMAIN failed : failed'[k] = failed[k]
  BY LoadFacts
<1> DEFINE next == [k \in DOMAIN failed' |-> IF k \in DOMAIN failed THEN of[k] ELSE index]
<1>5. next \in [DOMAIN failed' -> Passed']
  BY <1>2, <1>3
<1>6. \A j, k \in DOMAIN failed' : j < k => next[j] < next[k]
  BY <1>2, <1>3, <1>4
<1>7. \A k \in DOMAIN failed' : failed'[k] = entries'[next[k]].id
  BY <1>3, <1>4
<1>8. \A i \in DOMAIN entries' : entries'[i].present => i < index'
  BY <1>1, LoadFacts DEF CountedOnce
<1> HIDE DEF next
<1> QED  BY <1>5, <1>6, <1>7, <1>8 DEF CountedOnce

(* ... or it was echoed.                                                   *)
LEMMA CountedEchoed ==
  ASSUME JobInv, CountedOnce, state = "loading", index' = index + 1, UNCHANGED failed,
         entries' = [entries EXCEPT ![index].present = TRUE], written' = written + 1
  PROVE  CountedOnce'
<1>1. \A i \in DOMAIN entries : i \in Nat /\ entries[i] \in Entry  BY LoadFacts
<1>2. /\ DOMAIN entries' = DOMAIN entries
      /\ \A i \in DOMAIN entries : i # index => entries'[i] = entries[i]
      /\ entries'[index].present
  BY <1>1, LoadFacts DEF Entry
<1>3. \A i \in DOMAIN entries : entries[i].present => i < index
  BY DEF CountedOnce
<1>4. Passed \subseteq Passed' /\ \A i \in Passed : entries'[i] = entries[i]
  BY <1>1, <1>2, LoadFacts DEF Passed
<1>5. PICK of \in [DOMAIN failed -> Passed] :
        /\ \A j, k \in DOMAIN failed : j < k => of[j] < of[k]
        /\ \A k \in DOMAIN failed : failed[k] = entries[of[k]].id
  BY DEF CountedOnce
<1>6. of \in [DOMAIN failed' -> Passed'] /\ \A k \in DOMAIN failed : failed'[k] = entries'[of[k]].id
  BY <1>4, <1>5
<1>7. \A i \in DOMAIN entries' : entries'[i].present => i < index'
  BY <1>1, <1>2, <1>3, LoadFacts
<1>8. written' = Cardinality(PresentSet')
  <2>1. PresentSet' = PresentSet \cup {index} /\ index \notin PresentSet
    BY <1>1, <1>2, <1>3, LoadFacts DEF PresentSet
  <2>2. IsFiniteSet(PresentSet)
    BY PresentFinite, LoadFacts DEF PresentSet
  <2>3. written = Cardinality(PresentSet)
    BY DEF CountedOnce, PresentSet
  <2> QED  BY <2>1, <2>2, <2>3, FS_AddElement
<1> QED  BY <1>5, <1>6, <1>7, <1>8 DEF CountedOnce, PresentSet

LEMMA CountedStep ==
  ASSUME ParamsInv, CountedOnce, [ParamsNext]_paramsVars
  PROVE  CountedOnce'
<1>0. JobInv  BY DEF ParamsInv
<1>1. CASE StartDump
  <2>1. index' = 1 /\ state' # "loading"
    BY <1>1 DEF StartDump, NoMemory, FreeAll
  <2> QED  BY <2>1, CountedNone
<1>2. CASE StartLoad
  BY <1>2, CountedLoad, ParamsAssumption DEF StartLoad
<1>3. CASE RestoreLoad
  <2>1. req \in Seq(Pairs)  BY DEF ParamsInv, DiskInv
  <2> QED  BY <1>3, <2>1, CountedLoad, CountedFrame DEF RestoreLoad, job
<1>4. CASE OnParamValue
  <2> DEFINE m == Head(fromFc)
  <2>1. CASE DumpValue(m)
    <3>1. index' = 1 /\ state' # "loading"
      BY <1>0, <2>1 DEF DumpValue, JobInv
    <3> QED  BY <3>1, CountedNone
  <2>2. CASE LoadValue(m)
    <3>1. state = "loading" /\ index' = index + 1 /\ m.id = entries[index].id
      BY <2>2 DEF LoadValue, Advance
    <3> QED  BY <1>0, <2>2, <3>1, CountedLost, CountedNoted, CountedEchoed DEF LoadValue, RecordFailure
  <2>3. CASE Ignored(m)
    BY <2>3, CountedFrame DEF Ignored, job
  <2> QED  BY <1>4, <2>1, <2>2, <2>3 DEF OnParamValue
<1>5. CASE TickDump
  <2>1. index' = 1 /\ state' # "loading"
    BY <1>0, <1>5 DEF TickDump, JobInv
  <2> QED  BY <2>1, CountedNone
<1>6. CASE TickLoad
  <2>1. CASE UNCHANGED <<index, state, failed>>
    BY <1>6, <2>1, CountedFrame DEF TickLoad
  <2>2. CASE RecordFailure(entries[index].id) /\ Advance
    BY <1>0, <1>6, <2>2, CountedLost, CountedNoted DEF TickLoad, RecordFailure, Advance
  <2> QED  BY <1>6, <2>1, <2>2 DEF TickLoad
<1>7. CASE PowerCut
  <2>1. index' = 1 /\ state' # "loading"
    BY <1>7 DEF PowerCut, FreeAll
  <2> QED  BY <2>1, CountedNone
<1>8. CASE \/ TickStep \/ RestoreRead \/ DeleteStored \/ FcAnswers \/ LinkLoses \/ StationActs
           \/ UNCHANGED paramsVars
  BY <1>8, CountedFrame
     DEF TickStep, TickTake, StoreOpen, StoreWrite, StoreRemove, StoreRename,
         RestoreRead, DeleteStored, FcAnswers, LinkLoses, StationActs, paramsVars, job
<1> QED
  BY <1>1, <1>2, <1>3, <1>4, <1>5, <1>6, <1>7, <1>8 DEF ParamsNext, WebStep, TimedOut

-----------------------------------------------------------------------------
(* The types of the job, the link and the files (db_fc_params.c).          *)
THEOREM ParamsTypeCorrect == ParamsSpec => []ParamsTypeOK
<1>1. ParamsInv => ParamsTypeOK
  <2> SUFFICES ASSUME ParamsInv PROVE ParamsTypeOK  OBVIOUS
  <2>1. \A i \in DOMAIN entries : entries[i] \in Entry
    BY DEF ParamsInv, JobInv
  <2>2. expected <= Capacity /\ index \in 1 .. Len(entries) + 1 /\ written <= count
    BY ParamsAssumption DEF ParamsInv, JobInv
  <2> QED  BY <2>1, <2>2, ParamsAssumption DEF ParamsInv, JobInv, LinkInv, DiskInv, ParamsTypeOK, Entry
<1> QED  BY <1>1, ParamsInvariant, PTL

(* "Reported as failed rather than silently assumed good": what counts as  *)
(* written was stored by the flight controller, however many parameters    *)
(* there are and whatever is lost, late or refused.                        *)
THEOREM WrittenWasAlwaysStored == ParamsSpec => []WrittenWasStored
<1>1. ParamsInv => WrittenWasStored
  BY DEF ParamsInv, DiskInv, PresentHeld, WrittenWasStored
<1> QED  BY <1>1, ParamsInvariant, PTL

(* Every entry of a load is counted at most once and in its turn: what is  *)
(* written is what was echoed, and the names of failures are those of      *)
(* different entries passed by, in order, however retries, timeouts and    *)
(* late echoes meet.                                                       *)
THEOREM AlwaysCountedOnce == ParamsSpec => []CountedOnce
<1>1. ParamsInit => CountedOnce
  BY DEF ParamsInit, CountedOnce
<1>2. ParamsInv /\ CountedOnce /\ [ParamsNext]_paramsVars => CountedOnce'
  BY CountedStep
<1> QED  BY <1>1, <1>2, ParamsInvariant, PTL DEF ParamsSpec

(* Neither a power cut nor a line that could not be written ever leaves an *)
(* unfinished file as the backup.  (One that lost its end in a failing     *)
(* fclose may become the backup.)                                          *)
THEOREM BackupNeverHalf == ParamsSpec => []NeverHalf
<1>1. ParamsInv => NeverHalf
  BY DEF ParamsInv, DiskInv, NeverHalf
<1> QED  BY <1>1, ParamsInvariant, PTL

(* Nothing that the flight controller never held gets into the backup, but *)
(* for the last line of one that lost its end in a failing fclose.         *)
THEOREM BackupAlwaysWasStored == ParamsSpec => []BackupWasStored
<1>1. ParamsInv => BackupWasStored
  BY DEF ParamsInv, DiskInv, Stored, BackupWasStored
<1> QED  BY <1>1, ParamsInvariant, PTL
=============================================================================
