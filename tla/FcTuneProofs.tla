---------------------------- MODULE FcTuneProofs ----------------------------
(***************************************************************************)
(* Tuning beside the parameter job: what FcParamsProofs shows of the job   *)
(* still holds when the tuning asks for values and starts loads of its     *)
(* own; and what the tuning reports as applied is what was echoed.         *)
(*                                                                         *)
(* NamedInv relates the job's list of failures to its table: every name in *)
(* the list is one of an entry that was passed by without an echo, and if  *)
(* no name was lost, all such entries are in it.                           *)
(***************************************************************************)
EXTENDS FcTune, FcParamsProofs

Result == [id: BaseIds, value: Values, applied: BOOLEAN]

TuneTypes ==
  /\ tune \in {"idle", "baseline", "steering", "speed", "ready", "writing", "complete", "failed"}
  /\ axes \subseteq Axes
  /\ base \subseteq Pairs
  /\ results \in Seq(Result) /\ Len(results) <= MaxResults
  /\ hand \in Seq(Pairs) /\ Len(hand) <= Capacity

(* The publish task holds the tuning's mutex only while it marks results,  *)
(* and what is handed over is handed over by a tuning that writes.         *)
TuneOrder ==
  /\ look => tune = "writing"
  /\ hand # <<>> => tune \in {"writing", "complete", "failed"}

TuneInv == TuneTypes /\ TuneOrder

(* The tuning's own steps, and those that leave it alone.                  *)
JobStep == ParamsNext \/ TuneAsks \/ TuneHandOver \/ UNCHANGED paramsVars

-----------------------------------------------------------------------------
(* The job, the link and the backup.                                       *)

LEMMA TuneAsksInv == ASSUME ParamsInv, TuneAsks PROVE ParamsInv'
<1> USE DEF ParamsInv
<1>1. PICK s \in Asks :
        LET all == toFc \o [i \in DOMAIN s |-> [op |-> "read", id |-> s[i]]] IN
        toFc' = IF Len(all) <= MaxOut THEN all
                ELSE SubSeq(all, 1, IF Len(toFc) > MaxOut THEN Len(toFc) ELSE MaxOut)
  BY DEF TuneAsks
<1> DEFINE reads == [i \in DOMAIN s |-> [op |-> "read", id |-> s[i]]]
           all   == toFc \o reads
<1>2. Cardinality(Missing) \in Nat /\ Missing \subseteq Ids
  <2>1. Missing \subseteq Ids  BY TuneAssumption DEF Missing
  <2>2. IsFiniteSet(Ids)
    <3>1. 1 \in Int /\ FcCount \in Int  BY ParamsAssumption
    <3> QED  BY <3>1, FS_Interval DEF Ids
  <2> QED  BY <2>1, <2>2, FS_Subset, FS_CardinalityType
<1>3. DOMAIN s = 1 .. Cardinality(Missing) /\ \A i \in DOMAIN s : s[i] \in Ids
  BY <1>2 DEF Asks
<1>4. reads \in Seq(Asked)
  <2>1. reads \in [1 .. Cardinality(Missing) -> Asked]
    BY <1>3 DEF Asked
  <2> QED  BY <1>2, <2>1
<1>5. all \in Seq(Asked) /\ toFc \in Seq(Asked) /\ Len(toFc) <= MaxOut /\ MaxOut \in Nat
      /\ toFc' = IF Len(all) <= MaxOut THEN all ELSE SubSeq(all, 1, MaxOut)
  BY <1>1, <1>4, ParamsAssumption DEF LinkInv
<1> HIDE DEF all
<1>6. toFc' \in Seq(Asked) /\ Len(toFc') <= MaxOut
  BY <1>5
<1>7. LinkInv'
  BY <1>6 DEF TuneAsks, LinkInv, Holds
<1>8. JobInv'
  BY JobFrame DEF TuneAsks
<1>9. DiskInv'
  BY DiskFrame DEF TuneAsks, DiskInv, PresentHeld, job
<1> QED  BY <1>7, <1>8, <1>9

LEMMA TuneHandOverInv == ASSUME ParamsInv, TuneInv, TuneHandOver PROVE ParamsInv'
<1> USE DEF ParamsInv
<1>1. JobInv' /\ PresentHeld'
  <2>1. CASE UNCHANGED job
    BY <2>1, JobFrame DEF DiskInv, PresentHeld, job, TuneHandOver, fcAll
  <2>2. CASE Load(hand)
    <3>1. hand \in Seq(Pairs) /\ Len(hand) \in 1 .. Capacity
      BY ParamsAssumption DEF TuneHandOver, TuneInv, TuneTypes
    <3> QED  BY <2>2, <3>1, LoadInv
  <2> QED  BY <2>1, <2>2 DEF TuneHandOver
<1>2. LinkInv'  BY LinkFrame DEF TuneHandOver
<1>3. DiskInv'  BY <1>1, DiskFrame DEF TuneHandOver, fcAll
<1> QED  BY <1>1, <1>2, <1>3

LEMMA JobStepInv == ASSUME ParamsInv, TuneInv, JobStep PROVE ParamsInv'
  BY ParamsStepInv, TuneAsksInv, TuneHandOverInv DEF JobStep

(* A step of the tuning is a step of the job, or leaves it alone.          *)
LEMMA TuneStepsJob == ASSUME [TuneNext]_tuneVars PROVE JobStep
<1>1. CASE \/ TuneStart \/ TuneApply \/ TuneAbort \/ TuneComputes \/ TuneTimesOut \/ TuneTick
  BY <1>1 DEF JobStep, TuneStart, TuneApply, TuneAbort, TuneComputes, TuneTimesOut, TuneTick,
              TuneBegins, TuneSees, TuneMarks
<1>2. CASE UNCHANGED tuneVars
  BY <1>2 DEF JobStep, tuneVars
<1>3. CASE TuneHandOver \/ TuneAsks
  BY <1>3 DEF JobStep
<1>4. CASE WebStep \/ OnParamValue \/ TickStep \/ TimedOut \/ FcAnswers \/ LinkLoses \/ StationActs \/ PowerCut
  BY <1>4 DEF JobStep, ParamsNext
<1> QED
  BY <1>1, <1>2, <1>3, <1>4 DEF TuneNext, TuneParamValue, TunePowerCut

-----------------------------------------------------------------------------
(* The tuning's own state.                                                 *)

LEMMA TuneInitInv == TuneInit => TuneInv
<1> SUFFICES ASSUME TuneInit PROVE TuneInv  OBVIOUS
<1>1. <<>> \in Seq(Result) /\ <<>> \in Seq(Pairs) /\ Len(<<>>) = 0  OBVIOUS
<1>2. TuneTypes
  BY <1>1, TuneAssumption, ParamsAssumption DEF TuneInit, TuneTypes
<1>3. TuneOrder
  BY DEF TuneInit, TuneOrder
<1> QED  BY <1>2, <1>3 DEF TuneInv

(* What is computed fits the table of results.                             *)
LEMMA ComputedFits ==
  ASSUME TuneTypes, tune \in Axes, NEW s \in Gains[tune]
  PROVE  /\ Fitting(results \o Results(s)) \in Seq(Result)
         /\ Len(Fitting(results \o Results(s))) <= MaxResults
<1>1. s \in Seq(Pairs) /\ \A i \in DOMAIN s : s[i].id \in BaseIds /\ s[i] \in Pairs
  BY TuneAssumption
<1>2. Results(s) \in Seq(Result)
  <2>1. DOMAIN s = 1 .. Len(s) /\ Len(s) \in Nat  BY <1>1
  <2>2. \A i \in DOMAIN s : [id |-> s[i].id, value |-> s[i].value, applied |-> FALSE] \in Result
    BY <1>1 DEF Result, Pairs
  <2>3. Results(s) \in [1 .. Len(s) -> Result]  BY <2>1, <2>2 DEF Results
  <2> QED  BY <2>1, <2>3
<1>3. results \o Results(s) \in Seq(Result) /\ MaxResults \in Nat
  BY <1>2, TuneAssumption, ParamsAssumption DEF TuneTypes
<1> QED  BY <1>3 DEF Fitting

LEMMA TuneTypesStep == ASSUME ParamsInv, TuneInv, [TuneNext]_tuneVars PROVE TuneTypes'
<1> USE DEF TuneInv, TuneTypes
<1>0. <<>> \in Seq(Result) /\ <<>> \in Seq(Pairs) /\ Len(<<>>) = 0 /\ Capacity \in Nat
      /\ MaxResults \in 1 .. Capacity
  BY TuneAssumption, ParamsAssumption
<1>1. CASE TuneStart
  BY <1>0, <1>1 DEF TuneStart
<1>2. CASE TuneApply
  <2>1. results \in Seq(Result) /\ Len(results) <= Capacity  BY <1>0
  <2>2. \A i \in DOMAIN results : AsPair(results[i]) \in Pairs
    <3>1. BaseIds \subseteq Ids  BY TuneAssumption
    <3>2. \A i \in DOMAIN results : results[i] \in Result  BY <2>1
    <3>3. \A r \in Result : AsPair(r) \in Pairs  BY <3>1 DEF AsPair, Pairs, Result
    <3> QED  BY <3>2, <3>3
  <2>3. hand' = [i \in DOMAIN results |-> AsPair(results[i])]  BY <1>2 DEF TuneApply
  <2>4. hand' \in Seq(Pairs) /\ Len(hand') <= Capacity  BY <2>1, <2>2, <2>3
  <2> QED  BY <1>2, <2>4 DEF TuneApply
<1>3. CASE TuneHandOver
  BY <1>0, <1>3 DEF TuneHandOver
<1>4. CASE TuneAbort
  BY <1>0, <1>4 DEF TuneAbort
<1>5. CASE TuneParamValue
  <2>1. Head(fromFc) \in Answers  BY <1>5, ArrivedInv DEF TuneParamValue
  <2>2. AsPair(Head(fromFc)) \in Pairs
    <3>1. fromFc \in Seq(Answers)  BY DEF ParamsInv, LinkInv
    <3>2. [id |-> Head(fromFc).id, value |-> Head(fromFc).value] \in held /\ held \subseteq Pairs
      BY <1>5, ArrivedInv DEF TuneParamValue, ParamsInv, LinkInv
    <3> QED  BY <3>2 DEF AsPair
  <2> QED  BY <1>5, <2>2 DEF TuneParamValue, BaselineValue
<1>6. CASE TuneAsks
  BY <1>6 DEF TuneAsks, tuneOwn
<1>7. CASE TuneComputes
  <2>1. results' \in Seq(Result) /\ Len(results') <= MaxResults
    BY <1>7, ComputedFits DEF TuneComputes
  <2>2. tune' \in {"speed", "ready"} /\ axes' \subseteq Axes /\ UNCHANGED <<base, hand>>
    BY <1>7 DEF TuneComputes
  <2> QED  BY <2>1, <2>2
<1>8. CASE TuneTimesOut
  BY <1>8 DEF TuneTimesOut
<1>9. CASE TuneBegins
  BY <1>9 DEF TuneBegins
<1>10. CASE TuneSees
  BY <1>10 DEF TuneSees
<1>11. CASE TuneMarks
  <2>1. results' = [i \in DOMAIN results |-> [results[i] EXCEPT !.applied = ~Named(results[i])]]
    BY <1>11 DEF TuneMarks
  <2>2. \A i \in DOMAIN results : results[i] \in Result  OBVIOUS
  <2>3. \A i \in DOMAIN results : [results[i] EXCEPT !.applied = ~Named(results[i])] \in Result
    BY <2>2 DEF Result, Named
  <2>4. results' \in Seq(Result) /\ Len(results') = Len(results)
    BY <2>1, <2>3
  <2> QED  BY <1>11, <2>4 DEF TuneMarks
<1>12. CASE TunePowerCut
  BY <1>0, <1>12 DEF TunePowerCut
<1>13. CASE UNCHANGED tuneOwn
  BY <1>13 DEF tuneOwn
<1> QED
  BY <1>1, <1>2, <1>3, <1>4, <1>5, <1>6, <1>7, <1>8, <1>9, <1>10, <1>11, <1>12, <1>13
     DEF TuneNext, TuneTick, tuneVars

LEMMA TuneOrderStep == ASSUME TuneInv, [TuneNext]_tuneVars PROVE TuneOrder'
<1> USE DEF TuneInv, TuneOrder
<1>1. CASE TuneStart \/ TuneApply \/ TuneHandOver \/ TuneAbort
  BY <1>1 DEF TuneStart, TuneApply, TuneHandOver, TuneAbort, WebFree
<1>2. CASE TuneParamValue \/ TuneAsks \/ UNCHANGED tuneOwn
  BY <1>2 DEF TuneParamValue, TuneAsks, tuneOwn
<1>3. CASE TuneComputes \/ TuneTimesOut \/ TuneBegins
  BY <1>3 DEF TuneComputes, TuneTimesOut, TuneBegins, TickFree, Axes
<1>4. CASE TuneSees \/ TuneMarks
  BY <1>4 DEF TuneSees, TuneMarks, TickFree
<1>5. CASE TunePowerCut
  BY <1>5 DEF TunePowerCut
<1> QED
  BY <1>1, <1>2, <1>3, <1>4, <1>5 DEF TuneNext, TuneTick, tuneVars

LEMMA TuneInvAlways == TuneSpec => []ParamsInv /\ []TuneInv
<1>1. TuneInit => ParamsInv /\ TuneInv
  BY TuneInitInv, ParamsInitInv DEF TuneInit
<1>2. ParamsInv /\ TuneInv /\ [TuneNext]_tuneVars => ParamsInv' /\ TuneInv'
  BY TuneStepsJob, JobStepInv, TuneTypesStep, TuneOrderStep DEF TuneInv
<1> QED
  BY <1>1, <1>2, PTL DEF TuneSpec

-----------------------------------------------------------------------------
(* The list of failures and the table of a load.                           *)

Fails(i) == \E j \in DOMAIN failed : failed[j] = entries[i].id

NamedFacts ==
  /\ count = Len(entries)
  /\ \A i \in DOMAIN entries : i >= index => ~entries[i].present
  /\ \A j \in DOMAIN failed : \E i \in DOMAIN entries :
       i < index /\ ~entries[i].present /\ entries[i].id = failed[j]
  /\ written + Len(failed) = index - 1 =>
       \A i \in DOMAIN entries : i < index /\ ~entries[i].present => Fails(i)

NamedInv == state = "loading" \/ (state = "complete" /\ index = count + 1) => NamedFacts

(* What is complete and no load is a dump, which has counted nothing.      *)
DumpInv == state = "complete" /\ index # count + 1 => index = 1

(* An entry is passed by: its name is lost ...                             *)
LEMMA NameLost ==
  ASSUME JobInv, NamedInv, state = "loading", index' = index + 1, UNCHANGED <<count, entries, written, failed>>
  PROVE  NamedFacts'
<1>1. NamedFacts  BY DEF NamedInv
<1>2. \A i \in DOMAIN entries : i \in Nat  BY LoadFacts
<1> QED  BY <1>1, <1>2, LoadFacts DEF NamedFacts

(* ... or recorded ...                                                     *)
LEMMA NameRecorded ==
  ASSUME JobInv, NamedInv, state = "loading", index' = index + 1, UNCHANGED <<count, entries, written>>,
         failed' = Append(failed, entries[index].id)
  PROVE  NamedFacts'
<1>1. NamedFacts  BY DEF NamedInv
<1>2. \A i \in DOMAIN entries : i \in Nat  BY LoadFacts
<1>3. /\ Len(failed') = Len(failed) + 1 /\ DOMAIN failed' = 1 .. Len(failed) + 1
      /\ failed'[Len(failed) + 1] = entries[index].id
      /\ \A j \in 1 .. Len(failed) : failed'[j] = failed[j]
  BY LoadFacts
<1>4. count' = Len(entries') /\ \A i \in DOMAIN entries' : i >= index' => ~entries'[i].present
  BY <1>1, <1>2, LoadFacts DEF NamedFacts
<1>5. ASSUME NEW j \in DOMAIN failed'
      PROVE  \E i \in DOMAIN entries' : i < index' /\ ~entries'[i].present /\ entries'[i].id = failed'[j]
  <2>1. CASE j \in 1 .. Len(failed)
    <3>1. PICK i \in DOMAIN entries : i < index /\ ~entries[i].present /\ entries[i].id = failed[j]
      BY <1>1, <2>1, LoadFacts DEF NamedFacts
    <3>2. i < index'  BY <1>2, <3>1, LoadFacts
    <3>3. failed'[j] = failed[j]  BY <1>3, <2>1
    <3> QED  BY <3>1, <3>2, <3>3
  <2>2. CASE j = Len(failed) + 1
    <3>1. index < index' /\ ~entries[index].present  BY <1>1, LoadFacts DEF NamedFacts
    <3> QED  BY <1>3, <2>2, <3>1, LoadFacts
  <2>3. j \in 1 .. Len(failed) \/ j = Len(failed) + 1
    BY <1>3, LoadFacts
  <2> QED  BY <2>1, <2>2, <2>3
<1>6. ASSUME written' + Len(failed') = index' - 1,
             NEW i \in DOMAIN entries', i < index', ~entries'[i].present
      PROVE  Fails(i)'
  <2>1. written + Len(failed) = index - 1  BY <1>3, <1>6, LoadFacts
  <2>2. CASE i < index
    <3>1. PICK j \in DOMAIN failed : failed[j] = entries[i].id
      BY <1>1, <1>6, <2>1, <2>2 DEF NamedFacts, Fails
    <3>2. j \in DOMAIN failed' /\ failed'[j] = failed[j]  BY <1>3, <3>1, LoadFacts
    <3> QED  BY <3>1, <3>2 DEF Fails
  <2>3. CASE i = index
    <3>1. Len(failed) + 1 \in DOMAIN failed'  BY <1>3, LoadFacts
    <3> QED  BY <1>3, <2>3, <3>1 DEF Fails
  <2> QED  BY <1>2, <1>6, <2>2, <2>3, LoadFacts
<1> QED  BY <1>4, <1>5, <1>6 DEF NamedFacts

(* ... or it was echoed.                                                   *)
LEMMA EntryWritten ==
  ASSUME JobInv, NamedInv, state = "loading", index' = index + 1, UNCHANGED <<count, failed>>,
         entries' = [entries EXCEPT ![index].present = TRUE], written' = written + 1
  PROVE  NamedFacts'
<1>1. NamedFacts  BY DEF NamedInv
<1>2. \A i \in DOMAIN entries : i \in Nat /\ entries[i] \in Entry  BY LoadFacts
<1>3. /\ DOMAIN entries' = DOMAIN entries /\ Len(entries') = Len(entries)
      /\ \A i \in DOMAIN entries : i # index => entries'[i] = entries[i]
      /\ entries'[index].present
      /\ \A i \in DOMAIN entries : entries'[i].id = entries[i].id
  BY <1>2, LoadFacts DEF Entry
<1>4. count' = Len(entries') /\ \A i \in DOMAIN entries' : i >= index' => ~entries'[i].present
  BY <1>1, <1>2, <1>3, LoadFacts DEF NamedFacts
<1>5. ASSUME NEW j \in DOMAIN failed'
      PROVE  \E i \in DOMAIN entries' : i < index' /\ ~entries'[i].present /\ entries'[i].id = failed'[j]
  <2>1. PICK i \in DOMAIN entries : i < index /\ ~entries[i].present /\ entries[i].id = failed[j]
    BY <1>1, <1>5 DEF NamedFacts
  <2>2. i < index' /\ i # index  BY <1>2, <2>1, LoadFacts
  <2> QED  BY <1>3, <2>1, <2>2
<1>6. ASSUME written' + Len(failed') = index' - 1,
             NEW i \in DOMAIN entries', i < index', ~entries'[i].present
      PROVE  Fails(i)'
  <2>1. written + Len(failed) = index - 1  BY <1>6, LoadFacts
  <2>2. i # index /\ i < index /\ i \in DOMAIN entries /\ ~entries[i].present
    BY <1>2, <1>3, <1>6, LoadFacts
  <2>3. Fails(i)  BY <1>1, <2>1, <2>2 DEF NamedFacts
  <2> QED  BY <1>3, <2>2, <2>3 DEF Fails
<1> QED  BY <1>4, <1>5, <1>6 DEF NamedFacts

(* A load starts with nothing present and nothing failed.                  *)
LEMMA LoadNamed ==
  ASSUME NEW list \in Seq(Pairs), Load(list)
  PROVE  NamedInv' /\ DumpInv'
<1>1. CASE NoMemory
  BY <1>1 DEF NoMemory, NamedInv, DumpInv
<1>2. CASE /\ state' = "loading" /\ count' = Len(list)
           /\ entries' = [i \in DOMAIN list |->
                [id |-> list[i].id, value |-> list[i].value, present |-> FALSE]]
  <2>1. DOMAIN list = 1 .. Len(list) /\ Len(list) \in Nat  OBVIOUS
  <2>2. Len(entries') = Len(list) /\ DOMAIN entries' = 1 .. Len(list)
        /\ \A i \in DOMAIN entries' : ~entries'[i].present
    BY <1>2, <2>1
  <2>3. index' = 1 /\ failed' = <<>>  BY DEF Load, FreeAll
  <2>4. \A i \in DOMAIN entries' : ~(i < index')  BY <2>2, <2>3
  <2>5. DOMAIN failed' = {}  BY <2>3
  <2>6. NamedFacts'
    BY <1>2, <2>2, <2>4, <2>5 DEF NamedFacts
  <2> QED  BY <1>2, <2>6 DEF NamedInv, DumpInv
<1> QED  BY <1>1, <1>2 DEF Load

LEMMA NamedFrame ==
  ASSUME NamedInv, DumpInv, UNCHANGED <<state, entries, count, index, written, failed>>
  PROVE  NamedInv' /\ DumpInv'
  BY DEF NamedInv, DumpInv, NamedFacts, Fails

LEMMA NamedStep ==
  ASSUME ParamsInv, TuneInv, NamedInv, DumpInv, JobStep
  PROVE  NamedInv' /\ DumpInv'
<1>0. JobInv  BY DEF ParamsInv
<1>1. CASE StartDump
  BY <1>1 DEF StartDump, NoMemory, NamedInv, DumpInv
<1>2. CASE StartLoad
  BY <1>2, LoadNamed, ParamsAssumption DEF StartLoad
<1>3. CASE RestoreLoad
  <2>1. req \in Seq(Pairs)  BY DEF ParamsInv, DiskInv
  <2> QED  BY <1>3, <2>1, LoadNamed, NamedFrame DEF RestoreLoad, job
<1>4. CASE TuneHandOver
  <2>1. hand \in Seq(Pairs)  BY DEF TuneInv, TuneTypes
  <2> QED  BY <1>4, <2>1, LoadNamed, NamedFrame DEF TuneHandOver, job
<1>5. CASE OnParamValue
  <2> DEFINE m == Head(fromFc)
  <2>1. m \in Answers  BY <1>5, ArrivedInv
  <2>2. CASE DumpValue(m)
    <3>1. /\ state = "dumping" /\ index' = index /\ index = 1
          /\ expected' = FcCount /\ FcCount \in Nat \ {0}
      BY <1>0, <2>1, <2>2, ParamsAssumption DEF DumpValue, Answers, JobInv
    <3>2. state' = "dumping" \/ (state' = "complete" /\ count' >= FcCount)
      BY <2>2, <3>1 DEF DumpValue
    <3>3. count' \in Nat
      BY <1>5, OnParamValueInv DEF ParamsInv, JobInv
    <3>4. ASSUME state' = "complete" PROVE index' # count' + 1 /\ index' = 1
      <4>1. count' >= FcCount  BY <3>2, <3>4
      <4>2. FcCount >= 1  BY <3>1
      <4>3. count' >= 1  BY <3>1, <3>3, <4>1, <4>2
      <4>4. \A c \in Nat : c >= 1 => c + 1 # 1  OBVIOUS
      <4>5. index' = 1  BY <3>1
      <4> QED  BY <3>3, <4>3, <4>4, <4>5, Zenon
    <3> QED  BY <3>2, <3>4 DEF NamedInv, DumpInv
  <2>3. CASE LoadValue(m)
    <3>1. state = "loading" /\ index' = index + 1 /\ count' = count
          /\ m.id = entries[index].id /\ state' \in {"loading", "complete"}
          /\ (state' = "complete" => index' > count)
      BY <2>3 DEF LoadValue, Advance
    <3>2. NamedFacts'
      BY <1>0, <2>3, <3>1, NameLost, NameRecorded, EntryWritten DEF LoadValue, RecordFailure
    <3>3. index' > count => index' = count' + 1
      BY <1>0, <3>1, LoadFacts DEF JobInv
    <3> QED  BY <3>1, <3>2, <3>3 DEF NamedInv, DumpInv
  <2>4. CASE Ignored(m)
    BY <2>4, NamedFrame DEF Ignored, job
  <2> QED  BY <1>5, <2>2, <2>3, <2>4 DEF OnParamValue
<1>6. CASE TickStep
  BY <1>6, NamedFrame DEF TickStep, TickTake, StoreOpen, StoreWrite, StoreRemove, StoreRename, job
<1>7. CASE TickDump
  <2>1. state' \in {"dumping", "failed"}  BY <1>7 DEF TickDump
  <2> QED  BY <2>1 DEF NamedInv, DumpInv
<1>8. CASE TickLoad
  <2>1. CASE UNCHANGED <<index, state, failed>>
    BY <1>8, <2>1, NamedFrame DEF TickLoad
  <2>2. CASE RecordFailure(entries[index].id) /\ Advance
    <3>1. state = "loading" /\ index' = index + 1 /\ UNCHANGED <<count, entries, written>>
          /\ state' \in {"loading", "complete"} /\ (state' = "complete" => index' > count)
      BY <1>8, <2>2 DEF TickLoad, Advance
    <3>2. NamedFacts'
      BY <1>0, <2>2, <3>1, NameLost, NameRecorded DEF RecordFailure
    <3>3. index' > count => index' = count' + 1
      BY <1>0, <3>1, LoadFacts DEF JobInv
    <3> QED  BY <3>1, <3>2, <3>3 DEF NamedInv, DumpInv
  <2> QED  BY <1>8, <2>1, <2>2 DEF TickLoad
<1>9. CASE PowerCut
  BY <1>9 DEF PowerCut, NamedInv, DumpInv
<1>10. CASE \/ RestoreRead \/ DeleteStored \/ FcAnswers \/ LinkLoses \/ StationActs
            \/ TuneAsks \/ UNCHANGED paramsVars
  BY <1>10, NamedFrame
     DEF RestoreRead, DeleteStored, FcAnswers, LinkLoses, StationActs, TuneAsks, paramsVars, job
<1> QED
  BY <1>1, <1>2, <1>3, <1>4, <1>5, <1>6, <1>7, <1>8, <1>9, <1>10
     DEF JobStep, ParamsNext, WebStep, TimedOut

LEMMA NamedAlways == TuneSpec => []NamedInv /\ []DumpInv
<1>1. TuneInit => NamedInv /\ DumpInv
  BY DEF TuneInit, ParamsInit, NamedInv, DumpInv
<1>2. ParamsInv /\ TuneInv /\ NamedInv /\ DumpInv /\ [TuneNext]_tuneVars => NamedInv' /\ DumpInv'
  BY TuneStepsJob, NamedStep
<1> QED
  BY <1>1, <1>2, TuneInvAlways, PTL DEF TuneSpec

(* In a load that is complete and lost no name, the names that failed are  *)
(* those of the entries that are not present, if no two share one.         *)
LEMMA FailedAreMissing ==
  ASSUME ParamsInv, NamedInv, DumpInv, state = "complete", written + Len(failed) = count,
         \A i, k \in DOMAIN entries : entries[i].id = entries[k].id => i = k
  PROVE  \A i \in DOMAIN entries : Fails(i) <=> ~entries[i].present
<1>1. /\ count \in Nat /\ index \in Nat /\ written \in Nat /\ Len(failed) \in Nat
      /\ written + Len(failed) < index /\ entries \in Seq(Entry)
  BY DEF ParamsInv, JobInv
<1>2. index = count + 1  BY <1>1 DEF DumpInv
<1>3. NamedFacts /\ written + Len(failed) = index - 1 /\ Len(entries) = count
  BY <1>1, <1>2 DEF NamedInv, NamedFacts
<1>4. \A i \in DOMAIN entries : i < index
  BY <1>1, <1>2, <1>3
<1> QED  BY <1>3, <1>4 DEF NamedFacts, Fails

-----------------------------------------------------------------------------
(* No parameter is tuned by two gains: add_result_p is called once for     *)
(* each name (db_fc_tune.c:302-324).                                       *)
DistinctGains ==
  /\ \A a \in Axes : \A s \in Gains[a] : \A i, k \in DOMAIN s : s[i].id = s[k].id => i = k
  /\ \A s \in Gains["steering"], t \in Gains["speed"] :
       \A i \in DOMAIN s, k \in DOMAIN t : s[i].id # t[k].id

Distinct(r) == \A i, k \in DOMAIN r : r[i].id = r[k].id => i = k

OfSteering(x) == \E s \in Gains["steering"] : \E k \in DOMAIN s : x.id = s[k].id

DistinctInv ==
  /\ Distinct(results)
  /\ tune \in {"baseline", "steering"} => results = <<>>
  /\ tune = "speed" => \A i \in DOMAIN results : OfSteering(results[i])

LEMMA FittingKeeps ==
  ASSUME NEW r \in Seq(Result)
  PROVE  /\ DOMAIN Fitting(r) \subseteq DOMAIN r
         /\ \A i \in DOMAIN Fitting(r) : Fitting(r)[i] = r[i]
<1>1. MaxResults \in Nat  BY TuneAssumption, ParamsAssumption
<1> QED  BY <1>1 DEF Fitting

LEMMA DistinctStep ==
  ASSUME DistinctGains, TuneInv, DistinctInv, [TuneNext]_tuneVars
  PROVE  DistinctInv'
<1>1. CASE TuneStart \/ TuneAbort \/ TunePowerCut
  BY <1>1 DEF TuneStart, TuneAbort, TunePowerCut, DistinctInv, Distinct
<1>2. CASE TuneApply \/ TuneHandOver \/ TuneTimesOut \/ TuneSees
  BY <1>2 DEF TuneApply, TuneHandOver, TuneTimesOut, TuneSees, DistinctInv, Distinct, OfSteering
<1>3. CASE TuneParamValue \/ TuneAsks \/ UNCHANGED tuneOwn
  BY <1>3 DEF TuneParamValue, TuneAsks, tuneOwn, DistinctInv, Distinct, OfSteering
<1>4. CASE TuneBegins
  BY <1>4 DEF TuneBegins, DistinctInv, Distinct
<1>5. CASE TuneMarks
  <2>1. results' = [i \in DOMAIN results |-> [results[i] EXCEPT !.applied = ~Named(results[i])]]
        /\ tune' = "complete"
    BY <1>5 DEF TuneMarks
  <2>2. DOMAIN results' = DOMAIN results /\ \A i \in DOMAIN results : results[i] \in Result
    BY <2>1 DEF TuneInv, TuneTypes
  <2>3. \A i \in DOMAIN results : results'[i].id = results[i].id
    BY <2>1, <2>2 DEF Result
  <2> QED  BY <2>1, <2>2, <2>3 DEF DistinctInv, Distinct
<1>6. CASE TuneComputes
  <2>1. PICK s \in Gains[tune] : results' = Fitting(results \o Results(s))
    BY <1>6 DEF TuneComputes
  <2>2. tune \in Axes /\ s \in Seq(Pairs) /\ results \in Seq(Result)
    BY <1>6, TuneAssumption DEF TuneComputes, TuneInv, TuneTypes
  <2>3. /\ Results(s) \in Seq(Result) /\ DOMAIN Results(s) = DOMAIN s
        /\ \A k \in DOMAIN s : Results(s)[k].id = s[k].id
    <3>1. \A k \in DOMAIN s : s[k].id \in BaseIds /\ s[k] \in Pairs
      BY <2>2, TuneAssumption
    <3>2. DOMAIN s = 1 .. Len(s) /\ Len(s) \in Nat  BY <2>2
    <3>3. \A k \in DOMAIN s : [id |-> s[k].id, value |-> s[k].value, applied |-> FALSE] \in Result
      BY <3>1 DEF Result, Pairs
    <3>4. Results(s) \in [1 .. Len(s) -> Result]  BY <3>2, <3>3 DEF Results
    <3> QED  BY <3>2, <3>4 DEF Results
  <2> DEFINE all == results \o Results(s)
  <2>4. all \in Seq(Result)  BY <2>2, <2>3
  <2>5. CASE tune = "steering"
    <3>1. all = Results(s)  BY <2>3, <2>5 DEF DistinctInv
    <3>2. DOMAIN results' \subseteq DOMAIN s /\ \A k \in DOMAIN results' : results'[k].id = s[k].id
      BY <2>1, <2>3, <2>4, <3>1, FittingKeeps
    <3>3. s \in Gains["steering"]  BY <2>5
    <3>4. Distinct(results')  BY <2>1, <2>2, <3>2 DEF DistinctGains, Distinct
    <3>5. \A k \in DOMAIN results' : OfSteering(results'[k])  BY <3>2, <3>3 DEF OfSteering
    <3>6. tune' \in {"speed", "ready"}  BY <1>6 DEF TuneComputes
    <3> QED  BY <3>4, <3>5, <3>6 DEF DistinctInv, OfSteering
  <2>6. CASE tune = "speed"
    <3>1. tune' = "ready"  BY <1>6, <2>6 DEF TuneComputes
    <3>2. \A k \in DOMAIN all :
            \/ k \in DOMAIN results /\ all[k] = results[k]
            \/ k - Len(results) \in DOMAIN s /\ all[k].id = s[k - Len(results)].id /\ k \notin DOMAIN results
      BY <2>2, <2>3
    <3>3. Distinct(all)
      <4> SUFFICES ASSUME NEW i \in DOMAIN all, NEW k \in DOMAIN all, all[i].id = all[k].id
                   PROVE  i = k
        BY DEF Distinct
      <4>1. \A x \in DOMAIN results, y \in DOMAIN s : results[x].id # s[y].id
        BY <2>1, <2>6 DEF DistinctInv, OfSteering, DistinctGains
      <4>2. \A x, y \in DOMAIN results : results[x].id = results[y].id => x = y
        BY DEF DistinctInv, Distinct
      <4>3. \A x, y \in DOMAIN s : s[x].id = s[y].id => x = y
        BY <2>1, <2>2 DEF DistinctGains
      <4>4. i \in Int /\ k \in Int /\ Len(results) \in Int
        BY <2>2, <2>4
      <4> QED  BY <3>2, <4>1, <4>2, <4>3, <4>4
    <3>4. Distinct(results')
      <4> HIDE DEF all
      <4>1. DOMAIN results' \subseteq DOMAIN all /\ \A k \in DOMAIN results' : results'[k] = all[k]
        BY <2>1, <2>4, FittingKeeps DEF all
      <4> QED  BY <3>3, <4>1 DEF Distinct
    <3> QED  BY <3>1, <3>4 DEF DistinctInv
  <2> QED  BY <2>2, <2>5, <2>6 DEF Axes
<1> QED
  BY <1>1, <1>2, <1>3, <1>4, <1>5, <1>6 DEF TuneNext, TuneTick, tuneVars

-----------------------------------------------------------------------------
(* The tuning's state is what db_fc_tune.c thinks it is, and its results   *)
(* never outgrow their table (add_result_p), whatever the job does.        *)
THEOREM TuneTypeCorrect == TuneSpec => []TuneTypeOK
<1>1. TuneInv => TuneTypeOK
  <2> SUFFICES ASSUME TuneInv PROVE TuneTypeOK  OBVIOUS
  <2>1. \A i \in DOMAIN results : results[i] \in Result
    BY DEF TuneInv, TuneTypes
  <2> QED  BY <2>1 DEF TuneInv, TuneTypes, TuneOrder, TuneTypeOK, Result
<1> QED  BY <1>1, TuneInvAlways, PTL

(* With the tuning beside it, too, the parameter job counts as written     *)
(* only what the flight controller stored (db_fc_params_on_param_value),   *)
THEOREM TunedWasStored == TuneSpec => []WrittenWasStored
<1>1. ParamsInv => WrittenWasStored
  BY DEF ParamsInv, DiskInv, PresentHeld, WrittenWasStored
<1> QED  BY <1>1, TuneInvAlways, PTL

(* and the backup takes nothing from a tuning that did not take, but for   *)
(* the last line of one that lost its end (db_fc_params_store).            *)
THEOREM TunedBackupWasStored == TuneSpec => []BackupWasStored
<1>1. ParamsInv => BackupWasStored
  BY DEF ParamsInv, DiskInv, Stored, BackupWasStored
<1> QED  BY <1>1, TuneInvAlways, PTL

(* "True once the FC echoed THIS value back" (db_fc_tune.h:75): when the   *)
(* tick marks the results of the tuning's own load and no name of a        *)
(* failure was lost, it marks what was echoed, no more and no less.        *)
THEOREM AppliedWasAlwaysEchoed ==
  ASSUME DistinctGains
  PROVE  TuneSpec => AppliedWasEchoed
<1> DEFINE Echoed ==
      tune = "writing" /\ tune' = "complete" /\ OwnLoad =>
        \A i \in DOMAIN results : results'[i].applied <=> entries[i].present
<1>1. TuneInit => DistinctInv
  BY DEF TuneInit, DistinctInv, Distinct
<1>2. TuneInv /\ DistinctInv /\ [TuneNext]_tuneVars => DistinctInv'
  BY DistinctStep
<1>3. ASSUME ParamsInv, TuneInv, NamedInv, DumpInv, DistinctInv, [TuneNext]_tuneVars
      PROVE  Echoed
  <2> SUFFICES ASSUME tune = "writing", tune' = "complete", OwnLoad,
                      NEW i \in DOMAIN results
               PROVE  results'[i].applied <=> entries[i].present
    OBVIOUS
  <2>1. TuneMarks
    BY <1>3 DEF TuneNext, TuneStart, TuneApply, TuneHandOver, TuneAbort, TuneParamValue, TuneAsks,
                TuneComputes, TuneTimesOut, TuneTick, TuneBegins, TuneSees, TunePowerCut, tuneOwn,
                tuneVars, Axes
  <2>2. results'[i] = [results[i] EXCEPT !.applied = ~Named(results[i])] /\ results[i] \in Result
    BY <1>3, <2>1 DEF TuneMarks, TuneInv, TuneTypes
  <2>3. results'[i].applied = ~Named(results[i])
    BY <2>2 DEF Result
  <2>4. DOMAIN entries = DOMAIN results /\ \A k \in DOMAIN entries : entries[k].id = results[k].id
    BY DEF OwnLoad, AsPair
  <2>5. \A k, l \in DOMAIN entries : entries[k].id = entries[l].id => k = l
    BY <1>3, <2>4 DEF DistinctInv, Distinct
  <2>6. Fails(i) <=> ~entries[i].present
    BY <1>3, <2>4, <2>5, FailedAreMissing DEF OwnLoad
  <2>7. Named(results[i]) <=> Fails(i)
    BY <2>4 DEF Named, Fails
  <2>8. entries[i].present \in BOOLEAN
    <3>1. entries \in Seq(Entry)  BY <1>3 DEF ParamsInv, JobInv
    <3>2. entries[i] \in Entry  BY <2>4, <3>1
    <3> QED  BY <3>2 DEF Entry
  <2> QED  BY <2>3, <2>6, <2>7, <2>8, Zenon
<1> QED
  BY <1>1, <1>2, <1>3, TuneInvAlways, NamedAlways, PTL DEF TuneSpec, AppliedWasEchoed
=============================================================================
