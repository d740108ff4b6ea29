------------------------------- MODULE FcTune --------------------------------
(***************************************************************************)
(* Tuning of the steering and speed gains (db_fc_tune.c), a client of the  *)
(* parameter job of FcParams: it reads a baseline with requests of its     *)
(* own, watches the operator drive, computes gains, and on request has the *)
(* parameter job write them.                                               *)
(*                                                                         *)
(* Actors: the web server task (TuneStart, TuneApply, TuneHandOver,        *)
(* TuneAbort), the MAVLink task, which feeds a PARAM_VALUE to both modules *)
(* (db_mavlink_msgs.c:827-829), and the publish task, which runs this tick *)
(* after the parameters' (db_timers.c:257-258).  The mutex of the tuning   *)
(* is not the mutex of the job, so the job may change between two looks at *)
(* it.  A gain is a value that the arithmetic may come to; the fail_locked *)
(* of compute_steering_locked and compute_speed_locked cannot be reached.  *)
(* The baseline and the axes are forgotten here once nothing reads them.   *)
(***************************************************************************)
EXTENDS FcParams

CONSTANTS
  BaseIds,  \* BASELINE_NAMES
  Gains,    \* for each axis, the results it may come to, as lists of id and value
  MaxResults \* DB_FC_TUNE_MAX_RESULTS

Axes == {"steering", "speed"}

ASSUME TuneAssumption ==
  /\ BaseIds \subseteq Ids /\ BaseIds # {}
  /\ Gains \in [Axes -> SUBSET Seq(Pairs)]
  /\ MaxResults \in 1 .. Capacity
  /\ \A a \in Axes : \A s \in Gains[a] : s # <<>> /\ \A i \in DOMAIN s : s[i].id \in BaseIds

VARIABLES
  tune,    \* s_state of the tuning
  axes,    \* s_axes
  base,    \* s_base and s_base_got: the values read so far
  results, \* s_results
  hand,    \* the list db_fc_tune_apply is about to hand over
  look     \* the tick, with its mutex held, has seen the job complete

tuneOwn  == <<tune, axes, base, results, hand, look>>
tuneVars == <<paramsVars, tuneOwn>>

Busy     == tune \in {"baseline", "steering", "speed", "writing"}
Got      == { p.id : p \in base }
Missing  == BaseIds \ Got
AsPair(x) == [id |-> x.id, value |-> x.value]

TuneInit ==
  /\ ParamsInit
  /\ tune = "idle" /\ axes = {} /\ base = {} /\ results = <<>>
  /\ hand = <<>> /\ look = FALSE

WebFree == hand = <<>> /\ req = <<>>

-----------------------------------------------------------------------------
(* The web server task.                                                    *)

(* db_fc_tune_start: not while the parameter link is busy.                 *)
TuneStart ==
  /\ WebFree /\ ~look /\ ~Running
  /\ tune \in {"idle", "complete", "failed"}
  /\ tune' = "baseline"
  /\ axes' \in SUBSET Axes \ {{}}
  /\ base' = {} /\ results' = <<>>
  /\ UNCHANGED <<paramsVars, hand, look>>

(* db_fc_tune_apply enters WRITING, lets go of its mutex ...               *)
TuneApply ==
  /\ WebFree
  /\ tune = "ready" /\ results # <<>>
  /\ tune' = "writing"
  /\ hand' = [i \in DOMAIN results |-> AsPair(results[i])]
  /\ UNCHANGED <<paramsVars, axes, base, results, look>>

(* ... and starts the load, which may be refused.                          *)
TuneHandOver ==
  /\ hand # <<>> /\ ~Locked
  /\ IF Running THEN UNCHANGED job ELSE Load(hand)
  /\ hand' = <<>>
  /\ IF Running \/ state' = "failed" THEN ~look /\ tune' = "failed" ELSE UNCHANGED tune
  /\ UNCHANGED <<tick, req, disk, fcAll, axes, base, results, look>>

(* db_fc_tune_abort, at any time.                                          *)
TuneAbort ==
  /\ WebFree /\ ~look /\ tune # "idle"
  /\ tune' = "idle" /\ results' = <<>> /\ axes' = {} /\ base' = {}
  /\ UNCHANGED <<paramsVars, hand, look>>

-----------------------------------------------------------------------------
(* The MAVLink task.                                                       *)

(* db_fc_tune_on_param_value: the first value of each baseline parameter.  *)
BaselineValue(m) ==
  base' = IF tune = "baseline" /\ m.id \in Missing THEN base \cup { AsPair(m) } ELSE base

TuneParamValue ==
  /\ OnParamValue
  /\ BaselineValue(Head(fromFc))
  /\ UNCHANGED <<tune, axes, results, hand, look>>

-----------------------------------------------------------------------------
(* The publish task: db_fc_tune_tick.                                      *)

TickFree == tick = "idle" /\ ~look

(* Asks for each missing value; what does not fit the link is lost.        *)
Asks == { s \in [1 .. Cardinality(Missing) -> Missing] :
            \A i, j \in DOMAIN s : i < j => s[i] < s[j] }

TuneAsks ==
  /\ TickFree /\ tune = "baseline" /\ Missing # {}
  /\ \E s \in Asks :
       LET all == toFc \o [i \in DOMAIN s |-> [op |-> "read", id |-> s[i]]] IN
       toFc' = IF Len(all) <= MaxOut THEN all
               ELSE SubSeq(all, 1, IF Len(toFc) > MaxOut THEN Len(toFc) ELSE MaxOut)
  /\ UNCHANGED <<job, tick, req, disk, fc, fromFc, held, tuneOwn>>

(* The whole baseline is there: begin_steering_locked or                   *)
(* begin_speed_locked.                                                     *)
TuneBegins ==
  /\ TickFree /\ tune = "baseline" /\ Missing = {}
  /\ tune' = IF "steering" \in axes THEN "steering" ELSE "speed"
  /\ base' = {}
  /\ UNCHANGED <<paramsVars, axes, results, hand, look>>

Results(s) == [i \in DOMAIN s |-> [id |-> s[i].id, value |-> s[i].value, applied |-> FALSE]]

(* Mutation: the table of results has no end.                              *)
FittingAll(r) == r

(* add_result_p: what there is no room for is dropped.                     *)
Fitting(r) == IF Len(r) > MaxResults THEN SubSeq(r, 1, MaxResults) ELSE r

(* Enough samples of an axis: its gains, then the next axis or the         *)
(* operator.                                                               *)
TuneComputes ==
  /\ TickFree /\ tune \in Axes
  /\ \E s \in Gains[tune] : results' = Fitting(results \o Results(s))
  /\ IF tune = "steering" /\ "speed" \in axes THEN tune' = "speed" /\ UNCHANGED axes
     ELSE tune' = "ready" /\ axes' = {}
  /\ UNCHANGED <<paramsVars, base, hand, look>>

(* BASELINE_TIMEOUT_MS, OVERALL_TIMEOUT_MS.                                *)
TuneTimesOut ==
  /\ TickFree /\ tune \in {"baseline"} \cup Axes
  /\ tune = "baseline" => Missing # {}
  /\ tune' = "failed" /\ axes' = {} /\ base' = {}
  /\ UNCHANGED <<paramsVars, results, hand, look>>

(* Mutation: a job that failed is waited for.                              *)
TuneSeesComplete ==
  /\ TickFree /\ tune = "writing"
  /\ state = "complete" /\ look' = TRUE
  /\ UNCHANGED <<paramsVars, tune, axes, base, results, hand>>

(* While writing, the tick looks at the job, whoever started it.           *)
TuneSees ==
  /\ TickFree /\ tune = "writing"
  /\ \/ state = "complete" /\ look' = TRUE /\ UNCHANGED tune
     \/ state = "failed" /\ tune' = "failed" /\ UNCHANGED look
  /\ UNCHANGED <<paramsVars, axes, base, results, hand>>

Named(x) == \E i \in DOMAIN failed : failed[i] = x.id

(* Mutation: every result is marked.                                       *)
TuneMarksAll ==
  /\ look /\ ~Locked
  /\ look' = FALSE /\ tune' = "complete"
  /\ results' = [i \in DOMAIN results |-> [results[i] EXCEPT !.applied = TRUE]]
  /\ UNCHANGED <<paramsVars, axes, base, hand>>

(* A second look, at the names that failed, marks the others as applied.   *)
TuneMarks ==
  /\ look /\ ~Locked
  /\ look' = FALSE /\ tune' = "complete"
  /\ results' = [i \in DOMAIN results |-> [results[i] EXCEPT !.applied = ~Named(results[i])]]
  /\ UNCHANGED <<paramsVars, axes, base, hand>>

TuneTick == TuneBegins \/ TuneSees \/ TuneMarks

-----------------------------------------------------------------------------
TunePowerCut ==
  /\ PowerCut
  /\ tune' = "idle" /\ axes' = {} /\ base' = {} /\ results' = <<>>
  /\ hand' = <<>> /\ look' = FALSE

TuneNext ==
  \/ hand = <<>> /\ WebStep /\ UNCHANGED tuneOwn
  \/ TuneStart \/ TuneApply \/ TuneHandOver \/ TuneAbort
  \/ TuneParamValue
  \/ ~look /\ (TickStep \/ TimedOut) /\ UNCHANGED tuneOwn
  \/ TuneAsks \/ TuneComputes \/ TuneTimesOut \/ TuneTick
  \/ (FcAnswers \/ LinkLoses \/ StationActs) /\ UNCHANGED tuneOwn
  \/ TunePowerCut

TuneSpec == TuneInit /\ [][TuneNext]_tuneVars

(* The publish task runs every 100 ms and finds the mutex free now and     *)
(* then; a timer that nobody restarts runs out, also when the mutex is     *)
(* often taken.  That the task looks at a finished job before somebody     *)
(* starts another is not assumed of each job, only of one of infinitely    *)
(* many.  The web server's task does not stop between the two halves of a  *)
(* request.                                                                *)
TuneFairSpec ==
  /\ TuneSpec
  /\ WF_tuneVars(~look /\ TickStep /\ UNCHANGED tuneOwn)
  /\ SF_tuneVars(~look /\ TickDump /\ UNCHANGED tuneOwn)
  /\ SF_tuneVars(~look /\ TickLoad /\ UNCHANGED tuneOwn)
  /\ SF_tuneVars(TuneTick) /\ SF_tuneVars(TuneTimesOut)
  /\ SF_tuneVars(TuneHandOver)

-----------------------------------------------------------------------------
TuneTypeOK ==
  /\ tune \in {"idle", "baseline", "steering", "speed", "ready", "writing", "complete", "failed"}
  /\ axes \subseteq Axes
  /\ base \subseteq Pairs
  /\ \A i \in DOMAIN results : results[i] \in [id: BaseIds, value: Values, applied: BOOLEAN]
  /\ Len(results) <= MaxResults
  /\ look => tune = "writing"
  /\ hand # <<>> => tune \in {"writing", "complete", "failed"}

(* "True once the FC echoed THIS value back" (db_fc_tune.h:75): when the   *)
(* tick marks the results from the load that the tuning itself started,    *)
(* and no name of a failure was lost, exactly those are marked that the    *)
(* flight controller echoed.                                               *)
OwnLoad ==
  /\ state = "complete"
  /\ DOMAIN entries = DOMAIN results
  /\ \A i \in DOMAIN entries : AsPair(entries[i]) = AsPair(results[i])
  /\ written + Len(failed) = count

AppliedWasEchoed ==
  [][ tune = "writing" /\ tune' = "complete" /\ OwnLoad =>
        \A i \in DOMAIN results : results'[i].applied <=> entries[i].present ]_tuneVars

(* A dump or a load ends, whatever the link and the flight controller do,  *)
(* and whatever the tuning makes of it.                                    *)
JobsEnd == Running ~> ~Running

(* So does a tuning that waits for the flight controller, for the operator *)
(* to drive or for its gains to be written.                                *)
TuneEnds == Busy ~> ~Busy
=============================================================================
