------------------------------ MODULE FcParams ------------------------------
(***************************************************************************)
(* Dump and load of the flight controller's parameters over the MAVLink    *)
(* link, and the backup kept on the boat (db_fc_params.c).                 *)
(*                                                                         *)
(* Actors: the web server task (StartDump, StartLoad, RestoreRead,         *)
(* RestoreLoad, DeleteStored), the MAVLink task (OnParamValue) and the     *)
(* publish task, which runs the tick every 100 ms and also writes the      *)
(* backup.  One mutex guards the job; the tick lets go of it between       *)
(* taking the store request and serving it.  External: the flight          *)
(* controller, the serial link, and another ground station that uses the   *)
(* same flight controller.                                                 *)
(*                                                                         *)
(* A parameter is known by its index, from 1; the echo of a PARAM_SET      *)
(* carries no usable index (0 here).  A timer is either due or not when    *)
(* the tick looks at it.                                                   *)
(***************************************************************************)
EXTENDS Naturals, Sequences, FiniteSets

CONSTANTS
  FcCount,      \* how many parameters the flight controller has
  Values,       \* parameter values, told apart by the read-back tolerance
  Accepts,      \* ids and values the flight controller stores; others it refuses
  Lists,        \* lists that may be uploaded, as sequences of id and value
  Capacity,     \* DB_FC_PARAM_MAX
  StallLimit,   \* DUMP_STALL_LIMIT
  RetryLimit,   \* LOAD_RETRY_LIMIT
  OtherStation, \* another ground station is at work
  StationReads, \* bound: the parameters that it reads
  MaxOut,       \* bound: requests on the link
  MaxQueue      \* bound: PARAM_VALUEs on the link

Ids   == 1 .. FcCount
Pairs == [id: Ids, value: Values]

ASSUME ParamsAssumption ==
  /\ FcCount \in Nat \ {0} /\ Capacity \in Nat /\ FcCount <= Capacity
  /\ StallLimit \in Nat /\ RetryLimit \in Nat /\ MaxQueue \in Nat \ {0} /\ MaxOut \in Nat
  /\ Accepts \subseteq Pairs /\ \A i \in Ids : \E p \in Accepts : p.id = i
  /\ Lists \subseteq Seq(Pairs) /\ \A l \in Lists : Len(l) \in 1 .. Capacity
  /\ OtherStation \in BOOLEAN /\ StationReads \subseteq Ids

VARIABLES
  state,    \* s_state
  entries,  \* s_entries; its length is s_capacity, empty is NULL
  count,    \* s_count
  expected, \* s_expected
  index,    \* s_load_index, from 1
  written,  \* s_written
  retries,  \* s_retries
  stalls,   \* s_stalls
  failed,   \* s_failed: the names that did not take
  pending,  \* s_store_pending
  tick,     \* where the publish task is in storing a backup
  req,      \* the list a restore request has read from the backup
  file,     \* fcparam.prm
  tmp,      \* fcparam.tmp
  fc,       \* the flight controller's parameters
  toFc,     \* requests on the link
  fromFc,   \* PARAM_VALUEs on the link
  held      \* history: every id and value it ever held

job   == <<state, entries, count, expected, index, written, retries, stalls, failed, pending>>
disk  == <<file, tmp>>
link  == <<toFc, fromFc>>
fcAll == <<fc, toFc, fromFc, held>>
paramsVars == <<job, tick, req, disk, fcAll>>

Running == state \in {"dumping", "loading"}
Locked  == tick \in {"write", "remove", "rename"}

Blank   == [id |-> 0, value |-> 0, present |-> FALSE]
NoFile  == [kind |-> "none", pairs |-> {}]
Half    == [kind |-> "half", pairs |-> {}]
Whole(s) == [kind |-> "whole", pairs |-> s]
Short(s) == [kind |-> "short", pairs |-> s]    \* closed, but its end was lost

Settings == { f \in [Ids -> Values] : \A i \in Ids : [id |-> i, value |-> f[i]] \in Accepts }

Holds(i) == [id |-> i, value |-> fc[i]]
Value(i, ix) == [id |-> i, value |-> fc[i], index |-> ix, count |-> FcCount]

(* write_to_serial: what does not fit, or finds no port, is lost.          *)
Send(m) == toFc' = IF Len(toFc) < MaxOut THEN Append(toFc, m) ELSE toFc

(* Mutation: the request to store the last dump outlives its table.        *)
FreeAllKeepsRequest ==
  /\ expected' = 0 /\ index' = 1 /\ written' = 0
  /\ retries' = 0 /\ stalls' = 0 /\ failed' = <<>>
  /\ UNCHANGED pending

(* free_all_locked, and what a job starts from.                            *)
FreeAll ==
  /\ expected' = 0 /\ index' = 1 /\ written' = 0
  /\ retries' = 0 /\ stalls' = 0 /\ failed' = <<>>
  /\ pending' = FALSE

NoMemory == state' = "failed" /\ entries' = <<>> /\ count' = 0

ParamsInit ==
  /\ state = "idle" /\ entries = <<>> /\ count = 0 /\ expected = 0
  /\ index = 1 /\ written = 0 /\ retries = 0 /\ stalls = 0 /\ failed = <<>>
  /\ pending = FALSE /\ tick = "idle" /\ req = <<>>
  /\ file = NoFile /\ tmp = NoFile
  /\ fc \in Settings
  /\ toFc = <<>> /\ fromFc = <<>>
  /\ held = { Holds(i) : i \in Ids }

-----------------------------------------------------------------------------
(* The web server task.                                                    *)

(* db_fc_params_start_dump.                                                *)
StartDump ==
  /\ req = <<>> /\ ~Locked /\ ~Running
  /\ FreeAll
  /\ \/ /\ state' = "dumping" /\ count' = 0
        /\ entries' = [i \in 1 .. Capacity |-> Blank]
        /\ Send([op |-> "list"])
     \/ NoMemory /\ UNCHANGED toFc
  /\ UNCHANGED <<tick, req, disk, fc, fromFc, held>>

(* db_fc_params_start_load: a copy of the list, none of it present yet.    *)
Load(list) ==
  /\ ~Locked /\ ~Running
  /\ FreeAll
  /\ \/ /\ state' = "loading" /\ count' = Len(list)
        /\ entries' = [i \in DOMAIN list |->
             [id |-> list[i].id, value |-> list[i].value, present |-> FALSE]]
     \/ NoMemory

(* POST of an uploaded list: written to the flight controller, nothing     *)
(* else.                                                                   *)
StartLoad ==
  /\ req = <<>>
  /\ \E list \in Lists : Load(list)
  /\ UNCHANGED <<tick, req, disk, fcAll>>

(* The pairs of a backup in the order of the table they came from.         *)
Listed(pairs) ==
  { s \in [1 .. Cardinality(pairs) -> pairs] :
      \A i, j \in DOMAIN s : i < j => s[i] # s[j] /\ s[i].id <= s[j].id }

(* db_fc_params_start_load_from_stored: parses the backup without the      *)
(* mutex, then starts the load, or is refused.                             *)
RestoreRead ==
  /\ req = <<>>
  /\ file.pairs # {}
  /\ req' \in Listed(file.pairs)
  /\ UNCHANGED <<job, tick, disk, fcAll>>

RestoreLoad ==
  /\ req # <<>> /\ ~Locked
  /\ IF Running THEN UNCHANGED job ELSE Load(req)
  /\ req' = <<>>
  /\ UNCHANGED <<tick, disk, fcAll>>

(* db_fc_params_delete_stored.                                             *)
DeleteStored ==
  /\ req = <<>>
  /\ file' = NoFile
  /\ UNCHANGED <<job, tick, req, tmp, fcAll>>

-----------------------------------------------------------------------------
(* The MAVLink task: db_fc_params_on_param_value.                          *)

(* record_failure_locked: the name is lost if memory runs out.             *)
RecordFailure(id) == failed' = Append(failed, id) \/ UNCHANGED failed

(* While dumping, every value with an index in range is filed.             *)
DumpValue(m) ==
  /\ state = "dumping"
  /\ expected' = IF m.count <= Capacity THEN m.count ELSE expected
  /\ IF m.index \in 1 .. Capacity
       THEN /\ entries' = [entries EXCEPT ![m.index] =
                 [id |-> m.id, value |-> m.value, present |-> TRUE]]
            /\ count' = IF entries[m.index].present THEN count ELSE count + 1
            /\ stalls' = 0
            /\ IF expected' # 0 /\ count' >= expected'
                 THEN state' = "complete" /\ pending' = TRUE
                 ELSE UNCHANGED <<state, pending>>
       ELSE UNCHANGED <<entries, count, stalls, state, pending>>
  /\ UNCHANGED <<index, written, retries, failed>>

(* The load moves on, and is complete after the last entry.                *)
Advance ==
  /\ index' = index + 1
  /\ retries' = 0
  /\ state' = IF index' > count THEN "complete" ELSE state

(* Mutation: any echo of the name will do.                                 *)
LoadValueTrusted(m) ==
  /\ state = "loading" /\ index <= count
  /\ m.id = entries[index].id
  /\ entries' = [entries EXCEPT ![index].present = TRUE]
  /\ written' = written + 1
  /\ Advance
  /\ UNCHANGED <<count, expected, stalls, failed, pending>>

(* While loading, the value of the parameter in hand decides its fate.     *)
LoadValue(m) ==
  /\ state = "loading" /\ index <= count
  /\ m.id = entries[index].id
  /\ \/ /\ m.value = entries[index].value
        /\ entries' = [entries EXCEPT ![index].present = TRUE]
        /\ written' = written + 1
        /\ UNCHANGED failed
     \/ /\ m.value # entries[index].value
        /\ RecordFailure(m.id)
        /\ UNCHANGED <<entries, written>>
  /\ Advance
  /\ UNCHANGED <<count, expected, stalls, pending>>

Ignored(m) ==
  /\ state # "dumping"
  /\ ~(state = "loading" /\ index <= count /\ m.id = entries[index].id)
  /\ UNCHANGED job

OnParamValue ==
  /\ fromFc # <<>> /\ ~Locked
  /\ fromFc' = Tail(fromFc)
  /\ LET m == Head(fromFc) IN DumpValue(m) \/ LoadValue(m) \/ Ignored(m)
  /\ UNCHANGED <<tick, req, disk, fc, toFc, held>>

-----------------------------------------------------------------------------
(* The publish task: db_fc_params_tick.                                    *)

(* A finished dump is to be stored: clear the request, and let go of the   *)
(* mutex.                                                                  *)
TickTake ==
  /\ tick = "idle" /\ pending
  /\ pending' = FALSE
  /\ tick' = "store"
  /\ UNCHANGED <<state, entries, count, expected, index, written, retries, stalls, failed,
                 req, disk, fcAll>>

(* Mutation: the temporary is put in place before it is written.           *)
StoreOpenInPlace ==
  /\ tick = "store"
  /\ entries # <<>> /\ count # 0
  /\ tmp' = Half /\ file' = Half /\ tick' = "write"
  /\ UNCHANGED <<job, req, fcAll>>

(* db_fc_params_store takes it again.  It looks at the table it finds.     *)
StoreOpen ==
  /\ tick = "store"
  /\ \/ /\ entries # <<>> /\ count # 0
        /\ tmp' = Half /\ tick' = "write"
     \/ tick' = "idle" /\ UNCHANGED tmp     \* nothing to store, or no file
  /\ UNCHANGED <<job, req, file, fcAll>>

(* The lines of the table's first n entries.                               *)
Lines(n) == { [id |-> entries[i].id, value |-> entries[i].value] :
                i \in { j \in 1 .. n : entries[j].present } }
Rendered == Lines(Len(entries))

(* What a backup that lost its end may still say: the lines before entry   *)
(* i, and of that entry's own perhaps a number cut short, which reads as   *)
(* some other value.                                                       *)
CutAt(i) ==
  { Lines(i - 1) } \cup
  { Lines(i - 1) \cup { [id |-> entries[i].id, value |-> v] } :
      v \in { w \in Values \ {entries[i].value} : entries[i].present } }

(* Mutation: what is not present is written too.                           *)
StoreWriteAll ==
  /\ tick = "write"
  /\ tmp' = Whole({ [id |-> e.id, value |-> e.value] :
                      e \in { entries[i] : i \in DOMAIN entries } })
  /\ tick' = "remove"
  /\ UNCHANGED <<job, req, file, fcAll>>

(* A line that cannot be written ends the store.  An fclose that cannot    *)
(* write what is left goes unseen, and the store goes on.                  *)
StoreWrite ==
  /\ tick = "write"
  /\ \/ tmp' = Whole(Rendered) /\ tick' = "remove"
     \/ /\ \E i \in DOMAIN entries : \E s \in CutAt(i) : tmp' = Short(s)
        /\ tick' = "remove"
     \/ tmp' = NoFile /\ tick' = "idle"
  /\ UNCHANGED <<job, req, file, fcAll>>

StoreRemove ==
  /\ tick = "remove"
  /\ file' = NoFile
  /\ tick' = "rename"
  /\ UNCHANGED <<job, req, tmp, fcAll>>

(* A temporary that is left behind is forgotten here: nothing reads it,    *)
(* and the next store makes it new.                                        *)
StoreRename ==
  /\ tick = "rename"
  /\ file' = tmp \/ UNCHANGED file     \* the rename may fail
  /\ tmp' = NoFile
  /\ tick' = "idle"
  /\ UNCHANGED <<job, req, fcAll>>

(* Mutation: silence is never given up on.                                 *)
TickDumpPatient ==
  /\ tick = "idle" /\ ~pending /\ state = "dumping"
  /\ Send([op |-> "list"])
  /\ UNCHANGED <<job, tick, req, disk, fc, fromFc, held>>

(* Silence while dumping: ask for the first hole, or for the list; after   *)
(* too many silences the job fails.                                        *)
Holes == { i \in 1 .. expected : i <= Capacity /\ ~entries[i].present }

TickDump ==
  /\ tick = "idle" /\ ~pending /\ state = "dumping"
  /\ stalls' = stalls + 1
  /\ IF stalls' > StallLimit
       THEN state' = "failed" /\ UNCHANGED toFc
       ELSE /\ UNCHANGED state
            /\ IF Holes = {} THEN Send([op |-> "list"])
               ELSE \E i \in Holes : /\ \A j \in Holes : i <= j
                                     /\ Send([op |-> "read", id |-> i])
  /\ UNCHANGED <<entries, count, expected, index, written, retries, failed, pending,
                 tick, req, disk, fc, fromFc, held>>

(* Mutation: a lost cause is recorded, but stays in hand.                  *)
TickLoadStays ==
  /\ tick = "idle" /\ ~pending /\ state = "loading"
  /\ IF retries >= RetryLimit
       THEN RecordFailure(entries[index].id) /\ retries' = 0
       ELSE retries' = retries + 1 /\ UNCHANGED failed
  /\ Send([op |-> "set", id |-> entries[index].id, value |-> entries[index].value])
  /\ UNCHANGED <<state, entries, count, expected, index, written, stalls, pending,
                 tick, req, disk, fc, fromFc, held>>

(* Mutation: retries are not counted.                                      *)
TickLoadForever ==
  /\ tick = "idle" /\ ~pending /\ state = "loading"
  /\ Send([op |-> "set", id |-> entries[index].id, value |-> entries[index].value])
  /\ UNCHANGED <<job, tick, req, disk, fc, fromFc, held>>

(* No echo while loading: send the entry again, or record its failure and  *)
(* send the next.                                                          *)
TickLoad ==
  /\ tick = "idle" /\ ~pending /\ state = "loading"
  /\ IF retries >= RetryLimit
       THEN RecordFailure(entries[index].id) /\ Advance
       ELSE retries' = retries + 1 /\ UNCHANGED <<index, state, failed>>
  /\ IF index' > count THEN UNCHANGED toFc
     ELSE Send([op |-> "set", id |-> entries[index'].id, value |-> entries[index'].value])
  /\ UNCHANGED <<entries, count, expected, written, stalls, pending,
                 tick, req, disk, fc, fromFc, held>>

TickStep == TickTake \/ StoreOpen \/ StoreWrite \/ StoreRemove \/ StoreRename
TimedOut == TickDump \/ TickLoad

-----------------------------------------------------------------------------
(* External: the flight controller, the link, another ground station.      *)

Answer(seq) == Len(fromFc \o seq) <= MaxQueue /\ fromFc' = fromFc \o seq

FcAnswers ==
  /\ toFc # <<>>
  /\ toFc' = Tail(toFc)
  /\ LET m == Head(toFc) IN
     \/ /\ m.op = "list"
        /\ Answer([i \in Ids |-> Value(i, i)])
        /\ UNCHANGED <<fc, held>>
     \/ /\ m.op = "read"
        /\ Answer(<< Value(m.id, m.id) >>)
        /\ UNCHANGED <<fc, held>>
     \/ /\ m.op = "set"
        /\ fc' = IF [id |-> m.id, value |-> m.value] \in Accepts
                   THEN [fc EXCEPT ![m.id] = m.value] ELSE fc
        /\ held' = held \cup { [id |-> m.id, value |-> fc'[m.id]] }
        /\ Answer(<< [Value(m.id, 0) EXCEPT !.value = fc'[m.id]] >>)
  /\ UNCHANGED <<job, tick, req, disk>>

LinkLoses ==
  /\ \/ toFc # <<>> /\ toFc' = Tail(toFc) /\ UNCHANGED fromFc
     \/ fromFc # <<>> /\ fromFc' = Tail(fromFc) /\ UNCHANGED toFc
  /\ UNCHANGED <<job, tick, req, disk, fc, held>>

(* The other station sets a parameter, or reads one.                       *)
StationActs ==
  /\ OtherStation
  /\ \E i \in Ids :
       \/ \E v \in Values :
            /\ [id |-> i, value |-> v] \in Accepts
            /\ fc' = [fc EXCEPT ![i] = v]
            /\ held' = held \cup { [id |-> i, value |-> v] }
            /\ Answer(<< [Value(i, 0) EXCEPT !.value = v] >>)
       \/ i \in StationReads /\ Answer(<< Value(i, i) >>) /\ UNCHANGED <<fc, held>>
  /\ UNCHANGED <<job, tick, req, disk, toFc>>

(* The companion loses power and starts again.                             *)
PowerCut ==
  /\ state' = "idle" /\ entries' = <<>> /\ count' = 0 /\ FreeAll
  /\ tick' = "idle" /\ req' = <<>>
  /\ toFc' = <<>> /\ fromFc' = <<>>
  /\ tmp' = NoFile
  /\ UNCHANGED <<file, fc, held>>

WebStep == StartDump \/ StartLoad \/ RestoreRead \/ RestoreLoad \/ DeleteStored
ParamsNext == WebStep \/ OnParamValue \/ TickStep \/ TimedOut
              \/ FcAnswers \/ LinkLoses \/ StationActs \/ PowerCut

ParamsSpec == ParamsInit /\ [][ParamsNext]_paramsVars

-----------------------------------------------------------------------------
ParamsTypeOK ==
  /\ state \in {"idle", "dumping", "loading", "complete", "failed"}
  /\ \A i \in DOMAIN entries :
       entries[i] \in [id: Ids \cup {0}, value: Values \cup {0}, present: BOOLEAN]
  /\ Len(entries) <= Capacity /\ count <= Len(entries)
  /\ expected <= Capacity /\ index \in 1 .. Len(entries) + 1
  /\ written <= count /\ retries <= RetryLimit /\ stalls <= StallLimit + 1
  /\ pending => state = "complete"
  /\ tick \in {"idle", "store", "write", "remove", "rename"}
  /\ fc \in Settings
  /\ Len(toFc) <= MaxOut /\ Len(fromFc) <= MaxQueue

(* "Reported as failed rather than silently assumed good"                  *)
(* (db_fc_params.h:8-10): a parameter counts as written only if the flight *)
(* controller did store that very value, whatever is lost, late or         *)
(* refused.                                                                *)
WrittenWasStored ==
  \A i \in DOMAIN entries :
    entries[i].present => [id |-> entries[i].id, value |-> entries[i].value] \in held

(* The entries of a load that were passed by without their echo.           *)
Passed == { i \in DOMAIN entries : i < index /\ ~entries[i].present }

(* Every entry of a load is counted at most once, as written or as failed, *)
(* and only when its turn has come: "written" is the number of entries     *)
(* echoed, all of them before the one in hand, and the names of failures   *)
(* are, in order, those of different entries that were passed by, however  *)
(* late echoes, retries and timeouts meet (db_fc_params.c:256-275,         *)
(* 345-361).  A name that found no memory may be missing.                  *)
CountedOnce ==
  state = "loading" \/ index > 1 =>
    /\ \A i \in DOMAIN entries : entries[i].present => i < index
    /\ written = Cardinality({ i \in DOMAIN entries : entries[i].present })
    /\ \E of \in [DOMAIN failed -> Passed] :
         /\ \A j, k \in DOMAIN failed : j < k => of[j] < of[k]
         /\ \A k \in DOMAIN failed : failed[k] = entries[of[k]].id

(* "A power cut mid-write must not leave a half-written backup where a     *)
(* complete one used to be" (db_fc_params.c:409): neither a power cut nor  *)
(* a line that could not be written ever leaves its unfinished file as the *)
(* backup.  A file whose fclose failed is not among them: the code takes   *)
(* it for written, and it does become the backup (:430).                   *)
NeverHalf == file.kind # "half"

(* A restore puts back what the flight controller once held: nothing of an *)
(* upload that did not take gets into the backup, even when the upload     *)
(* starts while the backup is being written.  The one exception is the     *)
(* last line of a backup that lost its end when it was closed.             *)
BackupWasStored ==
  \A p, q \in file.pairs \ held : file.kind = "short" /\ p = q

(* "The backup now changes only when you deliberately Dump"                *)
(* (http_server.c:1200): what is stored is all that a dump collected.      *)
BackupIsADump ==
  file.kind = "whole" => \A i \in Ids : \E p \in file.pairs : p.id = i

(* "Every write is verified against the PARAM_VALUE the FC echoes back"    *)
(* (db_fc_params.h:8): with no other station at work, what a finished load *)
(* reports as written is what the flight controller holds.                 *)
WrittenIsHeld ==
  state = "complete" /\ index > 1 =>
    \A i \in DOMAIN entries : entries[i].present => fc[entries[i].id] = entries[i].value
=============================================================================
