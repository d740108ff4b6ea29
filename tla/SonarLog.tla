------------------------------ MODULE SonarLog ------------------------------
(***************************************************************************)
(* The persistent log on the FAT volume (db_sonar_log.c): the capture of   *)
(* sessions, their files on several streams, the system log, the space     *)
(* kept free for the flight-controller firmware and the parameter backup,  *)
(* and what a power cut leaves of all that.                                *)
(*                                                                         *)
(* Every function that changes this state holds g_log_mutex from its first *)
(* access to its last, so each is one action; power cuts may fall inside   *)
(* the ones that leave the volume in a state of its own.  An operation on  *)
(* the volume maps a volume record w to a result: [w |-> the volume, ok    *)
(* |-> whether it returned ESP_OK], as the C functions return theirs.      *)
(* Lengths are counted in lines.                                           *)
(***************************************************************************)
EXTENDS Naturals, FiniteSetsExt

CONSTANTS
  System, Trip, Sonar, \* the streams; Sonar stands for hardwired and Deeper
  NoFile,
  MaxId,           \* bound: the sessions that are ever started
  MaxTrip,         \* bound: lines of a trip file before its last one
  MaxSonar,        \* bound: lines of a sonar file
  Block,           \* DB_LOG_SYNC_BLOCK_BYTES
  LinesPerSecond,  \* lines that fit between two refreshes of the usage
  SysLimit,        \* DB_LOG_SYSTEM_LIMIT_BYTES
  SysTrim,         \* DB_LOG_SYSTEM_TRIM_BYTES
  Headroom,        \* DB_LOG_HEADROOM_BYTES
  ImageReserve,    \* DB_FC_FLASH_RESERVE_BYTES
  MaxImage,        \* DB_FC_FLASH_MAX_IMAGE_BYTES
  Chunk,           \* bound: what an upload receives at a time
  MaxStuck,        \* bound: files that a failed rename has left, at a time
  Capacity         \* the volume, without the parameter backup

SessionStreams == {Trip, Sonar}
Slots == SessionStreams \cup {System}
Ids == 1 .. MaxId

Tmp(s, i) == [stream |-> s, id |-> i, tmp |-> TRUE]
Log(s, i) == [stream |-> s, id |-> i, tmp |-> FALSE]
SysLog == Log(System, 0)
SysTmp == Tmp(System, 0)
SessionNames == [stream: SessionStreams, id: Ids, tmp: BOOLEAN]
Names == SessionNames \cup {SysLog, SysTmp}

ASSUME LogAssumption ==
  /\ Cardinality({System, Trip, Sonar}) = 3
  /\ NoFile \notin Names
  /\ {MaxId, MaxTrip, MaxSonar, Block, LinesPerSecond, Chunk} \subseteq Nat \ {0}
  /\ {SysLimit, SysTrim, Headroom, ImageReserve, MaxImage,
      Capacity, MaxStuck} \subseteq Nat
  /\ SysTrim < SysLimit
  /\ ImageReserve <= MaxImage
  /\ Capacity > Headroom + ImageReserve + Block
  \* the last lines of a session and a half compacted system log take space
  \* that nobody asks for, ...
  /\ Headroom >= SysTrim + 2
  \* ... and so do the lines of the second for which a figure is kept
  /\ Headroom + Block > SysTrim + 3 * LinesPerSecond

VARIABLES
  vol,      \* the volume, a record:
            \*   disk   the durable length of every file
            \*   slot   g_log_files: the file, and what was not synced yet
            \*   room   what is free
            \*   free   g_partition_free: what was free at the last refresh
            \*   age    lines since then; when the second is over it is
            \*          LinesPerSecond, and free, which is not read, 0
  active,   \* g_session_active
  sid,      \* g_session_id
  next,     \* g_next_session_id
  nvs,      \* DB_LOG_NVS_NEXT_SESSION
  armed,    \* g_armed_capture
  manual,   \* whether g_manual_until_ms is not 0
  image,    \* fcfw.bin: its bytes, and whether an upload has it open
  left,     \* history: .TMP files whose rename failed, or that the trip handle
            \* of a session that did not start was left open on
  given     \* history: the highest id given since the volume was formatted

vars == <<vol, active, sid, next, nvs, armed, manual, image, left, given>>

Slot == [file: Names \cup {NoFile}, buffered: Nat]
Closed == [file |-> NoFile, buffered |-> 0]

-----------------------------------------------------------------------------
(* The file system.                                                        *)

Positive(a, b) == IF a > b THEN a - b ELSE 0

Unsynced(w, n) == IF w.slot[n.stream].file = n THEN w.slot[n.stream].buffered ELSE 0
Durable(w, n) == IF n \in DOMAIN w.disk THEN w.disk[n] ELSE 0
Bytes(w, n) == Durable(w, n) + Unsynced(w, n)

Total(w, S) == SumFunction([ n \in DOMAIN w.disk \cap S |-> Bytes(w, n) ])

(* remove and rename neither ask nor tell an open handle: the file system  *)
(* keeps no locks.                                                         *)
Without(w, S) ==
  [w EXCEPT !.disk = Restrict(@, DOMAIN @ \ S), !.room = @ + Total(w, S)]

Created(w, n) ==
  [w EXCEPT !.disk = [ m \in DOMAIN @ \cup {n} |-> Durable(w, m) ]]

(* The calls that may fail when a line is written: fwrite, fopen if there  *)
(* is no handle yet, and those that copy the system log when it is full.   *)
(* Bound: one failure in writing a line.                                   *)
WriteFaults(w, s) ==
  {"none", "write"} \cup (IF w.slot[s].file = NoFile THEN {"open"} ELSE {})

SystemFull(w) == Bytes(w, SysLog) + 1 > SysLimit

SystemFaults(w) ==
  WriteFaults(w, System)
    \cup (IF SystemFull(w) THEN {"copy", "rename", "open"} ELSE {})

Ok(w) == [w |-> w, ok |-> TRUE]
Failed(w) == [w |-> w, ok |-> FALSE]

-----------------------------------------------------------------------------
(* The file slots.                                                         *)

(* db_log_sync_slot: fflush and fsync, unless nothing was written.         *)
Sync(w, S) ==
  [w EXCEPT
    !.disk = [ n \in DOMAIN @ |-> IF n.stream \in S THEN Bytes(w, n) ELSE @[n] ],
    !.slot = [ s \in Slots |->
                 IF s \in S THEN [@[s] EXCEPT !.buffered = 0] ELSE @[s] ]]

(* Power is gone: handles and what they buffer are lost.                   *)
Dropped(w, S) ==
  [w EXCEPT !.slot = [ s \in Slots |-> IF s \in S THEN Closed ELSE @[s] ],
            !.room = @ + SumFunction([ n \in DOMAIN w.disk |->
                           IF n.stream \in S THEN Unsynced(w, n) ELSE 0 ])]

(* db_log_close_slot, db_log_close_session_slots_locked, ..._all_slots.    *)
Close(w, S) ==
  [Sync(w, S) EXCEPT !.slot = [ s \in Slots |-> IF s \in S THEN Closed ELSE @[s] ]]

(* The slots with something unsynced whose last sync is                    *)
(* DB_LOG_SYNC_IDLE_MS ago when this runs, each by its own clock:          *)
(* db_log_sync_idle_slots_locked is Sync of these.                         *)
IdleSets(w) == SUBSET { s \in Slots : w.slot[s].buffered > 0 }

(* The handle is opened for appending when there is none; that creates the *)
(* file.                                                                   *)
Open(w, n, fault) ==
  IF w.slot[n.stream].file # NoFile THEN Ok(w)
  ELSE IF fault = "open" THEN Failed(w)
  ELSE Ok([Created(w, n) EXCEPT !.slot[n.stream].file = n])

(* Mutation: no sync at the end of a block.                                *)
WriteOnly(w, s, fault) ==
  IF fault = "write" \/ w.room = 0 THEN Failed(w)
  ELSE IF w.slot[s].file \notin DOMAIN w.disk THEN Ok(w)
  ELSE Ok([w EXCEPT !.slot[s].buffered = @ + 1, !.room = @ - 1])

(* db_log_write_slot of one line: a sync as soon as the position is at the *)
(* end of a block.  Of a file that was removed under its handle nothing is *)
(* kept.                                                                   *)
Write(w, s, fault) ==
  LET n == w.slot[s].file
      v == [w EXCEPT !.slot[s].buffered = @ + 1, !.room = @ - 1]
  IN IF fault = "write" \/ w.room = 0 THEN Failed(w)
     ELSE IF n \notin DOMAIN w.disk THEN Ok(w)
     ELSE Ok(IF Bytes(v, n) % Block = 0 THEN Sync(v, {s}) ELSE v)

-----------------------------------------------------------------------------
(* Space.                                                                  *)

(* Mutation: only the reserve is kept free.                                *)
ReserveOnly ==
  Positive(ImageReserve, IF image.open THEN 0 ELSE image.bytes)

(* db_log_required_free_locked.  stat does not see what an upload has      *)
(* written so far.                                                         *)
ImageSeen == IF image.open THEN 0 ELSE image.bytes
RequiredFree == Headroom + Positive(ImageReserve, ImageSeen)

(* db_log_refresh_usage_locked *)
Refresh(w) == [w EXCEPT !.free = IF w.age < LinesPerSecond THEN w.room ELSE 0]

(* ... when the time of the refresh is noted, too.                         *)
Reread(w) == Refresh([w EXCEPT !.age = 0])
Expired(w) == [w EXCEPT !.age = LinesPerSecond, !.free = 0]
Aged(w) == IF w.age + 1 < LinesPerSecond THEN [w EXCEPT !.age = @ + 1] ELSE Expired(w)

SessionFiles(i) == { n \in SessionNames : n.id = i }

(* db_log_oldest_completed_session_locked looks at trip files only.        *)
Completed(w, current) ==
  { i \in Ids \ {current} : Log(Trip, i) \in DOMAIN w.disk }

Enough(w) == w.free >= RequiredFree + 1
Smaller(w, current) ==
  Refresh(Without(w, SessionFiles(Min(Completed(w, current)))))
Grown(w, v) == [w |-> v, ok |-> v.free > w.free]

(* The loop of db_log_prepare_space_locked: sessions go, the oldest first, *)
(* until a line fits or one of them frees nothing.                         *)
EvictOne(r, current) ==
  IF ~r.ok \/ Enough(r.w) \/ Completed(r.w, current) = {} THEN r
  ELSE Grown(r.w, Smaller(r.w, current))

Evict(w, current) ==
  LET after[k \in 0 .. MaxId] ==
        IF k = 0 THEN Ok(w) ELSE EvictOne(after[k - 1], current)
      made(r) == [r EXCEPT !.ok = @ /\ Enough(r.w)]
  IN made(after[MaxId])

(* db_log_prepare_space_locked: the usage is read anew once a second, or   *)
(* when the cached figure is near the reserves.                            *)
PrepareSpace(w, current) ==
  LET due == w.age = LinesPerSecond \/ w.free < RequiredFree + 1 + Block
  IN [Evict(IF due THEN Reread(w) ELSE w, current) EXCEPT !.w = Aged(@)]

(* db_log_compact_system_locked: the newest part of SYSTEM.LOG is copied   *)
(* to SYS.TMP, which takes its place.                                      *)
Copied(w, fault) ==
  IF fault = "copy" \/ w.room < SysTrim THEN Failed(w)
  ELSE IF fault = "rename" THEN Failed(Without(w, {SysLog}))
  ELSE Ok([w EXCEPT !.disk[SysLog] = SysTrim,
                    !.room = @ + Durable(w, SysLog) - SysTrim])

Compact(w, fault) ==
  IF fault = "open" THEN Failed(Close(w, {System}))
  ELSE Copied(Without(Close(w, {System}), {SysTmp}), fault)

FitsSystem(w, fault) ==
  IF SystemFull(w) THEN Compact(w, fault) ELSE Ok(w)

Spaced(r, current) == IF r.ok THEN PrepareSpace(r.w, current) ELSE r
Opened(r, n, fault) == IF r.ok THEN Open(r.w, n, fault) ELSE r
IdleToo(r, idle) == [r EXCEPT !.w = Sync(@, idle)]
Written(r, s, fault, idle) ==
  IF r.ok THEN IdleToo(Write(r.w, s, fault), idle) ELSE r

(* db_log_append_line_locked to the file n, during session `current' (0 if *)
(* there is none): what comes before the line is written, ...              *)
Readied(w, n, current, fault) ==
  LET fitting == IF n = SysLog THEN FitsSystem(w, fault) ELSE Ok(w)
  IN Opened(Spaced(fitting, current), n, fault)

(* ... the line, and the slots that turn out to be idle.                   *)
Append(w, n, current, fault, idle) ==
  Written(Readied(w, n, current, fault), n.stream, fault, idle)

Faults(w, n) == IF n = SysLog THEN SystemFaults(w) ELSE WriteFaults(w, n.stream)

Idled(r) == { IdleToo(r, idle) : idle \in IdleSets(r.w) }

AnyIdle(r, s, fault) ==
  IF r.ok THEN UNION { Idled(x) : x \in { Write(r.w, s, fault) } } ELSE {r}

Appends(w, n, current) ==
  UNION { UNION { AnyIdle(r, n.stream, f) : r \in { Readied(w, n, current, f) } } :
            f \in Faults(w, n) }

(* db_log_append_final_line_locked: no space check, and a sync.            *)
Ended(r, s, fault) ==
  IF r.ok THEN Sync(Write(r.w, s, fault).w, {s}) ELSE r.w
AppendFinals(w, n) ==
  { Ended(Open(w, n, f), n.stream, f) : f \in WriteFaults(w, n.stream) }

-----------------------------------------------------------------------------
(* Sessions.                                                               *)

(* The .TMP files of the ids in I that are to get their final names.       *)
Unnamed(w, I, least) ==
  { n \in DOMAIN w.disk \cap SessionNames :
      n.tmp /\ n.id \in I /\ w.disk[n] >= least }

(* Those of them whose rename fails.                                       *)
Stuck(todo) ==
  { S \in SUBSET todo : S \subseteq left \/ Cardinality(left \cup S) <= MaxStuck }

(* They become .LOG files and replace whatever has that name.  Of one that *)
(* is stuck the .TMP file is what remains.                                 *)
Renamed(w, I, least, stuck) ==
  LET todo == Unnamed(w, I, least)
      Logs(S) == { Log(n.stream, n.id) : n \in S }
      new == Logs(todo \ stuck)
  IN [w EXCEPT !.disk = [ n \in (DOMAIN @ \ ((todo \ stuck) \cup Logs(todo))) \cup new |->
        IF n \in new THEN @[Tmp(n.stream, n.id)] ELSE @[n] ],
                !.room = @ + Total(w, Logs(todo))]

(* Mutation: the id is not counted up.                                     *)
StartSessionSameId ==
  /\ next <= MaxId
  /\ sid' = next
  /\ UNCHANGED <<next, nvs>>
  /\ given' = next
  /\ \E r \in Appends(vol, Tmp(Trip, next), next) :
       /\ active' = r.ok
       /\ vol' \in IF r.ok THEN { x.w : x \in Appends(r.w, SysLog, next) }
                  ELSE {r.w}
       /\ left' = left \cup (IF r.ok THEN {} ELSE {r.w.slot[Trip].file} \ {NoFile})

(* db_log_start_session_locked when no session is active.  The id is given *)
(* and stored before it is known whether the session starts; when its      *)
(* first line cannot be written the trip handle stays open.                *)
StartSession ==
  /\ next <= MaxId
  /\ sid' = next
  /\ next' = next + 1
  /\ nvs' = next + 1
  /\ given' = next
  /\ \E r \in Appends(vol, Tmp(Trip, next), next) :
       /\ active' = r.ok
       /\ vol' \in IF r.ok THEN { x.w : x \in Appends(r.w, SysLog, next) }
                  ELSE {r.w}
       /\ left' = left \cup (IF r.ok THEN {} ELSE {r.w.slot[Trip].file} \ {NoFile})

Renamings(w) ==
  { [w |-> Renamed(w, {sid}, 1, stuck), stuck |-> stuck] :
      stuck \in Stuck(Unnamed(w, {sid}, 1)) }

(* Mutation: the files are renamed before their handles are closed.        *)
FinishedTooEarly(w) ==
  UNION { { [r EXCEPT !.w = Close(@, SessionStreams)] : r \in Renamings(ended) } :
            ended \in AppendFinals(w, Tmp(Trip, sid)) }

(* The files of a session are closed and renamed.                          *)
Finished(w) ==
  UNION { Renamings(Close(ended, SessionStreams)) :
            ended \in AppendFinals(w, Tmp(Trip, sid)) }

session == <<active, sid, next, nvs, left, given>>

(* db_log_finish_session_locked: it ends whether or not its files could be *)
(* renamed.                                                                *)
FinishSession(w) ==
  /\ active' = FALSE
  /\ sid' = 0
  /\ manual' = FALSE
  /\ UNCHANGED <<next, nvs, given>>
  /\ \E r \in Finished(w) :
       /\ left' = left \cup r.stuck
       /\ vol' \in AppendFinals(r.w, SysLog)

(* db_sonar_log_start_manual_capture; it extends a session that is active. *)
StartManualCapture ==
  /\ \/ /\ active
        /\ manual' = TRUE
        /\ UNCHANGED <<vol, session>>
     \/ /\ ~active
        /\ StartSession
        /\ manual' = (active' \/ manual)
  /\ UNCHANGED <<armed, image>>

(* db_sonar_log_stop_manual_capture *)
StopManualCapture ==
  /\ \/ active /\ ~armed /\ FinishSession(vol)
     \/ (~active \/ armed) /\ manual' = FALSE /\ UNCHANGED <<vol, session>>
  /\ UNCHANGED <<armed, image>>

(* db_sonar_log_note_fc_armed_state, with every heartbeat.                 *)
NoteFcArmedState(a) ==
  LET starts == a /\ ~active
      ends == ~a /\ armed /\ active /\ ~manual
  IN /\ armed' = a
     /\ \/ starts /\ StartSession /\ UNCHANGED manual
        \/ ends /\ FinishSession(vol)
        \/ ~starts /\ ~ends /\ UNCHANGED <<vol, session, manual>>
     /\ UNCHANGED image

(* The file the lines of a stream go to: the one its handle is open on.    *)
Target(w, s) == IF w.slot[s].file = NoFile THEN Tmp(s, sid) ELSE w.slot[s].file

(* A manual capture whose time is up ends, unless the boat is armed.       *)
TimeIsUp == manual /\ (armed \/ ~active) /\ manual' = FALSE

(* db_sonar_log_tick writes a trip sample when one is due, and closes the  *)
(* capture when that fails.                                                *)
TripSample(w) ==
  /\ active
  /\ Bytes(w, Target(w, Trip)) < MaxTrip
  /\ \/ /\ UNCHANGED session
        /\ UNCHANGED manual \/ TimeIsUp
        /\ vol' \in { r.w : r \in { x \in Appends(w, Tmp(Trip, sid), sid) : x.ok } }
     \/ \E r \in Appends(w, Tmp(Trip, sid), sid) : ~r.ok /\ FinishSession(r.w)

Quiet(w) ==
  /\ UNCHANGED session
  /\ UNCHANGED manual \/ TimeIsUp
  /\ vol' = w

(* Mutation: only appending looks after streams that have gone quiet.      *)
NotSynced(idle) == vol

(* The tick syncs the idle slots before anything else.                     *)
IdleSynced(idle) == Sync(vol, idle)

Tick(idle) ==
  /\ UNCHANGED <<armed, image>>
  /\ \E w \in {IdleSynced(idle)} :
       Quiet(w) \/ TripSample(w) \/ (manual /\ active /\ ~armed /\ FinishSession(w))

(* db_sonar_log_log_hardwired_*, ..._deeper_*: lines of the sonar tasks.   *)
SonarLine ==
  /\ active
  /\ Bytes(vol, Target(vol, Sonar)) < MaxSonar
  /\ vol' \in { r.w : r \in Appends(vol, Tmp(Sonar, sid), sid) }
  /\ UNCHANGED <<session, manual, armed, image>>

(* db_sonar_log_log_system_*, db_sonar_log_log_boot.                       *)
SystemLine ==
  /\ vol' \in { r.w : r \in Appends(vol, SysLog, IF active THEN sid ELSE 0) }
  /\ UNCHANGED <<session, manual, armed, image>>

-----------------------------------------------------------------------------
(* The web interface.                                                      *)

(* db_sonar_log_list_sessions and db_sonar_log_stream, and                 *)
(* db_sonar_log_get_status, which also reads the usage anew.               *)
ReadBack ==
  /\ LET w == Sync(vol, Slots) IN vol' \in {w, Refresh(w)}
  /\ UNCHANGED <<session, manual, armed, image>>

(* db_sonar_log_delete_session *)
DeleteSession(i) ==
  /\ ~(active /\ i = sid)
  /\ vol' = Refresh(Without(vol, SessionFiles(i)))
  /\ UNCHANGED <<session, manual, armed, image>>

Emptied(w) ==
  [Without(Close(w, Slots), Names) EXCEPT !.disk = [ n \in {SysLog} |-> 0 ]]

(* db_sonar_log_clear_all *)
ClearAll ==
  /\ ~active
  /\ vol' = Refresh(Emptied(vol))
  /\ left' = {}
  /\ UNCHANGED <<active, sid, next, nvs, given, manual, armed, image>>

(* db_sonar_log_format_volume: everything on the volume goes, the firmware *)
(* and the parameter backup with it, and session ids start again at 1.     *)
(* Bound: not while an upload has the image open.                          *)
FormatVolume ==
  /\ ~active
  /\ ~image.open
  /\ \/ /\ next' = 1
        /\ given' = 0
        /\ left' = {}
        /\ image' = [bytes |-> 0, open |-> FALSE]
        /\ \E w \in {Refresh([Emptied(vol) EXCEPT !.room = Capacity])} :
             vol' \in { r.w : r \in Appends(w, SysLog, 0) }
     \/ /\ vol' = Close(vol, Slots)
        /\ UNCHANGED <<next, given, left, image>>
  /\ UNCHANGED <<active, sid, nvs, manual, armed>>

-----------------------------------------------------------------------------
(* What else uses the volume: db_fc_flash.c and db_fc_params.c.            *)

(* db_fc_flash_upload_begin *)
ImageOpened ==
  /\ ~image.open
  /\ image' = [bytes |-> 0, open |-> TRUE]
  /\ vol' = [vol EXCEPT !.room = @ + image.bytes]
  /\ UNCHANGED <<session, manual, armed>>

(* db_fc_flash_upload_write *)
ImageGrows ==
  /\ image.open
  /\ image.bytes + Chunk <= MaxImage
  /\ vol.room >= Chunk
  /\ image' = [image EXCEPT !.bytes = @ + Chunk]
  /\ vol' = [vol EXCEPT !.room = @ - Chunk]
  /\ UNCHANGED <<session, manual, armed>>

(* db_fc_flash_upload_finish tells the log to look (refresh_limits), ...   *)
ImageFinished ==
  /\ image.open
  /\ image' = [image EXCEPT !.open = FALSE]
  /\ vol' = Refresh(vol)
  /\ UNCHANGED <<session, manual, armed>>

(* ... and so does db_fc_flash_delete_image, but not _upload_abort.        *)
ImageRemoved ==
  /\ image' = [bytes |-> 0, open |-> FALSE]
  /\ LET w == [vol EXCEPT !.room = @ + image.bytes]
     IN vol' = IF image.open THEN w ELSE Refresh(w)
  /\ UNCHANGED <<session, manual, armed>>

-----------------------------------------------------------------------------
(* Time, and power.                                                        *)

SecondPasses ==
  /\ vol.age < LinesPerSecond
  /\ vol' = Expired(vol)
  /\ UNCHANGED <<session, manual, armed, image>>

(* db_log_recover_and_find_next_locked *)
Recovered(w, stuck) == Renamed(w, Ids, 0, stuck)

(* Mutation: the next id is the one after those on the volume.             *)
NextOnDisk(w, stored) == Max({0} \cup { n.id : n \in DOMAIN w.disk }) + 1

NextAfter(w, stored) == Max({ n.id : n \in DOMAIN w.disk } \cup {stored - 1, 0}) + 1

(* SYSTEM.LOG with its compacted copy next to it, or only the copy.        *)
HalfCompacted(w) ==
  LET copied == [Created(w, SysTmp) EXCEPT !.disk[SysTmp] = SysTrim,
                                           !.room = @ - SysTrim]
  IN IF w.room < SysTrim THEN {} ELSE {copied, Without(copied, {SysLog})}

(* What a power cut leaves: the durable files, plainly; a session whose    *)
(* removal had reached its trip file only; a system log half compacted.    *)
Cut ==
  LET plain == Dropped(vol, Slots)
      synced == Dropped(Sync(vol, {System}), Slots)
  IN {plain}
     \cup { Without(plain, {Log(Trip, i)}) : i \in Completed(plain, sid) }
     \cup (IF SystemFull(vol) THEN HalfCompacted(Without(synced, {SysTmp}))
           ELSE {})

(* The power goes and comes back: db_sonar_log_init.  A session that was   *)
(* recovered is noted in the system log.  An upload that it interrupts     *)
(* leaves an empty image, as ImageRemoved does.  Bound: only a .TMP file     *)
(* that has something in it is stuck.                                      *)
PowerCut ==
  /\ ~image.open
  /\ \E w \in Cut :
       /\ next' = NextAfter(w, nvs)
       /\ \E stuck \in Stuck(Unnamed(w, Ids, 1)) :
            /\ left' = stuck
            /\ \E booted \in {Expired(Created(Recovered(w, stuck), SysLog))} :
                 vol' \in IF \E i \in Ids : Tmp(Trip, i) \in DOMAIN w.disk \ stuck
                          THEN { Append(booted, SysLog, 0, f, {}).w :
                                   f \in SystemFaults(booted) }
                          ELSE {booted}
  /\ active' = FALSE
  /\ sid' = 0
  /\ armed' = FALSE
  /\ manual' = FALSE
  /\ UNCHANGED <<nvs, given, image>>

-----------------------------------------------------------------------------
LogInit ==
  /\ vol = [disk |-> [ n \in {SysLog} |-> 0 ],
            slot |-> [ s \in Slots |-> Closed ],
            room |-> Capacity, free |-> 0, age |-> LinesPerSecond]
  /\ active = FALSE /\ armed = FALSE /\ left = {}
  /\ sid = 0
  /\ next = 1
  /\ nvs = 1
  /\ manual = FALSE
  /\ image = [bytes |-> 0, open |-> FALSE]
  /\ given = 0

LogNext ==
  \/ StartManualCapture \/ StopManualCapture
  \/ \E a \in BOOLEAN : NoteFcArmedState(a)
  \/ \E idle \in IdleSets(vol) : Tick(idle)
  \/ SonarLine \/ SystemLine
  \/ ReadBack \/ \E i \in Ids : DeleteSession(i)
  \/ ClearAll \/ FormatVolume
  \/ ImageOpened \/ ImageGrows \/ ImageFinished \/ ImageRemoved
  \/ SecondPasses \/ PowerCut

LogSpec == LogInit /\ [][LogNext]_vars

(* The tick finds that slot s, with something unsynced, has been idle.     *)
TickSyncs(s) ==
  /\ vol.slot[s].buffered > 0
  /\ UNCHANGED <<session, armed, image>>
  /\ \E idle \in IdleSets(vol) :
       s \in idle /\ IF s = Trip THEN Tick(idle) ELSE Quiet(IdleSynced(idle))

(* The publish task ticks ten times a second, and a slot that stays dirty  *)
(* was not synced meanwhile, so that five seconds later it is idle; no two *)
(* slots need be so at once.                                               *)
LogFairSpec == LogSpec /\ \A s \in Slots : WF_vars(TickSyncs(s))

-----------------------------------------------------------------------------
(* The types, and that the free space is what the files leave.             *)
LogTypeOK ==
  /\ vol.slot \in [Slots -> Slot]
  /\ DOMAIN vol.disk \subseteq Names
  /\ \A n \in DOMAIN vol.disk : vol.disk[n] \in 0 .. Capacity
  /\ \A s \in Slots :
       /\ vol.slot[s].buffered < Block
       /\ vol.slot[s].file # NoFile => vol.slot[s].file.stream = s
  /\ vol.room = Capacity - image.bytes - Total(vol, Names)
  /\ vol.free \in 0 .. Capacity
  /\ vol.age \in 0 .. LinesPerSecond
  /\ active \in BOOLEAN /\ armed \in BOOLEAN /\ left \subseteq SessionNames
  /\ sid \in 0 .. MaxId
  /\ {next, nvs} \subseteq 1 .. MaxId + 1
  /\ manual \in BOOLEAN
  /\ image \in [bytes: 0 .. MaxImage, open: BOOLEAN]
  /\ given \in 0 .. MaxId

(* The firmware and the parameter backup always fit: what is free never    *)
(* falls below what is not yet filled of their reserves, although the last *)
(* lines of a session do not ask for space, the space check works with a   *)
(* cached figure, an image may be larger than its reserve, and a power cut *)
(* may leave a copy of the system log behind.                              *)
ReserveKept ==
  vol.room >= Positive(ImageReserve, image.bytes)

(* The files of a session are renamed together when it ends, also when the *)
(* power was cut: without a session every .TMP file with something in it   *)
(* is one whose own rename failed (db_sonar_log.c:760, 802), or one that   *)
(* the trip handle of a session that could not start was left open on;     *)
(* neither keeps the others from their final names.                        *)
RenamedTogether ==
  ~active =>
    \A n \in DOMAIN vol.disk \cap SessionNames :
      n.tmp /\ vol.disk[n] > 0 => n \in left

(* Session ids never go back: a session gets an id above every id given    *)
(* since the volume was formatted, also after eviction, deletion and       *)
(* restarts.                                                               *)
IdIsNew == ~active /\ active' => sid' > given
IdsNeverGoBack == [][IdIsNew]_vars

(* A finished log is never written again and never replaced by another: it *)
(* keeps its length until it is removed.                                   *)
FinishedIsFinal ==
  [][\A n \in DOMAIN vol.disk \ {SysLog} :
        ~n.tmp /\ n \in DOMAIN vol'.disk => vol'.disk[n] = vol.disk[n]]_vars

(* What the buffer of slot s held before the step is on flash after it.    *)
Flushed(s) ==
  LET n == vol.slot[s].file
  IN n \in DOMAIN vol.disk \cap DOMAIN vol'.disk /\ vol'.disk[n] >= Bytes(vol, n)

(* Nothing stays in a buffer for good, also of a stream that has stopped   *)
(* producing: of every stream, again and again, all that was written has   *)
(* reached flash, even if a new line follows at once.                      *)
BufferedReachesFlash ==
  \A s \in Slots : []<>(vol.slot[s].buffered = 0) \/ []<><<Flushed(s)>>_vars
=============================================================================
