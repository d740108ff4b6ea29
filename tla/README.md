# A TLA+ model of the boat companion

This directory holds TLA+ specifications of the ESP32 companion firmware in
`src/`, the TLC configurations that check them, and TLAPS proofs about them.
The companion sits between the boat's flight controller (FC) and the browser:
it bridges MAVLink, drives sonars, keeps sonar and system logs on a small flash
volume, flashes the FC over USB, dumps and restores the FC's parameters, tunes
it, and updates itself. Nearly all of what follows is about the parts that can
leave the boat unusable when they go wrong.

To check a run: `tlc -workers 2 -config MCFcFlash.cfg MCFcFlash.tla`. To check the
proofs: `tlapm FcFlashProofs.tla`, and the same for `FcFlashSessionProofs`, `ConsoleRingProofs`,
`FcParamsProofs`, `FcTuneProofs`, `OtaPolicyProofs`, `StartupProofs` and `SonarLogProofs` (this one
takes about ten minutes).

## 1. The system

### Who runs

| Task | Where | What it does |
|---|---|---|
| web server | `http_server.c` (esp_http_server) | one task: handlers never overlap each other |
| publish task | `db_timers.c:398-409` | every 100 ms: heartbeats, sonar publishing with `db_sonar_log_tick`, `db_fc_params_tick` (257), `db_fc_tune_tick`, `db_netlog_tick` |
| MAVLink task | `db_esp32_control.c`, `db_mavlink_msgs.c:827` | parses the serial and Wi-Fi streams, hands PARAM_VALUE to the parameter job |
| flash task | `db_fc_flash.c:572` | exists only while an FC is being flashed |
| USB host tasks | CDC-ACM callbacks, `db_fc_flash.c:273-297` | higher priority than the flash task |
| sonar tasks | `danevi_sonar.c`, `deeper_udp_sonar.c` | read a sensor, publish a depth under a mutex |
| main task | `main.c:1185` | `app_main`: records the boot, brings up Wi-Fi, starts the rest |
| event and timer tasks | `main.c:496`, `main.c:488` | `wifi_event_handler`; the slow reconnect timer |
| health task | `db_ota_policy.c:308` | only in builds with the health gate, only after an update |

Tasks share memory under one mutex per module, or spinlock sections, or (in places the
hazard list names) nothing. Everything but NVS, the log volume, the FC's own flash
and the boot crash guard in RTC memory is lost at a reset.

### The parts, their state and what makes them right

| Part | State | Operations | Correct when |
|---|---|---|---|
| FC firmware slot (`db_fc_flash.c:395-570`, upload handlers) | `fcfw.bin`, its sidecar, the open upload, `g_busy` | upload begin/write/finish/abort, delete, get info | what it accepts is a whole upload with its own board id and CRC, after any drop, full volume or power cut |
| FC flashing (`db_fc_flash.c:233-393, 572-796`) | status, the task's position, the USB handle, raw mode, receive stream, disconnect token | start, every bootloader command and its answer or deadline, reboot, callbacks | only a matching board is erased, only verified firmware starts, the handle is never leaked, the job ends |
| Flash console (`db_fc_flash.c:123-195`, `fcflash.js`) | a ring of numbered lines, the page's cursor | log, poll | lines are shown once, in order, none skipped |
| FC parameters (`db_fc_params.c`) | the job and its table, the store request, the backup file and its temporary | dump, load, restore, delete, PARAM_VALUE, tick, store | nothing is reported written that the FC refused, entries are counted once, the backup is never half or made of values the FC never had, jobs end |
| Own updates (`db_ota_policy.c`, `main.c`, `http_server.c:1523-1604`) | two slots, otadata, crash guard, health state | crash guard, confirm, abandon, health gate, upload | an image is trusted only after it has shown itself, a working one is never demoted, the boat comes up again |
| Log volume (`db_sonar_log.c`) | session files, next id in NVS, capture buffer, system log | start/finish session, append, evict, compact, format, tick | ids never repeat, a session being written is not evicted, sync loses at most the unsynced tail |
| FC tuning (`db_fc_tune.c`) | a step machine over the parameter job, the baseline and the results | start, apply, abort, PARAM_VALUE, tick | a gain shown as applied was echoed by the FC, and every tuning ends |
| Breadcrumbs (`db_netlog.c`) | queue of text, drop counter | put, tick | nothing dropped without being counted |
| Diagnostic journal (`db_diag.c`) | a ring of flash sectors with one numbered record each, the latest one's number and place | init (scan), log event (erase, write, read back) | recent events stay readable whatever is interrupted, and numbers follow time |
| Start-up and Wi-Fi (`main.c`) | the station link, retry counts, reconnect timer, boot window, radio | app_main's order, station or access point, event handler, timer, radio switch | start-up gets past Wi-Fi, and a link that was lost is tried again for ever |
| Sonar drivers | last sample and time, jump filter | read, publish | stale samples are not published, filter recovers |
| Bridge and clients (`db_esp32_control.c`, `tcp_server.c`, `db_serial.c`) | UDP and TCP client tables | add, expire, send, accept | no duplicate or lost client |
| Settings (`db_parameters.c`) | NVS values | read, write, validate | only valid values are stored |
| Telemetry, web pages, build tools | — | — | mostly calls into libraries; not modelled |

### How they interact

- The web server starts and stops everything: it calls into the slot, the flash
  job, the parameter job, tuning, logs and updates directly, from its one task.
- The flash task reads the slot that the web server writes; `g_busy` is the only
  thing between them, and `DELETE` does not look at it.
- USB callbacks close the handle and feed the stream the flash task uses.
- The publish task drives the parameter job's time-outs, and writes its backup;
  the MAVLink task drives it with values; the web server replaces it. Tuning is a client of it
  with a mutex of its own: the web server hands it the list of gains, and the publish task looks at
  the job's status, and then at its failures, later.
- `app_main` brackets start-up with the crash guard: `db_ota_crash_guard_start`
  first, `db_ota_crash_guard_mark_healthy` last (`main.c:1185-1190, 1459-1461`). In between it
  records the boot in the journal, and only then starts Wi-Fi and, once that is settled, the rest.

### What is hard here

Late answers on a serial protocol without sequence numbers; a file replaced or deleted by one
task while another reads it; power cuts between two file operations and unchecked `fclose`; a
critical section left and re-entered; a cable pulled at any instruction; crash loops over two
update slots; cursors that fall behind a ring; two modules that look at each other under
different mutexes; a flash sector that is erased and then not written; a link that is lost after
the boot has stopped watching it. `PROJECT.json` lists them under `hazards`, each with its line
and the properties that would notice, or a note on why none does.

## 2. The modules

| Module | Models | About |
|---|---|---|
| `FcImageStore` | the firmware slot and the upload handlers | the web server's file operations one by one |
| `FcFlash` | the flash task, the USB callbacks, the FC | extends `FcImageStore`: both share `image`, `meta`, `busy` |
| `FcFlashProofs` | | theorems about `FcImageStore`, and about `FcFlash`, which rest on the same lemmas |
| `FcFlashSessionProofs` | | theorems about what the flash job says to the bootloader: late answers, erase, CRC, boot |
| `ConsoleRing` | the flash console from logger to page | |
| `ConsoleRingProofs` | | theorems about `ConsoleRing` |
| `FcParams` | the parameter job and its backup | |
| `FcParamsProofs` | | theorems about `FcParams` |
| `FcTune` | tuning, as a client of the parameter job | extends `FcParams`: both share the link and the publish task |
| `FcTuneProofs` | | theorems about the composition; rests on the lemmas of `FcParamsProofs` |
| `OtaPolicy` | the companion's own update slots | |
| `OtaPolicyProofs` | | theorems about `OtaPolicy` |
| `SonarLog` | the log volume: sessions, streams, space, power cuts | |
| `SonarLogProofs` | | theorems about `SonarLog`: names, books, and the reserve |
| `EventLog` | what the diagnostic journal promises | abstract: knows nothing of sectors |
| `DiagJournal` | the diagnostic journal | implements `EventLog` |
| `WifiLink` | the station, its retries, the access point as fallback, the radio | |
| `Startup` | `app_main`: the journal's boot record, then Wi-Fi | composes `DiagJournal` and `WifiLink` |
| `StartupProofs` | | theorems about `DiagJournal`, the refinement among them, and about `Startup`, which carries them over |
| `MC*` | small values for the constants | |

Every variable is introduced with the C variable it stands for, and every action with the
function (or the part of one) it is. Definitions introduced by "Mutation:" are
plausible slips of the same code. They are used by no specification; putting
one in place of the definition that follows it makes the named property fail
(`mutants` in `PROJECT.json`), which is how we know each property sees the code.

**FcImageStore.** One action per file operation, because a power cut can fall
between any two. A file is a prefix of some upload (`[data, len]`). The CRC is
taken to be injective, so `Crc` returns the contents. `http` is the request in
progress; the web server has one task, so one is enough. Writing is buffered:
a power cut while receiving, and a `fclose` on a full volume, may leave any
shorter prefix. The sidecar may be torn for the same reason.

**FcFlash.** A command is three steps: `Transmit` (flush, send), then `Collected`
or `GaveUp`. A wait that has a deadline can give up at any moment, so no clock is needed.
Answers are units on a wire, and the code's reads take as many as they want:
if an old answer arrives late, the task reads it for the new one, shifted,
as the real byte stream would. The FC may answer, refuse, swallow a first
GET_SYNC, chatter MAVLink, vanish, come back in either mode, or be replaced by
another board. `link` is what the USB host driver thinks: `lost` is the time between the
device going and the disconnect callback. The sync loop's two attempts, both places
that call it, and the ignored results of sending REBOOT and BOOT are all there.
Not there: the armed check (a refusal that changes nothing), progress
percentages, and message text.

**ConsoleRing.** Line text is its number and the boot it was logged in; an
answer carries as many lines as fit, at least `MinFit`.

**FcParams.** One action per critical section. The tick takes the store request in
one (`TickTake`) and stores in another (`StoreOpen` and on), as the code does, so jobs can
start in between; the steps of the store itself are separate because power can be
cut between them, while `Locked` says that the mutex is held throughout. Parameters are
indexes and values are told apart by the read-back tolerance. The FC may refuse a
value by echoing its old one. Memory may run out in a start and in recording a
failed name. Writing the backup has three outcomes: it is whole; a line failed and the temporary is
removed; or the unchecked `fclose` (`db_fc_params.c:430`) could not write what was left, and the
code goes on as if it had. Such a file is `Short`: it has the lines of some of the table's first entries,
and perhaps a last number cut short (`CutAt`), and it does replace the backup. A temporary that is left
behind is forgotten, since nothing reads it and the next store truncates it.

**FcTune.** It extends `FcParams` and composes the two state machines: every step of the job is
a step here, with the tuning's variables unchanged or, for a PARAM_VALUE, with the tuning's
handler in the same step, as the MAVLink task calls one after the other. The two modules have
different mutexes, so whatever the tuning reads of the job is one step and what it does about it
is another: `TuneApply` enters WRITING and lets go, `TuneHandOver` starts the load, which may be
refused; the tick sees a finished job (`TuneSees`) and asks for its failures in a second look
(`TuneMarks`). A tick may come between the first two, and another client's job between the last
two. The samples of a drive are not modelled: an axis comes to one of the lists of gains in `Gains`. Baseline
requests leave through the same link and are lost when it is full.

**OtaPolicy.** ESP-IDF's bootloader and otadata are external and modelled from how the
code uses them. Images are told apart by behaviour: good, looping, unwell (comes up
but never passes the gate) and empty. `gate` is the build option
`CONFIG_DB_OTA_HEALTH_GATE`, chosen at the start and kept.

**SonarLog.** Every function of `db_sonar_log.c` that changes state holds `g_log_mutex`
throughout, so it is one action, built from operators that map the volume to the volume
and a result, one per static function of the file. A write may fail in `fopen`, in `fwrite`, on a full
volume or in a step of the system log's compaction, once per line. The renames that end or recover
a session may fail one by one (`Stuck`): the code has removed the `.LOG` of that name by then, logs an
error, and the session is over all the same (`db_sonar_log.c:759-761, 771-772`, and 801-802 at the next
start). Which slots are idle when a line is written or the tick runs is any set of those with something
unsynced (`IdleSets`), as each has its own `last_sync_ms`. The build is the default one, FAT
(`sdkconfig.defaults.esp32s3:41`): removing and renaming do not ask an open handle, and what is not
synced is lost with the power. A power cut may also fall inside a session's removal or a compaction. The
firmware image (`image`) is there for the space it takes; the log learns of it through `stat`, which sees
nothing of an upload until it is closed. `Sonar` stands for the hardwired and the Deeper stream; the parameter
backup's reserve has the same shape as the firmware's and is left out of `Capacity`. NVS is taken to
be reliable. Not there: fsync failures, orphaned clusters, the self-heal format, a volume that does not
mount, ids beyond `MaxId`, a format while an upload is open, a `g_manual_until_ms` that wraps to exactly 0.

**EventLog and DiagJournal.** `EventLog` has a set of readable events and the set of those ever
reported as stored, and three actions: record, acknowledge, forget. An event may be forgotten
when nobody was told that it is stored, or when one that came `Depth - 1` later is there.
`DiagJournal` has the partition, sector by sector. `db_diag.c` holds one mutex from choosing a
number to reading the record back, so one record is in hand at most; erasing, writing and
verifying are steps of their own because each may fail, and power may go inside. What the
checksum refuses is blank; a write may be wrong without saying so. The refinement maps what is
readable to `kept` and what `db_diag_log_event` returned ESP_OK for to `acked`.

**WifiLink.** One action per handler: the start of the station, the wait of
`db_init_wifi_clientmode` (a minute in the boot's window, or for ever when configured as a
station), the three branches of `wifi_event_handler`, the reconnect timer and the two halves of
`db_set_radio_status`. The driver and the access point are external: an attempt joins or drops,
who joined gets an address or not, any link may drop. Driver events queue up, so a handler may
see one that is out of date.

**Startup.** `app_main` as the order of the two: scan, boot record, Wi-Fi, later records. A
restart is possible at any step and takes both down; the journal alone survives.

Things that came up in the log that its properties are worded around:

- When a session's first line cannot be written (`db_sonar_log.c:695-698`), the session does not
  start but its trip handle stays open on the old name, and the next session's trip lines go to
  that file. The header promises one shared id for the files of a session
  (`db_sonar_log.h:8-12`). `left` remembers such a file, as it does one whose
  rename failed, and `RenamedTogether` is about all others.
- `db_sonar_log_format_volume` restarts ids at 1 (1178) although the comment at 219-223 says never to go
  back; `IdsNeverGoBack` is about ids since the last format.
- Eviction looks for trip files only (484-498). If the power goes while a session is removed, after its
  trip file, its sonar files stay until all logs are cleared.

`LogAssumption` asks for two proportions of the headroom, which the firmware's own numbers have:
see `SonarLogProofs` below. An image that is larger than its reserve needs none.

Others, in the newer modules and elsewhere, that no property claims:

- The tuning enters WRITING before the load exists (`db_fc_tune.c:387-391`). A tick in between
  reads the status of whatever job was before, and marks gains as applied, or the tuning as
  failed, before anything is written; another client's job that is started while the tuning is
  in WRITING has the same effect. The model does all this, and no property excludes it:
  `AppliedWasEchoed` is about the marking from the tuning's own load.
- When the volume is full, the `fclose` that ends the backup may fail unseen and a backup without its end
  replaces a complete one. The comment at `db_fc_params.c:408-409` speaks of power cuts, and so does
  `NeverHalf`: unfinished files that the code knows of never become the backup. `BackupWasStored`
  excepts the last number of such a file, which may have lost digits.
- A failed name that there was no memory for (`db_fc_params.c:219`) is taken for an applied one;
  `AppliedWasEchoed` excepts this too.
- Aborting while WRITING reports that nothing was written, while the load goes on.
- After a failed read-back the journal's next record takes the same number. The sector is the
  same too, so no two readable records share a number: `NumbersFollowTime` is the theorem.
  `s_valid_records`, a figure of the status page, may drift from the sectors and is not
  modelled.
- `xTimerStart` and `esp_wifi_connect` are unchecked in `main.c`; the model takes them to
  succeed. A station without a window that joins a network and never gets an address or a
  disconnect waits for ever, hence the assumption in `Resolves`.
- The transmission of BOOT is unchecked (`db_fc_flash.c:720`): "done" says that the flash was
  verified, not that the FC started, and so does `DoneMeansWritten`.

## 3. The runs

| Run (configuration) | Question | Result |
|---|---|---|
| `fc_flash` (`MCFcFlash.cfg`) | can a partial or mismatched image be accepted, the wrong board be erased, unverified firmware start, a handle leak, "done" lie? | no, given the assumption on ids below |
| `fc_flash_ends` (`MCFcFlashEnds.cfg`) | does a job always release the slot? | yes |
| `console` (`ConsoleRing.cfg`) | are lines lost or repeated when answers hold everything waiting? | no |
| `console_truncated` (`ConsoleRingTruncated.cfg`) | ... and when they do not? | lines are lost: finding 1 |
| `params` (`MCFcParams.cfg`) | counting, honesty and the backup's integrity with a lossy link, another station and power cuts | hold |
| `params_store_race` (`MCFcParamsRace.cfg`) | is the backup always a whole dump? | no: finding 2 |
| `params_stale_echo` (`MCFcParamsStale.cfg`) | is what a load reports as written what the FC holds? | no: finding 3 |
| `ota` (`OtaPolicy.cfg`) | trust, fallback, no demotion of working images, recovery | hold |
| `ota_both_fail` (`OtaPolicyFactory.cfg`) | is the factory image reached when both slots fail? | no: finding 4 |
| `tune` (`MCFcTune.cfg`) | after the tuning's own load, are exactly the gains that were echoed marked as applied; do dump, load and tuning end? | yes (marking from another client's job is not covered); yes |
| `startup` (`Startup.cfg`) | do recent events stay readable, is the journal an event log, does start-up end, is a lost link tried again? | yes |
| `sonar_log` (`MCSonarLog.cfg`) | new ids, finished logs, reserves, files of a session renamed together, buffers | hold |

### Bounds

- `fc_flash`: uploads that are good (two bodies), not word-aligned (6), and too large (8 with
  `MaxImage` 6), with all drops and cuts at block granularity, so all control paths of the
  handlers occur; two boards, the other board too small; images of two chunks, the second
  shorter (4 = 3 + 1), which is enough for a chunk to be lost, repeated or swapped. `MaxPending`
  1 command queued at the FC and `MaxWire` 3 reply units (one whole word answer) on the wire;
  more are dropped by refusing the step, so late answers exist but at most three units of them
  at a time. Bodies are symmetric. No bound on jobs, uploads, unplugging or power cuts.
- `fc_flash_ends`: one body, one board, one chunk: nothing about ending depends on them.
- `console`: `Lines` 3 with up to 7 lines in a boot, so the ring wraps twice, and two boots.
- `params`: two parameters, of which the FC refuses the second upload value; one
  request and a two-value reply on the link; the other station sets both and reads the first. `StallLimit` and `RetryLimit` are 0 so that giving up is
  always near; `tune` has 1 for both, so each branch on them is taken, and the
  theorems on the same invariants hold for all limits. No bound on jobs or power cuts.
- `tune`: one parameter and two values, of which the FC accepts one; both axes, whose gains meet
  in the one result that there is room for, so results are dropped; one request and one value on
  the link; limits of 1. With one parameter and no other station, a dump whose list is lost is
  all of a hole there can be: that a dump with a hole ends while other values, from another
  station's reads, keep resetting its stall counter is neither checked nor true of the code, where only silence
  ends such a dump. Larger instances are beyond what TLC can check of liveness. No
  bound on jobs, tunings or power cuts.
- `startup`: three sectors and five events, so the ring wraps and events are overwritten;
  `FastRetries` 2, so the second differs from the last. No bound on restarts, drops or failing
  flash operations.
- `ota`: the real limit of three crashes, two power cycles, three uploads; panics are
  unbounded.
- `sonar_log`: two sessions, trip files of two lines and their last one, a sonar file of one;
  blocks of two lines, so lines stay unsynced; `Capacity` 10 holds little more than one session
  next to the reserves, so sessions are evicted, captures end for lack of space, and figures
  that are one line old matter. `Headroom` 6 is the least that `LogAssumption` allows here: with `Block` 2,
  `SysTrim` 1 and `LinesPerSecond` 2 it asks for `Headroom + 2 > 1 + 3 * 2`; see
  `SonarLogProofs` for why. `MaxStuck` 1: a rename fails only while no other
  file is left behind, or for a file that was left before and that a restart tries again; the other
  files of the session are renamed. An empty file never fails at a restart. The theorems have no such bound. Which slots are idle is not bounded:
  any of those that are not synced. No bound on power cuts, deletions or formats.

### Fairness

- `FlashFairSpec`: weak fairness of the flash task only. Every wait in it has a
  deadline (`bl_cmd`, `open_fc`, the 8 s token wait), so it always gets to take a step.
  Nothing is assumed of the FC or cable. The task's stay in `program` ends because
  `off` grows with each acknowledged chunk and a refusal ends the job.
- `TuneFairSpec`: the publish task runs every 100 ms, so the parameters' tick gets weak fairness
  for the steps of storing. The time-outs of dump and load, and the tick and the time-outs of
  the tuning, get strong fairness: a timer is due once nobody has restarted it for its period,
  and the mutex may be busy whenever the tick looks, though not each time. In `tune` no other
  station sends values, so all that could restart a timer are answers to requests that the ticks
  make. `TuneHandOver` gets it because the web server's task does not stop inside a request.
  Nothing is assumed of the FC, the link or the operator, and a finished job need not be seen
  before somebody starts another.
- `StartupFairSpec`: weak fairness of the main task, the event handler and a running timer:
  tasks that wait on nothing but their queue or a deadline. Of the network, `Resolves`: an
  attempt has an outcome (the driver's own deadline), and a station that joined while the
  companion waits without a window gets an address or is dropped some time. That it ever
  connects is not assumed.
- `OtaFairSpec`: the boot sequence runs by itself and the health task polls: weak fairness.
  Uploads, crashes and power are never assumed to happen.
- `LogFairSpec`: weak fairness for each slot by itself of the ticks that sync it (`TickSyncs`). The
  publish task ticks every 100 ms (`db_timers.c:406`), and a slot that has something unsynced all the time was not
  synced meanwhile, since a sync leaves nothing unsynced and sets `last_sync_ms`
  (`db_sonar_log.c:359-368`); so after five seconds the next tick finds it idle
  (424-428). That two streams are ever idle at once is not assumed. A tick that does more than sync the
  slot, because it also ends a session, leaves nothing unsynced in it either, so only quiet ticks
  need be fair; the exception is the trip stream, to which the same tick may add the next sample. For it
  `BufferedReachesFlash` says that what was written reaches flash again and again (`Flushed`), not
  that the buffer is ever empty. No line and no request is assumed.

Deadlock checking is on in every run.

### Findings

1. `db_fc_flash_console_read` stops at the first line that does not fit
   (`db_fc_flash.c:183-185`) but answers with the number after the newest, so the lines between are
   never shown; the comment above it says clients resume without losing lines.
2. `db_fc_params_tick` clears the store request, releases the mutex and then stores the
   table it finds (`db_fc_params.c:286`). A job that starts in between has
   replaced it, and the backup is overwritten by part of the next dump, or by the
   values of an upload that have been written so far.
3. `db_fc_params_on_param_value` matches name and value only
   (`db_fc_params.c:256`): the echo of an earlier load's PARAM_SET that arrives late is
   taken for this one's, which is then never sent.
4. `db_ota_abandon_running` selects the other slot whenever its image
   verifies (`db_ota_policy.c:203`), so two confirmed slots that crash take turns and never
   fall back to the factory image that `src/README.md:21` promises.

While building `FcFlash`, TLC also showed that the two checks before an erase are safe
against late answers only because no image is made for a board whose id equals the
bootloader's revision number: with a late `rev` answer read as the board id, the wrong board
would be erased. The proofs added that no such id may equal a flash size either. Both are
numbers of quite another range, and `FlashAssumption` states this. The flash size is the weaker check of the
two: it is compared with nothing that it has to equal, and three statuses in a row, read as
a word, are a very large flash. See `FcFlashSessionProofs` for how much must be late for that.

## 4. The proofs

TLC looks at one small instance; the theorems below hold for every value of the constants
that satisfies the module's named assumption. Each follows one pattern: an inductive
invariant, found as a strengthening and first checked with TLC, one lemma per action (or group of
actions) that it is preserved, a step lemma by cases on the next-state relation, and the
theorem by `PTL`.

### FcFlashProofs

Of the firmware slot, for all uploads, limits, block and word sizes that satisfy
`StoreAssumption`:

- `StoreTypeCorrect`: `StoreSpec => []StoreTypeOK`
- `StoredImageIsWhole`: `StoreSpec => []PresentIsWhole`

`PresentIsWhole` is not inductive: it says nothing about an upload that has
not got its sidecar yet. The inductive invariant is `StoreInv`, the conjunction of

- `StoreTypeOK`;
- `UploadInv`: what each phase of a request implies. While an upload is received or
  closed there is no sidecar, its bytes are within the limit, what is in the file came from
  it, and once it is closed the bytes received are the whole upload; while the slot is being
  cleared there is no image;
- `SidecarInv`: a sidecar that parses has the board, the size and the data of some upload,
  and the CRC of the image, if there is one.

There is one lemma per action, `StoreStepInv` puts them together by cases on
`StoreNext`, and the theorems follow with `PTL`. The step that carries the argument is
`UploadSeal`: it takes the size from the bytes received, not from the file, so a file cut
short by a full volume gets a sidecar whose size does not agree with it, and `ImageInfo`
refuses it.

Of the slot with the flash task beside it, under `StoreAssumption` and `FlashAssumption`, for
all boards, images, chunk sizes and queue bounds:

- `FlashTypeCorrect`: `FlashSpec => []FlashTypeOK`
- `HandleNeverLeaks`: `FlashSpec => []NoLeakedHandle`
- `NeverRewrittenWhileBusy`: `FlashSpec => NoRewriteWhileBusy`
- `FlashedImageIsWhole`: `FlashSpec => []PresentIsWhole`, the slot's theorem again with the flash
  task beside it

The invariant is `FlashInv`: `StoreInv` of the slot, `TaskInv` (the task's position, and an
offset never beyond the image), `FcInv` (the board, and what is queued for it), `HandleInv` (the
driver and `g_dev` agree, and nothing is held when the slot is free) and `SlotInv`: the slot is
taken exactly while there is a task, and all that a web request can then be in the middle of is a
deletion. `SlotInv` is what ties the two modules together: `NoRewriteWhileBusy` and
the upload's part of `StoreInv` are not inductive without it, since they do not say that an
upload begun before the job has left the slot.

### FcFlashSessionProofs

Under the same assumptions, with `Late == MaxWire + 3 * (MaxPending - 1)`, the reply units that
can still reach a command after it was sent and that are not its own:

- `NeverErasesAnotherBoard`: `FlashSpec => EraseOnlyOwnBoard`: no board is erased that the
  image was not made for, however much is late
- `ErasesOnlyMatchingBoard`: if `Late <= 3`, `FlashSpec => EraseOnlyMatchingBoard`: nor one too
  small for it
- `OnlyVerifiedBoots`: if `Late <= 9`, `FlashSpec => []BootsOnlyVerified`
- `DoneOnlyWhenWritten`: if `Late <= 9`, `FlashSpec => DoneMeansWritten`

The premises are part of the result, not of the method. Answers carry no sequence number, so the
code cannot tell a late one; `bl_cmd` flushes what has arrived, and what arrives after that it
takes. With enough old answers on the way, those of an interrupted conversation could stand for
the CRC of this one. `Late <= 3` is the bound of run `fc_flash` (one whole word answer), and holds
there for all boards, images and chunk sizes; `Late <= 9` is three word answers.

`FlashInv` says nothing of answers. The invariant adds `LinkInv`, which holds whatever is late:
the FC says only what it can say of itself (`WireInv`), the image is a whole upload
(`ImgInv`), and from the erase on, the board at the other end is the image's (`OwnInv`). It suffices
for `NeverErasesAnotherBoard`: a number that equals the image's board id is the board's own id,
whichever question it answered, since it is no revision and no flash size, and the FC cannot be
exchanged without closing the link. For the CRC that argument fails, because an old CRC was
right when it was sent. What saves it is counting. `Behind` says how far from the
front of the line an old answer can be; `Taken` how many units the conversation has used up:
nine, before the CRC is asked for (one status for the sync, three units each for the id and
the size, one for the erase and one for the first chunk; the revision may time out). `CountStep` shows for
every step that what is late and what was taken stay within `Late` together (`CrcCount`), so with `Late <= 9` no
old CRC is left when the question goes out. `CrcAsked` then follows the one answer there can be to
the task, and `BootInv` what was verified, to the BOOT command, the reboot and the next boot,
where nothing may touch the flash in between. `EraseInv` is the same argument for the id and the
size after it: one unit has been taken when the id is asked for, and a whole word needs three.

### ConsoleRingProofs

For any numbers of lines, positions and boots:

- `ConsoleTypeCorrect`: `ConsoleSpec => []ConsoleTypeOK`
- `AlwaysShownOnce`: `ConsoleSpec => []ShownOnce`
- `NothingSkippedIfAllFits`: if an answer holds all the ring holds (`MinFit >= Lines`),
  `ConsoleSpec => []NothingSkipped`. Without that premise the property is false: finding 1.

The ring is right because two numbers less than `Lines` apart have different slots: that is the
lemma `Slot` on the remainder, from which `RingHolds` (a line still in the ring is in the slot
of its number) follows. For the page, lines are ordered by boot and number; `PageInv` says that
what is shown is ordered and behind the cursor, and `AnswerInv` the same of each answer on its
way, and that it continues what is shown. It is inductive because the page has one request in
flight. `SkipInv` adds that what an answer's cursor passes was shown, is in the answer, or had
left the ring.

### FcParamsProofs

Under `ParamsAssumption`, for any number of parameters, any uploads, any limits, and any behaviour
of the FC, the link and another station:

- `ParamsTypeCorrect`, `WrittenWasAlwaysStored`, `AlwaysCountedOnce`, `BackupNeverHalf`,
  `BackupAlwaysWasStored`: the invariants that the `params` run checks

`CountedOnce` maps the failed names, in order, to different entries that the load has passed without
their echo; the proof extends that map by the entry in hand whenever a name is recorded. No entry is
then counted both as written and as failed, and what is missing from both has lost its name to want
of memory.

The invariant is `ParamsInv`, the conjunction of `JobInv`, `LinkInv` and `DiskInv`. `JobInv`
adds to the types that a dump's `s_count` is the cardinality of the entries present, which is what
keeps it within the table when values are repeated (`FiledInv`, with the library's
`FS_AddElement`), and that a load in progress has an entry in hand. `LinkInv` says that whatever is on
its way from the FC was once held by it; without it a value filed on arrival could be anything.
`DiskInv` follows held values into the temporary, the backup, and a restore's list, and
that the temporary is whole once it may be renamed. The race of finding 2 does not disturb it: a
table that replaces the finished dump's has only entries not yet present, or present and held.

### FcTuneProofs

Under `ParamsAssumption` and `TuneAssumption`:

- `TuneTypeCorrect`: `TuneSpec => []TuneTypeOK`
- `TunedWasStored`, `TunedBackupWasStored`: the parameter job's invariants, now with the tuning
  as another of its clients
- `AppliedWasAlwaysEchoed`: `TuneSpec => AppliedWasEchoed`, if no gain appears twice
  (`DistinctGains`; the code adds one result per name, `db_fc_tune.c:302-324`)

`ParamsInv` is an invariant of the composition too: the tuning touches the job in two places
only, by adding requests to the link and by handing over a list, and both preserve it. What the
tuning adds is `TuneInv`. `AppliedWasEchoed` compares two records of one load that the code
keeps apart, the list of failed names, by which the tick marks, and the entries echoed.
`NamedInv` says what ties them: every entry that was passed and not echoed is among the failed
unless a name was lost, and nothing else is. A completed job may be a dump, where it does not
hold; `DumpInv` tells the two apart by the index, which a dump never moves. `DistinctInv` is
needed because a failure is known by its name only.

### StartupProofs

Of the journal, under `JournalAssumption`, for any number of sectors and events, any failures and any restarts:

- `JournalTypeCorrect`: `JournalSpec => []JournalTypeOK`
- `RecentAlwaysKept`: `JournalSpec => []RecentKept`
- `NumbersAlwaysFollowTime`: `JournalSpec => []NumbersFollowTime`
- `JournalImplementsEventLog`: `JournalSpec => KeepsContract`, the refinement of `EventLog`

The invariant is `JournalInv`. The argument is geometric: `Aligned` says that numbers around the
ring differ as their sectors do, modulo `Count`, so the target of number `n + 1` can only hold
`n + 1 - Count` or, after a failure, `n + 1`. `LatestInv` says that what the scan found is the
latest acknowledged or one beyond it that nobody was told of; `StepInv` what may be in the
target at each step; `AckedInv` that an acknowledged record is the only one of its number, and
is readable or outlived by one `Count - 1` later; `TimeInv` that numbers and time agree, across
numbers that are used again. The step that carries the argument is `Erase`: what it takes away
is, by `Aligned`, `Count` older than the record in hand, and so `Count - 1` older than the
latest, which stays. Each step then maps to a record, an acknowledgement, a forgetting or a
stutter of `EventLog`.

Of start-up with the journal and the station, under `JournalAssumption` and `WifiAssumption`:

- `StartupRunsJournal`: `StartupSpec => JournalSpec`: whatever start-up and Wi-Fi do, the
  journal only takes its own steps
- `StartupKeepsRecent`, `StartupImplementsEventLog`: hence the journal's theorems hold of the whole
- `StartupTypeCorrect`: `StartupSpec => []StartupTypeOK`, with the order of boot record and
  Wi-Fi, and at most three events waiting for the handler

The last needs `WifiInv`: which events can be waiting in which state of the link (`EventsInv`),
and that the timer runs only for a link that is down (`TimerInv`).

### OtaPolicyProofs

Under `OtaAssumption`, which asks for a crash limit above 1 (`db_ota_policy.c` uses 3; a limit of 1
would demote a working image at its first panic), for any numbers of power cuts and uploads:

- `OtaTypeCorrect`: `OtaSpec => []OtaTypeOK`
- `TrustAlwaysEarned`: `OtaSpec => []TrustIsEarned`
- `ProbationAlwaysHasFallback`: `OtaSpec => []ProbationHasFallback`
- `GoodNeverDemoted`: `OtaSpec => GoodIsNeverDemoted`

The invariant is `OtaInv`. Trust has to be followed through both slots, so it has four
parts on what otadata says of the newest and of the other slot (`NewestVerifies`, `NewestEarned`,
`OtherVerifies`, `OtherEarned`), `RunningInv` and `ProbationInv` on the image that runs, `TargetInv` (an
upload never writes to the slot that runs, nor while that one is on probation), `HealthInv` (the gate waits
only for an image on probation), and `GuardInv`: a crash streak belongs to an image that loops, or to the
one starting, which clears it when it comes up. `GuardInv` is why a working image is never demoted for
the crashes of another.

### SonarLogProofs

Under `LogAssumption`, for any number of sessions, any sizes of the volume, its blocks, the system log
and the reserves in the proportions below, any failing writes, and power cuts anywhere:

- `SessionsHold`: `LogSpec => []SessionInv`
- `IdsGoUp`: `LogSpec => IdsNeverGoBack`
- `FinishedStaysFinal`: `LogSpec => FinishedIsFinal`
- `RenamedAsOne`: `LogSpec => []RenamedTogether`
- `AccountsHold`: `LogSpec => []AccountInv`
- `LogTypesHold`: `LogSpec => []LogTypeOK`
- `ReserveHolds`: `LogSpec => []ReserveKept`

An action of `SonarLog` threads the volume through several operators, so each operator has its own
lemma, and an action's lemma follows the chain. There are three invariants, one on top of the other.

*Names.* `SessionInv` is `SessionTypes`, `IdsInv` (what is in NVS and the next id are above every
id given and every file on the volume), `PairInv` (no file is there both as `.TMP` and as `.LOG`,
and the active session has no `.LOG`, so that a rename never replaces one) and `StrayInv` (open handles
are those of the active session or on a file in `left`, and no `.TMP` has anything in it but
those of the active session and those in `left`). `RenamedFacts` says of a rename in which any
set of files may fail what each file is afterwards: as it was, and then stuck, empty or of
another session, or renamed. `Within(w, v, C)` says of an operator that it changes
no file but those in `C`, creates none but those, and opens no handle to any other. `LogSteps` sorts the
actions into six kinds of step on files (`IdleStep` to `CutStep`), and the invariant and the two action
properties are shown for these.

*Books.* `AccountInv` says that what is free, what the files hold (buffers included) and the firmware image add
up to the volume. `Keeps(w, v)` is what each operator does to that sum, and `Tidy` why a sync after each
block never leaves a block in a buffer. The sum is `SumFunction` over a domain that changes with every file; what
is needed of it (a term taken out, one term changed, two functions added) is proved in the section on
sums, from its definition, by induction on the size of a finite set.

*Reserve.* `ReserveKept` bounds what is free now, while the code checks `g_partition_free`, which may be up to
a second old, and asks for no space at all for the two lines that end a session and for a copy of the system
log that a power cut leaves. The invariant `ReserveInv` has one part for each:

- `Current`: the figure is too high by at most the lines of this second (three for each: the line itself, and
  the two that end a session it may have begun, which the code does not count), so whoever compares it
  with `RequiredFree` is off by no more than that;
- `Afloat`: what is free, together with a leftover copy that the next compaction removes, is the reserve
  and one `SysTrim` and the two last lines of a session that is active.

A line that passes the check leaves `Roomy` behind; from there on every operator is `Frugal(w, v, k)`, it
spends at most `k`, and `k` is added up along the chain. Where the check refreshes the figure, `Fresh`
takes the place of `Current`. `ReserveKept` follows since a copy is never longer than `SysTrim`.

The proof corrected the model's assumption on the constants. It used to ask for
`Headroom >= (MaxImage - ImageReserve) + SysTrim + 3`, which is false of the code: `DB_LOG_HEADROOM_BYTES` is
256 KiB, `DB_LOG_SYSTEM_TRIM_BYTES` 192 KiB, and an image may be 128 KiB larger than its reserve. What the
argument needs is two facts that do hold of these figures: `Headroom >= SysTrim + 2`, and
`Headroom + Block > SysTrim + 3 * LinesPerSecond`, that is, three times the lines of one second
fit into 64 KiB and a block. That an image is larger than its reserve needs no headroom, since the reserve is full then.

Also changed for the proof: a `CASE` whose guards overlapped (in `Open`, `Write` and `Copied`), which TLC reads from the top
and logic does not, is now a nested `IF` in the order of the code's early returns.

### What stays with TLC

Out of the prover's reach: the liveness properties (`JobEnds`, `JobsEnd`, `TuneEnds`,
`KeepsTrying`, `BootEnds`, `ComesUpAgain`, `BufferedReachesFlash`). Every invariant that a passing run checks
is stated by a theorem, and so is every action property. What a recursive definition computes for every
input is out of reach as well; sums are not, because a sum over a finite set can be unfolded by
induction on a set of numbers, without an operator as parameter.

## 5. Not modelled

- `db_fc_params_abort` and `db_fc_params_store_entries` have no caller.
- `fclose` of the backup's temporary is unchecked; a failure there is left out, so
  `NeverHalf` assumes that the last buffer fits.
- How numbers are printed into the backup and parsed again (six decimals), and a read of the backup
  that is torn by its replacement: `RestoreRead` is one step.
- The vehicle's arming, wording of messages, progress figures, page rendering.
- The arithmetic of the tuning (samples to gains), its live display and warnings.
- The text of journal records, the figures of its status page, and the bench crash beyond the
  record it writes.
- The one-time update mode of the access point (`db_ota_policy.c`); the clients of the access
  point, static addresses and the start of the other tasks in `app_main`.
- Sonar drivers (`danevi_sonar.c`, `deeper_udp_sonar.c`): floating-point filters and frame
  parsing, arithmetic on data by one actor per sensor.
- Bridge, clients, serial: forwarding of bytes; linear tables that one task uses. Settings:
  single values with a range each, and no state that spans two of them. Breadcrumbs: a drop
  counter that is read and cleared without a lock (`db_netlog.c:82`), and promises nothing.
- The web server apart from the handlers that are steps of the modules above, web pages, build
  tools: presentation and I/O.
- The MAVLink library and the packing of messages: about 85,000 of the repository's 104,000
  lines of C are its generated headers. They hold constants and field offsets and no control to
  model, so the lines that this model stands for remain a small share of the repository's total,
  although they are between 40 and 75 percent of `db_fc_flash.c`, `db_fc_params.c`,
  `db_fc_tune.c`, `db_diag.c`, `db_ota_policy.c` and `db_sonar_log.c`.
- Parts with status `not_modelled` in `PROJECT.json`.

## 6. Plan

Done: `FcImageStore` and `FcFlash`, the part that can brick the FC; `ConsoleRing`; `FcParams`;
`OtaPolicy`; `SonarLog`; `FcTune` composed with `FcParams`; the journal with its abstract log;
Wi-Fi and start-up. Left, in order:

1. Abstract specifications: a firmware slot that is empty or holds a verified upload,
   refined by `FcImageStore`; a set of closed sessions, refined by `SonarLog`; a flash job that is
   atomic (erase, write, verify, start), refined by `FcFlash`.
2. `DepthFilter`: filter and age arithmetic modulo 2^32 for both sonar drivers, as operators
   checked against a reference definition (the age at `danevi_sonar.c:247` may wrap).
3. `Clients`: UDP and TCP tables; `Settings` validation; the breadcrumb queue.
