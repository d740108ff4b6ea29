----------------------------- MODULE OtaPolicy ------------------------------
(***************************************************************************)
(* The companion's own firmware: two update slots, a factory image, the    *)
(* boot crash guard and the health gate (db_ota_policy.c, the calls that   *)
(* app_main makes to it, and the update handler of http_server.c).         *)
(*                                                                         *)
(* The bootloader and its otadata are external (ESP-IDF with app rollback  *)
(* enabled): it boots the newest slot that is not invalid or aborted, or   *)
(* the factory image when there is none; a slot booted for the first time  *)
(* is pending, and one still pending at the next reset is aborted.         *)
(*                                                                         *)
(* Images are told apart by how they behave: a good one comes up, a        *)
(* looping one panics before app_main ends, an unwell one comes up but     *)
(* never passes the health gate, and an empty slot does not verify.        *)
(***************************************************************************)
EXTENDS Naturals

CONSTANTS
  CrashLimit,   \* DB_OTA_CRASH_LIMIT
  MaxPowerCuts, \* bound: times the user switches the boat off and on
  MaxUploads    \* bound: firmware uploads begun

(* With a limit of 1 the guard would demote a working image at its first   *)
(* panic.                                                                  *)
ASSUME OtaAssumption ==
  /\ CrashLimit \in Nat /\ CrashLimit > 1
  /\ MaxPowerCuts \in Nat /\ MaxUploads \in Nat

Slot    == {"ota_0", "ota_1"}
Factory == "factory"
Other(s) == CHOOSE t \in Slot : t # s
Image   == {"good", "looping", "unwell", "empty"}
NoGuard == [slot |-> "none", crashes |-> 0]

VARIABLES
  image,    \* what each slot holds
  otadata,  \* its state in otadata
  newest,   \* the slot with the higher sequence number in otadata
  running,  \* the running partition
  phase,    \* reset, start (crash guard), init (app_main), up
  crashed,  \* db_ota_reset_is_crash of the last reset's reason
  guard,    \* s_crash_guard, in RTC memory: it survives a reset
  health,   \* s_health_state
  target,   \* the slot an update is being written to, as a set
  gate,     \* CONFIG_DB_OTA_HEALTH_GATE: this build has the health gate
  cuts, uploads,   \* the bounded events so far
  proved    \* slots whose present image has shown itself healthy (history)

bootVars == <<otadata, newest, running, phase, crashed>>
envVars  == <<gate, cuts, uploads>>
otaVars  == <<image, bootVars, guard, health, target, envVars, proved>>

OtaInit ==
  /\ image = [s \in Slot |-> IF s = "ota_0" THEN "good" ELSE "empty"]
  /\ otadata = [s \in Slot |-> IF s = "ota_0" THEN "valid" ELSE "blank"]
  /\ newest = "ota_0"
  /\ running = Factory /\ phase = "reset" /\ crashed = FALSE
  /\ guard = NoGuard
  /\ health = "not_required"
  /\ target = {}
  /\ gate \in BOOLEAN
  /\ cuts = 0 /\ uploads = 0
  /\ proved = {"ota_0"}

-----------------------------------------------------------------------------
(* ESP-IDF, as this code uses it.                                          *)

Usable(o, s) == o[s] \in {"new", "pending", "valid"}

Selected(o) ==
  IF Usable(o, newest) THEN newest
  ELSE IF Usable(o, Other(newest)) THEN Other(newest) ELSE Factory

(* An image that does not verify makes it scan backwards.                  *)
Loaded(s) ==
  IF s = Factory \/ image[s] # "empty" THEN s
  ELSE IF s = "ota_1" /\ image["ota_0"] # "empty" THEN "ota_0" ELSE Factory

Reset(panic) == phase' = "reset" /\ crashed' = panic /\ target' = {}

Bootloader ==
  /\ phase = "reset"
  /\ LET o == [s \in Slot |-> IF otadata[s] = "pending" THEN "aborted" ELSE otadata[s]]
         b == Selected(o)
     IN  /\ otadata' = [s \in Slot |-> IF s = b /\ o[s] = "new" THEN "pending" ELSE o[s]]
         /\ running' = Loaded(b)
  /\ phase' = "start"
  /\ health' = "not_required"
  /\ UNCHANGED <<image, newest, crashed, guard, target, envVars, proved>>

(* esp_ota_set_boot_partition: the factory image is selected by erasing    *)
(* otadata.                                                                *)
SetBoot(p) ==
  IF p = Factory
    THEN otadata' = [s \in Slot |-> "blank"] /\ UNCHANGED newest
    ELSE otadata' = [otadata EXCEPT ![p] = "new"] /\ newest' = p

-----------------------------------------------------------------------------
(* db_ota_policy.c                                                         *)

RunningIsPending == running \in Slot /\ otadata[running] = "pending"

(* db_ota_confirm_running                                                  *)
Confirm ==
  otadata' = IF RunningIsPending THEN [otadata EXCEPT ![running] = "valid"] ELSE otadata

(* Mutation: the factory image is not considered.                          *)
AbandonForSlotOnly ==
  /\ Reset(FALSE)
  /\ IF RunningIsPending
       THEN otadata' = [otadata EXCEPT ![running] = "invalid"] /\ UNCHANGED newest
       ELSE IF image[Other(running)] # "empty"
              THEN SetBoot(Other(running)) ELSE UNCHANGED <<otadata, newest>>

(* db_ota_abandon_running, which resets the boat: a pending image is       *)
(* marked invalid; any other is left by selecting the other slot when its  *)
(* image verifies, and the factory image when it does not.  IDF refuses to *)
(* invalidate an image with nothing to go back to: ProbationHasFallback    *)
(* says that never happens.                                                *)
Abandon ==
  /\ Reset(FALSE)
  /\ IF RunningIsPending
       THEN otadata' = [otadata EXCEPT ![running] = "invalid"] /\ UNCHANGED newest
       ELSE SetBoot(IF image[Other(running)] # "empty" THEN Other(running) ELSE Factory)

(* db_ota_crash_guard_start, the first thing app_main does.  Only resets   *)
(* by a panic or a watchdog count, and only for the slot that ran then;    *)
(* the factory image is never demoted.                                     *)
Streak == IF guard.slot = running THEN guard.crashes + 1 ELSE 1

(* Mutation: one crash too many is tolerated.                              *)
GuardStartOneMore ==
  /\ phase = "start"
  /\ IF running = Factory \/ ~crashed
       THEN /\ guard' = NoGuard /\ phase' = "init"
            /\ UNCHANGED <<otadata, newest, crashed, target>>
       ELSE IF Streak <= CrashLimit
       THEN /\ guard' = [slot |-> running, crashes |-> Streak] /\ phase' = "init"
            /\ UNCHANGED <<otadata, newest, crashed, target>>
       ELSE guard' = NoGuard /\ Abandon
  /\ UNCHANGED <<image, running, health, envVars, proved>>

(* Mutation: the image is confirmed before it has shown anything.          *)
GuardStartConfirms ==
  /\ phase = "start"
  /\ guard' = NoGuard /\ phase' = "init"
  /\ Confirm
  /\ UNCHANGED <<newest, crashed, target, image, running, health, envVars, proved>>

GuardStart ==
  /\ phase = "start"
  /\ IF running = Factory \/ ~crashed
       THEN /\ guard' = NoGuard /\ phase' = "init"
            /\ UNCHANGED <<otadata, newest, crashed, target>>
       ELSE IF Streak < CrashLimit
       THEN /\ guard' = [slot |-> running, crashes |-> Streak] /\ phase' = "init"
            /\ UNCHANGED <<otadata, newest, crashed, target>>
       ELSE guard' = NoGuard /\ Abandon
  /\ UNCHANGED <<image, running, health, envVars, proved>>

ComesUp == running \in Slot => image[running] # "looping"

(* The rest of app_main.                                                   *)
InitPanics ==
  /\ phase = "init" /\ ~ComesUp
  /\ Reset(TRUE)
  /\ UNCHANGED <<image, otadata, newest, running, guard, health, envVars, proved>>

(* What the image has shown when it is up: without a gate nothing more is  *)
(* asked of it.                                                            *)
Shown == IF gate \/ running = Factory THEN proved ELSE proved \cup {running}

(* Mutation: the crash streak is not cleared.                              *)
MarkHealthyKeepsStreak ==
  /\ phase = "init" /\ ComesUp
  /\ phase' = "up"
  /\ proved' = Shown
  /\ Confirm
  /\ UNCHANGED <<image, newest, running, crashed, guard, health, target, envVars>>

(* Mutation: the image is confirmed here although a gate is compiled in.   *)
MarkHealthyConfirms ==
  /\ phase = "init" /\ ComesUp
  /\ phase' = "up"
  /\ guard' = NoGuard
  /\ proved' = Shown
  /\ Confirm
  /\ UNCHANGED <<image, newest, running, crashed, health, target, envVars>>

(* db_ota_health_gate_start, then db_ota_crash_guard_mark_healthy, which   *)
(* confirms the image when no gate is compiled in.                         *)
MarkHealthy ==
  /\ phase = "init" /\ ComesUp
  /\ phase' = "up"
  /\ guard' = NoGuard
  /\ proved' = Shown
  /\ IF gate
       THEN health' = (IF RunningIsPending THEN "waiting" ELSE "not_required") /\ UNCHANGED otadata
       ELSE Confirm /\ UNCHANGED health
  /\ UNCHANGED <<image, newest, running, crashed, target, envVars>>

(* db_ota_health_task: every required item has passed ...                  *)
HealthPasses ==
  /\ phase = "up" /\ health = "waiting"
  /\ image[running] # "unwell"
  /\ Confirm
  /\ proved' = proved \cup {running}
  /\ health' = "confirmed"
  /\ UNCHANGED <<image, newest, running, phase, crashed, guard, target, envVars>>

(* ... or one has failed, or time is up.                                   *)
HealthFails ==
  /\ phase = "up" /\ health = "waiting"
  /\ Abandon /\ health' = "rollback_requested"
  /\ UNCHANGED <<image, running, guard, envVars, proved>>

-----------------------------------------------------------------------------
(* update_app_post_handler                                                 *)

(* Mutation: an update is accepted while the running image is pending.     *)
UploadBeginPending ==
  /\ phase = "up" /\ target = {}
  /\ uploads < MaxUploads
  /\ LET s == IF running = "ota_0" THEN "ota_1" ELSE "ota_0" IN
     /\ target' = {s}
     /\ image' = [image EXCEPT ![s] = "empty"]
     /\ proved' = proved \ {s}
  /\ uploads' = uploads + 1
  /\ UNCHANGED <<bootVars, guard, health, gate, cuts>>

(* esp_ota_begin erases the other slot; it is refused while the running    *)
(* image is pending.                                                       *)
UploadBegin ==
  /\ phase = "up" /\ target = {}
  /\ uploads < MaxUploads
  /\ ~RunningIsPending
  /\ LET s == IF running = "ota_0" THEN "ota_1" ELSE "ota_0" IN
     /\ target' = {s}
     /\ image' = [image EXCEPT ![s] = "empty"]
     /\ proved' = proved \ {s}
  /\ uploads' = uploads + 1
  /\ UNCHANGED <<bootVars, guard, health, gate, cuts>>

(* The connection drops.                                                   *)
UploadAborted ==
  /\ target # {} /\ target' = {}
  /\ UNCHANGED <<image, bootVars, guard, health, envVars, proved>>

(* The last byte is written and esp_ota_end verifies the image ...         *)
UploadEnd ==
  /\ \E s \in target, i \in Image \ {"empty"} :
       image[s] = "empty" /\ image' = [image EXCEPT ![s] = i]
  /\ UNCHANGED <<bootVars, guard, health, target, envVars, proved>>

(* ... the slot is selected, and the boat restarts.                        *)
UploadBoot ==
  /\ \E s \in target : image[s] # "empty" /\ SetBoot(s)
  /\ Reset(FALSE)
  /\ UNCHANGED <<image, running, guard, health, envVars, proved>>

-----------------------------------------------------------------------------
(* The world.                                                              *)

PanicsWhenUp ==
  /\ phase = "up"
  /\ Reset(TRUE)
  /\ UNCHANGED <<image, otadata, newest, running, guard, health, envVars, proved>>

(* Power off and on: RTC memory is lost.                                   *)
PowerCycle ==
  /\ cuts < MaxPowerCuts
  /\ cuts' = cuts + 1
  /\ Reset(FALSE)
  /\ guard' = NoGuard
  /\ UNCHANGED <<image, otadata, newest, running, health, gate, uploads, proved>>

(* A confirmed image starts to loop (new settings, failing hardware).      *)
Degrades ==
  /\ running \in Slot /\ image[running] = "good"
  /\ phase = "up" /\ target = {}
  /\ image' = [image EXCEPT ![running] = "looping"]
  /\ UNCHANGED <<bootVars, guard, health, target, envVars, proved>>

BootStep == Bootloader \/ GuardStart \/ InitPanics \/ MarkHealthy
HealthStep == HealthPasses \/ HealthFails
OtaNext ==
  \/ BootStep \/ HealthStep
  \/ UploadBegin \/ UploadAborted \/ UploadEnd \/ UploadBoot
  \/ PanicsWhenUp \/ PowerCycle \/ Degrades

OtaSpec == OtaInit /\ [][OtaNext]_otaVars

(* The boot sequence runs by itself, and the health task polls.            *)
OtaFairSpec == OtaSpec /\ WF_otaVars(BootStep) /\ WF_otaVars(HealthStep)

-----------------------------------------------------------------------------
OtaTypeOK ==
  /\ image \in [Slot -> Image]
  /\ otadata \in [Slot -> {"blank", "new", "pending", "valid", "invalid", "aborted"}]
  /\ newest \in Slot
  /\ running \in Slot \cup {Factory}
  /\ phase \in {"reset", "start", "init", "up"}
  /\ crashed \in BOOLEAN
  /\ guard \in [slot: Slot \cup {"none"}, crashes: 0 .. CrashLimit - 1]
  /\ health \in {"not_required", "waiting", "confirmed", "rollback_requested"}
  /\ target \subseteq Slot
  /\ gate \in BOOLEAN
  /\ cuts \in 0 .. MaxPowerCuts /\ uploads \in 0 .. MaxUploads
  /\ proved \subseteq Slot

(* An image runs as valid only if this very image has come up (and, with   *)
(* the gate, passed it) before: neither an upload cut off at any point nor *)
(* a demotion lets it inherit the standing of what its slot held before.   *)
TrustIsEarned ==
  running \in Slot /\ otadata[running] = "valid" /\ phase # "reset" => running \in proved

(* While an image is on probation there is something to go back to: the    *)
(* other slot verifies, or otadata no longer points to it and the factory  *)
(* image is next.                                                          *)
ProbationHasFallback ==
  RunningIsPending => LET s == Other(running) IN Usable(otadata, s) => image[s] # "empty"

(* The crash guard never demotes an image that comes up, however often it  *)
(* panics later, and whatever ran, crashed or was rolled back before it.   *)
GoodIsNeverDemoted ==
  [][ phase = "start" /\ running \in Slot /\ image[running] # "looping" =>
        UNCHANGED <<otadata, newest>> ]_otaVars

(* Unless both slots loop, the boat always comes up again.                 *)
BothLoop == \A s \in Slot : image[s] = "looping"
ComesUpAgain == []<>(phase = "up" \/ BothLoop)

(* README.md:21: a factory image "the bootloader reverts to if both slots  *)
(* fail".                                                                  *)
BothFailRevertToFactory == BothLoop ~> running = Factory
=============================================================================
