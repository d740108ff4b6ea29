-------------------------- MODULE OtaPolicyProofs ---------------------------
(***************************************************************************)
(* Proofs about OtaPolicy, for every crash limit and any number of power   *)
(* cuts and uploads.                                                       *)
(*                                                                         *)
(* The properties speak of the running image; what makes them inductive    *)
(* is what otadata may say of the slot that is not running.  OtaInv adds   *)
(* that: the slot that otadata points to verifies and has earned its       *)
(* standing, and the other one has too, unless the first is confirmed (an  *)
(* upload may then have erased the other).                                 *)
(***************************************************************************)
EXTENDS OtaPolicy, TLAPS

(* What the bootloader may pick next.                                      *)
NewestVerifies == Usable(otadata, newest) => image[newest] # "empty"
NewestEarned   == otadata[newest] = "valid" => newest \in proved
OtherVerifies  ==
  otadata[newest] # "valid" /\ Usable(otadata, Other(newest)) =>
    image[Other(newest)] # "empty"
OtherEarned    ==
  otadata[newest] # "valid" /\ otadata[Other(newest)] = "valid" =>
    Other(newest) \in proved

(* What runs is what otadata points to, unless that was given up.          *)
RunningInv ==
  phase # "reset" =>
    IF running = Factory
      THEN \A s \in Slot : ~Usable(otadata, s)
      ELSE /\ image[running] # "empty"
           /\ otadata[running] \in {"pending", "valid"}
           /\ running = newest \/ ~Usable(otadata, newest)
ProbationInv == RunningIsPending => running = newest \/ ~Usable(otadata, newest)

(* An update is written only while the boat is up, and never to the slot   *)
(* that runs nor while that one is on probation.                           *)
TargetInv ==
  \A s \in target : phase = "up" /\ ~RunningIsPending /\ s # running
HealthInv == phase # "reset" /\ health = "waiting" => phase = "up" /\ RunningIsPending

(* A crash streak belongs to a looping image, or is about to be cleared.   *)
GuardInv ==
  /\ phase = "up" => guard.slot = "none"
  /\ guard.slot \in Slot /\ image[guard.slot] # "looping" =>
       phase = "init" /\ running = guard.slot

OtaInv ==
  /\ OtaTypeOK
  /\ NewestVerifies /\ NewestEarned /\ OtherVerifies /\ OtherEarned
  /\ RunningInv /\ ProbationInv /\ TargetInv /\ HealthInv /\ GuardInv

-----------------------------------------------------------------------------
LEMMA OtherSlot ==
  \A s \in Slot : /\ Other(s) \in Slot /\ Other(s) # s
                  /\ \A t \in Slot : t = s \/ t = Other(s)
  BY DEF Other, Slot

LEMMA FactoryIsNoSlot == Factory \notin Slot
  BY DEF Factory, Slot

LEMMA OtaInitInv == OtaInit => OtaInv
<1> SUFFICES ASSUME OtaInit PROVE OtaInv  OBVIOUS
<1> USE OtaAssumption DEF OtaInit, Slot, Factory
<1>1. OtaTypeOK
  <2>1. guard \in [slot: Slot \cup {"none"}, crashes: 0 .. CrashLimit - 1]
    BY DEF NoGuard
  <2>2. /\ image \in [Slot -> Image] /\ newest \in Slot
        /\ otadata \in [Slot -> {"blank", "new", "pending", "valid", "invalid", "aborted"}]
    BY DEF Image
  <2>3. crashed \in BOOLEAN /\ gate \in BOOLEAN
    OBVIOUS
  <2>4. cuts \in 0 .. MaxPowerCuts /\ uploads \in 0 .. MaxUploads
    OBVIOUS
  <2> QED  BY <2>1, <2>2, <2>3, <2>4 DEF OtaTypeOK
<1>2. NewestVerifies /\ NewestEarned /\ OtherVerifies /\ OtherEarned
  BY DEF NewestVerifies, NewestEarned, OtherVerifies, OtherEarned
<1>3. RunningInv /\ ProbationInv /\ TargetInv /\ HealthInv /\ GuardInv
  BY DEF RunningInv, ProbationInv, TargetInv, HealthInv, GuardInv, RunningIsPending, NoGuard
<1> QED  BY <1>1, <1>2, <1>3 DEF OtaInv

-----------------------------------------------------------------------------
(* One lemma for each action.                                              *)

LEMMA BootloaderInv == ASSUME OtaInv, Bootloader PROVE OtaInv'
<1> DEFINE o == [s \in Slot |-> IF otadata[s] = "pending" THEN "aborted" ELSE otadata[s]]
           b == Selected(o)
<1> USE OtherSlot, FactoryIsNoSlot
<1>1. /\ otadata' = [s \in Slot |-> IF s = b /\ o[s] = "new" THEN "pending" ELSE o[s]]
      /\ running' = Loaded(b)
      /\ phase' = "start" /\ health' = "not_required"
      /\ UNCHANGED <<image, newest, crashed, guard, target, envVars, proved>>
      /\ phase = "reset"
  BY DEF Bootloader
<1>2. OtaTypeOK  BY DEF OtaInv
<1>3. newest \in Slot /\ Other(newest) \in Slot  BY <1>2 DEF OtaTypeOK
<1>4. /\ b \in Slot => Usable(o, b) /\ image[b] # "empty" /\ (b = newest \/ ~Usable(o, newest))
      /\ b \notin Slot => b = Factory /\ \A s \in Slot : ~Usable(o, s)
  BY <1>3 DEF OtaInv, NewestVerifies, OtherVerifies, Selected, Usable
<1>5. Loaded(b) = b  BY <1>4 DEF Loaded
<1>6. OtaTypeOK'
  BY <1>1, <1>2, <1>4, <1>5 DEF OtaTypeOK, envVars
<1>7. (NewestVerifies /\ NewestEarned /\ OtherVerifies /\ OtherEarned)'
  BY <1>1, <1>3 DEF OtaInv, NewestVerifies, NewestEarned, OtherVerifies, OtherEarned, Usable
<1>8. (RunningInv /\ ProbationInv)'
  BY <1>1, <1>3, <1>4, <1>5 DEF OtaInv, RunningInv, ProbationInv, RunningIsPending, Usable
<1>9. (TargetInv /\ HealthInv /\ GuardInv)'
  BY <1>1 DEF OtaInv, TargetInv, HealthInv, GuardInv
<1> QED  BY <1>6, <1>7, <1>8, <1>9 DEF OtaInv

(* Confirmation, of an image that is up and has shown itself.              *)
LEMMA ConfirmInv ==
  ASSUME OtaInv, Confirm, running \in Slot => running \in proved',
         phase # "reset", UNCHANGED <<image, newest, running>>,
         proved \subseteq proved', proved' \subseteq Slot
  PROVE  /\ (NewestVerifies /\ NewestEarned /\ OtherVerifies /\ OtherEarned)'
         /\ otadata' \in [Slot -> {"blank", "new", "pending", "valid", "invalid", "aborted"}]
         /\ phase' # "reset" => RunningInv'
         /\ ~RunningIsPending'
<1> USE OtherSlot, FactoryIsNoSlot DEF OtaInv, OtaTypeOK
<1>1. CASE ~RunningIsPending
  <2>1. otadata' = otadata  BY <1>1 DEF Confirm
  <2>2. (NewestVerifies /\ NewestEarned /\ OtherVerifies /\ OtherEarned)'
    BY <2>1 DEF NewestVerifies, NewestEarned, OtherVerifies, OtherEarned, Usable
  <2>3. phase' # "reset" => RunningInv'
    BY <2>1 DEF RunningInv, Usable
  <2> QED  BY <1>1, <2>1, <2>2, <2>3 DEF RunningIsPending
<1>2. CASE RunningIsPending
  <2>1. running \in Slot /\ otadata' = [otadata EXCEPT ![running] = "valid"]
    BY <1>2 DEF Confirm, RunningIsPending
  <2>2. image[running] # "empty" /\ (running = newest \/ ~Usable(otadata, newest))
    BY <2>1 DEF RunningInv
  <2>3. (NewestVerifies /\ NewestEarned /\ OtherVerifies /\ OtherEarned)'
    BY <2>1, <2>2 DEF NewestVerifies, NewestEarned, OtherVerifies, OtherEarned, Usable
  <2>4. phase' # "reset" => RunningInv'
    BY <2>1, <2>2 DEF RunningInv, Usable
  <2> QED  BY <2>1, <2>3, <2>4 DEF RunningIsPending
<1> QED  BY <1>1, <1>2

(* Selecting a slot that verifies, from another, or the factory image.     *)
LEMMA SetBootInv ==
  ASSUME OtaInv, phase # "reset", ~RunningIsPending,
         NEW p \in Slot \cup {Factory}, p # running,
         p \in Slot => image[p] # "empty",
         SetBoot(p), UNCHANGED <<image, proved, running>>
  PROVE  /\ (NewestVerifies /\ NewestEarned /\ OtherVerifies /\ OtherEarned)'
         /\ otadata' \in [Slot -> {"blank", "new", "pending", "valid", "invalid", "aborted"}]
         /\ newest' \in Slot
         /\ ~RunningIsPending'
<1> USE OtherSlot, FactoryIsNoSlot DEF OtaInv, OtaTypeOK
<1>1. CASE p = Factory
  <2>1. otadata' = [s \in Slot |-> "blank"] /\ newest' = newest
    BY <1>1 DEF SetBoot
  <2> QED
    BY <2>1 DEF NewestVerifies, NewestEarned, OtherVerifies, OtherEarned, Usable, RunningIsPending
<1>2. CASE p \in Slot
  <2>1. otadata' = [otadata EXCEPT ![p] = "new"] /\ newest' = p
    BY <1>2 DEF SetBoot
  <2>2. \/ running = Factory /\ \A s \in Slot : ~Usable(otadata, s)
        \/ running = Other(p) /\ image[running] # "empty"
             /\ (running = newest \/ ~Usable(otadata, newest))
    BY <1>2 DEF RunningInv
  <2>3. Usable(otadata, Other(p)) => image[Other(p)] # "empty"
    BY <1>2, <2>2
  <2>4. otadata[Other(p)] = "valid" => Other(p) \in proved
    BY <1>2, <2>2 DEF Usable, NewestEarned, OtherEarned
  <2> QED
    BY <1>2, <2>1, <2>3, <2>4
    DEF NewestVerifies, NewestEarned, OtherVerifies, OtherEarned, Usable, RunningIsPending
<1> QED  BY <1>1, <1>2

LEMMA AbandonInv ==
  ASSUME OtaInv, Abandon, phase # "reset", running \in Slot,
         UNCHANGED <<image, proved, running>>
  PROVE  /\ (NewestVerifies /\ NewestEarned /\ OtherVerifies /\ OtherEarned)'
         /\ otadata' \in [Slot -> {"blank", "new", "pending", "valid", "invalid", "aborted"}]
         /\ newest' \in Slot
         /\ ~RunningIsPending'
         /\ phase' = "reset" /\ crashed' = FALSE /\ target' = {}
<1> USE OtherSlot, FactoryIsNoSlot
<1>1. phase' = "reset" /\ crashed' = FALSE /\ target' = {}
  BY DEF Abandon, Reset
<1>2. CASE RunningIsPending
  <2>1. otadata' = [otadata EXCEPT ![running] = "invalid"] /\ newest' = newest
    BY <1>2 DEF Abandon
  <2> QED
    BY <1>1, <1>2, <2>1 DEF OtaInv, OtaTypeOK, NewestVerifies, NewestEarned, OtherVerifies,
       OtherEarned, Usable, RunningIsPending
<1>3. CASE ~RunningIsPending
  <2> DEFINE p == IF image[Other(running)] # "empty" THEN Other(running) ELSE Factory
  <2>1. SetBoot(p)  BY <1>3 DEF Abandon
  <2>2. p \in Slot \cup {Factory} /\ p # running /\ (p \in Slot => image[p] # "empty")
    OBVIOUS
  <2> HIDE DEF p
  <2> QED  BY <1>1, <1>3, <2>1, <2>2, SetBootInv
<1> QED  BY <1>2, <1>3

LEMMA GuardStartInv == ASSUME OtaInv, GuardStart PROVE OtaInv'
<1> USE OtherSlot, FactoryIsNoSlot
<1>1. phase = "start" /\ UNCHANGED <<image, running, health, envVars, proved>>
  BY DEF GuardStart
<1>2. CASE phase' = "init" /\ UNCHANGED <<otadata, newest, crashed, target>>
  <2>1. \/ guard' = NoGuard
        \/ running \in Slot /\ Streak < CrashLimit /\ guard' = [slot |-> running, crashes |-> Streak]
    BY <1>2 DEF GuardStart, OtaInv, OtaTypeOK, Reset, Abandon
  <2>2. Streak \in Nat
    BY OtaAssumption DEF Streak, OtaInv, OtaTypeOK
  <2>3. guard' \in [slot: Slot \cup {"none"}, crashes: 0 .. CrashLimit - 1]
    BY <2>1, <2>2, OtaAssumption DEF NoGuard
  <2>4. OtaTypeOK'
    BY <1>1, <1>2, <2>3 DEF OtaInv, OtaTypeOK, envVars
  <2>5. GuardInv'
    BY <1>1, <1>2, <2>1 DEF GuardInv, NoGuard, Slot
  <2>6. (NewestVerifies /\ NewestEarned /\ OtherVerifies /\ OtherEarned)'
    BY <1>1, <1>2 DEF OtaInv, NewestVerifies, NewestEarned, OtherVerifies, OtherEarned, Usable
  <2>7. (RunningInv /\ ProbationInv /\ TargetInv /\ HealthInv)'
    BY <1>1, <1>2 DEF OtaInv, RunningInv, ProbationInv, TargetInv, HealthInv, RunningIsPending, Usable
  <2> QED  BY <2>4, <2>5, <2>6, <2>7 DEF OtaInv
<1>3. CASE running # Factory /\ guard' = NoGuard /\ Abandon
  <2>1. running \in Slot  BY <1>3 DEF OtaInv, OtaTypeOK
  <2>2. /\ (NewestVerifies /\ NewestEarned /\ OtherVerifies /\ OtherEarned)'
        /\ otadata' \in [Slot -> {"blank", "new", "pending", "valid", "invalid", "aborted"}]
        /\ newest' \in Slot
        /\ ~RunningIsPending'
        /\ phase' = "reset" /\ crashed' = FALSE /\ target' = {}
    BY <1>1, <1>3, <2>1, AbandonInv
  <2>3. guard' \in [slot: Slot \cup {"none"}, crashes: 0 .. CrashLimit - 1]
    BY <1>3, OtaAssumption DEF NoGuard
  <2>4. OtaTypeOK'
    BY <1>1, <2>2, <2>3 DEF OtaInv, OtaTypeOK, envVars
  <2>5. (RunningInv /\ ProbationInv /\ TargetInv /\ HealthInv /\ GuardInv)'
    BY <1>3, <2>2 DEF RunningInv, ProbationInv, TargetInv, HealthInv, GuardInv, NoGuard, Slot
  <2> QED  BY <2>2, <2>4, <2>5 DEF OtaInv
<1> QED  BY <1>2, <1>3 DEF GuardStart

LEMMA MarkHealthyInv == ASSUME OtaInv, MarkHealthy PROVE OtaInv'
<1> USE OtherSlot, FactoryIsNoSlot
<1>1. /\ phase = "init" /\ phase' = "up" /\ guard' = NoGuard /\ proved' = Shown
      /\ UNCHANGED <<image, newest, running, crashed, target, envVars>>
  BY DEF MarkHealthy
<1>2. target = {}  BY <1>1 DEF OtaInv, TargetInv
<1>3. proved \subseteq proved' /\ proved' \subseteq Slot
  BY <1>1 DEF Shown, OtaInv, OtaTypeOK
<1>4. guard' \in [slot: Slot \cup {"none"}, crashes: 0 .. CrashLimit - 1] /\ GuardInv'
  BY <1>1, OtaAssumption DEF NoGuard, GuardInv, Slot
<1>5. CASE gate
  <2>1. /\ otadata' = otadata /\ proved' = proved
        /\ health' = (IF RunningIsPending THEN "waiting" ELSE "not_required")
    BY <1>1, <1>5 DEF MarkHealthy, Shown
  <2>2. OtaTypeOK'
    BY <1>1, <1>4, <2>1 DEF OtaInv, OtaTypeOK, envVars
  <2>3. (NewestVerifies /\ NewestEarned /\ OtherVerifies /\ OtherEarned)'
    BY <1>1, <2>1 DEF OtaInv, NewestVerifies, NewestEarned, OtherVerifies, OtherEarned, Usable
  <2>4. (RunningInv /\ ProbationInv /\ TargetInv /\ HealthInv)'
    BY <1>1, <1>2, <2>1 DEF OtaInv, RunningInv, ProbationInv, TargetInv, HealthInv, RunningIsPending, Usable
  <2> QED  BY <1>4, <2>2, <2>3, <2>4 DEF OtaInv
<1>6. CASE ~gate
  <2>1. Confirm /\ health' = health  BY <1>6 DEF MarkHealthy
  <2>2. running \in Slot => running \in proved'
    BY <1>1, <1>6 DEF Shown
  <2>3. /\ (NewestVerifies /\ NewestEarned /\ OtherVerifies /\ OtherEarned)'
        /\ otadata' \in [Slot -> {"blank", "new", "pending", "valid", "invalid", "aborted"}]
        /\ phase' # "reset" => RunningInv'
        /\ ~RunningIsPending'
    BY <1>1, <1>3, <2>1, <2>2, ConfirmInv
  <2>4. OtaTypeOK'
    BY <1>1, <1>3, <1>4, <2>1, <2>3 DEF OtaInv, OtaTypeOK, envVars
  <2>5. (ProbationInv /\ TargetInv)'
    BY <1>1, <1>2, <2>3 DEF ProbationInv, TargetInv
  <2>6. HealthInv'
    BY <1>1, <2>1 DEF OtaInv, HealthInv
  <2> QED  BY <1>1, <1>4, <2>3, <2>4, <2>5, <2>6 DEF OtaInv
<1> QED  BY <1>5, <1>6 DEF OtaInv, OtaTypeOK

LEMMA HealthPassesInv == ASSUME OtaInv, HealthPasses PROVE OtaInv'
<1> USE OtherSlot, FactoryIsNoSlot
<1>1. /\ phase = "up" /\ health = "waiting" /\ health' = "confirmed"
      /\ Confirm /\ proved' = proved \cup {running}
      /\ UNCHANGED <<image, newest, running, phase, crashed, guard, target, envVars>>
  BY DEF HealthPasses
<1>2. RunningIsPending /\ running \in Slot /\ target = {}
  BY <1>1 DEF OtaInv, HealthInv, TargetInv, RunningIsPending
<1>3. proved \subseteq proved' /\ proved' \subseteq Slot
  BY <1>1, <1>2 DEF OtaInv, OtaTypeOK
<1>4. /\ (NewestVerifies /\ NewestEarned /\ OtherVerifies /\ OtherEarned)'
      /\ otadata' \in [Slot -> {"blank", "new", "pending", "valid", "invalid", "aborted"}]
      /\ phase' # "reset" => RunningInv'
      /\ ~RunningIsPending'
  BY <1>1, <1>3, ConfirmInv
<1>5. OtaTypeOK'
  BY <1>1, <1>3, <1>4 DEF OtaInv, OtaTypeOK, envVars
<1>6. (ProbationInv /\ TargetInv /\ HealthInv /\ GuardInv)'
  BY <1>1, <1>2, <1>4 DEF OtaInv, ProbationInv, TargetInv, HealthInv, GuardInv
<1> QED  BY <1>1, <1>4, <1>5, <1>6 DEF OtaInv

LEMMA HealthFailsInv == ASSUME OtaInv, HealthFails PROVE OtaInv'
<1>1. /\ phase = "up" /\ health = "waiting" /\ health' = "rollback_requested" /\ Abandon
      /\ UNCHANGED <<image, running, guard, envVars, proved>>
  BY DEF HealthFails
<1>2. running \in Slot  BY <1>1 DEF OtaInv, HealthInv, RunningIsPending
<1>3. /\ (NewestVerifies /\ NewestEarned /\ OtherVerifies /\ OtherEarned)'
      /\ otadata' \in [Slot -> {"blank", "new", "pending", "valid", "invalid", "aborted"}]
      /\ newest' \in Slot
      /\ ~RunningIsPending'
      /\ phase' = "reset" /\ crashed' = FALSE /\ target' = {}
  BY <1>1, <1>2, AbandonInv
<1>4. OtaTypeOK'
  BY <1>1, <1>3 DEF OtaInv, OtaTypeOK, envVars
<1>5. (RunningInv /\ ProbationInv /\ TargetInv /\ HealthInv)'
  BY <1>3 DEF RunningInv, ProbationInv, TargetInv, HealthInv
<1>6. GuardInv'
  BY <1>1, <1>3 DEF OtaInv, GuardInv, Slot
<1> QED  BY <1>3, <1>4, <1>5, <1>6 DEF OtaInv

(* A reset that leaves otadata alone: a panic or the power switch.         *)
LEMMA ResetInv ==
  ASSUME OtaInv, NEW panic \in BOOLEAN, Reset(panic),
         UNCHANGED <<image, otadata, newest, running, health, gate, proved>>,
         cuts' \in 0 .. MaxPowerCuts, uploads' \in 0 .. MaxUploads,
         \/ guard' = NoGuard
         \/ guard' = guard /\ phase = "up"
         \/ guard' = guard /\ running \in Slot /\ image[running] = "looping"
  PROVE  OtaInv'
<1>1. OtaTypeOK'
  BY OtaAssumption DEF OtaInv, OtaTypeOK, Reset, NoGuard
<1>2. (NewestVerifies /\ NewestEarned /\ OtherVerifies /\ OtherEarned)'
  BY DEF OtaInv, NewestVerifies, NewestEarned, OtherVerifies, OtherEarned, Usable
<1>3. (RunningInv /\ ProbationInv /\ TargetInv /\ HealthInv)'
  BY DEF OtaInv, Reset, RunningInv, ProbationInv, TargetInv, HealthInv, RunningIsPending, Usable
<1>4. GuardInv'
  BY DEF OtaInv, Reset, GuardInv, NoGuard, Slot
<1> QED  BY <1>1, <1>2, <1>3, <1>4 DEF OtaInv

LEMMA UploadBeginInv == ASSUME OtaInv, UploadBegin PROVE OtaInv'
<1> USE OtherSlot, FactoryIsNoSlot
<1> DEFINE s == IF running = "ota_0" THEN "ota_1" ELSE "ota_0"
<1>1. /\ phase = "up" /\ target' = {s} /\ ~RunningIsPending
      /\ image' = [image EXCEPT ![s] = "empty"] /\ proved' = proved \ {s}
      /\ uploads < MaxUploads /\ uploads' = uploads + 1
      /\ UNCHANGED <<bootVars, guard, health, gate, cuts>>
  BY DEF UploadBegin
<1>2. s \in Slot /\ s # running  BY DEF Slot
<1> HIDE DEF s
<1>3. \/ running = Factory /\ \A t \in Slot : ~Usable(otadata, t)
      \/ /\ running = Other(s) /\ otadata[running] = "valid"
         /\ running = newest \/ ~Usable(otadata, newest)
  BY <1>1, <1>2 DEF OtaInv, OtaTypeOK, RunningInv, RunningIsPending
<1>4. OtaTypeOK'
  BY <1>1, <1>2, OtaAssumption DEF OtaInv, OtaTypeOK, bootVars, Image
<1>5. (NewestVerifies /\ NewestEarned /\ OtherVerifies /\ OtherEarned)'
  BY <1>1, <1>2, <1>3
  DEF OtaInv, OtaTypeOK, bootVars, NewestVerifies, NewestEarned, OtherVerifies, OtherEarned, Usable
<1>6. (RunningInv /\ ProbationInv /\ TargetInv /\ HealthInv)'
  BY <1>1, <1>2
  DEF OtaInv, OtaTypeOK, bootVars, RunningInv, ProbationInv, TargetInv, HealthInv,
      RunningIsPending, Usable
<1>7. GuardInv'
  BY <1>1 DEF OtaInv, bootVars, GuardInv, Slot
<1> QED  BY <1>4, <1>5, <1>6, <1>7 DEF OtaInv

LEMMA UploadAbortedInv == ASSUME OtaInv, UploadAborted PROVE OtaInv'
<1> USE DEF UploadAborted, bootVars, envVars
<1>1. OtaTypeOK'
  BY DEF OtaInv, OtaTypeOK
<1>2. (NewestVerifies /\ NewestEarned /\ OtherVerifies /\ OtherEarned)'
  BY DEF OtaInv, NewestVerifies, NewestEarned, OtherVerifies, OtherEarned, Usable
<1>3. (RunningInv /\ ProbationInv /\ TargetInv /\ HealthInv /\ GuardInv)'
  BY DEF OtaInv, RunningInv, ProbationInv, TargetInv, HealthInv, GuardInv, RunningIsPending, Usable
<1> QED  BY <1>1, <1>2, <1>3 DEF OtaInv

(* The running image gets another behaviour, or the one being written gets *)
(* its own: images only change to ones that verify.                        *)
LEMMA ImageChangeInv ==
  ASSUME OtaInv, phase = "up", NEW s \in Slot, NEW i \in Image \ {"empty"},
         image' = [image EXCEPT ![s] = i],
         UNCHANGED <<bootVars, guard, health, target, envVars, proved>>
  PROVE  OtaInv'
<1> USE OtherSlot, FactoryIsNoSlot DEF bootVars, envVars
<1>1. OtaTypeOK'
  BY DEF OtaInv, OtaTypeOK
<1>2. (NewestVerifies /\ NewestEarned /\ OtherVerifies /\ OtherEarned)'
  BY DEF OtaInv, OtaTypeOK, NewestVerifies, NewestEarned, OtherVerifies, OtherEarned, Usable
<1>3. (RunningInv /\ ProbationInv /\ TargetInv /\ HealthInv)'
  BY DEF OtaInv, OtaTypeOK, RunningInv, ProbationInv, TargetInv, HealthInv, RunningIsPending, Usable
<1>4. GuardInv'
  BY DEF OtaInv, GuardInv, Slot
<1> QED  BY <1>1, <1>2, <1>3, <1>4 DEF OtaInv

LEMMA UploadBootInv == ASSUME OtaInv, UploadBoot PROVE OtaInv'
<1>1. PICK s \in target : image[s] # "empty" /\ SetBoot(s)
  BY DEF UploadBoot
<1>2. Reset(FALSE) /\ UNCHANGED <<image, running, guard, health, envVars, proved>>
  BY DEF UploadBoot
<1>3. s \in Slot /\ phase = "up" /\ ~RunningIsPending /\ s # running
  BY DEF OtaInv, OtaTypeOK, TargetInv
<1>4. /\ (NewestVerifies /\ NewestEarned /\ OtherVerifies /\ OtherEarned)'
      /\ otadata' \in [Slot -> {"blank", "new", "pending", "valid", "invalid", "aborted"}]
      /\ newest' \in Slot
      /\ ~RunningIsPending'
  BY <1>1, <1>2, <1>3, SetBootInv
<1>5. OtaTypeOK'
  BY <1>2, <1>4 DEF OtaInv, OtaTypeOK, Reset, envVars
<1>6. (RunningInv /\ ProbationInv /\ TargetInv /\ HealthInv)'
  BY <1>2, <1>4 DEF Reset, RunningInv, ProbationInv, TargetInv, HealthInv
<1>7. GuardInv'
  BY <1>2, <1>3 DEF OtaInv, Reset, GuardInv, Slot
<1> QED  BY <1>4, <1>5, <1>6, <1>7 DEF OtaInv

-----------------------------------------------------------------------------
LEMMA OtaStepInv == ASSUME OtaInv, [OtaNext]_otaVars PROVE OtaInv'
<1>1. CASE Bootloader  BY <1>1, BootloaderInv
<1>2. CASE GuardStart  BY <1>2, GuardStartInv
<1>3. CASE InitPanics
  <2>1. /\ Reset(TRUE) /\ guard' = guard
        /\ UNCHANGED <<image, otadata, newest, running, health, gate, cuts, uploads, proved>>
        /\ running \in Slot /\ image[running] = "looping"
    BY <1>3 DEF InitPanics, ComesUp, envVars
  <2>2. cuts' \in 0 .. MaxPowerCuts /\ uploads' \in 0 .. MaxUploads
    BY <2>1 DEF OtaInv, OtaTypeOK
  <2> QED  BY <2>1, <2>2, ResetInv
<1>4. CASE MarkHealthy  BY <1>4, MarkHealthyInv
<1>5. CASE HealthPasses  BY <1>5, HealthPassesInv
<1>6. CASE HealthFails  BY <1>6, HealthFailsInv
<1>7. CASE UploadBegin  BY <1>7, UploadBeginInv
<1>8. CASE UploadAborted  BY <1>8, UploadAbortedInv
<1>9. CASE UploadEnd
  <2>1. PICK s \in target, i \in Image \ {"empty"} : image' = [image EXCEPT ![s] = i]
    BY <1>9 DEF UploadEnd
  <2>2. s \in Slot /\ phase = "up"
    BY DEF OtaInv, OtaTypeOK, TargetInv
  <2>3. UNCHANGED <<bootVars, guard, health, target, envVars, proved>>
    BY <1>9 DEF UploadEnd
  <2> QED  BY <2>1, <2>2, <2>3, ImageChangeInv
<1>10. CASE UploadBoot  BY <1>10, UploadBootInv
<1>11. CASE PanicsWhenUp
  <2>1. /\ Reset(TRUE) /\ guard' = guard /\ phase = "up"
        /\ UNCHANGED <<image, otadata, newest, running, health, gate, cuts, uploads, proved>>
    BY <1>11 DEF PanicsWhenUp, envVars
  <2>2. cuts' \in 0 .. MaxPowerCuts /\ uploads' \in 0 .. MaxUploads
    BY <2>1 DEF OtaInv, OtaTypeOK
  <2> QED  BY <2>1, <2>2, ResetInv
<1>12. CASE PowerCycle
  <2>1. /\ Reset(FALSE) /\ guard' = NoGuard /\ cuts < MaxPowerCuts /\ cuts' = cuts + 1
        /\ UNCHANGED <<image, otadata, newest, running, health, gate, uploads, proved>>
    BY <1>12 DEF PowerCycle
  <2>2. cuts' \in 0 .. MaxPowerCuts /\ uploads' \in 0 .. MaxUploads
    BY <2>1, OtaAssumption DEF OtaInv, OtaTypeOK
  <2> QED  BY <2>1, <2>2, ResetInv
<1>13. CASE Degrades
  <2>1. /\ running \in Slot /\ phase = "up" /\ image' = [image EXCEPT ![running] = "looping"]
        /\ UNCHANGED <<bootVars, guard, health, target, envVars, proved>>
    BY <1>13 DEF Degrades
  <2> QED  BY <2>1, ImageChangeInv DEF Image
<1>14. CASE UNCHANGED otaVars
  <2> USE <1>14 DEF otaVars, bootVars, envVars
  <2>1. OtaTypeOK'  BY DEF OtaInv, OtaTypeOK
  <2>2. (NewestVerifies /\ NewestEarned /\ OtherVerifies /\ OtherEarned)'
    BY DEF OtaInv, NewestVerifies, NewestEarned, OtherVerifies, OtherEarned, Usable
  <2>3. (RunningInv /\ ProbationInv /\ TargetInv /\ HealthInv /\ GuardInv)'
    BY DEF OtaInv, RunningInv, ProbationInv, TargetInv, HealthInv, GuardInv, RunningIsPending, Usable
  <2> QED  BY <2>1, <2>2, <2>3 DEF OtaInv
<1> QED
  BY <1>1, <1>2, <1>3, <1>4, <1>5, <1>6, <1>7, <1>8, <1>9, <1>10, <1>11, <1>12, <1>13, <1>14
  DEF OtaNext, BootStep, HealthStep

LEMMA OtaInvTrust == OtaInv => TrustIsEarned
  BY OtherSlot, FactoryIsNoSlot
  DEF OtaInv, OtaTypeOK, RunningInv, NewestEarned, OtherEarned, Usable, TrustIsEarned

LEMMA OtaInvProbation == OtaInv => ProbationHasFallback
<1> SUFFICES ASSUME OtaInv, RunningIsPending, Usable(otadata, Other(running))
             PROVE  image[Other(running)] # "empty"
  BY DEF ProbationHasFallback
<1>1. running \in Slot /\ otadata[running] = "pending"  BY DEF RunningIsPending
<1>2. CASE running = newest
  BY <1>1, <1>2 DEF OtaInv, OtherVerifies
<1>3. CASE running # newest
  BY <1>1, <1>3, OtherSlot DEF OtaInv, OtaTypeOK, ProbationInv
<1> QED  BY <1>2, <1>3

(* The crash guard's step, in the words of GoodIsNeverDemoted.             *)
LEMMA OtaStepKeepsGood ==
  ASSUME OtaInv, [OtaNext]_otaVars,
         phase = "start", running \in Slot, image[running] # "looping"
  PROVE  UNCHANGED <<otadata, newest>>
<1>1. guard.slot # running  BY DEF OtaInv, GuardInv
<1>2. target = {}  BY DEF OtaInv, TargetInv
<1>3. CASE GuardStart
  <2>1. Streak < CrashLimit  BY <1>1, OtaAssumption DEF Streak
  <2> QED  BY <1>3, <2>1 DEF GuardStart
<1>4. CASE PowerCycle  BY <1>4 DEF PowerCycle
<1>5. CASE UNCHANGED otaVars  BY <1>5 DEF otaVars, bootVars
<1> QED
  BY <1>2, <1>3, <1>4, <1>5
  DEF OtaNext, BootStep, HealthStep, Bootloader, InitPanics, MarkHealthy, HealthPasses,
      HealthFails, UploadBegin, UploadAborted, UploadEnd, UploadBoot, PanicsWhenUp, Degrades

-----------------------------------------------------------------------------
LEMMA OtaInvariant == OtaSpec => []OtaInv
  BY OtaInitInv, OtaStepInv, PTL DEF OtaSpec

(* The state of the update slots, the crash guard and the health gate      *)
(* stays well typed, the crash streak below the limit.                     *)
THEOREM OtaTypeCorrect == OtaSpec => []OtaTypeOK
<1>1. OtaInv => OtaTypeOK  BY DEF OtaInv
<1> QED  BY <1>1, OtaInvariant, PTL

(* What runs as valid has shown itself (db_ota_crash_guard_mark_healthy,   *)
(* db_ota_health_task), whatever was uploaded, cut off or abandoned.       *)
THEOREM TrustAlwaysEarned == OtaSpec => []TrustIsEarned
  BY OtaInvariant, OtaInvTrust, PTL

(* An image on probation never stands before an erased slot                *)
(* (esp_ota_mark_app_invalid_rollback_and_reboot is never refused).        *)
THEOREM ProbationAlwaysHasFallback == OtaSpec => []ProbationHasFallback
  BY OtaInvariant, OtaInvProbation, PTL

(* The boot crash guard (db_ota_crash_guard_start) never gives up an image *)
(* that comes up.                                                          *)
THEOREM GoodNeverDemoted == OtaSpec => GoodIsNeverDemoted
<1>1. OtaInv /\ [OtaNext]_otaVars =>
        [ phase = "start" /\ running \in Slot /\ image[running] # "looping" =>
            UNCHANGED <<otadata, newest>> ]_otaVars
  BY OtaStepKeepsGood
<1> QED  BY <1>1, OtaInvariant, PTL DEF OtaSpec, GoodIsNeverDemoted
=============================================================================
