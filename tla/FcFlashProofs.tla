--------------------------- MODULE FcFlashProofs ----------------------------
(***************************************************************************)
(* Proofs about the firmware slot (FcImageStore) and the flash job that    *)
(* reads it (FcFlash), for every set of uploads and boards, every size     *)
(* limit, any number of commands and replies on their way, and any         *)
(* behaviour of the flight controller.                                     *)
(***************************************************************************)
EXTENDS FcFlash, TLAPS

(***************************************************************************)
(* Theorems about the firmware slot (FcImageStore), for every set of       *)
(* uploads and every size limit.                                           *)
(*                                                                         *)
(* The inductive invariant says what each phase of an upload guarantees:   *)
(* from the moment the new file exists until its sidecar is written there  *)
(* is no sidecar at all, the file never holds more than was received, and  *)
(* a sidecar that parses always describes the file beside it, if there is  *)
(* one.                                                                    *)
(***************************************************************************)

(* The request in progress and the file it is writing agree.               *)
UploadInv ==
  /\ http.phase = "idle" => http = Idle
  /\ http.phase \in {"receiving", "closed"} =>
       /\ meta = {}
       /\ \E u \in Uploads : /\ http.up = {u}
                             /\ http.bytes <= u.size /\ http.bytes <= MaxImage
                             /\ u.board # 0
                             /\ http.phase = "closed" => http.bytes = u.size
                             /\ \A f \in image : f.data = u.data
  /\ http.phase = "clearing" =>
       /\ image = {}
       /\ http.bytes = 0
       /\ http.up = {} \/ \E u \in Uploads : http.up = {u} /\ u.board # 0

(* The sidecar describes the file.                                         *)
SidecarInv ==
  \A m \in meta \ {Torn} :
    /\ \E u \in Uploads : /\ m.board = u.board
                          /\ m.size = u.size
                          /\ m.crc.data = u.data
    /\ \A f \in image : m.crc = f

StoreInv == StoreTypeOK /\ UploadInv /\ SidecarInv

LEMMA StoreInitInv == StoreInit => StoreInv
<1> SUFFICES ASSUME StoreInit PROVE StoreInv  OBVIOUS
<1>1. StoreTypeOK
  BY StoreAssumption DEF StoreInit, StoreTypeOK, Idle, Phase
<1>2. UploadInv
  BY DEF StoreInit, UploadInv, Idle
<1>3. SidecarInv
  BY DEF StoreInit, SidecarInv
<1> QED  BY <1>1, <1>2, <1>3 DEF StoreInv

LEMMA UploadBeginInv ==
  ASSUME StoreInv, NEW u \in Uploads, UploadBegin(u)
  PROVE  StoreInv'
  BY StoreAssumption
     DEF StoreInv, StoreTypeOK, UploadInv, SidecarInv, UploadBegin, Idle, Phase

LEMMA UploadOpenInv ==
  ASSUME StoreInv, UploadOpen
  PROVE  StoreInv'
  BY StoreAssumption
     DEF StoreInv, StoreTypeOK, UploadInv, SidecarInv, UploadOpen, Idle, Phase, Content

LEMMA ClearMetaInv ==
  ASSUME StoreInv, ClearMeta
  PROVE  StoreInv'
  BY StoreAssumption
     DEF StoreInv, StoreTypeOK, UploadInv, SidecarInv, ClearMeta, Idle, Phase

(* Every error path, and the deletion, goes through ClearImage.            *)
LEMMA ClearImageInv ==
  ASSUME StoreInv, ClearImage, UNCHANGED <<meta, busy>>
  PROVE  StoreInv'
  BY StoreAssumption
     DEF StoreInv, StoreTypeOK, UploadInv, SidecarInv, ClearImage, Phase

LEMMA UploadWriteInv ==
  ASSUME StoreInv, NEW n \in Nat, UploadWrite(n)
  PROVE  StoreInv'
<1>1. CASE ClearImage
  BY <1>1, ClearImageInv DEF UploadWrite
<1>2. CASE ~ClearImage
  <2>1. PICK u \in http.up : /\ http.bytes + n <= u.size
                            /\ http.bytes + n <= MaxImage
                            /\ image' = {[data |-> u.data, len |-> http.bytes + n]}
                            /\ http' = [http EXCEPT !.bytes = @ + n]
    BY <1>2 DEF UploadWrite
  <2>2. /\ http.phase = "receiving" /\ meta' = {} /\ busy' = busy
        /\ http.up = {u} /\ u \in Uploads /\ u.board # 0
    BY <2>1 DEF UploadWrite, StoreInv, UploadInv
  <2>3. StoreTypeOK'
    BY <2>1, <2>2, StoreAssumption DEF StoreInv, StoreTypeOK, Content, Phase
  <2>4. UploadInv'
    BY <2>1, <2>2, StoreAssumption DEF StoreInv, StoreTypeOK, UploadInv
  <2>5. SidecarInv'
    BY <2>2 DEF SidecarInv
  <2> QED  BY <2>3, <2>4, <2>5 DEF StoreInv
<1> QED  BY <1>1, <1>2

LEMMA UploadInterruptedInv ==
  ASSUME StoreInv, UploadInterrupted
  PROVE  StoreInv'
  BY ClearImageInv DEF UploadInterrupted

LEMMA UploadCloseInv ==
  ASSUME StoreInv, UploadClose
  PROVE  StoreInv'
<1>1. CASE ClearImage
  BY <1>1, ClearImageInv DEF UploadClose
<1>2. CASE ~ClearImage
  <2>1. PICK u \in http.up : http.bytes = u.size
    BY DEF UploadClose
  <2>2. PICK f \in image : \E kept \in Lengths(f.len) : image' = {[f EXCEPT !.len = kept]}
    BY <1>2 DEF UploadClose
  <2>9. PICK kept \in Lengths(f.len) : image' = {[f EXCEPT !.len = kept]}
    BY <2>2
  <2>3. http' = [http EXCEPT !.phase = "closed"]
    BY <1>2 DEF UploadClose
  <2>4. /\ http.phase = "receiving" /\ meta' = {} /\ busy' = busy
        /\ http.up = {u} /\ u \in Uploads /\ u.board # 0
        /\ f.data = u.data
    BY <2>1, <2>9 DEF UploadClose, StoreInv, UploadInv
  <2>5. f \in Content /\ kept \in Nat /\ kept <= f.len /\ f.len <= MaxImage
    BY <2>9 DEF StoreInv, StoreTypeOK, Lengths, Content
  <2>6. StoreTypeOK'
    BY <2>9, <2>3, <2>4, <2>5, StoreAssumption DEF StoreInv, StoreTypeOK, Content, Phase
  <2>7. UploadInv'
    BY <2>1, <2>9, <2>3, <2>4, <2>5, StoreAssumption
       DEF StoreInv, StoreTypeOK, UploadInv, Content
  <2>8. SidecarInv'
    BY <2>4 DEF SidecarInv
  <2> QED  BY <2>6, <2>7, <2>8 DEF StoreInv
<1> QED  BY <1>1, <1>2

LEMMA UploadSealInv ==
  ASSUME StoreInv, UploadSeal
  PROVE  StoreInv'
<1>1. CASE ClearImage /\ UNCHANGED meta
  BY <1>1, ClearImageInv DEF UploadSeal
<1>2. CASE http' = Idle /\ UNCHANGED <<image, meta>>
  BY <1>2, StoreAssumption
     DEF UploadSeal, StoreInv, StoreTypeOK, UploadInv, SidecarInv, Idle, Phase
<1>3. ASSUME NEW u \in http.up, NEW f \in image,
             meta' \in { {[board |-> u.board, size |-> http.bytes, crc |-> Crc(f)]},
                         {Torn} },
             http' = Idle, UNCHANGED image
      PROVE  StoreInv'
  <2>1. /\ http.up = {u} /\ u \in Uploads /\ http.bytes = u.size
        /\ f.data = u.data /\ busy' = busy
    BY DEF UploadSeal, StoreInv, UploadInv
  <2>2. f \in Content /\ \A g \in image : g = f
    BY DEF StoreInv, StoreTypeOK
  <2>3. StoreTypeOK'
    BY <1>3, <2>1, <2>2, StoreAssumption
       DEF StoreInv, StoreTypeOK, Idle, Phase, Sidecar, Crc
  <2>4. UploadInv'
    BY <1>3 DEF UploadInv, Idle
  <2>5. SidecarInv'
    BY <1>3, <2>1, <2>2 DEF SidecarInv, Crc
  <2> QED  BY <2>3, <2>4, <2>5 DEF StoreInv
<1> QED  BY <1>1, <1>2, <1>3 DEF UploadSeal

LEMMA StoreAfterPowerCutInv ==
  ASSUME StoreInv, StoreAfterPowerCut
  PROVE  StoreInv'
<1>1. UploadInv' /\ http' = Idle /\ busy' = FALSE /\ meta' = meta
  BY DEF StoreAfterPowerCut, UploadInv, Idle
<1>2. CASE http.phase = "receiving"
  <2>1. PICK kept \in Lengths(http.bytes) :
             image' = {[f EXCEPT !.len = kept] : f \in image}
    BY <1>2 DEF StoreAfterPowerCut
  <2>2. meta = {} /\ kept \in Nat /\ kept <= http.bytes
    BY <1>2 DEF StoreInv, StoreTypeOK, UploadInv, Lengths
  <2>3. kept <= MaxImage
    BY <1>2, <2>2, StoreAssumption DEF StoreInv, StoreTypeOK, UploadInv
  <2>4. \A f \in image' : f \in Content /\ f.len <= MaxImage
    BY <2>1, <2>2, <2>3 DEF StoreInv, StoreTypeOK, Content
  <2>5. \A f, g \in image' : f = g
    BY <2>1 DEF StoreInv, StoreTypeOK
  <2>6. StoreTypeOK'
    BY <1>1, <2>2, <2>4, <2>5 DEF StoreTypeOK, Idle, Phase
  <2> QED  BY <1>1, <2>2, <2>6 DEF StoreInv, SidecarInv
<1>3. CASE http.phase # "receiving"
  <2>1. image' = image
    BY <1>3 DEF StoreAfterPowerCut
  <2> QED  BY <1>1, <2>1 DEF StoreInv, StoreTypeOK, SidecarInv, Idle, Phase
<1> QED  BY <1>2, <1>3

(* One step of the store, and one step of anything else that leaves the    *)
(* slot and the request alone.                                             *)
LEMMA StoreStepInv ==
  ASSUME StoreInv, StoreNext
  PROVE  StoreInv'
<1>1. CASE \E u \in Uploads : UploadBegin(u)
  BY <1>1, UploadBeginInv
<1>2. CASE UploadOpen
  BY <1>2, UploadOpenInv
<1>3. CASE \E u \in http.up : \E n \in Lengths(u.size) \ {0} : UploadWrite(n)
  <2>1. PICK n : (\E u \in http.up : n \in Lengths(u.size)) /\ UploadWrite(n)
    BY <1>3
  <2>2. n \in Nat
    BY <2>1 DEF Lengths
  <2> QED  BY <2>1, <2>2, UploadWriteInv
<1>4. CASE UploadInterrupted
  BY <1>4, UploadInterruptedInv
<1>5. CASE UploadClose
  BY <1>5, UploadCloseInv
<1>6. CASE UploadSeal
  BY <1>6, UploadSealInv
<1>7. CASE ClearMeta
  BY <1>7, ClearMetaInv
<1>8. CASE DeleteImage
  BY <1>8, ClearImageInv DEF DeleteImage
<1>9. CASE StoreAfterPowerCut
  BY <1>9, StoreAfterPowerCutInv
<1> QED  BY <1>1, <1>2, <1>3, <1>4, <1>5, <1>6, <1>7, <1>8, <1>9 DEF StoreNext, HttpStep

LEMMA StoreFrameInv ==
  ASSUME StoreInv, UNCHANGED <<image, meta, http>>, busy' \in BOOLEAN
  PROVE  StoreInv'
  BY DEF StoreInv, StoreTypeOK, UploadInv, SidecarInv

LEMMA StoreInvPresent == StoreInv => PresentIsWhole
<1> SUFFICES ASSUME StoreInv, NEW m \in ImageInfo, NEW f \in image
             PROVE  /\ m.crc = Crc(f)
                    /\ \E u \in Uploads : /\ f = [data |-> u.data, len |-> u.size]
                                          /\ m.board = u.board
  BY DEF PresentIsWhole
<1>1. m \in meta \ {Torn} /\ f \in Content /\ f.len = m.size
  BY DEF ImageInfo, StoreInv, StoreTypeOK
<1>2. PICK u \in Uploads : m.board = u.board /\ m.size = u.size /\ m.crc.data = u.data
  BY <1>1 DEF StoreInv, SidecarInv
<1>3. m.crc = f
  BY <1>1 DEF StoreInv, SidecarInv
<1>4. f = [data |-> u.data, len |-> u.size]
  BY <1>1, <1>2, <1>3 DEF Content
<1> QED  BY <1>2, <1>3, <1>4 DEF Crc

(* The slot never holds two files or two sidecars, nor an image larger     *)
(* than the application region.                                            *)
THEOREM StoreTypeCorrect == StoreSpec => []StoreTypeOK
<1>1. StoreInv /\ UNCHANGED storeVars => StoreInv'
  BY StoreFrameInv DEF storeVars, StoreInv, StoreTypeOK
<1>2. StoreInv /\ [StoreNext]_storeVars => StoreInv'
  BY <1>1, StoreStepInv
<1>3. StoreInv => StoreTypeOK
  BY DEF StoreInv
<1> QED  BY <1>2, <1>3, StoreInitInv, PTL DEF StoreSpec

(* What get_image_info accepts is a whole upload with its own board id and *)
(* CRC, after any sequence of uploads, failures, deletions and power cuts. *)
THEOREM StoredImageIsWhole == StoreSpec => []PresentIsWhole
<1>1. StoreInv /\ UNCHANGED storeVars => StoreInv'
  BY StoreFrameInv DEF storeVars, StoreInv, StoreTypeOK
<1>2. StoreInv /\ [StoreNext]_storeVars => StoreInv'
  BY <1>1, StoreStepInv
<1> QED  BY <1>2, StoreInitInv, StoreInvPresent, PTL DEF StoreSpec

-----------------------------------------------------------------------------
(***************************************************************************)
(* Proofs about FcFlash, for every set of uploads and boards, any number   *)
(* of commands and replies on their way, and any behaviour of the flight   *)
(* controller.  The slot's invariant StoreInv is kept by the composition   *)
(* too: the flash task only takes and frees the slot.                      *)
(***************************************************************************)

TaskInv ==
  /\ state \in State /\ pc \in Pc /\ waiting \in BOOLEAN
  /\ img \subseteq Sidecar /\ \A m, n \in img : m = n
  /\ off \in Nat /\ \A m \in img : off <= m.size

FcInv ==
  /\ fc \in [mode: {"gone", "app", "bl"}, board: Boards, flash: FcContent,
             erased: BOOLEAN, bootable: BOOLEAN]
  /\ fcIn \in Seq(Cmd) /\ Len(fcIn) <= MaxPending

(* The slot is taken exactly while there is a task, and all that the web   *)
(* server may be doing to it then is a deletion.                           *)
SlotInv ==
  /\ busy <=> pc # "idle"
  /\ busy => http.phase = "idle" \/ (http.phase = "clearing" /\ http.up = {})

HandleInv ==
  /\ dev \in BOOLEAN /\ rawMode \in BOOLEAN /\ token \in BOOLEAN
  /\ link \in {"closed", "open", "lost"}
  /\ link # "closed" <=> dev
  /\ ~busy => ~dev /\ ~rawMode

FlashInv == StoreInv /\ TaskInv /\ FcInv /\ SlotInv /\ HandleInv

LEMMA FlashInitInv == FlashInit => FlashInv
<1> SUFFICES ASSUME FlashInit PROVE FlashInv  OBVIOUS
<1>1. StoreInv  BY StoreInitInv DEF FlashInit
<1>2. TaskInv  BY DEF FlashInit, TaskInv, State, Pc
<1>3. FcInv
  <2>1. PICK b \in Boards : fc = Factory(b)  BY DEF FlashInit
  <2>2. fcIn \in Seq(Cmd) /\ Len(fcIn) <= MaxPending
    BY FlashAssumption DEF FlashInit
  <2> QED  BY <2>1, <2>2 DEF FcInv, Factory, FcContent
<1>4. SlotInv /\ HandleInv
  BY DEF FlashInit, StoreInit, Idle, SlotInv, HandleInv
<1> QED  BY <1>1, <1>2, <1>3, <1>4 DEF FlashInv

-----------------------------------------------------------------------------
(* What kinds of step the flash task takes.                                *)

Asks  == AskSync \/ AskIdentity \/ AskErase \/ SendChunk \/ AskCrc
Takes == SyncDone \/ RevDone \/ BoardDone \/ SizeDone \/ EraseDone \/ ChunkDone \/ CrcDone
Moves == OpenImage \/ ReadFails \/ Programmed
Tells == RequestReboot \/ SendBoot

LEMMA TakesStep ==
  ASSUME FlashInv, Takes
  PROVE  /\ pc # "idle" /\ pc' \in Pc \ {"idle"} /\ state' \in State
         /\ waiting' = FALSE /\ rawMode' \in {rawMode, TRUE}
         /\ UNCHANGED <<storeVars, img, dev, token, link, fc, fcIn>>
         /\ off' \in Nat /\ \A m \in img : off' <= m.size
<1>1. ASSUME Acked \/ Nacked \/ GotWord \/ NoWord \/ Collected(3) \/ GaveUp(3)
      PROVE  waiting' = FALSE /\ fcIn' = fcIn /\ rawMode' \in {rawMode, TRUE}
  BY <1>1 DEF Acked, Nacked, GotWord, NoWord, Collected, GaveUp
<1>2. waiting' = FALSE /\ fcIn' = fcIn /\ rawMode' \in {rawMode, TRUE}
  BY <1>1 DEF Takes, SyncDone, RevDone, BoardDone, SizeDone, EraseDone, ChunkDone, CrcDone
<1>3. UNCHANGED <<storeVars, img, dev, token, link, fc>>
  BY DEF Takes, SyncDone, RevDone, BoardDone, SizeDone, EraseDone, ChunkDone, CrcDone, SameStep
<1>4. pc # "idle" /\ pc' \in Pc \ {"idle"} /\ state' \in State
  BY DEF FlashInv, TaskInv, State, Pc, Sync, Fail,
         Takes, SyncDone, RevDone, BoardDone, SizeDone, EraseDone, ChunkDone, CrcDone
<1>5. off' \in Nat /\ \A m \in img : off' <= m.size
  <2>1. CASE off' = off  BY <2>1 DEF FlashInv, TaskInv
  <2>2. CASE ChunkDone
    <3>1. PICK m \in img : off < m.size /\ off' \in {off, off + Chunk(m)}
      BY <2>2 DEF ChunkDone
    <3>2. m \in Sidecar /\ m.size \in Nat
      BY DEF FlashInv, TaskInv, Sidecar
    <3>3. \A n \in img : n = m
      BY DEF FlashInv, TaskInv
    <3> QED
      BY <3>1, <3>2, <3>3, FlashAssumption DEF FlashInv, TaskInv, Chunk
  <2> QED
    BY <2>1, <2>2 DEF Takes, SyncDone, RevDone, BoardDone, SizeDone, EraseDone, CrcDone
<1> QED  BY <1>2, <1>3, <1>4, <1>5

LEMMA AsksStep ==
  ASSUME FlashInv, Asks
  PROVE  /\ pc # "idle" /\ dev /\ link = "open" /\ Len(fcIn) < MaxPending
         /\ \E cmd \in Cmd : fcIn' = Append(fcIn, cmd)
         /\ waiting' = TRUE /\ rawMode' = TRUE
         /\ UNCHANGED <<storeVars, taskVars, dev, token, link, fc>>
<1>1. ASSUME NEW cmd \in Cmd, Transmit(cmd)
      PROVE  /\ dev /\ link = "open" /\ Len(fcIn) < MaxPending
             /\ \E c \in Cmd : fcIn' = Append(fcIn, c)
             /\ waiting' = TRUE /\ rawMode' = TRUE
             /\ UNCHANGED <<storeVars, taskVars, dev, token, link, fc>>
  BY <1>1 DEF Transmit
<1>2. CASE AskSync  BY <1>1, <1>2 DEF AskSync, Sync, Cmd
<1>3. CASE AskIdentity
  <2>1. [op |-> pc] \in Cmd  BY <1>3 DEF AskIdentity, Cmd
  <2> QED  BY <1>1, <1>3, <2>1 DEF AskIdentity
<1>4. CASE AskErase  BY <1>1, <1>4 DEF AskErase, Cmd
<1>5. CASE AskCrc  BY <1>1, <1>5 DEF AskCrc, Cmd
<1>6. CASE SendChunk
  <2>1. PICK m \in img, d \in { f.data : f \in image } \cup (IF image = {} THEN {Mixed} ELSE {}) :
             /\ off < m.size
             /\ Transmit([op |-> "program",
                          piece |-> [data |-> d, from |-> off, len |-> Chunk(m)]])
    BY <1>6 DEF SendChunk
  <2>2. d \in Data \cup {Mixed}
    BY DEF FlashInv, StoreInv, StoreTypeOK, Content
  <2>3. off \in Nat /\ m.size \in Nat
    BY DEF FlashInv, TaskInv, Sidecar
  <2>4. Chunk(m) \in Nat
    BY <2>1, <2>3, FlashAssumption DEF Chunk
  <2>5. [data |-> d, from |-> off, len |-> Chunk(m)] \in Piece
    BY <2>2, <2>3, <2>4 DEF Piece
  <2>6. [op |-> "program", piece |-> [data |-> d, from |-> off, len |-> Chunk(m)]] \in Cmd
    BY <2>5 DEF Cmd
  <2> QED  BY <1>1, <1>6, <2>1, <2>6 DEF SendChunk
<1> QED  BY <1>2, <1>3, <1>4, <1>5, <1>6 DEF Asks

LEMMA MovesStep ==
  ASSUME FlashInv, Moves
  PROVE  /\ pc # "idle" /\ pc' \in Pc \ {"idle"} /\ state' \in State
         /\ UNCHANGED <<storeVars, img, boardId, off, waiting, usbVars, fcVars>>
  BY DEF FlashInv, TaskInv, State, Pc, Sync, Fail, Moves, OpenImage, ReadFails, Programmed

LEMMA TellsStep ==
  ASSUME FlashInv, Tells
  PROVE  /\ pc # "idle" /\ pc' \in Pc \ {"idle"} /\ state' \in State
         /\ \/ fcIn' = fcIn
            \/ Len(fcIn) < MaxPending /\ \E cmd \in Cmd : fcIn' = Append(fcIn, cmd)
         /\ UNCHANGED <<storeVars, img, off, waiting, usbVars, fc>>
<1>1. [op |-> "reboot"] \in Cmd /\ [op |-> "boot"] \in Cmd
  BY DEF Cmd
<1> QED
  BY <1>1 DEF FlashInv, TaskInv, State, Pc, Tells, RequestReboot, SendBoot

-----------------------------------------------------------------------------
(* The parts of the invariant, each over every step.                       *)

LEMMA TailType ==
  ASSUME fcIn \in Seq(Cmd), Len(fcIn) <= MaxPending, fcIn # <<>>
  PROVE  Tail(fcIn) \in Seq(Cmd) /\ Len(Tail(fcIn)) <= MaxPending /\ Head(fcIn) \in Cmd
  BY FlashAssumption

LEMMA NoneType == <<>> \in Seq(Cmd) /\ Len(<<>>) <= MaxPending
  BY FlashAssumption

LEMMA FcStepInv == ASSUME FcInv, FcStep PROVE FcInv'
<1> USE DEF FcInv
<1>1. CASE BootloaderAnswers
  <2>1. fcIn # <<>> /\ fcIn' = Tail(fcIn)  BY <1>1 DEF BootloaderAnswers
  <2> DEFINE cmd == Head(fcIn)
  <2>2. cmd \in Cmd  BY <2>1, TailType
  <2>3. \/ fc' = fc
        \/ fc' = [fc EXCEPT !.flash = Blank, !.erased = TRUE, !.bootable = FALSE]
        \/ fc' = [fc EXCEPT !.flash = Broken, !.erased = FALSE, !.bootable = FALSE]
        \/ cmd.op = "program" /\ fc' = [fc EXCEPT !.flash = Programs(@, cmd.piece)]
        \/ fc' = [fc EXCEPT !.flash = Broken]
        \/ fc' = [Gone EXCEPT !.bootable = TRUE]
    BY <1>1 DEF BootloaderAnswers, Refuse
  <2>4. Blank \in FcContent /\ Broken \in FcContent
    BY DEF Blank, Broken, FcContent
  <2>5. cmd.op = "program" => Programs(fc.flash, cmd.piece) \in FcContent
    <3> HAVE cmd.op = "program"
    <3>1. cmd.piece \in Piece  BY <2>2 DEF Cmd
    <3> QED  BY <3>1, <2>4 DEF Programs, Piece, FcContent
  <2> HIDE DEF cmd
  <2>6. fc' \in [mode: {"gone", "app", "bl"}, board: Boards, flash: FcContent,
                 erased: BOOLEAN, bootable: BOOLEAN]
    BY <2>3, <2>4, <2>5 DEF Gone
  <2> QED  BY <2>1, <2>6, TailType
<1>2. CASE ApplicationAnswers
  <2>1. fcIn # <<>> /\ fcIn' \in {<<>>, Tail(fcIn)} /\ fc' \in {fc, Gone}
    BY <1>2 DEF ApplicationAnswers
  <2>2. fcIn' \in Seq(Cmd) /\ Len(fcIn') <= MaxPending
    BY <2>1, TailType, NoneType
  <2> QED  BY <2>1, <2>2 DEF Gone
<1>3. CASE Chatter  BY <1>3 DEF Chatter
<1>4. CASE FcVanishes
  <2>1. fcIn' = <<>> /\ fc' = Gone  BY <1>4 DEF FcVanishes
  <2> QED  BY <2>1, NoneType DEF Gone
<1>5. CASE FcReturns
  <2>1. /\ fcIn' = <<>>
        /\ \/ fc' = [fc EXCEPT !.mode = "bl"]
           \/ fc' = [fc EXCEPT !.mode = "app"]
           \/ \E b \in Boards : fc' = Factory(b)
    BY <1>5 DEF FcReturns
  <2>2. \A b \in Boards : Factory(b) \in [mode: {"gone", "app", "bl"}, board: Boards,
                                        flash: FcContent, erased: BOOLEAN, bootable: BOOLEAN]
    BY DEF Factory, FcContent
  <2>3. fc' \in [mode: {"gone", "app", "bl"}, board: Boards, flash: FcContent,
                 erased: BOOLEAN, bootable: BOOLEAN]
    BY <2>1, <2>2
  <2> QED  BY <2>1, <2>3, NoneType
<1> QED  BY <1>1, <1>2, <1>3, <1>4, <1>5 DEF FcStep

(* The flight controller and the driver leave the slot and the task alone. *)
LEMMA FcStepFrame ==
  ASSUME FcStep
  PROVE  /\ UNCHANGED <<storeVars, taskVars, waiting, dev, rawMode, token>>
         /\ link' = link \/ (link = "open" /\ link' = "lost")
  BY DEF FcStep, BootloaderAnswers, ApplicationAnswers, Chatter, FcVanishes, FcReturns,
         Vanish, usbVars

LEMMA HttpStepSlot ==
  ASSUME StoreInv, SlotInv, HttpStep, pc' = pc
  PROVE  SlotInv' /\ busy' = busy
<1>1. busy' = busy
  BY DEF HttpStep, UploadBegin, UploadOpen, UploadWrite, UploadInterrupted, UploadClose,
         UploadSeal, ClearMeta, DeleteImage
<1>2. ASSUME busy
      PROVE  http'.phase = "idle" \/ (http'.phase = "clearing" /\ http'.up = {})
  <2>1. /\ http.phase \in {"idle", "clearing"} /\ (http.phase = "clearing" => http.up = {})
    BY <1>2 DEF SlotInv
  <2>2. ClearMeta \/ DeleteImage
    BY <1>2, <2>1 DEF HttpStep, UploadBegin, UploadOpen, UploadWrite, UploadInterrupted,
       UploadClose, UploadSeal
  <2> QED  BY <2>2 DEF ClearMeta, DeleteImage, ClearImage, Idle
<1> QED  BY <1>1, <1>2 DEF SlotInv

-----------------------------------------------------------------------------
(* The whole step.                                                         *)

LEMMA AppendType ==
  ASSUME fcIn \in Seq(Cmd), Len(fcIn) < MaxPending, NEW cmd \in Cmd
  PROVE  Append(fcIn, cmd) \in Seq(Cmd) /\ Len(Append(fcIn, cmd)) <= MaxPending
  BY FlashAssumption

LEMMA TaskStepInv == ASSUME FlashInv, TaskStep PROVE FlashInv'
<1> USE DEF FlashInv
<1>1. CASE Takes
  <2>1. StoreInv' /\ SlotInv'
    BY <1>1, TakesStep, StoreFrameInv DEF storeVars, SlotInv, StoreInv, StoreTypeOK
  <2>2. TaskInv' /\ FcInv'
    BY <1>1, TakesStep DEF storeVars, TaskInv, FcInv
  <2>3. busy' = busy /\ busy /\ rawMode' \in BOOLEAN /\ UNCHANGED <<dev, token, link>>
    BY <1>1, TakesStep DEF storeVars, SlotInv, HandleInv
  <2>4. HandleInv'
    BY <2>3 DEF HandleInv
  <2> QED  BY <2>1, <2>2, <2>4
<1>2. CASE Asks
  <2>1. StoreInv' /\ SlotInv'
    BY <1>2, AsksStep, StoreFrameInv DEF storeVars, taskVars, SlotInv, StoreInv, StoreTypeOK
  <2>2. TaskInv'
    BY <1>2, AsksStep DEF taskVars, TaskInv
  <2>3. FcInv'
    BY <1>2, AsksStep, AppendType DEF FcInv
  <2>4. HandleInv'
    BY <1>2, AsksStep DEF storeVars, HandleInv, SlotInv
  <2> QED  BY <2>1, <2>2, <2>3, <2>4
<1>3. CASE Moves
  <2>1. StoreInv' /\ SlotInv'
    BY <1>3, MovesStep, StoreFrameInv DEF storeVars, SlotInv, StoreInv, StoreTypeOK
  <2>2. TaskInv' /\ FcInv' /\ HandleInv'
    BY <1>3, MovesStep DEF storeVars, usbVars, fcVars, TaskInv, FcInv, HandleInv
  <2> QED  BY <2>1, <2>2
<1>4. CASE Tells
  <2>1. StoreInv' /\ SlotInv'
    BY <1>4, TellsStep, StoreFrameInv DEF storeVars, SlotInv, StoreInv, StoreTypeOK
  <2>2. TaskInv' /\ HandleInv'
    BY <1>4, TellsStep DEF storeVars, usbVars, TaskInv, HandleInv
  <2>3. FcInv'
    BY <1>4, TellsStep, AppendType DEF FcInv
  <2> QED  BY <2>1, <2>2, <2>3
<1>5. CASE Begin
  <2>1. /\ pc = "begin" /\ img' = ImageInfo /\ off' = 0
        /\ pc' \in {"open", "done"} /\ state' \in {"waiting_for_fc", "failed"}
        /\ UNCHANGED <<storeVars, waiting, usbVars, fcVars>>
    BY <1>5 DEF Begin, Fail
  <2>2. StoreInv' /\ SlotInv'
    BY <2>1, StoreFrameInv DEF storeVars, SlotInv, StoreInv, StoreTypeOK
  <2>3. img' \subseteq Sidecar /\ \A m, n \in img' : m = n
    BY <2>1 DEF StoreInv, StoreTypeOK, ImageInfo
  <2>4. \A m \in img' : off' <= m.size
    BY <2>1, <2>3 DEF Sidecar
  <2>5. TaskInv' /\ FcInv' /\ HandleInv'
    BY <2>1, <2>3, <2>4
    DEF storeVars, usbVars, fcVars, TaskInv, FcInv, HandleInv, State, Pc
  <2> QED  BY <2>2, <2>5
<1>6. CASE OpenFc
  <2>1. /\ pc \in {"open", "reopen"} /\ pc' \in {"sync", "sync2", "done"}
        /\ state' \in {state, "failed"}
        /\ \/ link' = "open" /\ dev' = TRUE
           \/ UNCHANGED <<dev, link>>
        /\ UNCHANGED <<storeVars, img, boardId, off, waiting, rawMode, stream, token, fcVars>>
    BY <1>6 DEF OpenFc, Fail
  <2>2. StoreInv' /\ SlotInv'
    BY <2>1, StoreFrameInv DEF storeVars, SlotInv, StoreInv, StoreTypeOK
  <2>3. TaskInv' /\ FcInv'
    BY <2>1 DEF fcVars, TaskInv, FcInv, State, Pc, Sync
  <2>4. busy' = busy /\ busy
    BY <2>1 DEF storeVars, SlotInv
  <2>5. HandleInv'
    <3>1. CASE link' = "open" /\ dev' = TRUE
      BY <2>1, <2>4, <3>1 DEF HandleInv
    <3>2. CASE UNCHANGED <<dev, link>>
      BY <2>1, <2>4, <3>2 DEF HandleInv
    <3> QED  BY <2>1, <3>1, <3>2
  <2> QED  BY <2>2, <2>3, <2>5
<1>7. CASE AwaitReboot
  <2>1. /\ pc = "await" /\ pc' = "reopen" /\ token' = FALSE /\ CloseFc
        /\ UNCHANGED <<storeVars, state, img, boardId, off, waiting, stream, fcVars>>
    BY <1>7 DEF AwaitReboot
  <2>2. StoreInv' /\ SlotInv'
    BY <2>1, StoreFrameInv DEF storeVars, SlotInv, StoreInv, StoreTypeOK
  <2>3. TaskInv' /\ FcInv' /\ HandleInv'
    BY <2>1 DEF CloseFc, storeVars, fcVars, TaskInv, FcInv, HandleInv, Pc
  <2> QED  BY <2>2, <2>3
<1>8. CASE Finish
  <2>1. /\ CloseFc /\ busy' = FALSE /\ pc' = "idle" /\ img' = {} /\ off' = 0
        /\ UNCHANGED <<image, meta, http, state, waiting, token, fcVars>>
    BY <1>8 DEF Finish
  <2>2. StoreInv' /\ SlotInv'
    BY <2>1, StoreFrameInv DEF SlotInv
  <2>3. TaskInv' /\ FcInv' /\ HandleInv'
    BY <2>1 DEF CloseFc, fcVars, TaskInv, FcInv, HandleInv, Pc
  <2> QED  BY <2>2, <2>3
<1> QED
  BY <1>1, <1>2, <1>3, <1>4, <1>5, <1>6, <1>7, <1>8 DEF TaskStep, Takes, Asks, Moves, Tells

LEMMA FlashStepInv == ASSUME FlashInv, [FlashNext]_flashVars PROVE FlashInv'
<1> USE DEF FlashInv
<1>1. CASE StartFlash
  <2>1. /\ http = Idle /\ ~busy /\ state' = "idle"
        /\ \/ busy' = TRUE /\ pc' = "begin"
           \/ UNCHANGED <<busy, pc>>
        /\ UNCHANGED <<image, meta, http, waiting, img, boardId, off, usbVars, fcVars>>
    BY <1>1 DEF StartFlash
  <2>2. StoreInv'  BY <2>1, StoreFrameInv DEF StoreInv, StoreTypeOK
  <2>3. SlotInv'  BY <2>1 DEF SlotInv, Idle
  <2>4. TaskInv' /\ FcInv' /\ HandleInv'
    BY <2>1 DEF usbVars, fcVars, TaskInv, FcInv, HandleInv, State, Pc
  <2> QED  BY <2>2, <2>3, <2>4
<1>2. CASE HttpStep /\ UNCHANGED <<taskVars, waiting, usbVars, fcVars>>
  <2>1. StoreInv'  BY <1>2, StoreStepInv DEF StoreNext
  <2>2. SlotInv' /\ busy' = busy
    BY <1>2, HttpStepSlot DEF taskVars
  <2>3. TaskInv' /\ FcInv' /\ HandleInv'
    BY <1>2, <2>2 DEF taskVars, usbVars, fcVars, TaskInv, FcInv, HandleInv
  <2> QED  BY <2>1, <2>2, <2>3
<1>3. CASE TaskStep  BY <1>3, TaskStepInv
<1>4. CASE Deliver
  <2>1. UNCHANGED <<storeVars, taskVars, waiting, dev, rawMode, token, link, fc, fcIn>>
    BY <1>4 DEF Deliver
  <2>2. StoreInv' /\ SlotInv'
    BY <2>1, StoreFrameInv DEF storeVars, taskVars, SlotInv, StoreInv, StoreTypeOK
  <2>3. TaskInv' /\ FcInv' /\ HandleInv'
    BY <2>1 DEF storeVars, taskVars, TaskInv, FcInv, HandleInv
  <2> QED  BY <2>2, <2>3
<1>5. CASE UsbDisconnect
  <2>1. /\ link' = "closed" /\ dev' = FALSE /\ token' = TRUE
        /\ UNCHANGED <<storeVars, taskVars, waiting, rawMode, stream, fcVars>>
    BY <1>5 DEF UsbDisconnect
  <2>2. StoreInv' /\ SlotInv'
    BY <2>1, StoreFrameInv DEF storeVars, taskVars, SlotInv, StoreInv, StoreTypeOK
  <2>3. TaskInv' /\ FcInv' /\ HandleInv'
    BY <2>1 DEF storeVars, taskVars, fcVars, TaskInv, FcInv, HandleInv
  <2> QED  BY <2>2, <2>3
<1>6. CASE FcStep
  <2>1. StoreInv' /\ SlotInv'
    BY <1>6, FcStepFrame, StoreFrameInv DEF storeVars, taskVars, SlotInv, StoreInv, StoreTypeOK
  <2>2. TaskInv' /\ HandleInv'
    BY <1>6, FcStepFrame DEF storeVars, taskVars, TaskInv, HandleInv
  <2> QED  BY <1>6, <2>1, <2>2, FcStepInv
<1>7. CASE PowerCut
  <2>1. StoreInv' /\ busy' = FALSE
    BY <1>7, StoreAfterPowerCutInv DEF PowerCut, StoreAfterPowerCut
  <2>2. SlotInv' /\ TaskInv' /\ FcInv' /\ HandleInv'
    BY <1>7, <2>1 DEF PowerCut, SlotInv, TaskInv, FcInv, HandleInv, State, Pc
  <2> QED  BY <2>1, <2>2
<1>8. CASE UNCHANGED flashVars
  <2>1. StoreInv' /\ SlotInv'
    BY <1>8, StoreFrameInv DEF flashVars, storeVars, taskVars, SlotInv, StoreInv, StoreTypeOK
  <2>2. TaskInv' /\ FcInv' /\ HandleInv'
    BY <1>8 DEF flashVars, storeVars, taskVars, usbVars, fcVars, TaskInv, FcInv, HandleInv
  <2> QED  BY <2>1, <2>2
<1> QED
  BY <1>1, <1>2, <1>3, <1>4, <1>5, <1>6, <1>7, <1>8 DEF FlashNext, WebStep

-----------------------------------------------------------------------------
LEMMA FlashInvariant == FlashSpec => []FlashInv
  BY FlashInitInv, FlashStepInv, PTL DEF FlashSpec

(* The flash task, the driver's handle and the flight controller stay well *)
(* typed; the task never programs beyond its image.                        *)
THEOREM FlashTypeCorrect == FlashSpec => []FlashTypeOK
<1>1. FlashInv => FlashTypeOK
  BY DEF FlashInv, StoreInv, TaskInv, FcInv, HandleInv, FlashTypeOK
<1> QED  BY <1>1, FlashInvariant, PTL

(* Trap 3 of flash_task: no path through the task, the disconnect callback *)
(* and the reboot loses the handle or leaves raw mode on for the next job. *)
THEOREM HandleNeverLeaks == FlashSpec => []NoLeakedHandle
<1>1. FlashInv => NoLeakedHandle
  BY DEF FlashInv, SlotInv, HandleInv, NoLeakedHandle, StoreInv, StoreTypeOK
<1> QED  BY <1>1, FlashInvariant, PTL

(* g_busy in db_fc_flash_upload_begin keeps the slot from being rewritten  *)
(* during a flash; an upload in progress keeps the flash from starting.    *)
THEOREM NeverRewrittenWhileBusy == FlashSpec => NoRewriteWhileBusy
<1>1. ASSUME FlashInv, [FlashNext]_flashVars, busy, busy'
      PROVE  image' \subseteq image /\ meta' \subseteq meta
  <2>1. CASE HttpStep
    <3>1. /\ http.phase \in {"idle", "clearing"} /\ (http.phase = "clearing" => http.up = {})
      BY <1>1 DEF FlashInv, SlotInv
    <3>2. ClearMeta \/ DeleteImage
      BY <1>1, <2>1, <3>1 DEF HttpStep, UploadBegin, UploadOpen, UploadWrite,
         UploadInterrupted, UploadClose, UploadSeal
    <3> QED  BY <3>2 DEF ClearMeta, DeleteImage, ClearImage
  <2>2. CASE PowerCut
    BY <1>1, <2>2 DEF PowerCut, StoreAfterPowerCut
  <2>3. CASE ~HttpStep /\ ~PowerCut
    <3>1. CASE TaskStep
      BY <3>1, <1>1, TakesStep, AsksStep, MovesStep, TellsStep
      DEF TaskStep, Takes, Asks, Moves, Tells, storeVars, Begin, OpenFc, AwaitReboot, Finish
    <3>2. CASE FcStep  BY <3>2, FcStepFrame DEF storeVars
    <3> QED
      BY <1>1, <2>3, <3>1, <3>2
      DEF FlashNext, WebStep, StartFlash, Deliver, UsbDisconnect, flashVars, storeVars
  <2> QED  BY <2>1, <2>2, <2>3
<1>2. FlashInv /\ [FlashNext]_flashVars =>
        [busy /\ busy' => image' \subseteq image /\ meta' \subseteq meta]_storeVars
  BY <1>1
<1> QED  BY <1>2, FlashInvariant, PTL DEF FlashSpec, NoRewriteWhileBusy

(* The composition keeps what the slot promises: an accepted image is a    *)
(* whole upload also when jobs, deletions and power cuts interleave.       *)
THEOREM FlashedImageIsWhole == FlashSpec => []PresentIsWhole
<1>1. FlashInv => PresentIsWhole  BY StoreInvPresent DEF FlashInv
<1> QED  BY <1>1, FlashInvariant, PTL
=============================================================================
