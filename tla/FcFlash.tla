------------------------------ MODULE FcFlash -------------------------------
(***************************************************************************)
(* Flashing the flight controller over USB (db_fc_flash.c, "USB plumbing"  *)
(* and "flash task"), composed with the firmware slot of FcImageStore.     *)
(*                                                                         *)
(* Actors: the web server task (FcImageStore, and StartFlash), the flash   *)
(* task (one action for each command it sends, each answer it takes and    *)
(* each deadline that passes), the USB driver's callbacks (Deliver,        *)
(* UsbDisconnect), and the flight controller at the end of the cable,      *)
(* which is external: it answers late, swallows the first GET_SYNC,        *)
(* refuses commands, reboots, is unplugged, and is replaced by another.    *)
(*                                                                         *)
(* Bytes travel as two-byte units: a status (INSYNC plus OK or a refusal)  *)
(* or one half of a 32-bit word.  A reply is a status, or two halves and   *)
(* a status; a reader that is out of step with the replies sees halves     *)
(* where it wants a status, exactly as the code would.                     *)
(***************************************************************************)
EXTENDS FcImageStore, Sequences

CONSTANTS
  ProgChunk,   \* PROG_CHUNK
  FlashSize,   \* flash size of each kind of flight controller, by board id
  BlRev,       \* the bootloader revision it reports
  MaxPending,  \* bound: commands queued at the flight controller
  MaxWire,     \* bound: reply units on their way back from it
  Old, Mixed   \* flash contents that are not an upload: what it came with,
               \* and anything else

Boards == DOMAIN FlashSize

ASSUME FlashAssumption ==
  /\ ProgChunk \in Nat \ {0}
  /\ MaxPending \in Nat \ {0} /\ MaxWire \in Nat \ {0}
  /\ BlRev \in Nat
  /\ Boards \subseteq Nat
  /\ FlashSize \in [Boards -> Nat]
  /\ Old \notin Data /\ Mixed \notin Data /\ Old # Mixed
  \* board ids and revisions are small numbers, images and flash sizes are
  \* not; and no image is made for a board that has the bootloader revision
  \* for its id
  /\ \A u \in Uploads : BlRev < u.size /\ \A b \in Boards : b < u.size
  /\ \A u \in Uploads : u.board # BlRev /\ \A b \in Boards : u.board # FlashSize[b]

VARIABLES
  state,     \* g_status.state
  pc,        \* where the flash task is
  waiting,   \* bl_cmd has sent its command and is collecting the reply
  img,       \* the task's copy of the image info: a set with at most one
  boardId,   \* the word read as the board id
  off,       \* bytes acknowledged so far
  dev,       \* g_dev # NULL
  rawMode,   \* g_raw_mode
  stream,    \* g_rx_stream
  token,     \* g_disconnected
  link,      \* the driver's handle: closed, open, or lost (device gone)
  fc,        \* the flight controller at the end of the cable
  fcIn,      \* commands on their way to it
  wire       \* its bytes on their way back

taskVars == <<state, pc, img, boardId, off>>
usbVars  == <<dev, rawMode, stream, token, link>>
fcVars   == <<fc, fcIn, wire>>
flashVars == <<storeVars, taskVars, waiting, usbVars, fcVars>>

State == {"idle", "waiting_for_fc", "rebooting", "erasing", "programming",
          "verifying", "done", "failed"}
Sync  == {"sync", "resync", "sync2", "resync2"}
Pc    == Sync \cup {"idle", "begin", "open", "reboot", "await", "reopen", "rev",
          "board", "size", "erase", "image", "program", "crc", "boot", "done"}

(* What a flight controller's flash can hold: what it came with, nothing,  *)
(* a prefix of an upload, or something that is no firmware.                *)
Blank  == [data |-> Mixed, len |-> 0]
Broken == [data |-> Mixed, len |-> 1]
FcContent == [data: Data \cup {Old, Mixed}, len: Nat]
Factory(b) == [mode |-> "app", board |-> b, flash |-> [data |-> Old, len |-> 0],
               erased |-> FALSE, bootable |-> TRUE]

Piece == [data: Data \cup {Mixed}, from: Nat, len: Nat]
Cmd == [op: {"sync", "rev", "board", "size", "erase", "crc", "boot", "reboot"}]
         \cup [op: {"program"}, piece: Piece]

Number(n) == [number |-> n]
CrcOf(c)  == [crc |-> c]
Ok   == <<"ok">>
Bad  == <<"bad">>
Junk == <<"junk">>
Halves(w) == << <<"lo", w>>, <<"hi", w>> >>
WordReply(w) == Append(Halves(w), Ok)

FlashInit ==
  /\ StoreInit
  /\ state = "idle" /\ pc = "idle" /\ waiting = FALSE
  /\ img = {} /\ boardId = <<>> /\ off = 0
  /\ dev = FALSE /\ rawMode = FALSE /\ stream = <<>> /\ token = FALSE
  /\ link = "closed"
  /\ fc \in { Factory(b) : b \in Boards }
  /\ fcIn = <<>> /\ wire = <<>>

-----------------------------------------------------------------------------
(* The flash task.                                                         *)

(* db_fc_flash_start: the web server refuses unless the slot holds a valid *)
(* image and no flash is running.  Creating the task may fail.             *)
StartFlash ==
  /\ http = Idle
  /\ ~busy
  /\ Present
  /\ state' = "idle"
  /\ \/ busy' = TRUE /\ pc' = "begin"
     \/ UNCHANGED <<busy, pc>>
  /\ UNCHANGED <<image, meta, http, waiting, img, boardId, off, usbVars, fcVars>>

Fail == state' = "failed" /\ pc' = "done"

(* get_image_info once more, then the board id: 0 means unknown.           *)
Begin ==
  /\ pc = "begin"
  /\ img' = ImageInfo
  /\ off' = 0
  /\ IF \E m \in ImageInfo : m.board # 0
       THEN state' = "waiting_for_fc" /\ pc' = "open"
       ELSE Fail
  /\ UNCHANGED <<storeVars, waiting, boardId, usbVars, fcVars>>

(* open_fc: polls for its timeout.                                         *)
OpenFc ==
  /\ pc \in {"open", "reopen"}
  /\ \/ /\ link = "closed" /\ fc.mode # "gone"
        /\ link' = "open" /\ dev' = TRUE
        /\ pc' = IF pc = "open" THEN "sync" ELSE "sync2"
        /\ UNCHANGED state
     \/ Fail /\ UNCHANGED <<dev, link>>
  /\ UNCHANGED <<storeVars, img, boardId, off, waiting, rawMode, stream, token, fcVars>>

(* Mutation: close_fc only forgets the handle.                             *)
CloseFcForgets == dev' = FALSE /\ rawMode' = FALSE /\ UNCHANGED link

(* close_fc.                                                               *)
CloseFc ==
  /\ dev' = FALSE
  /\ link' = IF dev THEN "closed" ELSE link
  /\ rawMode' = FALSE

(* Mutation: what came before is not flushed.                              *)
TransmitUnflushed(cmd) ==
  /\ ~waiting /\ dev
  /\ rawMode' = TRUE
  /\ link = "open" /\ Len(fcIn) < MaxPending
  /\ fcIn' = Append(fcIn, cmd)
  /\ waiting' = TRUE
  /\ UNCHANGED <<storeVars, taskVars, dev, token, link, fc, wire, stream>>

(* bl_cmd, first half: flush what came before, then transmit.              *)
Transmit(cmd) ==
  /\ ~waiting /\ dev
  /\ rawMode' = TRUE
  /\ stream' = <<>>
  /\ link = "open" /\ Len(fcIn) < MaxPending
  /\ fcIn' = Append(fcIn, cmd)
  /\ waiting' = TRUE
  /\ UNCHANGED <<storeVars, taskVars, dev, token, link, fc, wire>>

(* bl_cmd, second half: enough units have arrived ...                      *)
Collected(want) ==
  /\ waiting /\ Len(stream) >= want
  /\ waiting' = FALSE
  /\ stream' = SubSeq(stream, want + 1, Len(stream))
  /\ UNCHANGED <<rawMode, fcIn>>

(* Mutation: no deadline in the receive loop.                              *)
GaveUpNever(want) ==
  /\ ~waiting
  /\ IF dev THEN rawMode' = TRUE /\ stream' = <<>> ELSE UNCHANGED <<rawMode, stream>>
  /\ UNCHANGED <<waiting, fcIn>>

(* ... or it gives up: the handle is gone, the transmission failed, or the *)
(* deadline passed first.                                                  *)
GaveUp(want) ==
  /\ \/ ~waiting /\ ~dev /\ UNCHANGED <<rawMode, stream>>
     \/ ~waiting /\ dev /\ rawMode' = TRUE /\ stream' = <<>>
     \/ waiting /\ Len(stream) < want /\ UNCHANGED <<rawMode, stream>>
  /\ waiting' = FALSE
  /\ UNCHANGED fcIn

(* bl_ok and bl_get_u32 as outcomes of one command.                        *)
Acked   == Collected(1) /\ Head(stream) = Ok
Nacked  == GaveUp(1) \/ (Collected(1) /\ Head(stream) # Ok)
GotWord == Collected(3) /\ stream[3] = Ok
NoWord  == GaveUp(3) \/ (Collected(3) /\ stream[3] # Ok)

(* The word in g_reply.  Halves that do not belong together make a number  *)
(* that no check can expect.                                               *)
Reads  == <<stream[1], stream[2]>>
ReadsNumber == { n \in {BlRev} \cup Boards \cup { FlashSize[b] : b \in Boards } :
                   Reads = Halves(Number(n)) }

(* What collecting an answer leaves alone.                                 *)
SameStep == UNCHANGED <<storeVars, dev, token, link, fc, wire>>

(* bl_is_listening, twice: straight after opening, and after the reboot.   *)
AskSync == pc \in Sync /\ Transmit([op |-> "sync"])

SyncDone ==
  /\ pc \in Sync
  /\ \/ Acked /\ pc' = "rev" /\ UNCHANGED state
     \/ /\ Nacked
        /\ \/ pc = "sync" /\ pc' = "resync" /\ UNCHANGED state
           \/ pc = "resync" /\ pc' = "reboot" /\ state' = "rebooting"
           \/ pc = "sync2" /\ pc' = "resync2" /\ UNCHANGED state
           \/ pc = "resync2" /\ Fail
  /\ UNCHANGED <<img, boardId, off>> /\ SameStep

(* The application is running: send it the MAVLink reboot-to-bootloader.   *)
(* The result of the transmission is not looked at.                        *)
RequestReboot ==
  /\ pc = "reboot"
  /\ pc' = "await"
  /\ \/ dev /\ link = "open" /\ Len(fcIn) < MaxPending
        /\ fcIn' = Append(fcIn, [op |-> "reboot"])
     \/ UNCHANGED fcIn
  /\ UNCHANGED <<storeVars, state, img, boardId, off, waiting, usbVars, fc, wire>>

(* Take the disconnect token, or wait eight seconds for it; release the    *)
(* handle in either case.                                                  *)
AwaitReboot ==
  /\ pc = "await"
  /\ pc' = "reopen"
  /\ token' = FALSE
  /\ CloseFc
  /\ UNCHANGED <<storeVars, state, img, boardId, off, waiting, stream, fcVars>>

(* The bootloader revision is only reported; a failure to read it is       *)
(* ignored.                                                                *)
AskIdentity == pc \in {"rev", "board", "size"} /\ Transmit([op |-> pc])

RevDone ==
  /\ pc = "rev"
  /\ GotWord \/ NoWord
  /\ pc' = "board"
  /\ UNCHANGED <<state, img, boardId, off>> /\ SameStep

BoardDone ==
  /\ pc = "board"
  /\ \/ GotWord /\ pc' = "size" /\ boardId' = Reads /\ UNCHANGED state
     \/ NoWord /\ Fail /\ UNCHANGED boardId
  /\ UNCHANGED <<img, off>> /\ SameStep

(* Mutation: the board check is gone.                                      *)
SizeDoneAnyBoard ==
  /\ pc = "size"
  /\ \/ NoWord /\ Fail
     \/ /\ GotWord
        /\ IF \E m \in img : \A n \in ReadsNumber : n >= m.size
             THEN state' = "erasing" /\ pc' = "erase"
             ELSE Fail
  /\ UNCHANGED <<img, boardId, off>> /\ SameStep

(* The size read, then the two checks that guard the erase.                *)
SizeDone ==
  /\ pc = "size"
  /\ \/ NoWord /\ Fail
     \/ /\ GotWord
        /\ \E m \in img :
             \/ /\ boardId = Halves(Number(m.board))
                /\ \A n \in ReadsNumber : n >= m.size
                /\ state' = "erasing" /\ pc' = "erase"
             \/ /\ \/ boardId # Halves(Number(m.board))
                   \/ \A n \in ReadsNumber : n < m.size
                /\ Fail
  /\ UNCHANGED <<img, boardId, off>> /\ SameStep

AskErase == pc = "erase" /\ Transmit([op |-> "erase"])

EraseDone ==
  /\ pc = "erase"
  /\ \/ Acked /\ pc' = "image" /\ state' = "programming"
     \/ Nacked /\ Fail
  /\ UNCHANGED <<img, boardId, off>> /\ SameStep

(* The stored image is opened only now; by then it may be gone.            *)
OpenImage ==
  /\ pc = "image"
  /\ \/ image # {} /\ pc' = "program" /\ UNCHANGED state
     \/ Fail
  /\ UNCHANGED <<storeVars, img, boardId, off, waiting, usbVars, fcVars>>

(* Mutation: the last chunk is not clipped to what is left.                *)
ChunkUnclipped(m) == ProgChunk

(* PROG_MULTI with the next chunk of the open file.  The volume is mounted *)
(* without file locks: once the file has been deleted its clusters may be  *)
(* given to another, and reads may return anything.                        *)
Chunk(m) == IF m.size - off > ProgChunk THEN ProgChunk ELSE m.size - off

SendChunk ==
  /\ pc = "program"
  /\ \E m \in img :
       /\ off < m.size
       /\ \E d \in { f.data : f \in image } \cup (IF image = {} THEN {Mixed} ELSE {}) :
            Transmit([op |-> "program",
                      piece |-> [data |-> d, from |-> off, len |-> Chunk(m)]])

ChunkDone ==
  /\ pc = "program"
  /\ \E m \in img :
       /\ off < m.size
       /\ \/ Acked /\ off' = off + Chunk(m) /\ UNCHANGED <<pc, state>>
          \/ Nacked /\ Fail /\ UNCHANGED off
  /\ UNCHANGED <<img, boardId>> /\ SameStep

(* A read that comes back short ends the job too.                          *)
ReadFails ==
  /\ pc = "program" /\ ~waiting
  /\ image = {} /\ \E m \in img : off < m.size
  /\ Fail
  /\ UNCHANGED <<storeVars, img, boardId, off, waiting, usbVars, fcVars>>

Programmed ==
  /\ pc = "program" /\ ~waiting
  /\ \E m \in img : off >= m.size
  /\ state' = "verifying" /\ pc' = "crc"
  /\ UNCHANGED <<storeVars, img, boardId, off, waiting, usbVars, fcVars>>

(* GET_CRC is the one reply whose status is not looked at.                 *)
AskCrc == pc = "crc" /\ Transmit([op |-> "crc"])

(* Mutation: any CRC that arrives will do.                                 *)
CrcDoneUncompared ==
  /\ pc = "crc"
  /\ \/ GaveUp(3) /\ Fail
     \/ Collected(3) /\ pc' = "boot" /\ UNCHANGED state
  /\ UNCHANGED <<img, boardId, off>> /\ SameStep

CrcDone ==
  /\ pc = "crc"
  /\ \/ GaveUp(3) /\ Fail
     \/ /\ Collected(3)
        /\ \E m \in img :
             \/ Reads = Halves(CrcOf(m.crc)) /\ pc' = "boot" /\ UNCHANGED state
             \/ Reads # Halves(CrcOf(m.crc)) /\ Fail
  /\ UNCHANGED <<img, boardId, off>> /\ SameStep

(* BOOT, whose transmission result is ignored.                             *)
SendBoot ==
  /\ pc = "boot"
  /\ \/ dev /\ link = "open" /\ Len(fcIn) < MaxPending
        /\ fcIn' = Append(fcIn, [op |-> "boot"])
     \/ UNCHANGED fcIn
  /\ state' = "done" /\ pc' = "done"
  /\ UNCHANGED <<storeVars, img, boardId, off, waiting, usbVars, fc, wire>>

(* The common exit: release the handle, then the slot; the task and its    *)
(* locals are gone.  What is left in g_rx_stream is never read, since      *)
(* every command flushes it first: the model forgets it here.              *)
Finish ==
  /\ pc = "done"
  /\ CloseFc
  /\ stream' = <<>>
  /\ busy' = FALSE /\ pc' = "idle"
  /\ img' = {} /\ boardId' = <<>> /\ off' = 0
  /\ UNCHANGED <<image, meta, http, state, waiting, token, fcVars>>

TaskStep ==
  \/ Begin \/ OpenFc
  \/ AskSync \/ SyncDone \/ RequestReboot \/ AwaitReboot
  \/ AskIdentity \/ RevDone \/ BoardDone \/ SizeDone
  \/ AskErase \/ EraseDone \/ OpenImage
  \/ SendChunk \/ ChunkDone \/ ReadFails \/ Programmed
  \/ AskCrc \/ CrcDone \/ SendBoot \/ Finish

-----------------------------------------------------------------------------
(* The USB driver's callbacks.                                             *)

(* handle_rx: what arrives outside a conversation is dropped.              *)
Deliver ==
  /\ link = "open" /\ wire # <<>>
  /\ wire' = Tail(wire)
  /\ stream' = IF rawMode THEN Append(stream, Head(wire)) ELSE stream
  /\ UNCHANGED <<storeVars, taskVars, waiting, dev, rawMode, token, link, fc, fcIn>>

(* handle_event, CDC_ACM_HOST_DEVICE_DISCONNECTED.                         *)
UsbDisconnect ==
  /\ link = "lost"
  /\ link' = "closed"
  /\ dev' = FALSE
  /\ token' = TRUE
  /\ UNCHANGED <<storeVars, taskVars, waiting, rawMode, stream, fcVars>>

-----------------------------------------------------------------------------
(* The flight controller: external.                                        *)

Gone == [fc EXCEPT !.mode = "gone", !.erased = FALSE]
Vanish == /\ wire' = <<>>
          /\ link' = IF link = "open" THEN "lost" ELSE link

(* A program command extends what was programmed since the erase, or makes *)
(* something that is no firmware.                                          *)
Programs(flash, piece) ==
  IF piece.data # Mixed /\ piece.from = flash.len
     /\ (piece.from = 0 \/ piece.data = flash.data)
    THEN [data |-> piece.data, len |-> flash.len + piece.len]
    ELSE Broken

Refuse == wire' = Append(wire, Bad) /\ UNCHANGED fc

(* One command, in the bootloader.  It may refuse any; an erase or a       *)
(* program that fails half-way leaves no bootable application.             *)
BootloaderAnswers ==
  /\ fc.mode = "bl" /\ fcIn # <<>>
  /\ fcIn' = Tail(fcIn)
  /\ LET cmd == Head(fcIn) IN
     \/ /\ cmd.op = "sync"
        /\ wire' = Append(wire, Ok) \/ UNCHANGED wire      \* sometimes swallowed
        /\ UNCHANGED <<fc, link>>
     \/ /\ cmd.op \in {"rev", "board", "size", "crc"}
        /\ \/ wire' = wire \o WordReply(
                 CASE cmd.op = "rev"   -> Number(BlRev)
                   [] cmd.op = "board" -> Number(fc.board)
                   [] cmd.op = "size"  -> Number(FlashSize[fc.board])
                   [] cmd.op = "crc"   -> CrcOf(fc.flash))
           \/ wire' = Append(wire, Bad)
        /\ UNCHANGED <<fc, link>>
     \/ /\ cmd.op = "erase"
        /\ \/ /\ fc' = [fc EXCEPT !.flash = Blank,
                                  !.erased = TRUE, !.bootable = FALSE]
              /\ wire' = Append(wire, Ok)
           \/ /\ fc' = [fc EXCEPT !.flash = Broken,
                                  !.erased = FALSE, !.bootable = FALSE]
              /\ wire' = Append(wire, Bad)
           \/ Refuse
        /\ UNCHANGED link
     \/ /\ cmd.op = "program"
        /\ \/ /\ fc.erased
              /\ fc' = [fc EXCEPT !.flash = Programs(@, cmd.piece)]
              /\ wire' = Append(wire, Ok)
           \/ /\ fc.erased
              /\ fc' = [fc EXCEPT !.flash = Broken]
              /\ wire' = Append(wire, Bad)
           \/ Refuse
        /\ UNCHANGED link
     \/ /\ cmd.op = "boot"
        /\ \/ fc' = [Gone EXCEPT !.bootable = TRUE] /\ Vanish
           \/ Refuse /\ UNCHANGED link
     \/ cmd.op = "reboot" /\ UNCHANGED <<fc, wire, link>>
  /\ Len(wire') <= MaxWire
  /\ UNCHANGED <<storeVars, taskVars, waiting, dev, rawMode, stream, token>>

(* The application ignores all but the reboot request.                     *)
ApplicationAnswers ==
  /\ fc.mode = "app" /\ fcIn # <<>>
  /\ IF Head(fcIn).op = "reboot"
       THEN fc' = Gone /\ Vanish /\ fcIn' = <<>>
       ELSE fcIn' = Tail(fcIn) /\ UNCHANGED <<fc, wire, link>>
  /\ UNCHANGED <<storeVars, taskVars, waiting, dev, rawMode, stream, token>>

(* Its own MAVLink stream.                                                 *)
Chatter ==
  /\ fc.mode = "app" /\ link = "open"
  /\ wire = <<>> /\ stream = <<>>
  /\ wire' = <<Junk>>
  /\ UNCHANGED <<storeVars, taskVars, waiting, usbVars, fc, fcIn>>

(* It leaves the bus at any moment: unplugged, reset, or without power.    *)
FcVanishes ==
  /\ fc.mode # "gone"
  /\ fc' = Gone /\ Vanish /\ fcIn' = <<>>
  /\ UNCHANGED <<storeVars, taskVars, waiting, dev, rawMode, stream, token>>

(* It comes back, in its bootloader or, when it has one, its application;  *)
(* or it is another one.                                                   *)
FcReturns ==
  /\ fc.mode = "gone" /\ link # "open"
  /\ fcIn' = <<>>
  /\ fc' \in { [fc EXCEPT !.mode = "bl"] }
              \cup { Factory(b) : b \in Boards }
              \cup (IF fc.bootable THEN { [fc EXCEPT !.mode = "app"] } ELSE {})
  /\ UNCHANGED <<storeVars, taskVars, waiting, usbVars, wire>>

FcStep == BootloaderAnswers \/ ApplicationAnswers \/ Chatter \/ FcVanishes \/ FcReturns

-----------------------------------------------------------------------------
(* The companion loses power and starts again.                             *)
PowerCut ==
  /\ StoreAfterPowerCut
  /\ state' = "idle" /\ pc' = "idle" /\ waiting' = FALSE
  /\ img' = {} /\ boardId' = <<>> /\ off' = 0
  /\ dev' = FALSE /\ rawMode' = FALSE /\ stream' = <<>> /\ token' = FALSE
  /\ link' = "closed"
  /\ wire' = <<>>
  /\ UNCHANGED <<fc, fcIn>>

WebStep ==
  \/ StartFlash
  \/ HttpStep /\ UNCHANGED <<taskVars, waiting, usbVars, fcVars>>

FlashNext == WebStep \/ TaskStep \/ Deliver \/ UsbDisconnect \/ FcStep \/ PowerCut

FlashSpec == FlashInit /\ [][FlashNext]_flashVars

(* Every wait of the flash task has a deadline, so the task always gets to *)
(* take its next step; nothing is assumed of the flight controller.        *)
FlashFairSpec == FlashSpec /\ WF_flashVars(TaskStep)

-----------------------------------------------------------------------------
FlashTypeOK ==
  /\ StoreTypeOK
  /\ state \in State /\ pc \in Pc /\ waiting \in BOOLEAN
  /\ img \subseteq Sidecar
  /\ off \in Nat /\ \A m \in img : off <= m.size
  /\ dev \in BOOLEAN /\ rawMode \in BOOLEAN /\ token \in BOOLEAN
  /\ link \in {"closed", "open", "lost"}
  /\ fc \in [mode: {"gone", "app", "bl"}, board: Boards, flash: FcContent,
             erased: BOOLEAN, bootable: BOOLEAN]
  /\ fcIn \in Seq(Cmd) /\ Len(fcIn) <= MaxPending

(* A flight controller that would start its application holds the firmware *)
(* it came with, or a whole upload that was made for its board: whatever   *)
(* is lost, late, deleted, unplugged or swapped on the way (the board and  *)
(* CRC checks of flash_task).                                              *)
BootsOnlyVerified ==
  fc.bootable =>
    \/ fc.flash.data = Old
    \/ \E u \in Uploads : /\ fc.flash = [data |-> u.data, len |-> u.size]
                          /\ u.board = fc.board

(* The erase command goes out only to a flight controller of the board the *)
(* image was made for, with room for it: late or lost replies never make   *)
(* the checks pass on another's answers.                                   *)
EraseOnlyMatchingBoard ==
  [][ Len(fcIn') > Len(fcIn) /\ fcIn'[Len(fcIn')].op = "erase" =>
        \E m \in img : m.board = fc.board /\ m.size <= FlashSize[fc.board] ]_flashVars

(* The handle is never lost ("trap 3" of the code): the driver holds one   *)
(* open only while g_dev names it, and none between jobs, when raw mode is *)
(* off too, so the next job can open the device again.                     *)
NoLeakedHandle ==
  /\ link # "closed" <=> dev
  /\ ~busy => ~dev /\ ~rawMode /\ pc = "idle"

(* When the page reports "done" and the device is still there, it holds    *)
(* the stored image.                                                       *)
DoneMeansWritten ==
  [][ state' = "done" /\ state # "done" /\ link = "open" =>
        \E m \in img : fc.flash = m.crc ]_flashVars

(* A started job ends, whatever the flight controller does.                *)
JobEnds == busy ~> ~busy
=============================================================================
