---------------------------- MODULE FcImageStore ----------------------------
(***************************************************************************)
(* The single flight-controller firmware slot on the boat's log volume     *)
(* (db_fc_flash.c, "stored image I/O" and "upload", with the HTTP handlers *)
(* of http_server.c that drive them): the image file fcfw.bin and its      *)
(* sidecar fcfw.jsn.                                                       *)
(*                                                                         *)
(* The web server is one task, so one request is in progress at a time     *)
(* (variable http).  A power cut may fall between any two file operations, *)
(* and stdio buffers what has been written but not closed, so both a power *)
(* cut and a full volume can leave the file shorter than what was written. *)
(*                                                                         *)
(* A file's contents are a prefix of some upload: [data, len].  The CRC is *)
(* taken to be injective on contents.                                      *)
(***************************************************************************)
EXTENDS Naturals

CONSTANTS
  Data,        \* identities of the firmware bodies the browser may send
  Torn,        \* a sidecar cut short by a full volume: it does not parse
  Uploads,     \* uploads the browser may send: [data, size, board]
  Block,       \* granularity of the model: bytes received, and lost, at a time
  Align,       \* word size the bootloader needs (4 in the code)
  MaxImage     \* DB_FC_FLASH_MAX_IMAGE_BYTES

Content == [data: Data, len: Nat]
Sidecar == [board: Nat, size: Nat, crc: Content]

ASSUME StoreAssumption ==
  /\ Block \in Nat \ {0}
  /\ Align \in Nat \ {0}
  /\ MaxImage \in Nat
  /\ Torn \notin Sidecar
  /\ Uploads \subseteq [data: Data, size: Nat, board: Nat]
  \* a firmware body has one size; the bytes do not depend on the board id
  \* that the page attaches to them
  /\ \A u, v \in Uploads : u.data = v.data => u.size = v.size

VARIABLES
  image,   \* DB_FC_FLASH_IMAGE_PATH: a set with at most one [data, len]
  meta,    \* DB_FC_FLASH_META_PATH: a set with at most one sidecar
  http,    \* the request in progress: its phase, upload and bytes received
  busy     \* g_busy: the flash task owns the slot

storeVars == <<image, meta, http, busy>>

Lengths(n) == { k \in 0 .. n : k % Block = 0 }

Phase == {"idle", "clearing", "receiving", "closed"}
Idle == [phase |-> "idle", up |-> {}, bytes |-> 0]

StoreTypeOK ==
  /\ image \subseteq Content /\ \A f, g \in image : f = g /\ f.len <= MaxImage
  /\ meta \subseteq Sidecar \cup {Torn} /\ \A m, n \in meta : m = n
  /\ http \in [phase: Phase, up: SUBSET Uploads, bytes: Nat]
  /\ busy \in BOOLEAN

StoreInit ==
  /\ image = {}
  /\ meta = {}
  /\ http = Idle
  /\ busy = FALSE

(* ap_crc32 over the file, padded with 0xFF to the application region.     *)
Crc(content) == content

(* db_fc_flash_get_image_info: the sidecar parses and agrees with the size *)
(* of the image file.                                                      *)
ImageInfo == { m \in meta \ {Torn} : \E f \in image : f.len = m.size }
Present == ImageInfo # {}

-----------------------------------------------------------------------------
(* Mutation: uploads are accepted while the flash task runs.               *)
UploadBeginAnytime(u) ==
  /\ http = Idle
  /\ u.board # 0
  /\ image' = {}
  /\ http' = [phase |-> "clearing", up |-> {u}, bytes |-> 0]
  /\ UNCHANGED <<meta, busy>>

(* db_fc_flash_upload_begin starts with upload_abort: the old image goes   *)
(* first, its sidecar second.  Refused while a flash is running, and the   *)
(* handler refuses an upload without a board id.                           *)
UploadBegin(u) ==
  /\ http = Idle
  /\ ~busy
  /\ u.board # 0
  /\ image' = {}
  /\ http' = [phase |-> "clearing", up |-> {u}, bytes |-> 0]
  /\ UNCHANGED <<meta, busy>>

(* Mutation: the old sidecar stays until the new one is written.           *)
UploadOpenKeepsSidecar ==
  /\ http.phase = "clearing"
  /\ \E u \in http.up : image' = {[data |-> u.data, len |-> 0]}
  /\ http' = [http EXCEPT !.phase = "receiving"]
  /\ UNCHANGED <<meta, busy>>

(* ... then the sidecar is removed and the new file is created, unless     *)
(* fopen fails.                                                            *)
UploadOpen ==
  /\ http.phase = "clearing"
  /\ \E u \in http.up :
       \/ /\ image' = {[data |-> u.data, len |-> 0]}
          /\ http' = [http EXCEPT !.phase = "receiving"]
       \/ /\ image' = {}
          /\ http' = Idle
  /\ meta' = {}
  /\ UNCHANGED busy

(* db_fc_flash_upload_abort and db_fc_flash_delete_image: the image file   *)
(* is removed here, the sidecar in ClearMeta.                              *)
ClearImage ==
  /\ image' = {}
  /\ http' = [phase |-> "clearing", up |-> {}, bytes |-> 0]

ClearMeta ==
  /\ http.phase = "clearing"
  /\ http.up = {}
  /\ meta' = {}
  /\ http' = Idle
  /\ UNCHANGED <<image, busy>>

(* Mutation: no limit on the size.                                         *)
UploadWriteUnlimited(n) ==
  /\ http.phase = "receiving"
  /\ \E u \in http.up :
       /\ http.bytes + n <= u.size
       /\ image' = {[data |-> u.data, len |-> http.bytes + n]}
  /\ http' = [http EXCEPT !.bytes = @ + n]
  /\ UNCHANGED <<meta, busy>>

(* db_fc_flash_upload_write appends n received bytes.  An image larger     *)
(* than the application region, a failed write, and a connection that      *)
(* drops in the middle of the body all abort the upload.                   *)
UploadWrite(n) ==
  /\ http.phase = "receiving"
  /\ \E u \in http.up :
       /\ http.bytes + n <= u.size
       /\ \/ /\ http.bytes + n <= MaxImage
             /\ image' = {[data |-> u.data, len |-> http.bytes + n]}
             /\ http' = [http EXCEPT !.bytes = @ + n]
          \/ ClearImage
  /\ UNCHANGED <<meta, busy>>

UploadInterrupted ==
  /\ http.phase = "receiving"
  /\ \E u \in http.up : http.bytes < u.size
  /\ ClearImage
  /\ UNCHANGED <<meta, busy>>

(* db_fc_flash_upload_finish, first half: fclose, whose result is not      *)
(* looked at, so a full volume may cut the tail off the stored file; then  *)
(* an empty or unaligned image is dropped.                                 *)
UploadClose ==
  /\ http.phase = "receiving"
  /\ \E u \in http.up : http.bytes = u.size
  /\ IF http.bytes = 0 \/ http.bytes % Align # 0
       THEN ClearImage
       ELSE /\ \E f \in image : \E kept \in Lengths(f.len) :
                 image' = {[f EXCEPT !.len = kept]}
            /\ http' = [http EXCEPT !.phase = "closed"]
  /\ UNCHANGED <<meta, busy>>

(* Second half: the CRC of what landed on the volume, then the sidecar.    *)
(* Its fputs and fclose are not checked either.  A failure to reopen the   *)
(* image or to get memory leaves it without a sidecar; a sidecar that      *)
(* cannot be created drops the image.                                      *)
UploadSeal ==
  /\ http.phase = "closed"
  /\ \E u \in http.up, f \in image :
       \/ /\ meta' \in { {[board |-> u.board, size |-> http.bytes, crc |-> Crc(f)]},
                         {Torn} }
          /\ http' = Idle
          /\ UNCHANGED image
       \/ /\ http' = Idle
          /\ UNCHANGED <<image, meta>>
       \/ /\ ClearImage
          /\ UNCHANGED meta
  /\ UNCHANGED busy

(* DELETE /api/fcflash/image.  There is no test of g_busy here.            *)
DeleteImage ==
  /\ http = Idle
  /\ ClearImage
  /\ UNCHANGED <<meta, busy>>

(* The companion loses power.  What was written to an open file but not    *)
(* closed may be lost, in part or whole.                                   *)
StoreAfterPowerCut ==
  /\ IF http.phase = "receiving"
       THEN image' \in { {[f EXCEPT !.len = kept] : f \in image} : kept \in Lengths(http.bytes) }
       ELSE UNCHANGED image
  /\ http' = Idle
  /\ busy' = FALSE
  /\ UNCHANGED meta

HttpStep ==
  \/ \E u \in Uploads : UploadBegin(u)
  \/ UploadOpen
  \/ \E u \in http.up : \E n \in Lengths(u.size) \ {0} : UploadWrite(n)
  \/ UploadInterrupted
  \/ UploadClose
  \/ UploadSeal
  \/ ClearMeta
  \/ DeleteImage

StoreNext == HttpStep \/ StoreAfterPowerCut

StoreSpec == StoreInit /\ [][StoreNext]_storeVars

-----------------------------------------------------------------------------
(* What get_image_info accepts is an upload that arrived whole, with the   *)
(* board id that came with it and the CRC of the bytes on the volume: no   *)
(* dropped connection, full volume, deletion or power cut, at any point,   *)
(* makes a partial image or another image's sidecar acceptable.            *)
PresentIsWhole ==
  \A m \in ImageInfo : \A f \in image :
    /\ m.crc = Crc(f)
    /\ \E u \in Uploads : f = [data |-> u.data, len |-> u.size] /\ m.board = u.board

(* While the flash task runs, the image file may be deleted but is never   *)
(* rewritten (g_busy in upload_begin).                                     *)
NoRewriteWhileBusy ==
  [][busy /\ busy' => image' \subseteq image /\ meta' \subseteq meta]_storeVars
=============================================================================
