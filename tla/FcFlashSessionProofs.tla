------------------------ MODULE FcFlashSessionProofs -------------------------
(***************************************************************************)
(* Proofs about the conversation of a flash job with the bootloader: what  *)
(* is erased, what is verified and what is booted, for every set of        *)
(* uploads and boards, any chunk size and any behaviour of the flight      *)
(* controller.                                                             *)
(*                                                                         *)
(* An answer that comes after its time-out is taken for the answer to a    *)
(* later question (bl_cmd has no way to tell).  What saves the protocol    *)
(* is counting: a conversation takes a known number of units               *)
(* before each question that matters, so a late answer is used up before   *)
(* it could do harm, as long as no more than that is late.  The theorems   *)
(* that depend on it say how much that is.                                 *)
(***************************************************************************)
EXTENDS FcFlashProofs, SequenceTheorems

(* How much may be late: the reply units that can still be waiting when a  *)
(* command goes out, and what the commands queued before it may be         *)
(* answered with.                                                          *)
Late == MaxWire + 3 * (MaxPending - 1)

(* The numbers a board's bootloader has to say: its revision, the board's  *)
(* id and the size of its flash.                                           *)
Numbers(f) == {BlRev, f.board, FlashSize[f.board]}
(* What can be on the line, whoever says it, and what one flight           *)
(* controller can say of itself.                                           *)
Unit == {Ok, Bad, Junk} \cup ({"lo", "hi"} \X ([number: Nat] \cup [crc: FcContent]))

(* What a flight controller can say of itself.                             *)
Says(f) ==
  IF f.mode = "bl"
    THEN {Ok, Bad} \cup ({"lo", "hi"} \X ([number: Numbers(f)] \cup [crc: FcContent]))
    ELSE {Junk}

CrcUnits == {"lo", "hi"} \X [crc: FcContent]
Lo(n)    == <<"lo", Number(n)>>

(* The units in S are at most Late behind: s is what the companion has     *)
(* received, w is on the wire, q the commands still to be answered, of     *)
(* which only those of kind op are answered with a unit in S, at least     *)
(* `last' units from the end of that answer; t units have been taken since *)
(* the conversation began.                                                 *)
Behind(S, op, last, t, s, w, q) ==
  /\ \A i \in DOMAIN s : s[i] \in S => i + last + t <= Late
  /\ \A i \in DOMAIN w : w[i] \in S => Len(s) + i + last + t <= Late
  /\ \A i \in DOMAIN q : q[i].op = op => Len(s) + Len(w) + 3 * i + t <= Late

LEMMA LateNat == Late \in Nat
  BY FlashAssumption DEF Late

(* Words and units tell what they are made of apart.                       *)
LEMMA WordsDiffer ==
  /\ \A n, k : Number(n) = Number(k) => n = k
  /\ \A c, d : CrcOf(c) = CrcOf(d) => c = d
  /\ \A n, c : Number(n) # CrcOf(c)
  /\ \A n : Number(n) \notin [crc: FcContent]
  /\ \A c, S : CrcOf(c) \notin [number: S]
<1>1. \A n, k : Number(n) = Number(k) => n = k
  <2> TAKE n, k
  <2>1. Number(n).number = n /\ Number(k).number = k  BY DEF Number
  <2> QED  BY <2>1
<1>2. \A c, d : CrcOf(c) = CrcOf(d) => c = d
  <2> TAKE c, d
  <2>1. CrcOf(c).crc = c /\ CrcOf(d).crc = d  BY DEF CrcOf
  <2> QED  BY <2>1
<1>3. \A n, c : Number(n) # CrcOf(c)
  BY DEF Number, CrcOf
<1>4. \A n : Number(n) \notin [crc: FcContent]
  BY DEF Number
<1>5. \A c, S : CrcOf(c) \notin [number: S]
  BY DEF CrcOf
<1> QED  BY <1>1, <1>2, <1>3, <1>4, <1>5

LEMMA UnitsDiffer ==
  /\ Ok # Bad /\ Ok # Junk /\ Bad # Junk
  /\ \A W : {Ok, Bad, Junk} \cap ({"lo", "hi"} \X W) = {}
  /\ \A w, v : <<"lo", w>> # <<"hi", v>>
  /\ \A h, w, v : <<h, w>> = <<h, v>> => w = v
<1>1. Ok[1] = "ok" /\ Bad[1] = "bad" /\ Junk[1] = "junk"
  BY DEF Ok, Bad, Junk
<1>2. \A W : \A x \in {"lo", "hi"} \X W : x[1] \in {"lo", "hi"}
  OBVIOUS
<1>3. \A W : {Ok, Bad, Junk} \cap ({"lo", "hi"} \X W) = {}
  BY <1>1, <1>2
<1> QED  BY <1>1, <1>3

LEMMA SaysUnit == ASSUME NEW f, f.board \in Boards PROVE Says(f) \subseteq Unit
<1>1. Numbers(f) \subseteq Nat
  BY FlashAssumption DEF Numbers
<1>2. [number: Numbers(f)] \subseteq [number: Nat]
  BY <1>1
<1>3. {"lo", "hi"} \X ([number: Numbers(f)] \cup [crc: FcContent])
        \subseteq {"lo", "hi"} \X ([number: Nat] \cup [crc: FcContent])
  BY <1>2
<1> QED  BY <1>3 DEF Says, Unit

(* Behind is kept by each thing that can happen to the line: a unit        *)
(* arrives, an answer is taken, what was received is flushed, another      *)
(* command goes out, the flight controller answers one.                    *)
LEMMA BehindDeliver ==
  ASSUME NEW S, NEW op, NEW last \in Nat, NEW t \in Nat,
         NEW s \in Seq(Unit), NEW w \in Seq(Unit), NEW q \in Seq(Cmd),
         w # <<>>, Behind(S, op, last, t, s, w, q)
  PROVE  Behind(S, op, last, t, Append(s, Head(w)), Tail(w), q)
<1> DEFINE s2 == Append(s, Head(w))
           w2 == Tail(w)
<1>1. /\ Len(s2) = Len(s) + 1 /\ Len(w2) = Len(w) - 1
      /\ \A i \in DOMAIN s2 : IF i = Len(s) + 1 THEN s2[i] = w[1] ELSE i \in DOMAIN s /\ s2[i] = s[i]
      /\ \A i \in DOMAIN w2 : i + 1 \in DOMAIN w /\ w2[i] = w[i + 1]
      /\ 1 \in DOMAIN w
  OBVIOUS
<1>2. s2 \in Seq(Unit) /\ w2 \in Seq(Unit)
  OBVIOUS
<1> HIDE DEF s2, w2
<1>3. \A i \in DOMAIN s2 : s2[i] \in S => i + last + t <= Late
  BY <1>1, <1>2, LateNat DEF Behind
<1>4. \A i \in DOMAIN w2 : w2[i] \in S => Len(s2) + i + last + t <= Late
  <2> TAKE i \in DOMAIN w2
  <2>1. i + 1 \in DOMAIN w /\ w2[i] = w[i + 1] /\ i \in Nat
    BY <1>1, <1>2
  <2>2. w[i + 1] \in S => Len(s) + (i + 1) + last + t <= Late
    BY <2>1 DEF Behind
  <2> QED  BY <1>1, <2>1, <2>2, LateNat
<1>5. \A i \in DOMAIN q : q[i].op = op => Len(s2) + Len(w2) + 3 * i + t <= Late
  BY <1>1, <1>2, LateNat DEF Behind
<1> QED  BY <1>3, <1>4, <1>5 DEF Behind, s2, w2

LEMMA BehindTaken ==
  ASSUME NEW S, NEW op, NEW last \in Nat, NEW t \in Nat, NEW n \in Nat,
         NEW s \in Seq(Unit), NEW w \in Seq(Unit), NEW q \in Seq(Cmd),
         n <= Len(s), Behind(S, op, last, t, s, w, q)
  PROVE  Behind(S, op, last, t + n, SubSeq(s, n + 1, Len(s)), w, q)
<1> DEFINE s2 == SubSeq(s, n + 1, Len(s))
<1>1. /\ Len(s2) = Len(s) - n /\ s2 \in Seq(Unit)
      /\ \A i \in DOMAIN s2 : i + n \in DOMAIN s /\ s2[i] = s[i + n]
  OBVIOUS
<1> HIDE DEF s2
<1>2. \A i \in DOMAIN s2 : s2[i] \in S => i + last + (t + n) <= Late
  <2> TAKE i \in DOMAIN s2
  <2>1. i + n \in DOMAIN s /\ s2[i] = s[i + n] /\ i \in Nat
    BY <1>1
  <2>2. s[i + n] \in S => (i + n) + last + t <= Late
    BY <2>1 DEF Behind
  <2> QED  BY <2>1, <2>2, LateNat
<1>3. \A i \in DOMAIN w : w[i] \in S => Len(s2) + i + last + (t + n) <= Late
  <2> TAKE i \in DOMAIN w
  <2>1. w[i] \in S => Len(s) + i + last + t <= Late
    BY DEF Behind
  <2> QED  BY <1>1, <2>1, LateNat
<1>4. \A i \in DOMAIN q : q[i].op = op => Len(s2) + Len(w) + 3 * i + (t + n) <= Late
  <2> TAKE i \in DOMAIN q
  <2>1. q[i].op = op => Len(s) + Len(w) + 3 * i + t <= Late
    BY DEF Behind
  <2> QED  BY <1>1, <2>1, LateNat
<1> QED  BY <1>2, <1>3, <1>4 DEF Behind, s2

LEMMA BehindFlushed ==
  ASSUME NEW S, NEW op, NEW last \in Nat, NEW t \in Nat,
         NEW s \in Seq(Unit), NEW w \in Seq(Unit), NEW q \in Seq(Cmd),
         Behind(S, op, last, t, s, w, q)
  PROVE  Behind(S, op, last, t, <<>>, w, q)
<1>1. \A i \in DOMAIN w : w[i] \in S => Len(<<>>) + i + last + t <= Late
  <2> TAKE i \in DOMAIN w
  <2>1. w[i] \in S => Len(s) + i + last + t <= Late
    BY DEF Behind
  <2> QED  BY <2>1, LateNat
<1>2. \A i \in DOMAIN q : q[i].op = op => Len(<<>>) + Len(w) + 3 * i + t <= Late
  <2> TAKE i \in DOMAIN q
  <2>1. q[i].op = op => Len(s) + Len(w) + 3 * i + t <= Late
    BY DEF Behind
  <2> QED  BY <2>1, LateNat
<1> QED  BY <1>1, <1>2 DEF Behind

LEMMA BehindAsked ==
  ASSUME NEW S, NEW op, NEW last \in Nat, NEW t \in Nat,
         NEW s \in Seq(Unit), NEW w \in Seq(Unit), NEW q \in Seq(Cmd),
         NEW c \in Cmd, c.op # op, Behind(S, op, last, t, s, w, q)
  PROVE  Behind(S, op, last, t, s, w, Append(q, c))
  BY LateNat DEF Behind

LEMMA BehindAnswered ==
  ASSUME NEW S, NEW op, NEW last \in Nat, NEW t \in Nat,
         NEW s \in Seq(Unit), NEW w \in Seq(Unit), NEW q \in Seq(Cmd),
         NEW r \in Seq(Unit), Len(r) <= 3, q # <<>>,
         \A i \in DOMAIN r : r[i] \in S => Head(q).op = op /\ i + last <= 3,
         Behind(S, op, last, t, s, w, q)
  PROVE  Behind(S, op, last, t, s, w \o r, Tail(q))
<1> DEFINE w2 == w \o r
           q2 == Tail(q)
<1>1. /\ Len(w2) = Len(w) + Len(r) /\ w2 \in Seq(Unit)
      /\ \A i \in DOMAIN w2 : \/ i \in DOMAIN w /\ w2[i] = w[i]
                              \/ i - Len(w) \in DOMAIN r /\ w2[i] = r[i - Len(w)]
  OBVIOUS
<1>5. Len(s) \in Nat /\ Len(w) \in Nat /\ Len(r) \in Nat /\ Len(r) <= 3
  OBVIOUS
<1>6. DOMAIN w2 \subseteq Nat
  BY <1>1
<1>2. /\ q2 \in Seq(Cmd) /\ \A i \in DOMAIN q2 : i + 1 \in DOMAIN q /\ q2[i] = q[i + 1]
      /\ 1 \in DOMAIN q /\ Head(q) = q[1]
  OBVIOUS
<1> HIDE DEF w2, q2
<1>3. \A i \in DOMAIN w2 : w2[i] \in S => Len(s) + i + last + t <= Late
  <2> TAKE i \in DOMAIN w2
  <2>1. CASE i \in DOMAIN w /\ w2[i] = w[i]
    BY <2>1 DEF Behind
  <2>2. CASE i - Len(w) \in DOMAIN r /\ w2[i] = r[i - Len(w)]
    <3> HAVE w2[i] \in S
    <3>1. Head(q).op = op /\ (i - Len(w)) + last <= 3
      BY <2>2
    <3>2. Len(s) + Len(w) + 3 * 1 + t <= Late
      BY <3>1, <1>2 DEF Behind
    <3>3. i \in Nat  BY <1>6
    <3> QED  BY <1>5, <3>1, <3>2, <3>3, LateNat
  <2> QED  BY <1>1, <2>1, <2>2
<1>4. \A i \in DOMAIN q2 : q2[i].op = op => Len(s) + Len(w2) + 3 * i + t <= Late
  <2> TAKE i \in DOMAIN q2
  <2>1. i + 1 \in DOMAIN q /\ q2[i] = q[i + 1] /\ i \in Nat
    BY <1>2
  <2> HAVE q2[i].op = op
  <2>2. Len(s) + Len(w) + 3 * (i + 1) + t <= Late
    BY <2>1 DEF Behind
  <2>3. Len(w2) <= Len(w) + 3 /\ Len(w2) \in Nat
    BY <1>1, <1>5
  <2>4. 3 * (i + 1) = 3 * i + 3 /\ 3 * i \in Nat
    BY <2>1
  <2> QED  BY <1>5, <2>2, <2>3, <2>4, LateNat
<1> QED  BY <1>3, <1>4 DEF Behind, w2, q2

-----------------------------------------------------------------------------
(* The conversation, whatever is late.                                     *)

(* The places of the task that wait for an answer, and those of a          *)
(* conversation with a bootloader that has answered.                       *)
Asking == Sync \cup {"rev", "board", "size", "erase", "program", "crc"}
InSession == {"rev", "board", "size", "erase", "image", "program", "crc"}

(* The flash holds a whole upload for the board it is on.                  *)
Whole(f) == \E u \in Uploads : /\ f.flash = [data |-> u.data, len |-> u.size]
                               /\ u.board = f.board

(* The task waits only where it has asked, talks only with the port in raw *)
(* mode, and counts what it has sent only while it programs.               *)
TalkInv ==
  /\ waiting => pc \in Asking
  /\ waiting \/ pc \in InSession \cup {"boot"} => rawMode
  /\ pc \notin {"program", "crc", "boot", "done"} => off = 0

(* The flight controller says only what it can say of itself, and whole    *)
(* words; a controller that is gone says nothing.                          *)
WireInv ==
  /\ stream \in Seq(Unit) /\ wire \in Seq(Unit) /\ Len(wire) <= MaxWire
  /\ fc.mode = "gone" => wire = <<>> /\ link # "open"
  /\ \A i \in DOMAIN wire : wire[i] \in Says(fc)
  /\ \A i \in DOMAIN wire : wire[i][1] = "lo" => i + 2 <= Len(wire)
  /\ waiting /\ link = "open" => \A i \in DOMAIN stream : stream[i] \in Says(fc)

(* The image that is flashed is a whole upload, with its own board id.     *)
ImgInv == \A m \in img : \E u \in Uploads :
   m = [board |-> u.board, size |-> u.size, crc |-> [data |-> u.data, len |-> u.size]]

(* In a conversation the flight controller is in its bootloader, the board *)
(* id that was read is one it can say, and from the erase on it is the     *)
(* board the image is made for.                                            *)
OwnInv ==
  link = "open" =>
    /\ pc \in InSession \cup {"boot"} => fc.mode = "bl"
    /\ pc = "size" => boardId[1] \in Says(fc)
    /\ pc \in {"erase", "image", "program", "crc", "boot"} => \E m \in img : m.board = fc.board

LinkInv == TalkInv /\ WireInv /\ ImgInv /\ OwnInv

LEMMA LinkInitInv == FlashInit => LinkInv
  BY FlashAssumption DEF FlashInit, LinkInv, TalkInv, WireInv, ImgInv, OwnInv, Factory, Sync, InSession, Asking

(* What a step does to the conversation, beyond TakesStep and AsksStep.    *)

LEMMA TalkStepInv ==
  ASSUME FlashInv, TalkInv, [FlashNext]_flashVars
  PROVE  TalkInv'
<1> USE DEF TalkInv
<1>1. CASE Takes
  <2>1. pc \in Asking /\ waiting' = FALSE /\ rawMode' \in {rawMode, TRUE}
    BY <1>1, TakesStep DEF Takes, SyncDone, RevDone, BoardDone, SizeDone, EraseDone, ChunkDone, CrcDone, Asking
  <2>2. pc' \in InSession \cup {"boot"} => rawMode'
    <3>1. CASE SyncDone /\ pc' \in InSession \cup {"boot"}
      <4>1. Acked
        BY <3>1 DEF SyncDone, Fail, InSession
      <4> QED  BY <4>1, <2>1 DEF Acked, Collected
    <3>2. CASE ~SyncDone
      <4>1. pc \in InSession
        BY <1>1, <3>2 DEF Takes, RevDone, BoardDone, SizeDone, EraseDone, ChunkDone, CrcDone, InSession
      <4>2. rawMode = TRUE
        BY <4>1 DEF FlashInv, HandleInv
      <4> QED  BY <2>1, <4>2
    <3> QED  BY <3>1, <3>2
  <2>3. pc' \notin {"program", "crc", "boot", "done"} => off' = 0
    BY <1>1 DEF Takes, SyncDone, RevDone, BoardDone, SizeDone, EraseDone, ChunkDone, CrcDone, Sync, Fail
  <2> QED  BY <2>1, <2>2, <2>3
<1>2. CASE Asks
  <2>1. pc \in Asking
    BY <1>2 DEF Asks, AskSync, AskIdentity, AskErase, SendChunk, AskCrc, Asking
  <2> QED  BY <1>2, <2>1, AsksStep DEF taskVars
<1>3. CASE Moves
  BY <1>3 DEF Moves, OpenImage, ReadFails, Programmed, usbVars, Fail, Asking, Sync, InSession
<1>4. CASE Tells
  BY <1>4 DEF Tells, RequestReboot, SendBoot, usbVars, Asking, Sync, InSession
<1>5. CASE Begin \/ OpenFc
  BY <1>5 DEF Begin, OpenFc, usbVars, Fail, Asking, Sync, InSession
<1>6. CASE AwaitReboot \/ Finish
  BY <1>6 DEF AwaitReboot, Finish, CloseFc, Asking, Sync, InSession
<1>7. CASE StartFlash \/ PowerCut
  <2>1. ~waiting' /\ pc' \in {"idle", "begin"} /\ off' = 0
    <3>1. CASE StartFlash
      <4>1. pc = "idle" /\ ~busy
        BY <3>1 DEF StartFlash, FlashInv, SlotInv
      <4> QED  BY <3>1, <4>1 DEF StartFlash, Asking, Sync, FlashInv, TaskInv
    <3>2. CASE PowerCut  BY <3>2 DEF PowerCut
    <3> QED  BY <1>7, <3>1, <3>2
  <2> QED  BY <2>1 DEF InSession
<1>8. CASE HttpStep /\ UNCHANGED <<taskVars, waiting, usbVars, fcVars>>
  BY <1>8 DEF taskVars, usbVars
<1>9. CASE Deliver \/ UsbDisconnect
  BY <1>9 DEF Deliver, UsbDisconnect, taskVars
<1>10. CASE FcStep
  BY <1>10, FcStepFrame DEF taskVars
<1>11. CASE UNCHANGED flashVars
  BY <1>11 DEF flashVars, taskVars, usbVars
<1> QED
  BY <1>1, <1>2, <1>3, <1>4, <1>5, <1>6, <1>7, <1>8, <1>9, <1>10, <1>11
  DEF FlashNext, WebStep, TaskStep, Takes, Asks, Moves, Tells

(* The word a bootloader answers a question with; and all it may answer.   *)
Word(f, op) == CASE op = "rev"   -> Number(BlRev)
                 [] op = "board" -> Number(f.board)
                 [] op = "size"  -> Number(FlashSize[f.board])
                 [] op = "crc"   -> CrcOf(f.flash)

Reply(f, op, r) ==
  \/ r \in {<<>>, <<Ok>>, <<Bad>>}
  \/ op \in {"rev", "board", "size", "crc"} /\ r = WordReply(Word(f, op))

LEMMA WordReplyIs == ASSUME NEW w PROVE WordReply(w) = << <<"lo", w>>, <<"hi", w>>, Ok >>
<1>1. ASSUME NEW a, NEW b, NEW c PROVE Append(<<a, b>>, c) = <<a, b, c>>
  <2> DEFINE S == {a, b, c}
             t == Append(<<a, b>>, c)
  <2>1. <<a, b>> \in Seq(S) /\ c \in S /\ <<a, b, c>> \in Seq(S) /\ Len(<<a, b>>) = 2
    OBVIOUS
  <2>2. t \in Seq(S) /\ Len(t) = 3
    BY <2>1
  <2>3. t[1] = a /\ t[2] = b /\ t[3] = c
    BY <2>1
  <2>4. DOMAIN t = 1 .. 3
    BY <2>2
  <2>5. t = [i \in 1 .. 3 |-> t[i]]
    BY <2>2, <2>4
  <2>6. <<a, b, c>> = [i \in 1 .. 3 |-> <<a, b, c>>[i]]
    OBVIOUS
  <2> HIDE DEF t
  <2>7. \A i \in 1 .. 3 : t[i] = <<a, b, c>>[i]
    BY <2>3
  <2> QED  BY <2>5, <2>6, <2>7 DEF t
<1> QED  BY <1>1 DEF WordReply, Halves

(* What an answer is made of: at most three units of the controller's own, *)
(* a word whole, a CRC only to a question for it and of what the flash     *)
(* holds, a number only to a question for that number.                     *)
LEMMA ReplyFacts ==
  ASSUME NEW f, f.mode = "bl", f.board \in Boards, f.flash \in FcContent,
         NEW op, NEW r, Reply(f, op, r)
  PROVE  /\ r \in Seq(Unit) /\ Len(r) <= 3
         /\ \A i \in DOMAIN r : r[i] \in Says(f)
         /\ \A i \in DOMAIN r : r[i][1] = "lo" => i = 1 /\ Len(r) = 3
         /\ \A i \in DOMAIN r : r[i] \in CrcUnits => op = "crc" /\ r[i][2] = CrcOf(f.flash)
         /\ \A i \in DOMAIN r : \A n : r[i] = Lo(n) =>
              /\ op \in {"rev", "board", "size"}
              /\ i = 1 /\ Len(r) = 3 /\ Number(n) = Word(f, op)
<1> DEFINE w == Word(f, op)
<1>1. Says(f) = {Ok, Bad} \cup ({"lo", "hi"} \X ([number: Numbers(f)] \cup [crc: FcContent]))
  BY DEF Says
<1>2. Ok[1] = "ok" /\ Bad[1] = "bad"
  BY DEF Ok, Bad
<1>3. \A x \in CrcUnits : x[1] \in {"lo", "hi"} /\ x[2] \in [crc: FcContent]
  BY DEF CrcUnits
<1>4. CASE r \in {<<>>, <<Ok>>, <<Bad>>}
  <2>1. Ok \in Unit /\ Bad \in Unit /\ Ok \in Says(f) /\ Bad \in Says(f)
    BY <1>1 DEF Unit
  <2>2. r \in Seq(Unit) /\ Len(r) <= 3 /\ \A i \in DOMAIN r : r[i] \in {Ok, Bad}
    <3>1. CASE r = <<>>  BY <3>1
    <3>2. CASE r = <<Ok>>  BY <2>1, <3>2
    <3>3. CASE r = <<Bad>>  BY <2>1, <3>3
    <3> QED  BY <1>4, <3>1, <3>2, <3>3
  <2>3. \A i \in DOMAIN r : r[i] \in Says(f) /\ r[i][1] \notin {"lo", "hi"}
    BY <1>2, <2>1, <2>2
  <2> QED  BY <1>3, <2>2, <2>3 DEF Lo
<1>5. CASE op \in {"rev", "board", "size", "crc"} /\ r = WordReply(w)
  <2>1. r = << <<"lo", w>>, <<"hi", w>>, Ok >>
    BY <1>5, WordReplyIs
  <2>2. op = "crc" => w = CrcOf(f.flash) /\ w \in [crc: FcContent]
    BY DEF Word, CrcOf
  <2>3. op # "crc" => w \in [number: Numbers(f)] /\ w \notin [crc: FcContent]
    BY <1>5 DEF Word, Number, Numbers
  <2>4. w \in [number: Numbers(f)] \cup [crc: FcContent]
    BY <2>2, <2>3
  <2> HIDE DEF w
  <2>5. DOMAIN r = 1 .. 3 /\ Len(r) = 3 /\ r[1] = <<"lo", w>> /\ r[2] = <<"hi", w>> /\ r[3] = Ok
    BY <2>1
  <2>6. <<"lo", w>> \in Says(f) /\ <<"hi", w>> \in Says(f) /\ Ok \in Says(f)
    BY <1>1, <2>4
  <2>7. Says(f) \subseteq Unit
    BY SaysUnit
  <2>8. r \in Seq(Unit)
    BY <2>1, <2>6, <2>7
  <2>9. ASSUME NEW i \in DOMAIN r PROVE r[i] \in Says(f) /\ (r[i][1] = "lo" => i = 1)
    BY <2>5, <2>6, <1>2
  <2>10. ASSUME NEW i \in DOMAIN r, r[i] \in CrcUnits PROVE op = "crc" /\ r[i][2] = CrcOf(f.flash)
    <3>1. i # 3
      BY <1>2, <1>3, <2>5, <2>10
    <3>2. r[i][2] = w
      BY <2>5, <3>1
    <3> QED  BY <1>3, <2>10, <3>2, <2>2, <2>3
  <2>11. ASSUME NEW i \in DOMAIN r, NEW n, r[i] = Lo(n)
         PROVE  op \in {"rev", "board", "size"} /\ i = 1 /\ Number(n) = w
    <3>1. r[i][1] = "lo" /\ r[i][2] = Number(n)
      BY <2>11 DEF Lo
    <3>2. i = 1  BY <2>9, <3>1
    <3>3. w = Number(n)
      BY <2>5, <3>1, <3>2
    <3> QED  BY <1>5, <2>2, <3>2, <3>3, WordsDiffer
  <2> QED  BY <2>5, <2>8, <2>9, <2>10, <2>11 DEF w
<1> QED  BY <1>4, <1>5 DEF Reply

(* What the bootloader does with a command other than BOOT: it answers, or *)
(* says nothing; only erase and program touch the flash.                   *)
LEMMA AnswersStep ==
  ASSUME FlashInv, wire \in Seq(Unit), BootloaderAnswers
  PROVE  /\ fcIn # <<>> /\ fcIn' = Tail(fcIn) /\ fc.mode = "bl"
         /\ UNCHANGED <<storeVars, taskVars, waiting, dev, rawMode, stream, token>>
         /\ Len(wire') <= MaxWire
         /\ \/ Head(fcIn).op = "boot" /\ fc' = [Gone EXCEPT !.bootable = TRUE] /\ Vanish
            \/ /\ link' = link
               /\ fc'.mode = fc.mode /\ fc'.board = fc.board
               /\ (fc.erased => ~fc.bootable) =>
                     /\ fc'.erased => ~fc'.bootable
                     /\ fc'.bootable => fc' = fc
               /\ Head(fcIn).op \notin {"erase", "program"} => fc' = fc
               /\ \E r : Reply(fc, Head(fcIn).op, r) /\ wire' = wire \o r
<1> DEFINE cmd == Head(fcIn)
<1>1. /\ fcIn # <<>> /\ fcIn' = Tail(fcIn) /\ fc.mode = "bl"
      /\ UNCHANGED <<storeVars, taskVars, waiting, dev, rawMode, stream, token>>
      /\ Len(wire') <= MaxWire
  BY DEF BootloaderAnswers
<1>2. \/ cmd.op = "boot" /\ fc' = [Gone EXCEPT !.bootable = TRUE] /\ Vanish
      \/ /\ link' = link
         /\ \/ fc' = fc
            \/ /\ cmd.op = "erase"
               /\ \/ fc' = [fc EXCEPT !.flash = Blank, !.erased = TRUE, !.bootable = FALSE]
                  \/ fc' = [fc EXCEPT !.flash = Broken, !.erased = FALSE, !.bootable = FALSE]
            \/ /\ cmd.op = "program" /\ fc.erased
               /\ \/ fc' = [fc EXCEPT !.flash = Programs(@, cmd.piece)]
                  \/ fc' = [fc EXCEPT !.flash = Broken]
         /\ \/ wire' = wire \/ wire' = Append(wire, Ok) \/ wire' = Append(wire, Bad)
            \/ /\ cmd.op \in {"rev", "board", "size", "crc"}
               /\ wire' = wire \o WordReply(Word(fc, cmd.op))
  BY DEF BootloaderAnswers, Refuse, Word
<1> HIDE DEF cmd
<1>3. CASE cmd.op = "boot" /\ fc' = [Gone EXCEPT !.bootable = TRUE] /\ Vanish
  BY <1>1, <1>3 DEF cmd
<1>4. CASE ~(cmd.op = "boot" /\ fc' = [Gone EXCEPT !.bootable = TRUE] /\ Vanish)
  <2>1. wire = wire \o <<>> /\ \A x \in Unit : Append(wire, x) = wire \o <<x>>
    OBVIOUS
  <2>2. Ok \in Unit /\ Bad \in Unit
    BY DEF Unit
  <2>3. \E r : Reply(fc, cmd.op, r) /\ wire' = wire \o r
    BY <1>2, <1>4, <2>1, <2>2 DEF Reply
  <2>4. /\ link' = link
        /\ fc'.mode = fc.mode /\ fc'.board = fc.board
        /\ (fc.erased => ~fc.bootable) =>
              /\ fc'.erased => ~fc'.bootable
              /\ fc'.bootable => fc' = fc
        /\ cmd.op \notin {"erase", "program"} => fc' = fc
    BY <1>2, <1>4 DEF FlashInv, FcInv
  <2> QED  BY <1>1, <2>3, <2>4 DEF cmd
<1> QED  BY <1>3, <1>4

(* What taking an answer and asking do to the line.                        *)
LEMMA TakesLine ==
  ASSUME Takes
  PROVE  /\ wire' = wire
         /\ \/ stream' = stream
            \/ stream' = <<>>
            \/ \E n \in {1, 3} : n <= Len(stream) /\ stream' = SubSeq(stream, n + 1, Len(stream))
<1>1. wire' = wire
  BY DEF Takes, SyncDone, RevDone, BoardDone, SizeDone, EraseDone, ChunkDone, CrcDone, SameStep
<1>2. Acked \/ Nacked \/ GotWord \/ NoWord \/ Collected(3) \/ GaveUp(3)
  BY DEF Takes, SyncDone, RevDone, BoardDone, SizeDone, EraseDone, ChunkDone, CrcDone
<1>3. Collected(1) \/ Collected(3) \/ GaveUp(1) \/ GaveUp(3)
  BY <1>2 DEF Acked, Nacked, GotWord, NoWord
<1>4. ASSUME NEW n \in {1, 3}, Collected(n)
      PROVE  Len(stream) >= n /\ stream' = SubSeq(stream, n + 1, Len(stream))
  BY <1>4 DEF Collected
<1>5. ASSUME NEW n \in {1, 3}, GaveUp(n)
      PROVE  stream' \in {stream, <<>>}
  BY <1>5 DEF GaveUp
<1>6. CASE \E n \in {1, 3} : Collected(n)
  <2>1. PICK n \in {1, 3} : Collected(n)  BY <1>6
  <2>2. Len(stream) >= n /\ stream' = SubSeq(stream, n + 1, Len(stream))  BY <1>4, <2>1
  <2> QED  BY <1>1, <2>2
<1> QED  BY <1>1, <1>3, <1>5, <1>6

LEMMA AsksLine ==
  ASSUME FlashInv, Asks
  PROVE  ~waiting /\ stream' = <<>> /\ wire' = wire
  BY DEF Asks, AskSync, AskIdentity, AskErase, SendChunk, AskCrc, Transmit

LEMMA SubSeqUnits ==
  ASSUME NEW s \in Seq(Unit), NEW n \in {1, 3}, n <= Len(s)
  PROVE  SubSeq(s, n + 1, Len(s)) \in Seq(Unit)
  OBVIOUS

LEMMA SameSays ==
  ASSUME NEW f, NEW g, f.mode = g.mode, f.board = g.board
  PROVE  Says(f) = Says(g)
  BY DEF Says, Numbers

(* Appending an answer keeps replies whole.                                *)
LEMMA WireGrows ==
  ASSUME NEW w \in Seq(Unit), NEW r \in Seq(Unit), NEW f,
         \A i \in DOMAIN w : w[i] \in Says(f),
         \A i \in DOMAIN r : r[i] \in Says(f),
         \A i \in DOMAIN w : w[i][1] = "lo" => i + 2 <= Len(w),
         \A i \in DOMAIN r : r[i][1] = "lo" => i = 1 /\ Len(r) = 3
  PROVE  /\ w \o r \in Seq(Unit)
         /\ \A i \in DOMAIN (w \o r) : (w \o r)[i] \in Says(f)
         /\ \A i \in DOMAIN (w \o r) : (w \o r)[i][1] = "lo" => i + 2 <= Len(w \o r)
<1> DEFINE v == w \o r
<1>1. /\ Len(v) = Len(w) + Len(r) /\ v \in Seq(Unit)
      /\ \A i \in DOMAIN v : \/ i \in DOMAIN w /\ v[i] = w[i]
                             \/ i - Len(w) \in DOMAIN r /\ v[i] = r[i - Len(w)]
  OBVIOUS
<1>2. Len(w) \in Nat /\ Len(r) \in Nat /\ DOMAIN v \subseteq Nat /\ DOMAIN w \subseteq Nat
  BY <1>1
<1> HIDE DEF v
<1>3. \A i \in DOMAIN v : v[i] \in Says(f)
  <2> TAKE i \in DOMAIN v
  <2>1. CASE i \in DOMAIN w /\ v[i] = w[i]  BY <2>1
  <2>2. CASE i - Len(w) \in DOMAIN r /\ v[i] = r[i - Len(w)]  BY <2>2
  <2> QED  BY <1>1, <2>1, <2>2
<1>4. \A i \in DOMAIN v : v[i][1] = "lo" => i + 2 <= Len(v)
  <2> TAKE i \in DOMAIN v
  <2> HAVE v[i][1] = "lo"
  <2>1. CASE i \in DOMAIN w /\ v[i] = w[i]
    <3>1. i + 2 <= Len(w)  BY <2>1
    <3> QED  BY <1>1, <1>2, <2>1, <3>1
  <2>2. CASE i - Len(w) \in DOMAIN r /\ v[i] = r[i - Len(w)]
    <3>1. i - Len(w) = 1 /\ Len(r) = 3  BY <2>2
    <3> QED  BY <1>1, <1>2, <2>2, <3>1
  <2> QED  BY <1>1, <2>1, <2>2
<1> QED  BY <1>1, <1>3, <1>4 DEF v

LEMMA WireFcStep == ASSUME FlashInv, WireInv, FcStep PROVE WireInv'
<1>1. CASE wire' = <<>> /\ link' # "open" /\ stream' = stream
  BY <1>1, FlashAssumption DEF WireInv
<1>2. CASE BootloaderAnswers
  <2>1. wire \in Seq(Unit)  BY DEF WireInv
  <2>2. CASE Vanish
    <3>1. link' # "open" /\ wire' = <<>>
      BY <2>2 DEF Vanish
    <3>2. stream' = stream  BY <1>2 DEF BootloaderAnswers
    <3> QED  BY <1>1, <3>1, <3>2
  <2>3. CASE ~Vanish
    <3>1. /\ fc.mode = "bl" /\ UNCHANGED <<waiting, stream>> /\ Len(wire') <= MaxWire
          /\ link' = link /\ fc'.mode = fc.mode /\ fc'.board = fc.board
          /\ \E r : Reply(fc, Head(fcIn).op, r) /\ wire' = wire \o r
      BY <1>2, <2>1, <2>3, AnswersStep
    <3>2. PICK r : Reply(fc, Head(fcIn).op, r) /\ wire' = wire \o r
      BY <3>1
    <3>3. fc.board \in Boards /\ fc.flash \in FcContent
      BY DEF FlashInv, FcInv
    <3>4. /\ r \in Seq(Unit)
          /\ \A i \in DOMAIN r : r[i] \in Says(fc)
          /\ \A i \in DOMAIN r : r[i][1] = "lo" => i = 1 /\ Len(r) = 3
      BY <3>1, <3>2, <3>3, ReplyFacts
    <3>5. Says(fc') = Says(fc)
      BY <3>1, SameSays
    <3>6. /\ wire' \in Seq(Unit)
          /\ \A i \in DOMAIN wire' : wire'[i] \in Says(fc)
          /\ \A i \in DOMAIN wire' : wire'[i][1] = "lo" => i + 2 <= Len(wire')
      BY <2>1, <3>2, <3>4, WireGrows DEF WireInv
    <3> QED  BY <3>1, <3>5, <3>6 DEF WireInv
  <2> QED  BY <2>2, <2>3
<1>3. CASE ApplicationAnswers
  <2>1. CASE Head(fcIn).op = "reboot"
    BY <1>1, <1>3, <2>1 DEF ApplicationAnswers, Vanish
  <2>2. CASE Head(fcIn).op # "reboot"
    BY <1>3, <2>2 DEF ApplicationAnswers, WireInv
  <2> QED  BY <2>1, <2>2
<1>4. CASE Chatter
  <2>1. /\ fc.mode = "app" /\ wire' = <<Junk>> /\ stream = <<>>
        /\ UNCHANGED <<waiting, stream, link, fc>>
    BY <1>4 DEF Chatter, usbVars
  <2>2. Says(fc) = {Junk} /\ Junk \in Unit
    BY <2>1 DEF Says, Unit
  <2>3. wire' \in Seq(Unit) /\ Len(wire') = 1 /\ \A i \in DOMAIN wire' : wire'[i] = Junk
    BY <2>1, <2>2
  <2>4. Junk[1] # "lo"  BY DEF Junk
  <2> QED  BY <2>1, <2>2, <2>3, <2>4, FlashAssumption DEF WireInv
<1>5. CASE FcVanishes
  BY <1>1, <1>5 DEF FcVanishes, Vanish
<1>6. CASE FcReturns
  <2>1. wire = <<>> /\ wire' = <<>> /\ link' # "open" /\ stream' = stream
    BY <1>6 DEF FcReturns, usbVars, WireInv
  <2> QED  BY <1>1, <2>1
<1> QED  BY <1>2, <1>3, <1>4, <1>5, <1>6 DEF FcStep

LEMMA WireStepInv ==
  ASSUME FlashInv, TalkInv, WireInv, [FlashNext]_flashVars
  PROVE  WireInv'
<1>1. CASE Takes
  <2>1. wire' = wire /\ stream' \in Seq(Unit)
    <3>1. stream \in Seq(Unit) /\ <<>> \in Seq(Unit)  BY DEF WireInv
    <3> QED  BY <1>1, <3>1, TakesLine, SubSeqUnits
  <2> QED  BY <1>1, <2>1, TakesStep DEF WireInv
<1>2. CASE Asks
  <2>1. stream' \in Seq(Unit) /\ DOMAIN stream' = {}
    BY <1>2, AsksLine
  <2> QED  BY <1>2, <2>1, AsksLine, AsksStep DEF WireInv
<1>3. CASE OpenFc
  <2>1. ~waiting
    BY <1>3 DEF OpenFc, TalkInv, Asking, Sync
  <2> QED  BY <1>3, <2>1 DEF OpenFc, fcVars, WireInv
<1>4. CASE \/ Begin \/ Moves \/ Tells \/ StartFlash
           \/ HttpStep /\ UNCHANGED <<taskVars, waiting, usbVars, fcVars>>
           \/ UNCHANGED flashVars
  <2>1. UNCHANGED <<waiting, stream, wire, link, fc>>
    BY <1>4, MovesStep, TellsStep
    DEF usbVars, fcVars, flashVars, Begin, StartFlash, Tells, RequestReboot, SendBoot
  <2> QED  BY <2>1 DEF WireInv
<1>5. CASE AwaitReboot \/ Finish
  <2>1. /\ ~waiting /\ ~waiting' /\ stream' \in {stream, <<>>} /\ UNCHANGED <<fc, wire>>
        /\ link' \in {link, "closed"}
    BY <1>5 DEF AwaitReboot, Finish, CloseFc, fcVars, TalkInv, Asking, Sync
  <2>2. stream' \in Seq(Unit)
    <3>1. stream \in Seq(Unit) /\ <<>> \in Seq(Unit)  BY DEF WireInv
    <3> QED  BY <2>1, <3>1
  <2> QED  BY <2>1, <2>2 DEF WireInv
<1>6. CASE Deliver
  <2>1. /\ wire # <<>> /\ wire' = Tail(wire) /\ stream' \in {stream, Append(stream, Head(wire))}
        /\ UNCHANGED <<waiting, link, fc>>
    BY <1>6 DEF Deliver
  <2>2. stream \in Seq(Unit) /\ wire \in Seq(Unit)
    BY DEF WireInv
  <2>3. /\ wire' \in Seq(Unit) /\ Len(wire') = Len(wire) - 1
        /\ \A i \in DOMAIN wire' : i \in Nat /\ i + 1 \in DOMAIN wire /\ wire'[i] = wire[i + 1]
    BY <2>1, <2>2
  <2>4. Head(wire) \in Unit /\ Head(wire) \in Says(fc) /\ Len(wire) \in Nat
    BY <2>1, <2>2 DEF WireInv
  <2>5. stream' \in Seq(Unit)
    <3>1. Append(stream, Head(wire)) \in Seq(Unit)  BY <2>2, <2>4
    <3> QED  BY <2>1, <2>2, <3>1
  <2>6. \A i \in DOMAIN stream' : \/ i \in DOMAIN stream /\ stream'[i] = stream[i]
                                 \/ stream'[i] = Head(wire)
    BY <2>1, <2>2, <2>4
  <2>7. \A i \in DOMAIN wire' : wire'[i] \in Says(fc)
    BY <2>3 DEF WireInv
  <2>8. \A i \in DOMAIN wire' : wire'[i][1] = "lo" => i + 2 <= Len(wire')
    <3> TAKE i \in DOMAIN wire'
    <3>1. wire[i + 1][1] = "lo" => (i + 1) + 2 <= Len(wire)
      BY <2>3 DEF WireInv
    <3> QED  BY <2>3, <2>4, <3>1
  <2>9. Len(wire') <= MaxWire
    BY <2>3, <2>4, FlashAssumption DEF WireInv
  <2>10. waiting /\ link = "open" => \A i \in DOMAIN stream' : stream'[i] \in Says(fc)
    BY <2>4, <2>6 DEF WireInv
  <2> QED  BY <1>6, <2>1, <2>3, <2>5, <2>7, <2>8, <2>9, <2>10 DEF WireInv, Deliver
<1>7. CASE UsbDisconnect
  BY <1>7 DEF UsbDisconnect, fcVars, WireInv
<1>8. CASE PowerCut
  BY <1>8, FlashAssumption DEF PowerCut, WireInv
<1>9. CASE FcStep
  BY <1>9, WireFcStep
<1> QED
  BY <1>1, <1>2, <1>3, <1>4, <1>5, <1>6, <1>7, <1>8, <1>9
  DEF FlashNext, WebStep, TaskStep, Takes, Asks, Moves, Tells

(* The image comes from the slot, which holds whole uploads only           *)
(* (StoreInv).                                                             *)
LEMMA ImgStepInv ==
  ASSUME FlashInv, ImgInv, [FlashNext]_flashVars
  PROVE  ImgInv'
<1>1. CASE Begin
  <2>1. SUFFICES ASSUME NEW m \in ImageInfo
                 PROVE  \E u \in Uploads : m = [board |-> u.board, size |-> u.size,
                                                crc |-> [data |-> u.data, len |-> u.size]]
    BY <1>1 DEF Begin, ImgInv
  <2>2. m \in Sidecar /\ \E f \in image : f.len = m.size
    BY DEF ImageInfo, FlashInv, StoreInv, StoreTypeOK
  <2>3. PICK f \in image : f.len = m.size
    BY <2>2
  <2>4. PICK u \in Uploads : f = [data |-> u.data, len |-> u.size] /\ m.board = u.board
    BY StoreInvPresent DEF PresentIsWhole, FlashInv
  <2>5. m.crc = f
    BY StoreInvPresent DEF PresentIsWhole, FlashInv, Crc
  <2>6. f.len = u.size
    BY <2>4
  <2>7. m = [board |-> m.board, size |-> m.size, crc |-> m.crc]
    BY <2>2 DEF Sidecar
  <2> QED  BY <2>3, <2>4, <2>5, <2>6, <2>7
<1>2. CASE Finish \/ PowerCut
  BY <1>2 DEF Finish, PowerCut, ImgInv
<1>3. CASE img' = img
  BY <1>3 DEF ImgInv
<1>4. CASE Takes \/ Asks \/ Moves \/ Tells
  BY <1>3, <1>4, TakesStep, AsksStep, MovesStep, TellsStep DEF taskVars
<1>5. CASE \/ OpenFc \/ AwaitReboot \/ StartFlash \/ Deliver \/ UsbDisconnect \/ FcStep
           \/ HttpStep /\ UNCHANGED <<taskVars, waiting, usbVars, fcVars>>
           \/ UNCHANGED flashVars
  BY <1>3, <1>5, FcStepFrame
  DEF OpenFc, AwaitReboot, StartFlash, Deliver, UsbDisconnect, taskVars, flashVars
<1> QED
  BY <1>1, <1>2, <1>4, <1>5 DEF FlashNext, WebStep, TaskStep, Takes, Asks, Moves, Tells

(* What FlashAssumption says of the image that is flashed.                 *)
LEMMA UploadFacts ==
  ASSUME ImgInv, NEW m \in img
  PROVE  /\ m.board \in Nat /\ m.size \in Nat /\ m.size > 0 /\ m.crc \in FcContent
         /\ m.board # BlRev
         /\ \A b \in Boards : m.board # FlashSize[b] /\ b < m.size
         /\ BlRev < m.size
         /\ \E u \in Uploads : m.board = u.board /\ m.crc = [data |-> u.data, len |-> u.size]
<1>1. PICK u \in Uploads : m = [board |-> u.board, size |-> u.size,
                                crc |-> [data |-> u.data, len |-> u.size]]
  BY DEF ImgInv
<1>2. u.data \in Data /\ u.size \in Nat /\ u.board \in Nat
  BY StoreAssumption
<1>3. m.board = u.board /\ m.size = u.size /\ m.crc = [data |-> u.data, len |-> u.size]
  BY <1>1
<1>4. m.crc \in FcContent
  BY <1>2, <1>3 DEF FcContent
<1>5. /\ BlRev < u.size /\ \A b \in Boards : b < u.size
      /\ u.board # BlRev /\ \A b \in Boards : u.board # FlashSize[b]
  BY FlashAssumption
<1>6. BlRev \in Nat /\ Boards \subseteq Nat
  BY FlashAssumption
<1>7. u.size > 0
  BY <1>2, <1>5, <1>6
<1> QED  BY <1>2, <1>3, <1>4, <1>5, <1>7

(* A number that a flight controller can say and that is an image's board  *)
(* id is its own board id.                                                 *)
LEMMA SaysOwnBoard ==
  ASSUME ImgInv, NEW m \in img, NEW f, f.board \in Boards, Lo(m.board) \in Says(f)
  PROVE  f.mode = "bl" /\ m.board = f.board
<1>1. Lo(m.board)[1] = "lo" /\ Lo(m.board)[2] = Number(m.board)
  BY DEF Lo
<1>2. Ok[1] # "lo" /\ Bad[1] # "lo" /\ Junk[1] # "lo"
  BY DEF Ok, Bad, Junk
<1>3. f.mode = "bl" /\ Lo(m.board) \in {"lo", "hi"} \X ([number: Numbers(f)] \cup [crc: FcContent])
  BY <1>1, <1>2 DEF Says
<1>4. Number(m.board) \in [number: Numbers(f)]
  BY <1>1, <1>3, WordsDiffer
<1>5. m.board \in Numbers(f)
  BY <1>4 DEF Number
<1> QED  BY <1>3, <1>5, UploadFacts DEF Numbers

(* The board id read is compared with the image's before the erase: a      *)
(* number equal to it is the board's own, whatever question it answered.   *)
LEMMA OwnTakesInv ==
  ASSUME FlashInv, TalkInv, WireInv, ImgInv, OwnInv, Takes
  PROVE  OwnInv'
<1> SUFFICES ASSUME link' = "open"
             PROVE  /\ pc' \in InSession \cup {"boot"} => fc'.mode = "bl"
                    /\ pc' = "size" => boardId'[1] \in Says(fc)'
                    /\ pc' \in {"erase", "image", "program", "crc", "boot"} => \E m \in img' : m.board = fc'.board
  BY DEF OwnInv
<1>1. link = "open" /\ fc' = fc /\ img' = img
  BY TakesStep
<1>2. ASSUME waiting, NEW i \in DOMAIN stream PROVE stream[i] \in Says(fc)
  BY <1>1, <1>2 DEF WireInv
<1>3. stream \in Seq(Unit)
  BY DEF WireInv
<1>4. CASE SyncDone
  <2>1. CASE Acked /\ pc' = "rev"
    <3>1. waiting /\ Len(stream) >= 1 /\ Head(stream) = Ok
      BY <2>1 DEF Acked, Collected
    <3>2. Ok \in Says(fc)
      BY <1>2, <1>3, <3>1
    <3>3. fc.mode = "bl"
      BY <3>2, UnitsDiffer DEF Says
    <3> QED  BY <2>1, <3>3, <1>1
  <2>2. CASE ~(Acked /\ pc' = "rev")
    <3>1. pc' \notin InSession \cup {"boot"}
      BY <1>4, <2>2 DEF SyncDone, Fail, InSession
    <3> QED  BY <3>1 DEF InSession
  <2> QED  BY <2>1, <2>2
<1>5. CASE RevDone
  BY <1>1, <1>5 DEF RevDone, OwnInv, InSession
<1>6. CASE BoardDone
  <2>1. CASE GotWord /\ boardId' = Reads
    <3>1. waiting /\ Len(stream) >= 3
      BY <2>1 DEF GotWord, Collected
    <3>2. boardId'[1] = stream[1] /\ stream[1] \in Says(fc)
      BY <1>2, <1>3, <2>1, <3>1 DEF Reads
    <3> QED  BY <1>1, <1>6, <3>2 DEF BoardDone, OwnInv, InSession, Fail
  <2>2. CASE Fail
    BY <1>1, <2>2 DEF InSession, Fail
  <2> QED  BY <1>6, <2>1, <2>2 DEF BoardDone
<1>7. CASE SizeDone
  <2>1. CASE \E m \in img : boardId = Halves(Number(m.board))
    <3>1. PICK m \in img : boardId = Halves(Number(m.board))
      BY <2>1
    <3>2. boardId[1] = Lo(m.board)
      BY <3>1 DEF Halves, Lo
    <3>3. Lo(m.board) \in Says(fc)
      BY <1>1, <1>7, <3>2 DEF SizeDone, OwnInv
    <3>4. m.board = fc.board
      BY <3>3, SaysOwnBoard DEF FlashInv, FcInv
    <3> QED  BY <1>1, <1>7, <3>4 DEF SizeDone, OwnInv, InSession, Fail
  <2>2. CASE ~\E m \in img : boardId = Halves(Number(m.board))
    BY <1>7, <2>2 DEF SizeDone, Fail, InSession
  <2> QED  BY <2>1, <2>2
<1>8. CASE EraseDone \/ ChunkDone \/ CrcDone
  BY <1>1, <1>8 DEF EraseDone, ChunkDone, CrcDone, OwnInv, InSession, Fail
<1> QED  BY <1>4, <1>5, <1>6, <1>7, <1>8 DEF Takes

LEMMA OwnStepInv ==
  ASSUME FlashInv, TalkInv, WireInv, ImgInv, OwnInv, [FlashNext]_flashVars
  PROVE  OwnInv'
<1>1. CASE link' # "open" \/ (pc' \notin InSession \cup {"boot"})
  BY <1>1 DEF OwnInv, InSession
<1>2. CASE link' = link /\ UNCHANGED <<pc, boardId, img>> /\ fc'.mode = fc.mode /\ fc'.board = fc.board
  <2>1. Says(fc') = Says(fc)  BY <1>2, SameSays
  <2> QED  BY <1>2, <2>1 DEF OwnInv
<1>3. CASE Takes
  BY <1>3, OwnTakesInv
<1>4. CASE Asks
  BY <1>2, <1>4, AsksStep DEF taskVars
<1>5. CASE Moves
  BY <1>5 DEF Moves, OpenImage, ReadFails, Programmed, Fail, usbVars, fcVars, OwnInv, InSession
<1>6. CASE Tells \/ Begin \/ OpenFc \/ AwaitReboot \/ Finish
  BY <1>1, <1>6 DEF Tells, RequestReboot, SendBoot, Begin, OpenFc, AwaitReboot, Finish, Fail, InSession
<1>7. CASE StartFlash \/ PowerCut
  <2>1. CASE StartFlash
    <3>1. pc = "idle"
      BY <2>1 DEF StartFlash, FlashInv, SlotInv
    <3> QED  BY <1>1, <2>1, <3>1 DEF StartFlash, InSession
  <2> QED  BY <1>1, <1>7, <2>1 DEF PowerCut
<1>8. CASE \/ HttpStep /\ UNCHANGED <<taskVars, waiting, usbVars, fcVars>>
           \/ UNCHANGED flashVars \/ Deliver
  BY <1>2, <1>8 DEF taskVars, usbVars, fcVars, flashVars, Deliver
<1>9. CASE UsbDisconnect
  BY <1>1, <1>9 DEF UsbDisconnect
<1>10. CASE FcStep
  <2>1. CASE BootloaderAnswers
    <3>1. wire \in Seq(Unit)  BY DEF WireInv
    <3>2. CASE Vanish  BY <1>1, <3>2 DEF Vanish
    <3>3. CASE ~Vanish
      BY <1>2, <2>1, <3>1, <3>3, AnswersStep DEF taskVars
    <3> QED  BY <3>2, <3>3
  <2>2. CASE ApplicationAnswers \/ FcVanishes
    BY <1>1, <1>2, <2>2 DEF ApplicationAnswers, FcVanishes, Vanish, taskVars
  <2>3. CASE Chatter
    BY <1>2, <2>3 DEF Chatter, taskVars, usbVars
  <2>4. CASE FcReturns
    BY <1>1, <2>4 DEF FcReturns, usbVars
  <2> QED  BY <1>10, <2>1, <2>2, <2>3, <2>4 DEF FcStep
<1> QED
  BY <1>3, <1>4, <1>5, <1>6, <1>7, <1>8, <1>9, <1>10
  DEF FlashNext, WebStep, TaskStep, Takes, Asks, Moves, Tells

LEMMA LinkStepInv ==
  ASSUME FlashInv, LinkInv, [FlashNext]_flashVars
  PROVE  LinkInv'
  BY TalkStepInv, WireStepInv, ImgStepInv, OwnStepInv DEF LinkInv

-----------------------------------------------------------------------------
(* Counting what is late.                                                  *)

(* The units a conversation has taken since its sync was sent, as far as   *)
(* they are certain: the sync's status, the words of the board id and the  *)
(* flash size (the revision may have timed out), the statuses of the erase *)
(* and of the first chunk.                                                 *)
Taken == CASE pc \in Sync -> 0
           [] pc \in {"rev", "board"} -> 1
           [] pc = "size" -> 4
           [] pc = "erase" -> 7
           [] pc = "image" -> 8
           [] pc = "program" -> IF off = 0 THEN 8 ELSE 9
           [] OTHER -> 9

(* The places from the sync to the question op, and being on the way       *)
(* there.                                                                  *)
Until(op) == IF op = "board" THEN {"rev", "board"} ELSE InSession

Before(op) ==
  /\ link = "open" /\ fc.mode = "bl"
  /\ pc \in Sync \cup Until(op) /\ (pc \in Sync => waiting)
  /\ ~(waiting /\ pc = op)

LEMMA TakenNat == Taken \in Nat
<1>1. Taken \in {0, 1, 4, 7, 8, 9}
  BY DEF Taken
<1> QED  BY <1>1

LEMMA BehindLess ==
  ASSUME NEW S, NEW op, NEW last \in Nat, NEW t \in Nat, NEW r \in Nat, r <= t,
         NEW s \in Seq(Unit), NEW w \in Seq(Unit), NEW q \in Seq(Cmd),
         Behind(S, op, last, t, s, w, q)
  PROVE  Behind(S, op, last, r, s, w, q)
<1>1. \A i \in DOMAIN s : s[i] \in S => i + last + r <= Late
  <2> TAKE i \in DOMAIN s
  <2>1. s[i] \in S => i + last + t <= Late
    BY DEF Behind
  <2> QED  BY <2>1, LateNat
<1>2. \A i \in DOMAIN w : w[i] \in S => Len(s) + i + last + r <= Late
  <2> TAKE i \in DOMAIN w
  <2>1. w[i] \in S => Len(s) + i + last + t <= Late
    BY DEF Behind
  <2> QED  BY <2>1, LateNat
<1>3. \A i \in DOMAIN q : q[i].op = op => Len(s) + Len(w) + 3 * i + r <= Late
  <2> TAKE i \in DOMAIN q
  <2>1. q[i].op = op => Len(s) + Len(w) + 3 * i + t <= Late
    BY DEF Behind
  <2> QED  BY <2>1, LateNat
<1> QED  BY <1>1, <1>2, <1>3 DEF Behind

(* What a step takes off the line it counts.                               *)
LEMMA TakesCount ==
  ASSUME FlashInv, LinkInv, Takes, NEW op \in {"crc", "board"}, Before(op)'
  PROVE  /\ Before(op)
         /\ \/ stream' \in {stream, <<>>} /\ Taken' <= Taken
            \/ \E n \in {1, 3} : /\ n <= Len(stream)
                                 /\ stream' = SubSeq(stream, n + 1, Len(stream))
                                 /\ Taken' <= Taken + n
<1>1. waiting' = FALSE /\ fc' = fc /\ link' = link
  BY TakesStep
<1>2. pc' \in InSession
  BY <1>1 DEF Before, Until, InSession
<1>3. link = "open" /\ fc.mode = "bl" /\ pc' \in Until(op)
  BY <1>1 DEF Before
<1>4. ASSUME NEW n \in {1, 3}, Collected(n)
      PROVE  waiting /\ n <= Len(stream) /\ stream' = SubSeq(stream, n + 1, Len(stream))
  <2>1. Len(stream) \in Nat  BY DEF LinkInv, WireInv
  <2> QED  BY <1>4, <2>1 DEF Collected
<1>5. CASE SyncDone
  <2>1. pc \in Sync /\ Acked /\ pc' = "rev"
    BY <1>2, <1>5 DEF SyncDone, Fail, InSession
  <2>2. Collected(1)  BY <2>1 DEF Acked
  <2>3. Taken = 0 /\ Taken' = 1
    BY <2>1 DEF Taken, Sync
  <2>4. Before(op)
    BY <1>3, <1>4, <2>1, <2>2 DEF Before, Sync
  <2> QED  BY <1>4, <2>2, <2>3, <2>4
<1>6. CASE RevDone
  <2>1. pc = "rev" /\ pc' = "board"
    BY <1>6 DEF RevDone
  <2>2. Taken = 1 /\ Taken' = 1
    BY <2>1 DEF Taken, Sync
  <2>3. Before(op)
    BY <1>3, <2>1 DEF Before, Sync, Until, InSession
  <2>4. \/ stream' \in {stream, <<>>}
        \/ \E n \in {1, 3} : n <= Len(stream) /\ stream' = SubSeq(stream, n + 1, Len(stream))
    BY TakesLine
  <2> QED  BY <2>2, <2>3, <2>4
<1>7. CASE BoardDone
  <2>1. pc = "board" /\ pc' = "size" /\ GotWord
    BY <1>2, <1>7 DEF BoardDone, Fail, InSession
  <2>2. Collected(3)  BY <2>1 DEF GotWord
  <2>3. Taken = 1 /\ Taken' = 4
    BY <2>1 DEF Taken, Sync
  <2>4. op = "crc"
    BY <1>3, <2>1 DEF Until
  <2>5. Before(op)
    BY <1>3, <2>1, <2>4 DEF Before, Sync, Until, InSession
  <2> QED  BY <1>4, <2>2, <2>3, <2>5
<1>8. CASE SizeDone
  <2>1. pc = "size" /\ pc' = "erase" /\ GotWord
    BY <1>2, <1>8 DEF SizeDone, Fail, InSession
  <2>2. Collected(3)  BY <2>1 DEF GotWord
  <2>3. Taken = 4 /\ Taken' = 7
    BY <2>1 DEF Taken, Sync
  <2>4. op = "crc"
    BY <1>3, <2>1 DEF Until
  <2>5. Before(op)
    BY <1>3, <2>1, <2>4 DEF Before, Sync, Until, InSession
  <2> QED  BY <1>4, <2>2, <2>3, <2>5
<1>9. CASE EraseDone
  <2>1. pc = "erase" /\ pc' = "image" /\ Acked
    BY <1>2, <1>9 DEF EraseDone, Fail, InSession
  <2>2. Collected(1)  BY <2>1 DEF Acked
  <2>3. Taken = 7 /\ Taken' = 8
    BY <2>1 DEF Taken, Sync
  <2>4. op = "crc"
    BY <1>3, <2>1 DEF Until
  <2>5. Before(op)
    BY <1>3, <2>1, <2>4 DEF Before, Sync, Until, InSession
  <2> QED  BY <1>4, <2>2, <2>3, <2>5
<1>10. CASE ChunkDone
  <2>1. pc = "program" /\ pc' = "program" /\ Acked
    BY <1>2, <1>10 DEF ChunkDone, Fail, InSession
  <2>2. Collected(1)  BY <2>1 DEF Acked
  <2>3. Taken \in {8, 9} /\ Taken' \in {8, 9}
    BY <2>1 DEF Taken, Sync
  <2>4. op = "crc"
    BY <1>3, <2>1 DEF Until
  <2>5. Before(op)
    BY <1>3, <2>1, <2>4 DEF Before, Sync, Until, InSession
  <2>6. Taken' <= Taken + 1
    BY <2>3
  <2> QED  BY <1>4, <2>2, <2>5, <2>6
<1>11. CASE CrcDone
  BY <1>2, <1>11 DEF CrcDone, Fail, InSession
<1> QED  BY <1>5, <1>6, <1>7, <1>8, <1>9, <1>10, <1>11 DEF Takes

(* What the task asks is named for where it is.                            *)
LEMMA AsksCmd ==
  ASSUME FlashInv, Asks
  PROVE  \E cmd \in Cmd : /\ fcIn' = Append(fcIn, cmd)
                          /\ IF pc \in Sync THEN cmd.op = "sync" ELSE cmd.op = pc
<1>1. PICK c \in Cmd : fcIn' = Append(fcIn, c)
  BY AsksStep
<1>2. \A c1, c2 \in Cmd : Append(fcIn, c1) = Append(fcIn, c2) => c1 = c2
  <2>1. fcIn \in Seq(Cmd)  BY DEF FlashInv, FcInv
  <2> QED  BY <2>1, AppendInjective
<1>3. ASSUME NEW cmd, Transmit(cmd) PROVE fcIn' = Append(fcIn, cmd)
  BY <1>3 DEF Transmit
<1>4. CASE AskSync
  <2>1. [op |-> "sync"] \in Cmd  BY DEF Cmd
  <2> QED  BY <1>3, <1>4, <2>1 DEF AskSync
<1>5. CASE AskIdentity \/ AskErase \/ AskCrc
  <2>1. [op |-> pc] \in Cmd /\ pc \notin Sync
    BY <1>5 DEF AskIdentity, AskErase, AskCrc, Cmd, Sync
  <2>2. fcIn' = Append(fcIn, [op |-> pc])
    BY <1>3, <1>5 DEF AskIdentity, AskErase, AskCrc
  <2> QED  BY <2>1, <2>2
<1>6. CASE SendChunk
  <2>1. PICK p : fcIn' = Append(fcIn, [op |-> "program", piece |-> p])
    <3>1. PICK m \in img : \E d : Transmit([op |-> "program",
                                         piece |-> [data |-> d, from |-> off, len |-> Chunk(m)]])
      BY <1>6 DEF SendChunk
    <3>2. PICK d : Transmit([op |-> "program",
                              piece |-> [data |-> d, from |-> off, len |-> Chunk(m)]])
      BY <3>1
    <3> DEFINE q == [data |-> d, from |-> off, len |-> Chunk(m)]
    <3> HIDE DEF q
    <3>3. fcIn' = Append(fcIn, [op |-> "program", piece |-> q])
      BY <1>3, <3>2 DEF q
    <3> QED  BY <3>3
  <2>2. pc = "program" /\ pc \notin Sync
    BY <1>6 DEF SendChunk, Sync
  <2>3. fcIn \in Seq(Cmd)  BY DEF FlashInv, FcInv
  <2>4. c = [op |-> "program", piece |-> p]
    <3>1. fcIn'[Len(fcIn) + 1] = c
      BY <1>1, <2>3
    <3>2. Append(fcIn, [op |-> "program", piece |-> p])[Len(fcIn) + 1] = [op |-> "program", piece |-> p]
      BY <2>3
    <3> QED  BY <2>1, <3>1, <3>2
  <2> QED  BY <1>1, <2>2, <2>4
<1> QED  BY <1>4, <1>5, <1>6 DEF Asks

(* During a conversation the task asks, takes an answer or moves on; or    *)
(* the others do something: nothing here, deliver a unit, or answer.       *)
Quiet ==
  /\ UNCHANGED <<pc, waiting, img, boardId, off, link>>
  /\ \/ UNCHANGED <<stream, wire, fcIn, fc>>
     \/ /\ wire # <<>> /\ wire' = Tail(wire)
        /\ stream' = Append(stream, Head(wire))
        /\ UNCHANGED <<fcIn, fc>>
     \/ /\ fcIn # <<>> /\ fcIn' = Tail(fcIn)
        /\ fc.mode = "bl" /\ fc'.mode = "bl" /\ fc'.board = fc.board
        /\ Head(fcIn).op \notin {"erase", "program"} => fc' = fc
        /\ \E r : Reply(fc, Head(fcIn).op, r) /\ wire' = wire \o r
        /\ UNCHANGED stream
     \/ fc.mode = "app" /\ fc'.mode = "app"

LEMMA SessionStep ==
  ASSUME FlashInv, LinkInv, [FlashNext]_flashVars,
         link' = "open", waiting' \/ pc' \in InSession \cup {"boot"}
  PROVE  Takes \/ Asks \/ Moves \/ Quiet
<1>1. CASE Tells \/ Begin \/ OpenFc \/ AwaitReboot \/ Finish \/ StartFlash \/ PowerCut
  <2>1. ~waiting' /\ pc' \notin InSession \cup {"boot"}
    <3>1. CASE StartFlash
      BY <3>1 DEF StartFlash, LinkInv, TalkInv, Asking, Sync, InSession, FlashInv, SlotInv
    <3>2. CASE Tells
      BY <3>2 DEF Tells, RequestReboot, SendBoot, LinkInv, TalkInv, Asking, Sync, InSession, usbVars
    <3>3. CASE Begin
      BY <3>3 DEF Begin, Fail, LinkInv, TalkInv, Asking, Sync, InSession
    <3>4. CASE OpenFc
      BY <3>4 DEF OpenFc, Fail, LinkInv, TalkInv, Asking, Sync, InSession
    <3>5. CASE AwaitReboot \/ Finish \/ PowerCut
      BY <3>5 DEF AwaitReboot, Finish, PowerCut, LinkInv, TalkInv, Asking, Sync, InSession
    <3> QED  BY <1>1, <3>1, <3>2, <3>3, <3>4, <3>5
  <2> QED  BY <2>1
<1>2. CASE \/ HttpStep /\ UNCHANGED <<taskVars, waiting, usbVars, fcVars>>
           \/ UNCHANGED flashVars
  BY <1>2 DEF taskVars, usbVars, fcVars, flashVars, Quiet
<1>3. CASE Deliver
  <2>1. /\ UNCHANGED <<pc, waiting, img, boardId, off, link, fcIn, fc, rawMode>>
        /\ wire # <<>> /\ wire' = Tail(wire)
    BY <1>3 DEF Deliver, taskVars
  <2>2. rawMode
    BY <2>1 DEF LinkInv, TalkInv
  <2> QED  BY <1>3, <2>1, <2>2 DEF Deliver, Quiet
<1>4. CASE UsbDisconnect
  BY <1>4 DEF UsbDisconnect
<1>5. CASE BootloaderAnswers
  <2>1. wire \in Seq(Unit)
    BY DEF LinkInv, WireInv
  <2>2. ~Vanish
    BY DEF Vanish
  <2> QED
    BY <1>5, <2>1, <2>2, AnswersStep DEF taskVars, Quiet
<1>6. CASE ApplicationAnswers
  BY <1>6 DEF ApplicationAnswers, Vanish, taskVars, Quiet
<1>7. CASE Chatter
  BY <1>7 DEF Chatter, taskVars, usbVars, Quiet
<1>8. CASE FcVanishes \/ FcReturns
  BY <1>8 DEF FcVanishes, FcReturns, Vanish, usbVars
<1> QED
  BY <1>1, <1>2, <1>3, <1>4, <1>5, <1>6, <1>7, <1>8
  DEF FlashNext, WebStep, TaskStep, FcStep, Takes, Asks, Moves, Tells

(* The counting itself, for the answers to one kind of question: when a    *)
(* conversation begins, all that is late is within Late; from then on      *)
(* every step keeps it so.                                                 *)
LEMMA CountStep ==
  ASSUME FlashInv, LinkInv, [FlashNext]_flashVars,
         NEW op \in {"crc", "board"}, NEW S, NEW last \in {0, 2},
         \A o, r : fc.mode = "bl" /\ Reply(fc, o, r) => \A i \in DOMAIN r : r[i] \in S => o = op /\ i + last <= 3,
         \A i \in DOMAIN wire : wire[i] \in S => i + last <= Len(wire),
         Before(op) => Behind(S, op, last, Taken, stream, wire, fcIn),
         Before(op)'
  PROVE  Behind(S, op, last, Taken', stream', wire', fcIn')
<1>1. /\ stream \in Seq(Unit) /\ wire \in Seq(Unit) /\ fcIn \in Seq(Cmd)
      /\ stream' \in Seq(Unit) /\ wire' \in Seq(Unit) /\ fcIn' \in Seq(Cmd)
  BY LinkStepInv, FlashStepInv DEF LinkInv, WireInv, FlashInv, FcInv
<1>2. Taken \in Nat /\ Taken' \in Nat /\ last \in Nat
  <2>1. Taken' \in {0, 1, 4, 7, 8, 9}  BY DEF Taken
  <2> QED  BY <2>1, TakenNat
<1>3. link' = "open" /\ fc'.mode = "bl"
  BY DEF Before
<1>4. CASE Before(op) /\ Taken' = Taken /\ UNCHANGED <<stream, wire, fcIn>>
  BY <1>4
<1>5. CASE Takes
  <2>1. wire' = wire /\ fcIn' = fcIn
    BY <1>5, TakesLine, TakesStep
  <2>2. Behind(S, op, last, Taken, stream, wire, fcIn)
    BY <1>5, TakesCount
  <2>3. CASE stream' \in {stream, <<>>} /\ Taken' <= Taken
    <3>1. Behind(S, op, last, Taken, stream', wire', fcIn')
      BY <1>1, <1>2, <2>1, <2>2, <2>3, BehindFlushed
    <3>2. Taken' <= Taken
      BY <2>3
    <3> QED  BY <1>1, <1>2, <3>1, <3>2, BehindLess
  <2>4. CASE \E n \in {1, 3} : /\ n <= Len(stream)
                               /\ stream' = SubSeq(stream, n + 1, Len(stream))
                               /\ Taken' <= Taken + n
    <3>1. PICK n \in {1, 3} : /\ n <= Len(stream)
                              /\ stream' = SubSeq(stream, n + 1, Len(stream))
                              /\ Taken' <= Taken + n
      BY <2>4
    <3>2. Behind(S, op, last, Taken + n, stream', wire', fcIn')
      BY <1>1, <1>2, <2>1, <2>2, <3>1, BehindTaken
    <3>3. Taken + n \in Nat
      BY <1>2
    <3> QED  BY <1>1, <1>2, <3>1, <3>2, <3>3, BehindLess
  <2> QED  BY <1>5, <2>3, <2>4, TakesCount
<1>6. CASE Asks
  <2>1. /\ ~waiting /\ waiting' /\ stream' = <<>> /\ wire' = wire /\ Len(fcIn) < MaxPending
        /\ UNCHANGED <<pc, off, link, fc>>
    BY <1>6, AsksLine, AsksStep DEF taskVars
  <2>2. Taken' = Taken
    BY <2>1 DEF Taken
  <2>3. PICK cmd \in Cmd : /\ fcIn' = Append(fcIn, cmd)
                           /\ IF pc \in Sync THEN cmd.op = "sync" ELSE cmd.op = pc
    BY <1>6, AsksCmd
  <2>4. cmd.op # op
    BY <2>1, <2>3 DEF Before
  <2>5. CASE pc \in Sync
    <3>1. Taken' = 0  BY <2>2, <2>5 DEF Taken, Sync
    <3>2. Len(wire) \in Nat /\ Len(wire) <= MaxWire /\ Len(fcIn) \in Nat
      BY <1>1 DEF LinkInv, WireInv
    <3>3. \A i \in DOMAIN wire : wire[i] \in S => Len(<<>>) + i + last + 0 <= Late
      <4> TAKE i \in DOMAIN wire
      <4>1. i \in Nat  BY <1>1
      <4>2. wire[i] \in S => i + last <= Len(wire)  OBVIOUS
      <4>3. MaxWire <= Late  BY FlashAssumption DEF Late
      <4> QED  BY <1>2, <3>2, <4>1, <4>2, <4>3, LateNat, FlashAssumption
    <3>4. \A i \in DOMAIN fcIn' : fcIn'[i].op = op => Len(<<>>) + Len(wire) + 3 * i + 0 <= Late
      <4> TAKE i \in DOMAIN fcIn'
      <4> HAVE fcIn'[i].op = op
      <4>1. i \in 1 .. Len(fcIn) + 1 /\ fcIn'[Len(fcIn) + 1] = cmd
        BY <1>1, <2>3
      <4>2. i \in Nat /\ i <= Len(fcIn)
        BY <2>4, <3>2, <4>1
      <4>3. i <= MaxPending - 1
        BY <2>1, <3>2, <4>2, FlashAssumption
      <4>4. 3 * i <= 3 * (MaxPending - 1)
        BY <4>2, <4>3, FlashAssumption
      <4> QED  BY <3>2, <4>2, <4>4, FlashAssumption DEF Late
    <3> QED  BY <2>1, <3>1, <3>3, <3>4 DEF Behind
  <2>6. CASE pc \notin Sync
    <3>1. Before(op)
      BY <2>1, <2>6 DEF Before
    <3>2. Behind(S, op, last, Taken, <<>>, wire, fcIn)
      BY <1>1, <1>2, <3>1, BehindFlushed
    <3>3. <<>> \in Seq(Unit)  OBVIOUS
    <3> QED  BY <1>1, <1>2, <2>1, <2>2, <2>3, <2>4, <3>2, <3>3, BehindAsked
  <2> QED  BY <2>5, <2>6
<1>7. CASE Moves
  <2>1. UNCHANGED <<stream, wire, fcIn, off, link, fc, waiting>>
    BY <1>7, MovesStep DEF usbVars, fcVars
  <2>2. \/ pc = "image" /\ pc' = "program" /\ off = 0 /\ ~waiting
        \/ pc = "program" /\ pc' = "crc" /\ off # 0 /\ ~waiting
    <3>1. CASE OpenImage
      BY <1>3, <3>1 DEF OpenImage, Fail, Before, Until, InSession, Sync, LinkInv, TalkInv, Asking
    <3>2. CASE ReadFails
      BY <3>2 DEF ReadFails, Fail, Before, Until, InSession, Sync
    <3>3. CASE Programmed
      <4>1. PICK m \in img : off >= m.size
        BY <3>3 DEF Programmed
      <4>2. m.size \in Nat /\ m.size > 0 /\ off \in Nat
        BY UploadFacts DEF LinkInv, FlashInv, TaskInv
      <4> QED  BY <3>3, <4>1, <4>2 DEF Programmed
    <3> QED  BY <1>7, <3>1, <3>2, <3>3 DEF Moves
  <2>3. Taken' = Taken
    BY <2>1, <2>2 DEF Taken, Sync
  <2>4. Before(op)
    BY <1>3, <2>1, <2>2 DEF Before, Until, InSession, Sync
  <2> QED  BY <1>4, <2>1, <2>3, <2>4
<1>8. CASE Quiet
  <2>1. Before(op) /\ Taken' = Taken
    BY <1>3, <1>8 DEF Quiet, Before, Taken
  <2>2. CASE UNCHANGED <<stream, wire, fcIn, fc>>
    BY <1>4, <2>1, <2>2
  <2>3. CASE /\ wire # <<>> /\ wire' = Tail(wire)
             /\ stream' = Append(stream, Head(wire))
             /\ UNCHANGED <<fcIn, fc>>
    BY <1>1, <1>2, <2>1, <2>3, BehindDeliver
  <2>4. CASE /\ fcIn # <<>> /\ fcIn' = Tail(fcIn) /\ fc.mode = "bl"
             /\ \E r : Reply(fc, Head(fcIn).op, r) /\ wire' = wire \o r
             /\ UNCHANGED stream
    <3>1. PICK r : Reply(fc, Head(fcIn).op, r) /\ wire' = wire \o r
      BY <2>4
    <3>2. r \in Seq(Unit) /\ Len(r) <= 3
      BY <2>4, <3>1, ReplyFacts DEF FlashInv, FcInv
    <3>3. \A i \in DOMAIN r : r[i] \in S => Head(fcIn).op = op /\ i + last <= 3
      BY <2>4, <3>1
    <3> QED  BY <1>1, <1>2, <2>1, <2>4, <3>1, <3>2, <3>3, BehindAnswered
  <2> QED  BY <1>3, <1>8, <2>2, <2>3, <2>4 DEF Quiet
<1> QED
  <2>1. waiting' \/ pc' \in InSession
    BY DEF Before, Until, InSession
  <2> QED  BY <1>3, <1>5, <1>6, <1>7, <1>8, <2>1, SessionStep

-----------------------------------------------------------------------------
(* The CRC, and what is booted.                                            *)

(* All that has been received and not taken, or is on the wire.            *)
Units(s, w) == { s[i] : i \in DOMAIN s } \cup { w[i] : i \in DOMAIN w }

(* Until the CRC is asked for, an earlier CRC is as far behind as its      *)
(* distance from the start of the conversation.                            *)
CrcCount == Before("crc") => Behind(CrcUnits, "crc", 0, Taken, stream, wire, fcIn)

(* The one command of its kind in the queue is the one sent last.          *)
Newest(op, q) ==
  /\ q # <<>> /\ q[Len(q)].op = op
  /\ \A i \in DOMAIN q : q[i].op = op => i = Len(q)

(* Once it is asked for, no other CRC is on the line: either the question  *)
(* is the newest command and no CRC has come, or it is answered, and any   *)
(* CRC is that of the flash as it is now.                                  *)
CrcAsked ==
  link = "open" /\ waiting /\ pc = "crc" =>
    \/ /\ Newest("crc", fcIn)
       /\ Units(stream, wire) \cap CrcUnits = {}
    \/ /\ fcIn = <<>>
       /\ \A x \in Units(stream, wire) : x \in CrcUnits => x[2] = CrcOf(fc.flash)

(* A flash is bootable only if it holds what was there at first or a whole *)
(* upload for this board; BOOT is queued only for such a flash, alone.     *)
BootInv ==
  /\ fc.erased => ~fc.bootable
  /\ fc.bootable => fc.flash.data = Old \/ Whole(fc)
  /\ \A i \in DOMAIN fcIn : fcIn[i].op = "boot" => i = 1 /\ Whole(fc)
  /\ pc = "boot" /\ link = "open" => fcIn = <<>> /\ \E m \in img : fc.flash = m.crc

VerifyInv == CrcCount /\ CrcAsked /\ BootInv

LEMMA UnitsMove ==
  ASSUME NEW s \in Seq(Unit), NEW w \in Seq(Unit)
  PROVE  /\ Units(<<>>, w) \subseteq Units(s, w)
         /\ w # <<>> => Units(Append(s, Head(w)), Tail(w)) \subseteq Units(s, w)
         /\ \A r \in Seq(Unit) : Units(s, w \o r) \subseteq Units(s, w) \cup { r[i] : i \in DOMAIN r }
<1>1. Units(<<>>, w) \subseteq Units(s, w)
  BY DEF Units
<1>2. ASSUME w # <<>> PROVE Units(Append(s, Head(w)), Tail(w)) \subseteq Units(s, w)
  <2> DEFINE s2 == Append(s, Head(w))
             w2 == Tail(w)
  <2>1. /\ \A i \in DOMAIN s2 : s2[i] = w[1] \/ (i \in DOMAIN s /\ s2[i] = s[i])
        /\ \A i \in DOMAIN w2 : i + 1 \in DOMAIN w /\ w2[i] = w[i + 1]
        /\ 1 \in DOMAIN w
    BY <1>2
  <2> HIDE DEF s2, w2
  <2>2. Units(s2, w2) \subseteq Units(s, w)
    BY <2>1 DEF Units
  <2> QED  BY <2>2 DEF s2, w2
<1>3. ASSUME NEW r \in Seq(Unit)
      PROVE  Units(s, w \o r) \subseteq Units(s, w) \cup { r[i] : i \in DOMAIN r }
  <2> DEFINE v == w \o r
  <2>1. \A i \in DOMAIN v : \/ i \in DOMAIN w /\ v[i] = w[i]
                            \/ i - Len(w) \in DOMAIN r /\ v[i] = r[i - Len(w)]
    OBVIOUS
  <2> HIDE DEF v
  <2>2. Units(s, v) \subseteq Units(s, w) \cup { r[i] : i \in DOMAIN r }
    BY <2>1 DEF Units
  <2> QED  BY <2>2 DEF v
<1> QED  BY <1>1, <1>2, <1>3

LEMMA NewestAsked ==
  ASSUME NEW q \in Seq(Cmd), NEW c \in Cmd, \A i \in DOMAIN q : q[i].op # c.op
  PROVE  Newest(c.op, Append(q, c))
<1> DEFINE n == Append(q, c)
<1>1. /\ n # <<>> /\ Len(n) = Len(q) + 1 /\ n[Len(q) + 1] = c
      /\ \A i \in 1 .. Len(q) : n[i] = q[i]
      /\ n \in Seq(Cmd) /\ Len(q) \in Nat
  BY AppendProperties
<1>2. \A i \in DOMAIN n : i \in 1 .. Len(q) \/ i = Len(q) + 1
  BY <1>1
<1> HIDE DEF n
<1>3. \A i \in DOMAIN n : n[i].op = c.op => i = Len(n)
  BY <1>1, <1>2
<1> QED  BY <1>1, <1>3 DEF Newest, n

LEMMA NewestAnswered ==
  ASSUME NEW op, NEW q \in Seq(Cmd), Newest(op, q)
  PROVE  \/ Head(q).op = op /\ Tail(q) = <<>>
         \/ Head(q).op # op /\ Newest(op, Tail(q))
<1>1. Len(q) \in Nat /\ Len(q) >= 1 /\ Head(q) = q[1] /\ 1 \in DOMAIN q
  BY DEF Newest
<1>2. CASE Len(q) = 1
  <2>1. Head(q).op = op
    BY <1>1, <1>2 DEF Newest
  <2>2. Tail(q) \in Seq(Cmd) /\ Len(Tail(q)) = 0
    BY <1>1, <1>2
  <2>3. Tail(q) = <<>>
    <3>1. \A v \in Seq(Cmd) : Len(v) = 0 => v = <<>>
      OBVIOUS
    <3> QED  BY <2>2, <3>1
  <2> QED  BY <2>1, <2>3
<1>3. CASE Len(q) > 1
  <2> DEFINE v == Tail(q)
  <2>1. Head(q).op # op
    BY <1>1, <1>3 DEF Newest
  <2>2. /\ v \in Seq(Cmd) /\ Len(v) = Len(q) - 1
        /\ \A i \in DOMAIN v : i \in Nat /\ i + 1 \in DOMAIN q /\ v[i] = q[i + 1]
    BY <1>1
  <2> HIDE DEF v
  <2>3. Len(v) >= 1 /\ Len(v) \in Nat
    BY <1>1, <1>3, <2>2
  <2>4. v # <<>> /\ Len(v) \in DOMAIN v
    BY <2>2, <2>3
  <2>5. \A i \in DOMAIN v : v[i].op = op => i = Len(v)
    <3> TAKE i \in DOMAIN v
    <3>1. q[i + 1].op = op => i + 1 = Len(q)
      BY <2>2 DEF Newest
    <3> QED  BY <1>1, <2>2, <3>1
  <2>6. v[Len(v)].op = op
    <3>1. v[Len(v)] = q[(Len(q) - 1) + 1]
      BY <2>2, <2>4
    <3> QED  BY <1>1, <3>1 DEF Newest
  <2>7. Newest(op, v)
    BY <2>4, <2>5, <2>6 DEF Newest
  <2> QED  BY <2>1, <2>7 DEF v
<1>4. Len(q) = 1 \/ Len(q) > 1
  <2>1. \A n \in Nat : n >= 1 => n = 1 \/ n > 1
    OBVIOUS
  <2> QED  BY <1>1, <2>1
<1> QED  BY <1>2, <1>3, <1>4

(* Nothing late is left to be taken for an answer.                         *)
LEMMA NoneLate ==
  ASSUME NEW S, NEW op,
         NEW s \in Seq(Unit), NEW w \in Seq(Unit), NEW q \in Seq(Cmd),
         \/ Late <= 9 /\ Behind(S, op, 0, 9, s, w, q)
         \/ Late <= 3 /\ Behind(S, op, 2, 1, s, w, q)
  PROVE  Units(<<>>, w) \cap S = {} /\ \A i \in DOMAIN q : q[i].op # op
<1>1. \A i \in DOMAIN w : w[i] \notin S
  <2> TAKE i \in DOMAIN w
  <2>1. w[i] \in S => \/ Late <= 9 /\ Len(s) + i + 0 + 9 <= Late
                      \/ Late <= 3 /\ Len(s) + i + 2 + 1 <= Late
    BY DEF Behind
  <2>2. i \in Nat \ {0} /\ Len(s) \in Nat
    OBVIOUS
  <2> QED  BY <2>1, <2>2, LateNat
<1>2. \A i \in DOMAIN q : q[i].op # op
  <2> TAKE i \in DOMAIN q
  <2>1. q[i].op = op => \/ Late <= 9 /\ Len(s) + Len(w) + 3 * i + 9 <= Late
                        \/ Late <= 3 /\ Len(s) + Len(w) + 3 * i + 1 <= Late
    BY DEF Behind
  <2>2. i \in Nat \ {0} /\ Len(s) \in Nat /\ Len(w) \in Nat
    OBVIOUS
  <2> QED  BY <2>1, <2>2, LateNat
<1> QED  BY <1>1, <1>2 DEF Units

LEMMA VerifyInitInv == FlashInit => VerifyInv
<1> SUFFICES ASSUME FlashInit PROVE VerifyInv  OBVIOUS
<1>1. link = "closed" /\ fcIn = <<>> /\ pc = "idle"
  BY DEF FlashInit
<1>2. ~fc.erased /\ fc.flash.data = Old
  <2>1. PICK b \in Boards : fc = Factory(b)  BY DEF FlashInit
  <2> QED  BY <2>1 DEF Factory
<1> QED  BY <1>1, <1>2 DEF VerifyInv, CrcCount, CrcAsked, BootInv, Before

LEMMA CrcCountStep ==
  ASSUME FlashInv, LinkInv, CrcCount, [FlashNext]_flashVars
  PROVE  CrcCount'
<1> SUFFICES ASSUME Before("crc")'
             PROVE  Behind(CrcUnits, "crc", 0, Taken', stream', wire', fcIn')
  BY DEF CrcCount
<1>1. ASSUME NEW o, NEW r, fc.mode = "bl", Reply(fc, o, r), NEW i \in DOMAIN r, r[i] \in CrcUnits
      PROVE  o = "crc" /\ i + 0 <= 3
  <2>1. r \in Seq(Unit) /\ Len(r) <= 3 /\ o = "crc"
    BY <1>1, ReplyFacts DEF FlashInv, FcInv
  <2> QED  BY <2>1
<1>2. \A o, r : fc.mode = "bl" /\ Reply(fc, o, r) =>
        \A i \in DOMAIN r : r[i] \in CrcUnits => o = "crc" /\ i + 0 <= 3
  BY <1>1
<1>3. \A i \in DOMAIN wire : wire[i] \in CrcUnits => i + 0 <= Len(wire)
  BY DEF LinkInv, WireInv
<1>4. Before("crc") => Behind(CrcUnits, "crc", 0, Taken, stream, wire, fcIn)
  BY DEF CrcCount
<1> HIDE DEF CrcCount
<1> QED  BY <1>2, <1>3, <1>4, CountStep

(* Nine units have been taken before the CRC is asked for: with no more    *)
(* than that late, nothing late is left to be taken for its answer.        *)
LEMMA CrcAskedStep ==
  ASSUME Late <= 9, FlashInv, LinkInv, VerifyInv, [FlashNext]_flashVars
  PROVE  CrcAsked'
<1> SUFFICES ASSUME link' = "open", waiting', pc' = "crc" PROVE CrcAsked'
  BY DEF CrcAsked
<1>1. stream \in Seq(Unit) /\ wire \in Seq(Unit) /\ fcIn \in Seq(Cmd)
  BY DEF LinkInv, WireInv, FlashInv, FcInv
<1>2. CASE Asks
  <2>1. /\ ~waiting /\ stream' = <<>> /\ wire' = wire
        /\ UNCHANGED <<pc, link, fc>>
    BY <1>2, AsksLine, AsksStep DEF taskVars
  <2>2. PICK cmd \in Cmd : fcIn' = Append(fcIn, cmd) /\ cmd.op = "crc"
    BY <1>2, <2>1, AsksCmd DEF Sync
  <2>3. Before("crc") /\ Taken = 9
    BY <2>1 DEF Before, Until, InSession, Sync, Taken, LinkInv, OwnInv
  <2>4. Behind(CrcUnits, "crc", 0, 9, stream, wire, fcIn)
    BY <2>3 DEF VerifyInv, CrcCount
  <2>5. Units(<<>>, wire) \cap CrcUnits = {} /\ \A i \in DOMAIN fcIn : fcIn[i].op # "crc"
    BY <1>1, <2>4, NoneLate
  <2>6. Newest("crc", fcIn')
    BY <1>1, <2>2, <2>5, NewestAsked
  <2> QED  BY <2>1, <2>5, <2>6 DEF CrcAsked
<1>3. CASE Quiet
  <2>1. /\ waiting /\ pc = "crc" /\ link = "open" /\ fc.mode = "bl"
        /\ UNCHANGED <<pc, waiting, link>>
    BY <1>3 DEF Quiet, LinkInv, OwnInv, InSession
  <2>2. CASE UNCHANGED <<stream, wire, fcIn, fc>>
    BY <2>1, <2>2 DEF VerifyInv, CrcAsked
  <2>3. CASE /\ wire # <<>> /\ wire' = Tail(wire)
             /\ stream' = Append(stream, Head(wire))
             /\ UNCHANGED <<fcIn, fc>>
    <3>1. Units(stream', wire') \subseteq Units(stream, wire)
      BY <1>1, <2>3, UnitsMove
    <3> QED  BY <2>1, <2>3, <3>1 DEF VerifyInv, CrcAsked
  <2>4. CASE /\ fcIn # <<>> /\ fcIn' = Tail(fcIn)
             /\ Head(fcIn).op \notin {"erase", "program"} => fc' = fc
             /\ \E r : Reply(fc, Head(fcIn).op, r) /\ wire' = wire \o r
             /\ UNCHANGED stream
    <3>1. PICK r : Reply(fc, Head(fcIn).op, r) /\ wire' = wire \o r
      BY <2>4
    <3>2. /\ r \in Seq(Unit)
          /\ \A i \in DOMAIN r : r[i] \in CrcUnits =>
               Head(fcIn).op = "crc" /\ r[i][2] = CrcOf(fc.flash)
      BY <2>1, <3>1, ReplyFacts DEF FlashInv, FcInv
    <3>3. Units(stream', wire') \subseteq Units(stream, wire) \cup { r[i] : i \in DOMAIN r }
      BY <1>1, <2>4, <3>1, <3>2, UnitsMove
    <3>4. Newest("crc", fcIn) /\ Units(stream, wire) \cap CrcUnits = {}
      BY <2>1, <2>4 DEF VerifyInv, CrcAsked
    <3>5. CASE Head(fcIn).op = "crc"
      <4>1. fcIn' = <<>> /\ fc' = fc
        BY <1>1, <2>4, <3>4, <3>5, NewestAnswered
      <4>2. \A x \in Units(stream', wire') : x \in CrcUnits => x[2] = CrcOf(fc.flash)
        BY <3>2, <3>3, <3>4
      <4> QED  BY <4>1, <4>2 DEF CrcAsked
    <3>6. CASE Head(fcIn).op # "crc"
      <4>1. Newest("crc", fcIn')
        BY <1>1, <2>4, <3>4, <3>6, NewestAnswered
      <4>2. Units(stream', wire') \cap CrcUnits = {}
        BY <3>2, <3>3, <3>4, <3>6
      <4> QED  BY <4>1, <4>2 DEF CrcAsked
    <3> QED  BY <3>5, <3>6
  <2> QED  BY <1>3, <2>1, <2>2, <2>3, <2>4 DEF Quiet
<1>4. CASE Takes
  BY <1>4, TakesStep
<1>5. CASE Moves
  BY <1>5 DEF Moves, OpenImage, ReadFails, Programmed, Fail, usbVars, LinkInv, TalkInv, Asking, Sync
<1> QED  BY <1>2, <1>3, <1>4, <1>5, SessionStep

(* The task's steps leave the flight controller alone; what they queue is  *)
(* BOOT only where the CRC has just been checked.                          *)
LEMMA BootTaskStep ==
  ASSUME FlashInv, LinkInv, VerifyInv, TaskStep
  PROVE  BootInv'
<1>1. fcIn \in Seq(Cmd)
  BY DEF FlashInv, FcInv
<1>2. fc' = fc
  BY TakesStep, AsksStep, MovesStep, TellsStep
  DEF TaskStep, Takes, Asks, Moves, Tells, Begin, OpenFc, AwaitReboot, Finish, fcVars
<1>3. \A i \in DOMAIN fcIn' : fcIn'[i].op = "boot" => i = 1 /\ Whole(fc)
  <2>1. CASE fcIn' = fcIn
    BY <2>1 DEF VerifyInv, BootInv
  <2>2. ASSUME NEW cmd \in Cmd, fcIn' = Append(fcIn, cmd), cmd.op # "boot"
        PROVE  \A i \in DOMAIN fcIn' : fcIn'[i].op = "boot" => i = 1 /\ Whole(fc)
    <3>1. \A i \in DOMAIN fcIn' : fcIn'[i] = cmd \/ (i \in DOMAIN fcIn /\ fcIn'[i] = fcIn[i])
      BY <1>1, <2>2
    <3> QED  BY <2>2, <3>1 DEF VerifyInv, BootInv
  <2>3. CASE SendBoot /\ fcIn' # fcIn
    <3>1. pc = "boot" /\ link = "open" /\ fcIn' = Append(fcIn, [op |-> "boot"])
      BY <2>3 DEF SendBoot
    <3>2. PICK m \in img : m.board = fc.board
      BY <3>1 DEF LinkInv, OwnInv
    <3>3. fcIn = <<>> /\ fc.flash = m.crc
      BY <3>1 DEF VerifyInv, BootInv, FlashInv, TaskInv
    <3>4. Whole(fc)
      BY <3>2, <3>3, UploadFacts DEF Whole, LinkInv
    <3>5. fcIn' = << [op |-> "boot"] >>
      BY <3>1, <3>3
    <3> QED  BY <3>4, <3>5
  <2>4. CASE Asks
    <3>1. PICK cmd \in Cmd : /\ fcIn' = Append(fcIn, cmd)
                             /\ IF pc \in Sync THEN cmd.op = "sync" ELSE cmd.op = pc
      BY <2>4, AsksCmd
    <3>2. pc # "boot"
      BY <2>4 DEF Asks, AskSync, AskIdentity, AskErase, SendChunk, AskCrc, Sync
    <3> QED  BY <2>2, <3>1, <3>2
  <2>5. CASE RequestReboot /\ fcIn' # fcIn
    <3>1. [op |-> "reboot"] \in Cmd
      BY DEF Cmd
    <3>2. fcIn' = Append(fcIn, [op |-> "reboot"])
      BY <2>5 DEF RequestReboot
    <3> QED  BY <2>2, <3>1, <3>2
  <2>6. CASE Takes \/ Moves \/ Begin \/ OpenFc \/ AwaitReboot \/ Finish
    BY <2>1, <2>6, TakesStep, MovesStep DEF Begin, OpenFc, AwaitReboot, Finish, fcVars
  <2> QED
    BY <2>1, <2>3, <2>4, <2>5, <2>6 DEF TaskStep, Takes, Asks, Moves
<1>4. ASSUME pc' = "boot", link' = "open"
      PROVE  fcIn' = <<>> /\ \E m \in img' : fc'.flash = m.crc
  <2>1. CASE CrcDone
    <3>1. PICK m \in img : Collected(3) /\ Reads = Halves(CrcOf(m.crc))
      BY <1>4, <2>1 DEF CrcDone, Fail
    <3>2. waiting /\ Len(stream) >= 3 /\ pc = "crc" /\ link = "open" /\ img' = img /\ fcIn' = fcIn
      BY <1>4, <2>1, <3>1, TakesStep DEF Collected, CrcDone, Takes
    <3>3. stream[1] = <<"lo", CrcOf(m.crc)>>
      BY <3>1 DEF Reads, Halves
    <3>4. 1 \in DOMAIN stream
      BY <3>2 DEF LinkInv, WireInv
    <3>5. CrcOf(m.crc) \in [crc: FcContent]
      BY UploadFacts DEF LinkInv, CrcOf
    <3>6. stream[1] \in CrcUnits /\ stream[1] \in Units(stream, wire)
      BY <3>3, <3>4, <3>5 DEF CrcUnits, Units
    <3>7. fcIn = <<>> /\ stream[1][2] = CrcOf(fc.flash)
      BY <3>2, <3>6 DEF VerifyInv, CrcAsked
    <3>8. m.crc = fc.flash
      BY <3>3, <3>7, WordsDiffer
    <3> QED  BY <1>2, <3>2, <3>7, <3>8
  <2>2. CASE Takes /\ ~CrcDone
    BY <1>4, <2>2 DEF Takes, SyncDone, RevDone, BoardDone, SizeDone, EraseDone, ChunkDone, Fail, Sync
  <2>3. CASE Asks
    BY <1>4, <2>3, AsksStep DEF taskVars, Asks, AskSync, AskIdentity, AskErase, SendChunk, AskCrc, Sync
  <2>4. CASE Moves \/ Tells \/ Begin \/ OpenFc \/ AwaitReboot \/ Finish
    BY <1>4, <2>4
    DEF Moves, OpenImage, ReadFails, Programmed, Tells, RequestReboot, SendBoot, Begin, OpenFc,
        AwaitReboot, Finish, Fail
  <2> QED
    BY <2>1, <2>2, <2>3, <2>4 DEF TaskStep, Takes, Asks, Moves, Tells
<1> QED
  BY <1>2, <1>3, <1>4 DEF VerifyInv, BootInv

(* The flight controller boots, or its bootloader takes the flash for      *)
(* bootable, only on a BOOT.                                               *)
LEMMA BootFcStep ==
  ASSUME FlashInv, LinkInv, VerifyInv, FcStep
  PROVE  BootInv'
<1>1. fcIn \in Seq(Cmd) /\ wire \in Seq(Unit)
  BY DEF FlashInv, FcInv, LinkInv, WireInv
<1>2. pc' = pc /\ img' = img
  BY FcStepFrame DEF taskVars
<1>3. ASSUME fcIn # <<>>, fcIn' = Tail(fcIn), NEW i \in DOMAIN fcIn'
      PROVE  fcIn'[i].op # "boot"
  <2>1. i \in Nat \ {0} /\ i + 1 \in DOMAIN fcIn /\ fcIn'[i] = fcIn[i + 1]
    BY <1>1, <1>3
  <2>2. fcIn[i + 1].op = "boot" => i + 1 = 1
    BY <2>1 DEF VerifyInv, BootInv
  <2> QED  BY <2>1, <2>2
<1>4. ASSUME fc' \in {fc, Gone}, fcIn' = <<>> \/ (fcIn # <<>> /\ fcIn' = Tail(fcIn)),
             ~(pc = "boot" /\ link' = "open")
      PROVE  BootInv'
  <2>1. /\ fc'.erased => ~fc'.bootable
        /\ fc'.bootable => fc'.flash.data = Old \/ Whole(fc')
    BY <1>4 DEF VerifyInv, BootInv, Gone, FlashInv, FcInv, Whole
  <2>2. \A i \in DOMAIN fcIn' : fcIn'[i].op # "boot"
    BY <1>3, <1>4
  <2> QED  BY <1>2, <1>4, <2>1, <2>2 DEF BootInv
<1>5. CASE BootloaderAnswers
  <2>1. fcIn # <<>> /\ fcIn' = Tail(fcIn)
    BY <1>5 DEF BootloaderAnswers
  <2>2. \A i \in DOMAIN fcIn' : fcIn'[i].op # "boot"
    BY <1>3, <2>1
  <2>3. CASE Head(fcIn).op = "boot" /\ fc' = [Gone EXCEPT !.bootable = TRUE] /\ Vanish
    <3>1. 1 \in DOMAIN fcIn /\ fcIn[1] = Head(fcIn)
      BY <1>1, <2>1
    <3>2. Whole(fc)
      BY <2>3, <3>1 DEF VerifyInv, BootInv
    <3>3. /\ fc'.flash = fc.flash /\ fc'.board = fc.board /\ ~fc'.erased
      BY <2>3 DEF Gone, FlashInv, FcInv
    <3>4. link' # "open"
      BY <2>3 DEF Vanish
    <3> QED  BY <2>2, <3>2, <3>3, <3>4 DEF BootInv, Whole
  <2>4. CASE ~(Head(fcIn).op = "boot" /\ fc' = [Gone EXCEPT !.bootable = TRUE] /\ Vanish)
    <3>1. /\ link' = link
          /\ (fc.erased => ~fc.bootable) =>
               /\ fc'.erased => ~fc'.bootable
               /\ fc'.bootable => fc' = fc
      BY <1>1, <1>5, <2>4, AnswersStep
    <3>2. ~(pc = "boot" /\ link = "open")
      BY <2>1 DEF VerifyInv, BootInv
    <3> QED  BY <1>2, <2>2, <3>1, <3>2 DEF VerifyInv, BootInv
  <2> QED  BY <2>3, <2>4
<1>6. CASE ApplicationAnswers
  <2>1. fc.mode = "app" /\ fcIn # <<>> /\ fcIn' \in {<<>>, Tail(fcIn)} /\ fc' \in {fc, Gone}
        /\ (link' = "open" => link = "open")
    BY <1>6 DEF ApplicationAnswers, Vanish
  <2>2. ~(pc = "boot" /\ link' = "open")
    BY <2>1 DEF LinkInv, OwnInv
  <2> QED  BY <1>4, <2>1, <2>2
<1>7. CASE Chatter
  BY <1>2, <1>7 DEF Chatter, usbVars, VerifyInv, BootInv
<1>8. CASE FcVanishes
  BY <1>4, <1>8 DEF FcVanishes, Vanish
<1>9. CASE FcReturns
  <2>1. /\ fcIn' = <<>> /\ link' # "open"
        /\ \/ fc' = [fc EXCEPT !.mode = "bl"]
           \/ fc' = [fc EXCEPT !.mode = "app"]
           \/ \E b \in Boards : fc' = Factory(b)
    BY <1>9 DEF FcReturns, usbVars
  <2>2. CASE \E b \in Boards : fc' = Factory(b)
    BY <2>1, <2>2 DEF Factory, BootInv
  <2>3. CASE fc' = [fc EXCEPT !.mode = "bl"] \/ fc' = [fc EXCEPT !.mode = "app"]
    <3>1. fc'.flash = fc.flash /\ fc'.board = fc.board /\ fc'.erased = fc.erased /\ fc'.bootable = fc.bootable
      BY <2>3 DEF FlashInv, FcInv
    <3>2. (fc'.erased => ~fc'.bootable) /\ (fc'.bootable => fc'.flash.data = Old \/ Whole(fc'))
      BY <3>1 DEF VerifyInv, BootInv, Whole
    <3> QED  BY <2>1, <3>2 DEF BootInv
  <2> QED  BY <2>1, <2>2, <2>3
<1> QED  BY <1>5, <1>6, <1>7, <1>8, <1>9 DEF FcStep

LEMMA VerifyStepInv ==
  ASSUME Late <= 9, FlashInv, LinkInv, VerifyInv, [FlashNext]_flashVars
  PROVE  VerifyInv'
<1>1. CrcCount'  BY CrcCountStep DEF VerifyInv
<1>2. CrcAsked'  BY CrcAskedStep
<1>3. BootInv'
  <2>1. CASE UNCHANGED <<pc, img, fc, fcIn>> /\ (link' = "open" => link = "open")
    BY <2>1 DEF VerifyInv, BootInv
  <2>2. CASE \/ HttpStep /\ UNCHANGED <<taskVars, waiting, usbVars, fcVars>>
             \/ UNCHANGED flashVars \/ Deliver \/ UsbDisconnect
    BY <2>1, <2>2 DEF taskVars, usbVars, fcVars, flashVars, Deliver, UsbDisconnect
  <2>3. CASE StartFlash \/ PowerCut
    <3>1. pc' # "boot" /\ UNCHANGED <<fc, fcIn>>
      BY <2>3 DEF StartFlash, PowerCut, fcVars, FlashInv, SlotInv
    <3> QED  BY <3>1 DEF VerifyInv, BootInv
  <2> QED
    BY <2>2, <2>3, BootTaskStep, BootFcStep DEF FlashNext, WebStep
<1> QED  BY <1>1, <1>2, <1>3 DEF VerifyInv

(* The conversation's invariant holds whatever is late.                    *)
LEMMA LinkInvariant == FlashSpec => []LinkInv
<1>1. FlashInv /\ LinkInv /\ [FlashNext]_flashVars => LinkInv'
  BY LinkStepInv
<1> QED  BY <1>1, LinkInitInv, FlashInvariant, PTL DEF FlashSpec

LEMMA VerifyInvariant ==
  ASSUME Late <= 9
  PROVE  FlashSpec => []VerifyInv
<1>1. FlashInv /\ LinkInv /\ VerifyInv /\ [FlashNext]_flashVars => VerifyInv'
  BY VerifyStepInv
<1> QED  BY <1>1, VerifyInitInv, FlashInvariant, LinkInvariant, PTL DEF FlashSpec

(* What the flight controller boots is what it came with or a whole upload *)
(* for its own board: BOOT goes out only after a CRC that is the answer to *)
(* this flash's own question (flash_task).                                 *)
THEOREM OnlyVerifiedBoots ==
  ASSUME Late <= 9
  PROVE  FlashSpec => []BootsOnlyVerified
<1>1. VerifyInv => BootsOnlyVerified
  BY DEF VerifyInv, BootInv, BootsOnlyVerified, Whole
<1> QED  BY <1>1, VerifyInvariant, PTL

(* The job ends with `done' and the port open only if the flash holds the  *)
(* image that was sent.                                                    *)
THEOREM DoneOnlyWhenWritten ==
  ASSUME Late <= 9
  PROVE  FlashSpec => DoneMeansWritten
<1>1. FlashInv /\ VerifyInv /\ [FlashNext]_flashVars =>
        [ state' = "done" /\ state # "done" /\ link = "open" =>
            \E m \in img : fc.flash = m.crc ]_flashVars
  <2> SUFFICES ASSUME FlashInv, VerifyInv, FlashNext, state' = "done", state # "done", link = "open"
               PROVE  \E m \in img : fc.flash = m.crc
    OBVIOUS
  <2>1. CASE SendBoot
    BY <2>1 DEF SendBoot, VerifyInv, BootInv
  <2>2. CASE Takes
    BY <2>2 DEF Takes, SyncDone, RevDone, BoardDone, SizeDone, EraseDone, ChunkDone, CrcDone, Fail
  <2>3. CASE Asks \/ Moves
    BY <2>3, AsksStep DEF taskVars, Moves, OpenImage, ReadFails, Programmed, Fail
  <2>4. CASE RequestReboot \/ Begin \/ OpenFc \/ AwaitReboot \/ Finish \/ StartFlash \/ PowerCut
    BY <2>4 DEF RequestReboot, Begin, OpenFc, AwaitReboot, Finish, StartFlash, PowerCut, Fail
  <2>5. CASE HttpStep /\ UNCHANGED <<taskVars, waiting, usbVars, fcVars>>
    BY <2>5 DEF taskVars
  <2>6. CASE Deliver \/ UsbDisconnect \/ FcStep
    BY <2>6, FcStepFrame DEF Deliver, UsbDisconnect, taskVars
  <2> QED
    BY <2>1, <2>2, <2>3, <2>4, <2>5, <2>6
    DEF FlashNext, WebStep, TaskStep, Takes, Asks, Moves
<1> QED  BY <1>1, FlashInvariant, VerifyInvariant, PTL DEF FlashSpec, DoneMeansWritten

-----------------------------------------------------------------------------
(* The board id, and what is erased.                                       *)

(* The unit that names the image's board.                                  *)
Mine == { Lo(m.board) : m \in img }

(* Until the board id is asked for, an earlier one is as far behind as its *)
(* distance from the start of the conversation.                            *)
IdCount == Before("board") => Behind(Mine, "board", 2, Taken, stream, wire, fcIn)

(* Once it is asked for, either the question is the newest command and no  *)
(* id has come, or it is answered, and the id is followed by the rest of   *)
(* its answer and nothing else.                                            *)
IdAsked ==
  link = "open" /\ waiting /\ pc = "board" =>
    \/ /\ Newest("board", fcIn)
       /\ Units(stream, wire) \cap Mine = {}
    \/ /\ fcIn = <<>>
       /\ \A i \in DOMAIN stream : stream[i] \in Mine => i + 2 = Len(stream) + Len(wire)
       /\ \A i \in DOMAIN wire : wire[i] \in Mine => i + 2 = Len(wire)

(* The board id that was read is the image's; and the answer to the        *)
(* question for the flash size.                                            *)
Matches == \E m \in img : boardId = Halves(Number(m.board))
SizeReply == WordReply(Number(FlashSize[fc.board]))

(* With the image's own board id read, the line is empty until the flash   *)
(* size is asked for, and then carries its answer only.                    *)
SizeInv ==
  link = "open" /\ pc = "size" /\ Matches =>
    IF waiting
      THEN \/ Len(fcIn) = 1 /\ Head(fcIn).op = "size" /\ stream \o wire = <<>>
           \/ fcIn = <<>> /\ stream \o wire \in {<<>>, <<Bad>>, <<Ok>>, SizeReply}
      ELSE fcIn = <<>> /\ stream = <<>> /\ wire = <<>>

(* An erase is asked for only where the image fits.                        *)
RoomInv ==
  link = "open" /\ pc = "erase" => \E m \in img : m.board = fc.board /\ m.size <= FlashSize[fc.board]

EraseInv == IdCount /\ IdAsked /\ SizeInv /\ RoomInv

(* An id of the image's board comes only as the first unit of the answer   *)
(* to that question: no revision and no flash size equals it               *)
(* (FlashAssumption).                                                      *)
LEMMA MineFacts ==
  ASSUME FlashInv, LinkInv
  PROVE  /\ \A i \in DOMAIN wire : wire[i] \in Mine => i + 2 <= Len(wire)
         /\ \A o, r : fc.mode = "bl" /\ Reply(fc, o, r) =>
              \A i \in DOMAIN r : r[i] \in Mine => o = "board" /\ i + 2 = Len(r) /\ Len(r) = 3
<1>1. \A x \in Mine : x[1] = "lo"
  BY DEF Mine, Lo
<1>2. \A i \in DOMAIN wire : wire[i] \in Mine => i + 2 <= Len(wire)
  BY <1>1 DEF LinkInv, WireInv
<1>3. ASSUME NEW o, NEW r, fc.mode = "bl", Reply(fc, o, r), NEW i \in DOMAIN r, r[i] \in Mine
      PROVE  o = "board" /\ i + 2 = Len(r) /\ Len(r) = 3
  <2>1. PICK m \in img : r[i] = Lo(m.board)
    BY <1>3 DEF Mine
  <2>2. fc.board \in Boards /\ fc.flash \in FcContent
    BY DEF FlashInv, FcInv
  <2>3. o \in {"rev", "board", "size"} /\ i = 1 /\ Len(r) = 3 /\ Number(m.board) = Word(fc, o)
    BY <1>3, <2>1, <2>2, ReplyFacts
  <2>4. m.board # BlRev /\ m.board # FlashSize[fc.board]
    BY <2>2, UploadFacts DEF LinkInv
  <2>5. o = "board"
    BY <2>3, <2>4, WordsDiffer DEF Word
  <2> QED  BY <2>3, <2>5
<1> QED  BY <1>2, <1>3

LEMMA EraseInitInv == FlashInit => EraseInv
<1> SUFFICES ASSUME FlashInit PROVE EraseInv  OBVIOUS
<1>1. link = "closed"
  BY DEF FlashInit
<1> QED  BY <1>1 DEF EraseInv, IdCount, IdAsked, SizeInv, RoomInv, Before

LEMMA SameImg ==
  ASSUME FlashInv, LinkInv, [FlashNext]_flashVars,
         link' = "open", waiting' \/ pc' \in InSession \cup {"boot"}
  PROVE  img' = img /\ Mine' = Mine
<1>1. img' = img
  BY SessionStep, TakesStep, AsksStep, MovesStep DEF taskVars, Quiet
<1> QED  BY <1>1 DEF Mine

LEMMA IdCountStep ==
  ASSUME FlashInv, LinkInv, IdCount, [FlashNext]_flashVars
  PROVE  IdCount'
<1> SUFFICES ASSUME Before("board")'
             PROVE  Behind(Mine', "board", 2, Taken', stream', wire', fcIn')
  BY DEF IdCount
<1>1. PICK S : S = Mine
  OBVIOUS
<1>2. Mine' = S
  <2>1. link' = "open" /\ (waiting' \/ pc' \in InSession \cup {"boot"})
    BY DEF Before, Until, InSession
  <2> QED  BY <1>1, <2>1, SameImg
<1>3. Before("board") => Behind(S, "board", 2, Taken, stream, wire, fcIn)
  BY <1>1 DEF IdCount
<1>4. \A o, r : fc.mode = "bl" /\ Reply(fc, o, r) =>
        \A i \in DOMAIN r : r[i] \in S => o = "board" /\ i + 2 <= 3
  BY <1>1, MineFacts
<1>5. \A i \in DOMAIN wire : wire[i] \in S => i + 2 <= Len(wire)
  BY <1>1, MineFacts
<1>6. Behind(S, "board", 2, Taken', stream', wire', fcIn')
  BY <1>3, <1>4, <1>5, CountStep
<1> QED  BY <1>2, <1>6

(* With three units late at most, one of which the sync's status was, no   *)
(* whole word from before is left when the id is asked for.                *)
LEMMA IdAskedStep ==
  ASSUME Late <= 3, FlashInv, LinkInv, EraseInv, [FlashNext]_flashVars
  PROVE  IdAsked'
<1> SUFFICES ASSUME link' = "open", waiting', pc' = "board" PROVE IdAsked'
  BY DEF IdAsked
<1>1. stream \in Seq(Unit) /\ wire \in Seq(Unit) /\ fcIn \in Seq(Cmd)
  BY DEF LinkInv, WireInv, FlashInv, FcInv
<1>0. Mine' = Mine
  BY SameImg
<1>2. CASE Asks
  <2>1. /\ ~waiting /\ stream' = <<>> /\ wire' = wire
        /\ UNCHANGED <<pc, link, fc>>
    BY <1>2, AsksLine, AsksStep DEF taskVars
  <2>2. PICK cmd \in Cmd : fcIn' = Append(fcIn, cmd) /\ cmd.op = "board"
    BY <1>2, <2>1, AsksCmd DEF Sync
  <2>3. Before("board") /\ Taken = 1
    BY <2>1 DEF Before, Until, InSession, Sync, Taken, LinkInv, OwnInv
  <2>4. Behind(Mine, "board", 2, 1, stream, wire, fcIn)
    BY <2>3 DEF EraseInv, IdCount
  <2>5. Units(<<>>, wire) \cap Mine = {} /\ \A i \in DOMAIN fcIn : fcIn[i].op # "board"
    BY <1>1, <2>4, NoneLate
  <2>6. Newest("board", fcIn')
    BY <1>1, <2>2, <2>5, NewestAsked
  <2> QED  BY <1>0, <2>1, <2>5, <2>6 DEF IdAsked
<1>3. CASE Quiet
  <2>1. /\ waiting /\ pc = "board" /\ link = "open" /\ fc.mode = "bl"
        /\ UNCHANGED <<pc, waiting, link>>
    BY <1>3 DEF Quiet, LinkInv, OwnInv, InSession
  <2>2. Len(stream) \in Nat /\ Len(wire) \in Nat /\ DOMAIN stream = 1 .. Len(stream) /\ DOMAIN wire = 1 .. Len(wire)
    BY <1>1
  <2>3. CASE UNCHANGED <<stream, wire, fcIn, fc>>
    BY <1>0, <2>1, <2>3 DEF EraseInv, IdAsked
  <2>4. CASE /\ wire # <<>> /\ wire' = Tail(wire)
             /\ stream' = Append(stream, Head(wire))
             /\ UNCHANGED <<fcIn, fc>>
    <3>1. Units(stream', wire') \subseteq Units(stream, wire)
      BY <1>1, <2>4, UnitsMove
    <3>2. CASE Units(stream, wire) \cap Mine = {} /\ Newest("board", fcIn)
      BY <1>0, <2>4, <3>1, <3>2 DEF IdAsked
    <3>3. CASE /\ fcIn = <<>>
               /\ \A i \in DOMAIN stream : stream[i] \in Mine => i + 2 = Len(stream) + Len(wire)
               /\ \A i \in DOMAIN wire : wire[i] \in Mine => i + 2 = Len(wire)
      <4>1. /\ Len(stream') = Len(stream) + 1 /\ Len(wire') = Len(wire) - 1 /\ Len(wire) >= 1
            /\ \A i \in DOMAIN stream' : \/ i = Len(stream) + 1 /\ stream'[i] = wire[1]
                                         \/ i \in DOMAIN stream /\ stream'[i] = stream[i]
            /\ \A i \in DOMAIN wire' : i \in Nat /\ i + 1 \in DOMAIN wire /\ wire'[i] = wire[i + 1]
            /\ 1 \in DOMAIN wire
        BY <1>1, <2>4
      <4>2. \A i \in DOMAIN stream' : stream'[i] \in Mine => i + 2 = Len(stream') + Len(wire')
        <5> TAKE i \in DOMAIN stream'
        <5> HAVE stream'[i] \in Mine
        <5>1. CASE i = Len(stream) + 1 /\ stream'[i] = wire[1]
          <6>1. 1 + 2 = Len(wire)
            BY <3>3, <4>1, <5>1
          <6>2. \A a, b \in Nat : 1 + 2 = b => (a + 1) + 2 = (a + 1) + (b - 1)
            OBVIOUS
          <6> QED  BY <2>2, <4>1, <5>1, <6>1, <6>2
        <5>2. CASE i \in DOMAIN stream /\ stream'[i] = stream[i]
          <6>1. i + 2 = Len(stream) + Len(wire)
            BY <3>3, <5>2
          <6> QED  BY <2>2, <4>1, <6>1
        <5> QED  BY <4>1, <5>1, <5>2
      <4>3. \A i \in DOMAIN wire' : wire'[i] \in Mine => i + 2 = Len(wire')
        <5> TAKE i \in DOMAIN wire'
        <5>1. wire[i + 1] \in Mine => (i + 1) + 2 = Len(wire)
          BY <3>3, <4>1
        <5> QED  BY <2>2, <4>1, <5>1
      <4> QED  BY <1>0, <2>4, <3>3, <4>2, <4>3 DEF IdAsked
    <3> QED  BY <2>1, <3>2, <3>3 DEF EraseInv, IdAsked
  <2>5. CASE /\ fcIn # <<>> /\ fcIn' = Tail(fcIn)
             /\ \E r : Reply(fc, Head(fcIn).op, r) /\ wire' = wire \o r
             /\ UNCHANGED stream
    <3>1. PICK r : Reply(fc, Head(fcIn).op, r) /\ wire' = wire \o r
      BY <2>5
    <3>2. r \in Seq(Unit)
      BY <2>1, <3>1, ReplyFacts DEF FlashInv, FcInv
    <3>3. \A i \in DOMAIN r : r[i] \in Mine => Head(fcIn).op = "board" /\ i + 2 = Len(r)
      BY <2>1, <3>1, MineFacts
    <3>4. Newest("board", fcIn) /\ Units(stream, wire) \cap Mine = {}
      BY <2>1, <2>5 DEF EraseInv, IdAsked
    <3>5. CASE Head(fcIn).op = "board"
      <4>1. fcIn' = <<>>
        BY <1>1, <2>5, <3>4, <3>5, NewestAnswered
      <4>2. \A i \in DOMAIN stream : stream[i] \notin Mine
        BY <3>4 DEF Units
      <4>3. /\ Len(wire') = Len(wire) + Len(r) /\ DOMAIN wire' \subseteq Nat /\ Len(r) \in Nat
            /\ \A i \in DOMAIN wire' : \/ i \in DOMAIN wire /\ wire'[i] = wire[i]
                                       \/ i - Len(wire) \in DOMAIN r /\ wire'[i] = r[i - Len(wire)]
        BY <1>1, <3>1, <3>2
      <4>4. \A i \in DOMAIN wire : wire[i] \notin Mine
        BY <3>4 DEF Units
      <4>5. \A i \in DOMAIN wire' : wire'[i] \in Mine => i + 2 = Len(wire')
        <5> TAKE i \in DOMAIN wire'
        <5> HAVE wire'[i] \in Mine
        <5>1. i - Len(wire) \in DOMAIN r /\ wire'[i] = r[i - Len(wire)]
          BY <4>3, <4>4
        <5>2. (i - Len(wire)) + 2 = Len(r)
          BY <3>3, <5>1
        <5>3. i \in Nat
          BY <4>3
        <5> QED  BY <2>2, <4>3, <5>2, <5>3
      <4> QED  BY <1>0, <2>5, <4>1, <4>2, <4>5 DEF IdAsked
    <3>6. CASE Head(fcIn).op # "board"
      <4>1. Newest("board", fcIn')
        BY <1>1, <2>5, <3>4, <3>6, NewestAnswered
      <4>2. Units(stream', wire') \subseteq Units(stream, wire) \cup { r[i] : i \in DOMAIN r }
        BY <1>1, <2>5, <3>1, <3>2, UnitsMove
      <4>3. Units(stream', wire') \cap Mine = {}
        BY <3>3, <3>4, <3>6, <4>2
      <4> QED  BY <1>0, <4>1, <4>3 DEF IdAsked
    <3> QED  BY <3>5, <3>6
  <2> QED  BY <1>3, <2>1, <2>3, <2>4, <2>5 DEF Quiet
<1>4. CASE Takes
  BY <1>4, TakesStep
<1>5. CASE Moves
  BY <1>5 DEF Moves, OpenImage, ReadFails, Programmed, Fail, usbVars
<1> QED  BY <1>2, <1>3, <1>4, <1>5, SessionStep

LEMMA LineKept ==
  ASSUME NEW s \in Seq(Unit), NEW w \in Seq(Unit), w # <<>>
  PROVE  Append(s, Head(w)) \o Tail(w) = s \o w
<1> DEFINE a == Append(s, Head(w)) \o Tail(w)
           b == s \o w
<1>1. a \in Seq(Unit) /\ b \in Seq(Unit) /\ Len(a) = Len(s) + Len(w) /\ Len(b) = Len(s) + Len(w)
  OBVIOUS
<1>2. \A i \in 1 .. Len(s) + Len(w) : a[i] = b[i]
  OBVIOUS
<1> HIDE DEF a, b
<1> QED  BY <1>1, <1>2, SeqEqual DEF a, b

(* The id's answer is taken whole; what follows is the size's.             *)
LEMMA SizeStep ==
  ASSUME FlashInv, LinkInv, EraseInv, [FlashNext]_flashVars
  PROVE  SizeInv'
<1> SUFFICES ASSUME link' = "open", pc' = "size", Matches' PROVE SizeInv'
  BY DEF SizeInv
<1>1. stream \in Seq(Unit) /\ wire \in Seq(Unit) /\ fcIn \in Seq(Cmd)
  BY DEF LinkInv, WireInv, FlashInv, FcInv
<1>2. img' = img
  BY SameImg DEF InSession
<1>3. CASE Takes
  <2>1. BoardDone
    BY <1>3 DEF Takes, SyncDone, RevDone, BoardDone, SizeDone, EraseDone, ChunkDone, CrcDone, Fail, Sync
  <2>2. GotWord /\ boardId' = Reads /\ pc = "board" /\ wire' = wire /\ link = link' /\ fcIn' = fcIn
    BY <1>3, <2>1, TakesStep, TakesLine DEF BoardDone, Fail
  <2>3. waiting /\ Len(stream) >= 3 /\ stream' = SubSeq(stream, 4, Len(stream)) /\ ~waiting'
    BY <2>2 DEF GotWord, Collected
  <2>4. PICK m \in img : boardId' = Halves(Number(m.board))
    BY <1>2 DEF Matches
  <2>5. stream[1] = Lo(m.board) /\ stream[1] \in Mine
    BY <2>2, <2>4 DEF Reads, Halves, Lo, Mine
  <2>6. 1 \in DOMAIN stream /\ Len(stream) \in Nat /\ Len(wire) \in Nat
    BY <1>1, <2>3
  <2>7. fcIn = <<>> /\ 1 + 2 = Len(stream) + Len(wire)
    BY <2>2, <2>3, <2>5, <2>6 DEF EraseInv, IdAsked, Units
  <2>8. Len(stream) = 3 /\ Len(wire) = 0
    <3>1. \A a, b \in Nat : a >= 3 /\ 1 + 2 = a + b => a = 3 /\ b = 0
      OBVIOUS
    <3> QED  BY <2>3, <2>6, <2>7, <3>1
  <2>9. stream' = <<>>
    BY <1>1, <2>3, <2>8
  <2>10. wire' = <<>>
    BY <1>1, <2>2, <2>8
  <2> QED  BY <2>2, <2>3, <2>7, <2>9, <2>10 DEF SizeInv
<1>4. CASE Asks
  <2>1. /\ ~waiting /\ stream' = <<>> /\ wire' = wire /\ waiting'
        /\ UNCHANGED <<pc, boardId, link>>
    BY <1>4, AsksLine, AsksStep DEF taskVars
  <2>2. PICK cmd \in Cmd : fcIn' = Append(fcIn, cmd) /\ cmd.op = "size"
    BY <1>4, <2>1, AsksCmd DEF Sync
  <2>3. fcIn = <<>> /\ wire = <<>>
    BY <1>2, <2>1 DEF EraseInv, SizeInv, Matches
  <2>4. fcIn' = <<cmd>>
    BY <2>2, <2>3
  <2>5. Len(fcIn') = 1 /\ Head(fcIn').op = "size"
    BY <2>2, <2>4
  <2>6. stream' \o wire' = <<>>
    BY <2>1, <2>3
  <2> QED  BY <2>1, <2>5, <2>6 DEF SizeInv
<1>5. CASE Moves
  BY <1>5 DEF Moves, OpenImage, ReadFails, Programmed, Fail
<1>6. CASE Quiet
  <2>1. /\ pc = "size" /\ link = "open" /\ fc.mode = "bl" /\ Matches
        /\ UNCHANGED <<pc, waiting, link>>
    BY <1>2, <1>6 DEF Quiet, LinkInv, OwnInv, InSession, Matches
  <2>2. CASE UNCHANGED <<stream, wire, fcIn, fc>>
    BY <2>1, <2>2 DEF EraseInv, SizeInv, SizeReply
  <2>3. CASE /\ wire # <<>> /\ wire' = Tail(wire)
             /\ stream' = Append(stream, Head(wire))
             /\ UNCHANGED <<fcIn, fc>>
    <3>1. stream' \o wire' = stream \o wire
      BY <1>1, <2>3, LineKept
    <3>2. waiting
      BY <2>1, <2>3 DEF EraseInv, SizeInv
    <3> QED  BY <2>1, <2>3, <3>1, <3>2 DEF EraseInv, SizeInv, SizeReply
  <2>4. CASE /\ fcIn # <<>> /\ fcIn' = Tail(fcIn) /\ fc'.board = fc.board
             /\ \E r : Reply(fc, Head(fcIn).op, r) /\ wire' = wire \o r
             /\ UNCHANGED stream
    <3>1. waiting /\ Len(fcIn) = 1 /\ Head(fcIn).op = "size" /\ stream \o wire = <<>>
      BY <2>1, <2>4 DEF EraseInv, SizeInv
    <3>2. PICK r : Reply(fc, "size", r) /\ wire' = wire \o r
      BY <2>4, <3>1
    <3>3. r \in Seq(Unit)
      BY <2>1, <3>2, ReplyFacts DEF FlashInv, FcInv
    <3>4. r \in {<<>>, <<Bad>>, <<Ok>>, SizeReply}
      BY <3>2 DEF Reply, Word, SizeReply
    <3>5. stream = <<>> /\ wire = <<>>
      BY <1>1, <3>1, ConcatSimplifications
    <3>6. stream' \o wire' = r
      BY <2>4, <3>2, <3>3, <3>5
    <3>7. fcIn' = <<>>
      <4>1. Tail(fcIn) \in Seq(Cmd) /\ Len(Tail(fcIn)) = 0
        BY <1>1, <3>1
      <4>2. \A v \in Seq(Cmd) : Len(v) = 0 => v = <<>>
        OBVIOUS
      <4> QED  BY <2>4, <4>1, <4>2
    <3>8. SizeReply' = SizeReply
      BY <2>4 DEF SizeReply
    <3> QED  BY <2>1, <3>1, <3>4, <3>6, <3>7, <3>8 DEF SizeInv
  <2> QED  BY <1>6, <2>1, <2>2, <2>3, <2>4 DEF Quiet
<1> QED  BY <1>3, <1>4, <1>5, <1>6, SessionStep DEF InSession

LEMMA RoomStep ==
  ASSUME FlashInv, LinkInv, EraseInv, [FlashNext]_flashVars
  PROVE  RoomInv'
<1> SUFFICES ASSUME link' = "open", pc' = "erase"
             PROVE  \E m \in img' : m.board = fc'.board /\ m.size <= FlashSize[fc'.board]
  BY DEF RoomInv
<1>1. img' = img
  BY SameImg DEF InSession
<1>2. CASE Takes
  <2>1. SizeDone /\ GotWord /\ pc = "size" /\ link = "open" /\ fc' = fc
    BY <1>2, TakesStep
    DEF Takes, SyncDone, RevDone, BoardDone, SizeDone, EraseDone, ChunkDone, CrcDone, Fail, Sync
  <2>2. PICK m \in img : /\ boardId = Halves(Number(m.board))
                         /\ \A n \in ReadsNumber : n >= m.size
    BY <2>1 DEF SizeDone, Fail
  <2>3. m.board = fc.board
    <3>1. boardId[1] = Lo(m.board)
      BY <2>2 DEF Halves, Lo
    <3> QED  BY <2>1, <3>1, SaysOwnBoard DEF LinkInv, OwnInv, FlashInv, FcInv
  <2>4. waiting /\ Len(stream) >= 3
    BY <2>1 DEF GotWord, Collected
  <2>5. stream \in Seq(Unit) /\ wire \in Seq(Unit)
    BY DEF LinkInv, WireInv
  <2>6. stream \o wire \in {<<>>, <<Bad>>, <<Ok>>, SizeReply}
    BY <2>1, <2>2, <2>4 DEF EraseInv, SizeInv, Matches
  <2>7. /\ Len(stream \o wire) >= 3
        /\ (stream \o wire)[1] = stream[1] /\ (stream \o wire)[2] = stream[2]
    BY <2>4, <2>5
  <2>8. stream \o wire = SizeReply
    BY <2>6, <2>7
  <2>9. Reads = Halves(Number(FlashSize[fc.board]))
    BY <2>7, <2>8, WordReplyIs DEF Reads, Halves, SizeReply
  <2>10. fc.board \in Boards /\ FlashSize[fc.board] \in ReadsNumber
    BY <2>9 DEF ReadsNumber, FlashInv, FcInv
  <2>11. FlashSize[fc.board] >= m.size /\ FlashSize[fc.board] \in Nat /\ m.size \in Nat
    BY <2>2, <2>10, FlashAssumption, UploadFacts DEF LinkInv
  <2>12. m.size <= FlashSize[fc.board]
    BY <2>11
  <2> QED  BY <1>1, <2>1, <2>3, <2>12
<1>3. CASE Asks
  BY <1>3, AsksStep DEF taskVars, EraseInv, RoomInv
<1>4. CASE Moves
  BY <1>4 DEF Moves, OpenImage, ReadFails, Programmed, Fail
<1>5. CASE Quiet
  <2>1. pc = "erase" /\ link = "open" /\ fc.mode = "bl"
    BY <1>5 DEF Quiet, LinkInv, OwnInv, InSession
  <2>2. fc'.board = fc.board
    BY <1>5, <2>1 DEF Quiet
  <2> QED  BY <1>1, <2>1, <2>2 DEF EraseInv, RoomInv
<1> QED  BY <1>2, <1>3, <1>4, <1>5, SessionStep DEF InSession

LEMMA EraseInvariant ==
  ASSUME Late <= 3
  PROVE  FlashSpec => []EraseInv
<1>1. FlashInv /\ LinkInv /\ EraseInv /\ [FlashNext]_flashVars => EraseInv'
  BY IdCountStep, IdAskedStep, SizeStep, RoomStep DEF EraseInv
<1> QED  BY <1>1, EraseInitInv, FlashInvariant, LinkInvariant, PTL DEF FlashSpec

(* An erase command is queued from the place of the erase only.            *)
LEMMA EraseGoesOut ==
  ASSUME FlashInv, LinkInv, [FlashNext]_flashVars,
         Len(fcIn') > Len(fcIn), fcIn'[Len(fcIn')].op = "erase"
  PROVE  pc = "erase" /\ link = "open"
<1>1. fcIn \in Seq(Cmd) /\ Len(fcIn) \in Nat
  BY DEF FlashInv, FcInv
<1>2. CASE Asks
  <2>1. PICK cmd \in Cmd : /\ fcIn' = Append(fcIn, cmd)
                           /\ IF pc \in Sync THEN cmd.op = "sync" ELSE cmd.op = pc
    BY <1>2, AsksCmd
  <2>2. fcIn'[Len(fcIn')] = cmd
    BY <1>1, <2>1
  <2> QED  BY <1>2, <2>1, <2>2, AsksStep
<1>3. CASE Tells
  <2>1. ASSUME NEW o \in {"reboot", "boot"}, fcIn' = Append(fcIn, [op |-> o]) PROVE FALSE
    <3>1. fcIn'[Len(fcIn')] = [op |-> o]
      BY <1>1, <2>1
    <3> QED  BY <3>1
  <2> QED  BY <1>1, <1>3, <2>1 DEF Tells, RequestReboot, SendBoot
<1>4. CASE fcIn' = fcIn \/ fcIn' = <<>> \/ (fcIn # <<>> /\ fcIn' = Tail(fcIn))
  <2>1. Len(fcIn') <= Len(fcIn)
    BY <1>1, <1>4
  <2> QED  BY <1>1, <2>1
<1>5. CASE Takes \/ Moves \/ Begin \/ OpenFc \/ AwaitReboot \/ Finish \/ StartFlash \/ PowerCut
  BY <1>4, <1>5, TakesStep, MovesStep DEF Begin, OpenFc, AwaitReboot, Finish, StartFlash, PowerCut, fcVars
<1>6. CASE \/ HttpStep /\ UNCHANGED <<taskVars, waiting, usbVars, fcVars>>
           \/ UNCHANGED flashVars \/ Deliver \/ UsbDisconnect
  BY <1>4, <1>6 DEF fcVars, flashVars, Deliver, UsbDisconnect
<1>7. CASE FcStep
  BY <1>4, <1>7 DEF FcStep, BootloaderAnswers, ApplicationAnswers, Chatter, FcVanishes, FcReturns
<1> QED
  BY <1>2, <1>3, <1>5, <1>6, <1>7 DEF FlashNext, WebStep, TaskStep, Takes, Asks, Moves, Tells

(* An erase goes out only to the board the image is made for.              *)
EraseOnlyOwnBoard ==
  [][ Len(fcIn') > Len(fcIn) /\ fcIn'[Len(fcIn')].op = "erase" =>
        \E m \in img : m.board = fc.board ]_flashVars

(* No flash of another board than the image's is ever erased, however much *)
(* is late (the comparison after the board id was read).                   *)
THEOREM NeverErasesAnotherBoard == FlashSpec => EraseOnlyOwnBoard
<1>1. FlashInv /\ LinkInv /\ [FlashNext]_flashVars =>
        [ Len(fcIn') > Len(fcIn) /\ fcIn'[Len(fcIn')].op = "erase" =>
            \E m \in img : m.board = fc.board ]_flashVars
  BY EraseGoesOut DEF LinkInv, OwnInv
<1> QED  BY <1>1, FlashInvariant, LinkInvariant, PTL DEF FlashSpec, EraseOnlyOwnBoard

(* No flash is erased that the image is not made for or does not fit, as   *)
(* long as no more than three units are late: the flash size, unlike the   *)
(* id, is compared with nothing it must equal.                             *)
THEOREM ErasesOnlyMatchingBoard ==
  ASSUME Late <= 3
  PROVE  FlashSpec => EraseOnlyMatchingBoard
<1>1. FlashInv /\ LinkInv /\ EraseInv /\ [FlashNext]_flashVars =>
        [ Len(fcIn') > Len(fcIn) /\ fcIn'[Len(fcIn')].op = "erase" =>
            \E m \in img : m.board = fc.board /\ m.size <= FlashSize[fc.board] ]_flashVars
  BY EraseGoesOut DEF EraseInv, RoomInv
<1> QED
  BY <1>1, FlashInvariant, LinkInvariant, EraseInvariant, PTL DEF FlashSpec, EraseOnlyMatchingBoard
=============================================================================
