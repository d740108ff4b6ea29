--------------------------- MODULE SonarLogProofs ---------------------------
(***************************************************************************)
(* Proofs about the log volume (SonarLog), for every number of sessions,   *)
(* every size of the volume, of a block and of the reserves, and any       *)
(* writes that fail and power cuts.                                        *)
(*                                                                         *)
(* There are three parts, and each rests on the one before.  SessionInv is *)
(* about names: which files may be there together, in which handles, and   *)
(* under which ids.  AccountInv is about books: what the files hold and    *)
(* what is free always add up to the volume.  ReserveInv is about what has *)
(* to be left over.  Every operation of db_sonar_log.c has one lemma per   *)
(* part, named for what it shows: that it stays within certain files       *)
(* (...Within), keeps the books (...Keeps), and is thrifty with the space  *)
(* (...Thrifty, and ...Frugal when the figures are not touched).           *)
(***************************************************************************)
EXTENDS SonarLog, FiniteSetTheorems, WellFoundedInduction, TLAPS

-----------------------------------------------------------------------------
(* Constants and names.                                                    *)

(* The three streams are three values.                                     *)
LEMMA StreamsDiffer == System # Trip /\ System # Sonar /\ Trip # Sonar
<1>1. ASSUME NEW a, NEW b PROVE Cardinality({a, b}) \in {1, 2}
  <2>1. IsFiniteSet({b}) /\ Cardinality({b}) = 1
    BY FS_Singleton
  <2>2. CASE a = b
    <3>1. {a, b} = {b}  BY <2>2
    <3> QED  BY <2>1, <3>1
  <2>3. CASE a # b
    <3>1. Cardinality({b} \cup {a}) = 2
      BY <2>1, <2>3, FS_AddElement
    <3>2. {b} \cup {a} = {a, b}  OBVIOUS
    <3> QED  BY <3>1, <3>2
  <2> QED  BY <2>2, <2>3
<1>2. Cardinality({System, Trip, Sonar}) = 3
  BY LogAssumption
<1>3. System = Trip => {System, Trip, Sonar} = {Trip, Sonar}
  OBVIOUS
<1>4. System = Sonar => {System, Trip, Sonar} = {Trip, Sonar}
  OBVIOUS
<1>5. Trip = Sonar => {System, Trip, Sonar} = {System, Sonar}
  OBVIOUS
<1>6. Cardinality({Trip, Sonar}) \in {1, 2} /\ Cardinality({System, Sonar}) \in {1, 2}
  BY <1>1
<1>7. 3 \notin {1, 2}
  OBVIOUS
<1> QED  BY <1>2, <1>3, <1>4, <1>5, <1>6, <1>7

LEMMA Positives ==
  /\ MaxId \in Nat \ {0} /\ Block \in Nat \ {0} /\ LinesPerSecond \in Nat \ {0}
  /\ Chunk \in Nat \ {0}
  /\ SysLimit \in Nat /\ SysTrim \in Nat /\ Capacity \in Nat
  /\ MaxImage \in Nat /\ ImageReserve \in Nat /\ Headroom \in Nat
  /\ SysTrim < SysLimit
  BY LogAssumption

(* The files a handle of stream s may be open on.                          *)
Handles(s) == IF s = System THEN {SysLog} ELSE { Tmp(s, i) : i \in Ids }

LEMMA SystemNames ==
  /\ SysLog \in Names /\ SysTmp \in Names
  /\ SysLog \notin SessionNames /\ SysTmp \notin SessionNames /\ SysLog # SysTmp
  /\ SysLog.stream = System /\ SysTmp.stream = System
  /\ SysLog.id = 0 /\ SysTmp.id = 0 /\ ~SysLog.tmp /\ SysTmp.tmp
  /\ NoFile \notin Names /\ System \in Slots
<1>1. SysLog.stream = System /\ SysTmp.stream = System
      /\ SysLog.id = 0 /\ SysTmp.id = 0 /\ ~SysLog.tmp /\ SysTmp.tmp
  BY DEF SysLog, SysTmp, Log, Tmp
<1>2. \A n \in SessionNames : n.stream \in SessionStreams
  BY DEF SessionNames
<1>3. System \notin SessionStreams
  BY StreamsDiffer DEF SessionStreams
<1>4. SysLog \notin SessionNames /\ SysTmp \notin SessionNames
  BY <1>1, <1>2, <1>3
<1>5. SysLog \in Names /\ SysTmp \in Names
  BY DEF Names
<1>6. NoFile \notin Names
  BY LogAssumption
<1> QED  BY <1>1, <1>4, <1>5, <1>6 DEF Slots

LEMMA SessionNameFacts ==
  ASSUME NEW n \in SessionNames
  PROVE  /\ n \in Names /\ n.stream \in SessionStreams /\ n.stream # System
         /\ n.stream \in Slots /\ n.id \in Ids /\ n.id \in Nat
         /\ n.tmp => n = Tmp(n.stream, n.id)
         /\ ~n.tmp => n = Log(n.stream, n.id)
<1>1. n.stream \in SessionStreams /\ n.id \in Ids
  BY DEF SessionNames
<1>2. System \notin SessionStreams
  BY StreamsDiffer DEF SessionStreams
<1>3. Ids \subseteq Nat
  BY Positives DEF Ids
<1>4. (n.tmp => n = Tmp(n.stream, n.id)) /\ (~n.tmp => n = Log(n.stream, n.id))
  BY DEF SessionNames, Tmp, Log
<1>5. n \in Names
  BY DEF Names
<1> QED  BY <1>1, <1>2, <1>3, <1>4, <1>5 DEF Slots

LEMMA PairNames ==
  ASSUME NEW s \in SessionStreams, NEW i \in Ids
  PROVE  /\ Tmp(s, i) \in SessionNames /\ Log(s, i) \in SessionNames
         /\ Tmp(s, i).stream = s /\ Tmp(s, i).id = i /\ Tmp(s, i).tmp
         /\ Log(s, i).stream = s /\ Log(s, i).id = i /\ ~Log(s, i).tmp
         /\ Tmp(s, i) \in Handles(s)
<1>1. s # System
  BY StreamsDiffer DEF SessionStreams
<1> QED  BY <1>1 DEF SessionNames, Tmp, Log, Handles

LEMMA NameFacts ==
  ASSUME NEW n \in Names
  PROVE  n.stream \in Slots /\ n.id \in Nat
<1>1. CASE n \in SessionNames
  BY <1>1, SessionNameFacts
<1>2. CASE n \in {SysLog, SysTmp}
  BY <1>2, SystemNames
<1> QED  BY <1>1, <1>2 DEF Names

LEMMA HandleFacts ==
  ASSUME NEW s \in Slots, NEW n \in Handles(s)
  PROVE  n \in Names /\ n.stream = s /\ n # NoFile /\ (n.tmp \/ n = SysLog) /\ n # SysTmp
<1>1. CASE s = System
  <2>1. n = SysLog
    BY <1>1 DEF Handles
  <2> QED  BY <1>1, <2>1, SystemNames
<1>2. CASE s # System
  <2>1. s \in SessionStreams
    BY <1>2 DEF Slots
  <2>2. PICK i \in Ids : n = Tmp(s, i)
    BY <1>2 DEF Handles
  <2>3. n \in SessionNames /\ n.stream = s /\ n.tmp
    BY <2>1, <2>2, PairNames
  <2>4. n \in Names
    BY <2>3, SessionNameFacts
  <2> QED  BY <2>3, <2>4, SystemNames
<1> QED  BY <1>1, <1>2

-----------------------------------------------------------------------------
(* Volume records, and what each operation on them does to every field.    *)

Fields == {"disk", "slot", "room", "free", "age"}
IsRec(w) == DOMAIN w = Fields

LEMMA UsageIs ==
  ASSUME NEW w, IsRec(w), NEW v, v \in {Refresh(w), Reread(w), Expired(w), Aged(w)}
  PROVE  IsRec(v) /\ v.disk = w.disk /\ v.slot = w.slot /\ v.room = w.room
<1>1. CASE v = Refresh(w)
  BY <1>1 DEF Refresh, IsRec, Fields
<1>2. CASE v = Expired(w)
  BY <1>2 DEF Expired, IsRec, Fields
<1>3. CASE v = Aged(w)
  BY <1>3 DEF Aged, Expired, IsRec, Fields
<1>4. CASE v = Reread(w)
  <2>1. PICK u : u = [w EXCEPT !.age = 0]
    OBVIOUS
  <2>2. IsRec(u) /\ u.disk = w.disk /\ u.slot = w.slot /\ u.room = w.room
    BY <2>1 DEF IsRec, Fields
  <2>3. v = Refresh(u)
    BY <1>4, <2>1 DEF Reread
  <2>4. IsRec(v) /\ v.disk = u.disk /\ v.slot = u.slot /\ v.room = u.room
    BY <2>2, <2>3 DEF Refresh, IsRec, Fields
  <2> QED  BY <2>2, <2>4
<1> QED  BY <1>1, <1>2, <1>3, <1>4

-----------------------------------------------------------------------------
(* What an operation may do to the files of a volume.                      *)

(* The shape of a volume: files of known names, and on every stream a      *)
(* handle that is closed or open on a file of that stream.                 *)
IsVol(w) ==
  /\ IsRec(w)
  /\ w.disk \in [DOMAIN w.disk -> Nat] /\ DOMAIN w.disk \subseteq Names
  /\ w.slot \in [Slots -> Slot]
  /\ \A s \in Slots : w.slot[s].file \in Handles(s) \cup {NoFile}

(* v is w after operations that create no file but those in C, write only  *)
(* to those and to files that are open, and open no handle but on files in *)
(* C.  Any file may have been removed.                                     *)
Within(w, v, C) ==
  /\ IsVol(v)
  /\ DOMAIN v.disk \subseteq DOMAIN w.disk \cup C
  /\ \A s \in Slots : v.slot[s].file \in {w.slot[s].file, NoFile} \cup C
  /\ \A n \in DOMAIN v.disk \ C : w.slot[n.stream].file # n => v.disk[n] = w.disk[n]

LEMMA WithinTrans ==
  ASSUME NEW u, NEW v, NEW w, NEW C, IsVol(u), Within(u, v, C), Within(v, w, C)
  PROVE  Within(u, w, C)
<1>1. DOMAIN w.disk \subseteq DOMAIN u.disk \cup C
  BY DEF Within
<1>2. ASSUME NEW s \in Slots PROVE w.slot[s].file \in {u.slot[s].file, NoFile} \cup C
  BY DEF Within
<1>3. ASSUME NEW n \in DOMAIN w.disk \ C, u.slot[n.stream].file # n
      PROVE  w.disk[n] = u.disk[n]
  <2>1. n \in Names /\ n # NoFile
    BY SystemNames DEF Within, IsVol
  <2>2. n.stream \in Slots
    BY <2>1, NameFacts
  <2>3. n \in DOMAIN v.disk
    BY DEF Within
  <2>4. v.slot[n.stream].file # n
    BY <1>3, <2>1, <2>2 DEF Within
  <2> QED  BY <1>3, <2>3, <2>4 DEF Within
<1> QED  BY <1>1, <1>2, <1>3 DEF Within

LEMMA WithinMono ==
  ASSUME NEW w, NEW v, NEW C, NEW D, Within(w, v, C), C \subseteq D
  PROVE  Within(w, v, D)
  BY DEF Within

LEMMA WithinRefl ==
  ASSUME NEW w, NEW C, IsVol(w)
  PROVE  Within(w, w, C)
  BY DEF Within

LEMMA BytesNat ==
  ASSUME NEW w, IsVol(w), NEW n \in Names
  PROVE  Unsynced(w, n) \in Nat /\ Durable(w, n) \in Nat /\ Bytes(w, n) \in Nat
<1>1. n.stream \in Slots
  BY NameFacts
<1>2. w.slot[n.stream] \in Slot
  BY <1>1 DEF IsVol
<1>3. w.slot[n.stream].buffered \in Nat
  BY <1>2 DEF Slot
<1>4. Unsynced(w, n) \in Nat
  BY <1>3 DEF Unsynced
<1>5. Durable(w, n) \in Nat
  BY DEF Durable, IsVol
<1> QED  BY <1>4, <1>5 DEF Bytes

(* Operations that leave the files and their handles as they are.          *)
LEMMA SameWithin ==
  ASSUME NEW w, NEW v, NEW C, IsVol(w), IsRec(v), v.disk = w.disk, v.slot = w.slot
  PROVE  Within(w, v, C)
  BY DEF Within, IsVol

LEMMA SyncWithin ==
  ASSUME NEW w, IsVol(w), NEW S, NEW C
  PROVE  Within(w, Sync(w, S), C) /\ Sync(w, S).room = w.room
<1> DEFINE v == Sync(w, S)
<1>2. IsRec(w)
  BY DEF IsVol
<1>3. /\ IsRec(v)
      /\ v.disk = [ n \in DOMAIN w.disk |->
                      IF n.stream \in S THEN Bytes(w, n) ELSE w.disk[n] ]
      /\ v.slot = [ s \in Slots |->
                      IF s \in S THEN [w.slot[s] EXCEPT !.buffered = 0] ELSE w.slot[s] ]
      /\ v.room = w.room
  BY <1>2 DEF Sync, IsRec, Fields
<1> HIDE DEF v
<1>4. \A n \in DOMAIN w.disk : n \in Names /\ Bytes(w, n) \in Nat /\ w.disk[n] \in Nat
  BY BytesNat DEF IsVol
<1>5. \A s \in Slots : v.slot[s] \in Slot /\ v.slot[s].file = w.slot[s].file
  <2> TAKE s \in Slots
  <2>1. w.slot[s] \in Slot
    BY DEF IsVol
  <2> QED  BY <1>3, <2>1 DEF Slot
<1>6. v.disk \in [DOMAIN v.disk -> Nat] /\ DOMAIN v.disk = DOMAIN w.disk
  BY <1>3, <1>4
<1>7. v.slot \in [Slots -> Slot]
  BY <1>3, <1>5
<1>8. IsVol(v)
  BY <1>3, <1>5, <1>6, <1>7 DEF IsVol
<1>9. ASSUME NEW n \in DOMAIN v.disk, w.slot[n.stream].file # n
      PROVE  v.disk[n] = w.disk[n]
  <2>1. Bytes(w, n) = w.disk[n]
    BY <1>4, <1>6, <1>9 DEF Bytes, Unsynced, Durable
  <2> QED  BY <1>3, <1>6, <2>1
<1> QED  BY <1>3, <1>5, <1>6, <1>8, <1>9 DEF Within, v

LEMMA CloseWithin ==
  ASSUME NEW w, IsVol(w), NEW S, NEW C
  PROVE  /\ Within(w, Close(w, S), C) /\ Close(w, S).room = w.room
         /\ \A s \in S \cap Slots : Close(w, S).slot[s] = Closed
<1> DEFINE u == Sync(w, S)
           v == Close(w, S)
<1>1. IsRec(u) /\ u.room = w.room
  BY SyncWithin DEF Within, IsVol
<1>3. Within(w, u, C)
  BY SyncWithin
<1>0. v = [u EXCEPT !.slot = [ s \in Slots |-> IF s \in S THEN Closed ELSE u.slot[s] ]]
  BY DEF Close
<1> HIDE DEF u, v
<1>2. /\ IsRec(v) /\ v.disk = u.disk
      /\ v.slot = [ s \in Slots |-> IF s \in S THEN Closed ELSE u.slot[s] ]
      /\ v.room = w.room
  BY <1>1, <1>0 DEF IsRec, Fields
<1>4. Closed \in Slot /\ Closed.file = NoFile
  BY DEF Closed, Slot
<1>5. \A s \in Slots : v.slot[s] \in Slot /\ v.slot[s].file \in {u.slot[s].file, NoFile}
  BY <1>2, <1>3, <1>4 DEF Within, IsVol
<1>6. v.slot \in [Slots -> Slot]
  BY <1>2, <1>5
<1>7. IsVol(v)
  BY <1>2, <1>3, <1>5, <1>6 DEF Within, IsVol
<1>8. Within(w, v, C)
  BY <1>2, <1>3, <1>5, <1>7 DEF Within
<1> QED  BY <1>2, <1>8 DEF v

LEMMA WithoutWithin ==
  ASSUME NEW w, IsVol(w), NEW S, NEW C
  PROVE  Within(w, Without(w, S), C)
<1> DEFINE v == Without(w, S)
<1>1. IsRec(w)
  BY DEF IsVol
<1>2. IsRec(v) /\ v.disk = [ n \in DOMAIN w.disk \ S |-> w.disk[n] ] /\ v.slot = w.slot
  BY <1>1 DEF Without, Restrict, IsRec, Fields
<1> HIDE DEF v
<1>3. IsVol(v)
  BY <1>2 DEF IsVol
<1>4. Within(w, v, C)
  BY <1>2, <1>3 DEF Within
<1> QED  BY <1>4 DEF v

LEMMA CreatedWithin ==
  ASSUME NEW w, IsVol(w), NEW n \in Names, NEW C, n \in C
  PROVE  Within(w, Created(w, n), C) /\ Created(w, n).slot = w.slot
<1> DEFINE v == Created(w, n)
<1>1. IsRec(w)
  BY DEF IsVol
<1>2. /\ IsRec(v) /\ v.slot = w.slot
      /\ v.disk = [ m \in DOMAIN w.disk \cup {n} |-> Durable(w, m) ]
  BY <1>1 DEF Created, IsRec, Fields
<1> HIDE DEF v
<1>3. \A m \in DOMAIN w.disk \cup {n} : m \in Names /\ Durable(w, m) \in Nat
  BY BytesNat DEF IsVol
<1>4. IsVol(v)
  BY <1>2, <1>3 DEF IsVol
<1>5. \A m \in DOMAIN w.disk : v.disk[m] = w.disk[m]
  BY <1>2 DEF Durable
<1>6. Within(w, v, C)
  BY <1>2, <1>4, <1>5 DEF Within
<1> QED  BY <1>2, <1>6 DEF v

LEMMA OpenWithin ==
  ASSUME NEW w, IsVol(w), NEW s \in Slots, NEW n \in Handles(s), NEW fault,
         NEW C, n \in C
  PROVE  /\ Within(w, Open(w, n, fault).w, C)
         /\ Open(w, n, fault).ok \in BOOLEAN
         /\ Open(w, n, fault).ok => Open(w, n, fault).w.slot[s].file # NoFile
         /\ Open(w, n, fault).w = w \/ Open(w, n, fault).w.slot[s].file = n
         /\ ~Open(w, n, fault).ok =>
              Open(w, n, fault).w = w /\ w.slot[s].file = NoFile
<1>1. n \in Names /\ n.stream = s /\ n # NoFile
  BY HandleFacts
<1>2. CASE w.slot[s].file # NoFile
  <2>1. Open(w, n, fault) = Ok(w)
    BY <1>1, <1>2 DEF Open
  <2>2. Within(w, w, C)
    BY WithinRefl
  <2> QED  BY <1>2, <2>1, <2>2 DEF Ok
<1>3. CASE w.slot[s].file = NoFile /\ fault = "open"
  <2>1. Open(w, n, fault).w = w /\ Open(w, n, fault).ok = FALSE
    BY <1>1, <1>3 DEF Open, Failed
  <2>2. Within(w, w, C)
    BY WithinRefl
  <2> QED  BY <1>3, <2>1, <2>2
<1>4. CASE w.slot[s].file = NoFile /\ fault # "open"
  <2> DEFINE u == Created(w, n)
             v == [u EXCEPT !.slot[s].file = n]
  <2>1. Within(w, u, C) /\ u.slot = w.slot
    BY <1>1, CreatedWithin
  <2>2. Open(w, n, fault) = Ok(v)
    BY <1>1, <1>4 DEF Open
  <2> HIDE DEF u
  <2>3. IsRec(u) /\ u.slot \in [Slots -> Slot]
    BY <2>1 DEF Within, IsVol
  <2>4. IsRec(v) /\ v.disk = u.disk /\ v.slot = [u.slot EXCEPT ![s].file = n]
    BY <2>3 DEF IsRec, Fields
  <2> HIDE DEF v
  <2>5. v.slot \in [Slots -> Slot] /\ v.slot[s].file = n
        /\ \A t \in Slots : t # s => v.slot[t] = u.slot[t]
    <3>1. u.slot[s] \in Slot
      BY <2>3
    <3>2. [u.slot[s] EXCEPT !.file = n] \in Slot /\ [u.slot[s] EXCEPT !.file = n].file = n
      BY <1>1, <3>1 DEF Slot
    <3> QED  BY <2>3, <2>4, <3>2
  <2>6. IsVol(v)
    BY <2>1, <2>4, <2>5 DEF Within, IsVol
  <2>7. Within(w, v, C)
    BY <2>1, <2>4, <2>5, <2>6 DEF Within
  <2>8. Open(w, n, fault).w = v /\ Open(w, n, fault).ok = TRUE
    BY <2>2 DEF Ok
  <2> QED  BY <1>1, <2>5, <2>7, <2>8
<1> QED  BY <1>2, <1>3, <1>4

LEMMA WriteWithin ==
  ASSUME NEW w, IsVol(w), NEW s \in Slots, NEW fault, NEW C
  PROVE  /\ Within(w, Write(w, s, fault).w, C)
         /\ Write(w, s, fault).ok \in BOOLEAN
         /\ Write(w, s, fault).w.slot[s].file = w.slot[s].file
<1> DEFINE n == w.slot[s].file
           v == [w EXCEPT !.slot[s].buffered = @ + 1, !.room = @ - 1]
<1>1. CASE fault = "write" \/ w.room = 0
  <2>1. Write(w, s, fault) = Failed(w)
    BY <1>1 DEF Write
  <2> QED  BY <2>1, WithinRefl DEF Failed
<1>2. CASE ~(fault = "write" \/ w.room = 0) /\ n \notin DOMAIN w.disk
  <2>1. Write(w, s, fault) = Ok(w)
    BY <1>2 DEF Write
  <2> QED  BY <2>1, WithinRefl DEF Ok
<1>3. CASE ~(fault = "write" \/ w.room = 0) /\ n \in DOMAIN w.disk
  <2>1. Write(w, s, fault) = Ok(IF Bytes(v, n) % Block = 0 THEN Sync(v, {s}) ELSE v)
    BY <1>3 DEF Write
  <2>2. IsRec(w) /\ w.slot[s] \in Slot
    BY DEF IsVol
  <2>3. IsRec(v) /\ v.disk = w.disk /\ v.slot = [w.slot EXCEPT ![s].buffered = @ + 1]
    BY <2>2 DEF IsRec, Fields
  <2> HIDE DEF v
  <2>4. \A t \in Slots : v.slot[t] \in Slot /\ v.slot[t].file = w.slot[t].file
    <3>1. [w.slot[s] EXCEPT !.buffered = @ + 1] \in Slot
          /\ [w.slot[s] EXCEPT !.buffered = @ + 1].file = w.slot[s].file
      BY <2>2 DEF Slot
    <3> QED  BY <2>3, <3>1 DEF IsVol
  <2>5. IsVol(v)
    BY <2>3, <2>4 DEF IsVol
  <2>6. Within(w, v, C)
    BY <2>3, <2>4, <2>5 DEF Within
  <2>7. Within(v, Sync(v, {s}), C)
    BY <2>5, SyncWithin
  <2>8. Within(w, Sync(v, {s}), C)
    BY <2>6, <2>7, WithinTrans
  <2>9. Sync(v, {s}).slot[s].file = v.slot[s].file
    <3>1. IsRec(v) /\ v.slot[s] \in Slot
      BY <2>3, <2>4
    <3>2. Sync(v, {s}).slot[s] = [v.slot[s] EXCEPT !.buffered = 0]
      BY <3>1 DEF Sync, IsRec, Fields
    <3> QED  BY <3>1, <3>2 DEF Slot
  <2> QED  BY <2>1, <2>4, <2>6, <2>8, <2>9 DEF Ok
<1> QED  BY <1>1, <1>2, <1>3

-----------------------------------------------------------------------------
(* The eviction loop.                                                      *)

LEMMA LeastNat ==
  ASSUME NEW T, T \subseteq Nat, T # {}
  PROVE  \E m \in T : \A k \in T : m <= k
<1>1. PICK m \in T : \A k \in T : <<k, m>> \notin OpToRel(<, Nat)
  BY WFMin, NatLessThanWellFounded, Zenon
<1>2. m \in Nat
  OBVIOUS
<1>3. ASSUME NEW k \in T PROVE ~(k < m)
  BY <1>1, <1>2 DEF OpToRel
<1>4. ASSUME NEW k \in T PROVE m <= k
  BY <1>2, <1>3
<1> QED  BY <1>4

(* Induction on the natural numbers for a set of them; the one of the      *)
(* library is about an operator.                                           *)
LEMMA SetInduction ==
  ASSUME NEW T, 0 \in T, \A n \in T \cap Nat : n + 1 \in T
  PROVE  Nat \subseteq T
<1> SUFFICES ASSUME Nat \ T # {} PROVE FALSE
  OBVIOUS
<1>1. PICK m \in Nat \ T : \A k \in Nat \ T : m <= k
  BY LeastNat
<1>2. m # 0
  BY <1>1
<1>3. m - 1 \in Nat /\ ~(m <= m - 1) /\ (m - 1) + 1 = m
  BY <1>1, <1>2
<1>4. m - 1 \in T
  BY <1>1, <1>3
<1> QED  BY <1>3, <1>4

LEMMA MaxIs ==
  ASSUME NEW b \in Nat, NEW S, S \subseteq 0 .. b, S # {}
  PROVE  Max(S) \in S /\ \A x \in S : x <= Max(S)
<1> DEFINE U == { m \in Nat : \A x \in S : x <= m }
<1>1. U \subseteq Nat /\ b \in U
  OBVIOUS
<1> HIDE DEF U
<1>2. PICK m \in U : \A k \in U : m <= k
  BY <1>1, LeastNat
<1>3. m \in Nat /\ \A x \in S : x <= m
  BY DEF U
<1>4. m \in S
  <2> SUFFICES ASSUME m \notin S PROVE FALSE
    OBVIOUS
  <2>1. \A x \in S : x \in Nat /\ x < m
    BY <1>3
  <2>2. m > 0 /\ m - 1 \in Nat
    <3>1. PICK x \in S : TRUE
      OBVIOUS
    <3>2. x \in Nat /\ x < m
      BY <2>1
    <3> QED  BY <1>3, <3>2
  <2>4. \A x \in S : x <= m - 1
    BY <1>3, <2>1, <2>2
  <2>3. m - 1 \in U
    BY <2>2, <2>4 DEF U
  <2> QED  BY <1>2, <1>3, <2>3
<1>5. \E x \in S : \A y \in S : x >= y
  BY <1>3, <1>4
<1>6. Max(S) \in S /\ \A y \in S : Max(S) >= y
  BY <1>5 DEF Max
<1> QED  BY <1>6

(* The states the loop goes through, up to the k-th.                       *)
EvictStates(f, w, current, k) ==
  f = [ j \in 0 .. k |-> IF j = 0 THEN Ok(w) ELSE EvictOne(f[j - 1], current) ]

(* Eviction is a function by recursion over the candidates: it exists,     *)
(* ...                                                                     *)
LEMMA EvictExists ==
  ASSUME NEW w, NEW current, NEW k \in Nat
  PROVE  \E f : EvictStates(f, w, current, k)
<1> DEFINE T == { n \in Nat : \E f : EvictStates(f, w, current, n) }
<1>1. 0 \in T
  <2> DEFINE g == [ j \in 0 .. 0 |-> Ok(w) ]
  <2>1. EvictStates(g, w, current, 0)
    BY DEF EvictStates
  <2> QED  BY <2>1
<1>2. ASSUME NEW n \in T \cap Nat PROVE n + 1 \in T
  <2>1. PICK f : EvictStates(f, w, current, n)
    OBVIOUS
  <2> DEFINE g == [ j \in 0 .. n + 1 |->
                      IF j = n + 1 THEN EvictOne(f[n], current) ELSE f[j] ]
  <2>2. \A j \in 0 .. n + 1 :
          g[j] = IF j = 0 THEN Ok(w) ELSE EvictOne(g[j - 1], current)
    <3> TAKE j \in 0 .. n + 1
    <3>1. CASE j = n + 1
      BY <3>1
    <3>2. CASE j # n + 1
      BY <2>1, <3>2 DEF EvictStates
    <3> QED  BY <3>1, <3>2
  <2>3. EvictStates(g, w, current, n + 1)
    BY <2>2 DEF EvictStates
  <2> HIDE DEF g
  <2> QED  BY <2>3
<1> HIDE DEF T
<1>3. Nat \subseteq T
  BY <1>1, <1>2, SetInduction
<1> QED  BY <1>3 DEF T

(* ... and is what Evict names.                                            *)
LEMMA EvictRuns ==
  ASSUME NEW w, NEW current
  PROVE  \E f : /\ f[0] = Ok(w)
                /\ \A k \in Nat : k + 1 <= MaxId => f[k + 1] = EvictOne(f[k], current)
                /\ Evict(w, current) = [f[MaxId] EXCEPT !.ok = @ /\ Enough(f[MaxId].w)]
<1> DEFINE after == CHOOSE f : EvictStates(f, w, current, MaxId)
<1>1. EvictStates(after, w, current, MaxId)
  BY EvictExists, Positives
<1>2. Evict(w, current) = [after[MaxId] EXCEPT !.ok = @ /\ Enough(after[MaxId].w)]
  BY DEF Evict, EvictStates
<1> HIDE DEF after
<1>3. after[0] = Ok(w)
  BY <1>1, Positives DEF EvictStates
<1>4. ASSUME NEW k \in Nat, k + 1 <= MaxId
      PROVE  after[k + 1] = EvictOne(after[k], current)
  BY <1>1, <1>4, Positives DEF EvictStates
<1> QED  BY <1>2, <1>3, <1>4

LEMMA EvictOneWithin ==
  ASSUME NEW r, NEW current, IsVol(r.w), r.ok \in BOOLEAN
  PROVE  /\ Within(r.w, EvictOne(r, current).w, {})
         /\ EvictOne(r, current).ok \in BOOLEAN
<1>1. CASE ~r.ok \/ Enough(r.w) \/ Completed(r.w, current) = {}
  <2>1. EvictOne(r, current) = r
    BY <1>1 DEF EvictOne
  <2> QED  BY <2>1, WithinRefl
<1>2. CASE ~(~r.ok \/ Enough(r.w) \/ Completed(r.w, current) = {})
  <2> DEFINE u == Without(r.w, SessionFiles(Min(Completed(r.w, current))))
             v == Refresh(u)
  <2>1. Within(r.w, u, {})
    BY WithoutWithin
  <2>2. IsVol(u) /\ IsRec(u)
    BY <2>1 DEF Within, IsVol
  <2>3. Within(u, v, {})
    BY <2>2, UsageIs, SameWithin
  <2>4. Within(r.w, v, {})
    BY <2>1, <2>3, WithinTrans
  <2>5. EvictOne(r, current) = [w |-> v, ok |-> v.free > r.w.free]
    BY <1>2 DEF EvictOne, Smaller, Grown
  <2> HIDE DEF v
  <2> QED  BY <2>4, <2>5
<1> QED  BY <1>1, <1>2

LEMMA EvictWithin ==
  ASSUME NEW w, NEW current, IsVol(w)
  PROVE  /\ Within(w, Evict(w, current).w, {})
         /\ Evict(w, current).ok \in BOOLEAN
         /\ DOMAIN Evict(w, current) = {"w", "ok"}
<1>1. PICK f : /\ f[0] = Ok(w)
               /\ \A k \in Nat : k + 1 <= MaxId => f[k + 1] = EvictOne(f[k], current)
               /\ Evict(w, current) = [f[MaxId] EXCEPT !.ok = @ /\ Enough(f[MaxId].w)]
  BY EvictRuns
<1> DEFINE T == { k \in Nat : k <= MaxId =>
                     Within(w, f[k].w, {}) /\ f[k].ok \in BOOLEAN
                     /\ DOMAIN f[k] = {"w", "ok"} }
<1>2. 0 \in T
  <2>1. f[0] = [w |-> w, ok |-> TRUE]
    BY <1>1 DEF Ok
  <2>2. f[0].w = w /\ f[0].ok = TRUE /\ DOMAIN f[0] = {"w", "ok"}
    BY <2>1
  <2>3. Within(w, w, {})
    BY WithinRefl
  <2>4. Within(w, f[0].w, {}) /\ f[0].ok \in BOOLEAN /\ DOMAIN f[0] = {"w", "ok"}
    BY <2>2, <2>3
  <2> QED  BY <2>4
<1>3. ASSUME NEW k \in T \cap Nat PROVE k + 1 \in T
  <2> SUFFICES ASSUME k + 1 <= MaxId
               PROVE  Within(w, f[k + 1].w, {}) /\ f[k + 1].ok \in BOOLEAN
                      /\ DOMAIN f[k + 1] = {"w", "ok"}
    OBVIOUS
  <2>1. k <= MaxId
    BY Positives
  <2>2. Within(w, f[k].w, {}) /\ f[k].ok \in BOOLEAN /\ DOMAIN f[k] = {"w", "ok"}
    BY <2>1
  <2>3. f[k + 1] = EvictOne(f[k], current)
    BY <1>1
  <2>4. IsVol(f[k].w)
    BY <2>2 DEF Within
  <2>5. Within(f[k].w, f[k + 1].w, {}) /\ f[k + 1].ok \in BOOLEAN
    BY <2>2, <2>3, <2>4, EvictOneWithin
  <2>6. Within(w, f[k + 1].w, {})
    BY <2>2, <2>5, WithinTrans
  <2>7. DOMAIN f[k + 1] = {"w", "ok"}
    BY <2>2, <2>3 DEF EvictOne, Grown
  <2> QED  BY <2>5, <2>6, <2>7
<1> HIDE DEF T
<1>4. Nat \subseteq T
  BY <1>2, <1>3, SetInduction
<1>5. Within(w, f[MaxId].w, {}) /\ f[MaxId].ok \in BOOLEAN /\ DOMAIN f[MaxId] = {"w", "ok"}
  BY <1>4, Positives DEF T
<1>6. Enough(f[MaxId].w) \in BOOLEAN
  BY DEF Enough
<1> QED  BY <1>1, <1>5, <1>6

-----------------------------------------------------------------------------
(* Appending a line.                                                       *)

LEMMA PrepareWithin ==
  ASSUME NEW w, NEW current, IsVol(w), NEW C
  PROVE  /\ Within(w, PrepareSpace(w, current).w, C)
         /\ PrepareSpace(w, current).ok \in BOOLEAN
         /\ PrepareSpace(w, current).w.slot \in [Slots -> Slot]
<1> DEFINE due == w.age = LinesPerSecond \/ w.free < RequiredFree + 1 + Block
           u == IF due THEN Reread(w) ELSE w
           r == Evict(u, current)
           v == Aged(r.w)
<1>1. Within(w, u, {})
  BY UsageIs, SameWithin, WithinRefl DEF IsVol
<1>2. IsVol(u)
  BY <1>1 DEF Within
<1> HIDE DEF u
<1>3. Within(u, r.w, {}) /\ r.ok \in BOOLEAN /\ DOMAIN r = {"w", "ok"}
  BY <1>2, EvictWithin
<1>4. IsVol(r.w) /\ IsRec(r.w)
  BY <1>3 DEF Within, IsVol
<1>5. Within(r.w, v, {})
  BY <1>4, UsageIs, SameWithin
<1>6. Within(w, v, {})
  BY <1>1, <1>2, <1>3, <1>5, WithinTrans
<1>7. PrepareSpace(w, current) = [r EXCEPT !.w = v]
  BY DEF PrepareSpace, u
<1> HIDE DEF r
<1>9. PrepareSpace(w, current).w = v /\ PrepareSpace(w, current).ok = r.ok
  BY <1>3, <1>7
<1> HIDE DEF v
<1> QED  BY <1>3, <1>6, <1>9, WithinMono DEF Within, IsVol

LEMMA CopiedWithin ==
  ASSUME NEW w, NEW fault, IsVol(w)
  PROVE  /\ Within(w, Copied(w, fault).w, {SysLog})
         /\ Copied(w, fault).ok \in BOOLEAN
<1>1. CASE fault = "copy" \/ w.room < SysTrim
  <2>1. Copied(w, fault).w = w /\ Copied(w, fault).ok = FALSE
    BY <1>1 DEF Copied, Failed
  <2> QED  BY <2>1, WithinRefl
<1>2. CASE ~(fault = "copy" \/ w.room < SysTrim) /\ fault = "rename"
  <2>1. Copied(w, fault).w = Without(w, {SysLog}) /\ Copied(w, fault).ok = FALSE
    BY <1>2 DEF Copied, Failed
  <2> QED  BY <2>1, WithoutWithin
<1>3. CASE ~(fault = "copy" \/ w.room < SysTrim) /\ fault # "rename"
  <2> DEFINE v == [w EXCEPT !.disk[SysLog] = SysTrim,
                            !.room = @ + Durable(w, SysLog) - SysTrim]
  <2>1. Copied(w, fault).w = v /\ Copied(w, fault).ok = TRUE
    BY <1>3 DEF Copied, Ok
  <2>2. IsRec(v) /\ v.slot = w.slot /\ v.disk = [w.disk EXCEPT ![SysLog] = SysTrim]
    BY DEF IsVol, IsRec, Fields
  <2> HIDE DEF v
  <2>3. IsVol(v)
    BY <2>2, Positives DEF IsVol
  <2>4. Within(w, v, {SysLog})
    BY <2>2, <2>3 DEF Within
  <2> QED  BY <2>1, <2>4
<1> QED  BY <1>1, <1>2, <1>3

LEMMA FitsWithin ==
  ASSUME NEW w, NEW fault, IsVol(w)
  PROVE  /\ Within(w, FitsSystem(w, fault).w, {SysLog})
         /\ FitsSystem(w, fault).ok \in BOOLEAN
<1> DEFINE C == {SysLog}
           u == Close(w, {System})
           v == Without(u, {SysTmp})
<1>1. Within(w, u, C)
  BY CloseWithin
<1>2. IsVol(u)
  BY <1>1 DEF Within
<1>3. Within(u, v, C)
  BY <1>2, WithoutWithin
<1>4. Within(w, v, C)
  BY <1>1, <1>2, <1>3, WithinTrans
<1>5. IsVol(v)
  BY <1>3 DEF Within
<1>6. Within(v, Copied(v, fault).w, C) /\ Copied(v, fault).ok \in BOOLEAN
  BY <1>5, CopiedWithin
<1>7. Within(w, Copied(v, fault).w, C)
  BY <1>4, <1>6, WithinTrans
<1>8. CASE ~SystemFull(w)
  <2>1. FitsSystem(w, fault).w = w /\ FitsSystem(w, fault).ok = TRUE
    BY <1>8 DEF FitsSystem, Ok
  <2> QED  BY <2>1, WithinRefl
<1>9. CASE SystemFull(w) /\ fault = "open"
  <2>1. FitsSystem(w, fault).w = u /\ FitsSystem(w, fault).ok = FALSE
    BY <1>9 DEF FitsSystem, Compact, Failed
  <2> QED  BY <2>1, <1>1
<1>10. CASE SystemFull(w) /\ fault # "open"
  <2>1. FitsSystem(w, fault) = Copied(v, fault)
    BY <1>10 DEF FitsSystem, Compact
  <2> QED  BY <2>1, <1>6, <1>7
<1> QED  BY <1>8, <1>9, <1>10

(* What appending a line to n may create or write besides open files.      *)
Targets(n) == {n, SysLog}

LEMMA AppendWithin ==
  ASSUME NEW w, IsVol(w), NEW s \in Slots, NEW n \in Handles(s),
         NEW current, NEW fault, NEW idle
  PROVE  LET r == Append(w, n, current, fault, idle)
         IN /\ Within(w, r.w, Targets(n))
            /\ r.ok \in BOOLEAN
            /\ ~r.ok /\ n # SysLog =>
                 Within(w, r.w, {}) \/ r.w.slot[s].file = n
<1> DEFINE C == Targets(n)
           D == IF n = SysLog THEN {SysLog} ELSE {}
           r1 == IF n = SysLog THEN FitsSystem(w, fault) ELSE Ok(w)
           r2 == Spaced(r1, current)
           r3 == Opened(r2, n, fault)
           r4 == Written(r3, s, fault, idle)
<1>1. D \subseteq C /\ n \in C /\ {} \subseteq C
  BY DEF Targets
<1>2. Within(w, r1.w, D) /\ r1.ok \in BOOLEAN
  BY FitsWithin, WithinRefl DEF Ok
<1>3. n.stream = s
  BY HandleFacts
<1>4. Append(w, n, current, fault, idle) = r4
  BY <1>3 DEF Append, Readied
<1> HIDE DEF r1, D
<1>5. IsVol(r1.w)
  BY <1>2 DEF Within
<1>6. Within(r1.w, r2.w, D) /\ r2.ok \in BOOLEAN
  BY <1>2, <1>5, PrepareWithin, WithinRefl DEF Spaced
<1> HIDE DEF r2
<1>7. IsVol(r2.w)
  BY <1>6 DEF Within
<1>8. Within(w, r2.w, D)
  BY <1>2, <1>6, WithinTrans
<1>9. Within(w, r2.w, C)
  BY <1>1, <1>8, WithinMono
<1>10. CASE ~r2.ok
  <2>1. r3 = r2 /\ r4 = r2
    BY <1>10 DEF Opened, Written
  <2>2. n # SysLog => Within(w, r2.w, {})
    BY <1>8 DEF D
  <2> QED  BY <1>4, <1>6, <1>9, <2>1, <2>2
<1>11. CASE r2.ok
  <2>1. r3 = Open(r2.w, n, fault)
    BY <1>11 DEF Opened
  <2>2. /\ Within(r2.w, r3.w, C) /\ r3.ok \in BOOLEAN
        /\ r3.w = r2.w \/ r3.w.slot[s].file = n
        /\ ~r3.ok => r3.w = r2.w
    BY <1>1, <1>7, <2>1, OpenWithin
  <2> HIDE DEF r3
  <2>3. IsVol(r3.w)
    BY <2>2 DEF Within
  <2>4. Within(w, r3.w, C)
    BY <1>9, <2>2, WithinTrans
  <2>5. CASE ~r3.ok
    <3>1. r4 = r3
      BY <2>5 DEF Written
    <3>2. n # SysLog => Within(w, r2.w, {})
      BY <1>8 DEF D
    <3> QED  BY <1>4, <2>2, <2>4, <2>5, <3>1, <3>2
  <2>6. CASE r3.ok
    <3> DEFINE x == Write(r3.w, s, fault)
               y == Sync(x.w, idle)
    <3>1. Within(r3.w, x.w, C) /\ x.ok \in BOOLEAN
          /\ x.w.slot[s].file = r3.w.slot[s].file
      BY <2>3, WriteWithin
    <3>2. DOMAIN x = {"w", "ok"}
      BY DEF Write, Ok, Failed
    <3>3. r4 = [x EXCEPT !.w = y]
      BY <2>6 DEF Written, IdleToo
    <3> HIDE DEF x
    <3>4. IsVol(x.w)
      BY <3>1 DEF Within
    <3>5. Within(x.w, y, C) /\ Within(x.w, y, {})
      BY <3>4, SyncWithin
    <3> HIDE DEF y
    <3>6. Within(w, y, C)
      BY <2>3, <2>4, <3>1, <3>5, <3>4, WithinTrans
    <3>7. r4.w = y /\ r4.ok = x.ok
      BY <3>2, <3>3
    <3>8. CASE r3.w = r2.w
      <4>1. Within(r3.w, x.w, {})
        BY <2>3, WriteWithin DEF x
      <4>2. n # SysLog => Within(w, r3.w, {})
        BY <1>8, <3>8 DEF D
      <4>3. n # SysLog => Within(w, y, {})
        BY <2>3, <3>4, <3>5, <4>1, <4>2, WithinTrans
      <4> QED  BY <1>4, <3>1, <3>6, <3>7, <4>3
    <3>9. CASE r3.w.slot[s].file = n
      <4>1. x.w.slot[s].file = n
        BY <3>1, <3>9
      <4>2. y.slot[s] = x.w.slot[s] \/ y.slot[s] = [x.w.slot[s] EXCEPT !.buffered = 0]
        BY <3>4 DEF y, Sync, IsVol, IsRec, Fields
      <4>3. x.w.slot[s] \in Slot
        BY <3>4 DEF IsVol
      <4>4. y.slot[s].file = n
        BY <4>1, <4>2, <4>3 DEF Slot
      <4> QED  BY <1>4, <3>1, <3>6, <3>7, <4>4
    <3> QED  BY <2>2, <3>8, <3>9
  <2> QED  BY <2>2, <2>5, <2>6
<1> QED  BY <1>6, <1>10, <1>11

(* What Appends enumerates are appends that find some slots idle.          *)
LEMMA AppendsAre ==
  ASSUME NEW w, NEW n, NEW current, NEW r \in Appends(w, n, current)
  PROVE  \E fault, idle : r = Append(w, n, current, fault, idle)
<1> DEFINE ready(f) == Readied(w, n, current, f)
<1>1. PICK f : r \in UNION { AnyIdle(q, n.stream, f) : q \in {ready(f)} }
  BY DEF Appends
<1>2. PICK q : q = ready(f) /\ r \in AnyIdle(q, n.stream, f)
  BY <1>1
<1>3. \A idle : Append(w, n, current, f, idle) = Written(q, n.stream, f, idle)
  BY <1>2 DEF Append
<1> HIDE DEF ready
<1>4. CASE q.ok
  <2>1. r \in UNION { Idled(x) : x \in { Write(q.w, n.stream, f) } }
    BY <1>2, <1>4 DEF AnyIdle
  <2>2. PICK x : x = Write(q.w, n.stream, f) /\ r \in Idled(x)
    BY <2>1
  <2>3. PICK idle : r = IdleToo(x, idle)
    BY <2>2 DEF Idled
  <2>4. Written(q, n.stream, f, idle) = r
    BY <1>4, <2>2, <2>3 DEF Written
  <2> QED  BY <1>3, <2>4
<1>5. CASE ~q.ok
  <2>1. r = q
    BY <1>2, <1>5 DEF AnyIdle
  <2>2. Written(q, n.stream, f, {}) = q
    BY <1>5 DEF Written
  <2> QED  BY <1>3, <2>1, <2>2
<1> QED  BY <1>4, <1>5

LEMMA AppendsWithin ==
  ASSUME NEW w, IsVol(w), NEW s \in Slots, NEW n \in Handles(s),
         NEW current, NEW r \in Appends(w, n, current)
  PROVE  /\ Within(w, r.w, Targets(n))
         /\ r.ok \in BOOLEAN
         /\ ~r.ok /\ n # SysLog =>
              Within(w, r.w, {}) \/ r.w.slot[s].file = n
<1>1. PICK fault, idle : r = Append(w, n, current, fault, idle)
  BY AppendsAre
<1> QED  BY <1>1, AppendWithin

LEMMA AppendFinalsWithin ==
  ASSUME NEW w, IsVol(w), NEW s \in Slots, NEW n \in Handles(s),
         NEW v \in AppendFinals(w, n)
  PROVE  Within(w, v, {n})
<1>1. n.stream = s
  BY HandleFacts
<1>2. PICK fault : v = Ended(Open(w, n, fault), s, fault)
  BY <1>1 DEF AppendFinals
<1> DEFINE r == Open(w, n, fault)
           x == Write(r.w, s, fault).w
<1>3. Within(w, r.w, {n}) /\ r.ok \in BOOLEAN
  BY OpenWithin
<1>4. IsVol(r.w)
  BY <1>3 DEF Within
<1> HIDE DEF r
<1>5. Within(r.w, x, {n})
  BY <1>4, WriteWithin
<1>6. IsVol(x)
  BY <1>5 DEF Within
<1>7. Within(x, Sync(x, {s}), {n})
  BY <1>6, SyncWithin
<1>8. Within(w, Sync(x, {s}), {n})
  BY <1>3, <1>4, <1>5, <1>6, <1>7, WithinTrans
<1>9. v = IF r.ok THEN Sync(x, {s}) ELSE r.w
  BY <1>2 DEF Ended, r
<1> QED  BY <1>3, <1>8, <1>9

-----------------------------------------------------------------------------
(* The operations on whole sets of files.                                  *)

LEMMA EmptiedWithin ==
  ASSUME NEW w, IsVol(w)
  PROVE  /\ Within(w, Emptied(w), {SysLog})
         /\ DOMAIN Emptied(w).disk = {SysLog}
         /\ \A s \in Slots : Emptied(w).slot[s] = Closed
<1> DEFINE u == Close(w, Slots)
           x == Without(u, Names)
           v == Emptied(w)
<1>1. Within(w, u, {SysLog}) /\ \A s \in Slots : u.slot[s] = Closed
  BY CloseWithin
<1>2. IsVol(u) /\ IsRec(u)
  BY <1>1 DEF Within, IsVol
<1> HIDE DEF u
<1>3. Within(u, x, {SysLog})
  BY <1>2, WithoutWithin
<1>4. x.slot = u.slot
  BY <1>2 DEF Without, IsRec, Fields
<1>5. Within(w, x, {SysLog})
  BY <1>1, <1>2, <1>3, WithinTrans
<1>6. v = [x EXCEPT !.disk = [ n \in {SysLog} |-> 0 ]]
  BY DEF Emptied, u
<1>7. IsVol(x) /\ IsRec(x)
  BY <1>3 DEF Within, IsVol
<1> HIDE DEF x, v
<1>8. IsRec(v) /\ v.disk = [ n \in {SysLog} |-> 0 ] /\ v.slot = x.slot
  BY <1>6, <1>7 DEF IsRec, Fields
<1>9. IsVol(v)
  BY <1>7, <1>8, SystemNames DEF IsVol
<1>10. Within(w, v, {SysLog})
  BY <1>5, <1>8, <1>9 DEF Within
<1> QED  BY <1>1, <1>4, <1>8, <1>10 DEF v

LEMMA DroppedWithin ==
  ASSUME NEW w, IsVol(w), NEW C
  PROVE  /\ Within(w, Dropped(w, Slots), C)
         /\ \A s \in Slots : Dropped(w, Slots).slot[s] = Closed
<1> DEFINE v == Dropped(w, Slots)
<1>1. IsRec(v) /\ v.disk = w.disk
      /\ v.slot = [ s \in Slots |-> IF s \in Slots THEN Closed ELSE w.slot[s] ]
  BY DEF IsVol, IsRec, Fields, Dropped
<1> HIDE DEF v
<1>2. Closed \in Slot /\ Closed.file = NoFile
  BY DEF Closed, Slot
<1>3. IsVol(v)
  BY <1>1, <1>2 DEF IsVol
<1>4. Within(w, v, C)
  BY <1>1, <1>2, <1>3 DEF Within
<1> QED  BY <1>1, <1>4 DEF v

(* The power goes: every handle is closed, and besides the removal of      *)
(* files the only thing that can have happened is a half compacted log.    *)
LEMMA CutWithin ==
  ASSUME IsVol(vol), NEW w \in Cut
  PROVE  Within(vol, w, {SysTmp}) /\ \A s \in Slots : w.slot[s] = Closed
<1> DEFINE C == {SysTmp}
           plain == Dropped(vol, Slots)
           synced == Dropped(Sync(vol, {System}), Slots)
           bare == Without(synced, {SysTmp})
<1>1. Within(vol, plain, C) /\ \A s \in Slots : plain.slot[s] = Closed
  BY DroppedWithin
<1>2. Within(vol, Sync(vol, {System}), C)
  BY SyncWithin
<1>3. IsVol(Sync(vol, {System}))
  BY <1>2 DEF Within
<1>4. Within(Sync(vol, {System}), synced, C) /\ \A s \in Slots : synced.slot[s] = Closed
  BY <1>3, DroppedWithin
<1>5. Within(vol, synced, C)
  BY <1>2, <1>3, <1>4, WithinTrans
<1>6. IsVol(plain) /\ IsVol(synced)
  BY <1>1, <1>4 DEF Within
<1> HIDE DEF plain, synced
<1>7. ASSUME NEW x, NEW S, IsVol(x), Within(vol, x, C), \A s \in Slots : x.slot[s] = Closed
      PROVE  Within(vol, Without(x, S), C) /\ \A s \in Slots : Without(x, S).slot[s] = Closed
  <2>1. Within(x, Without(x, S), C)
    BY <1>7, WithoutWithin
  <2>2. Without(x, S).slot = x.slot
    BY <1>7 DEF Without, IsVol, IsRec, Fields
  <2> QED  BY <1>7, <2>1, <2>2, WithinTrans
<1>8. CASE w = plain
  BY <1>1, <1>8
<1>9. CASE w \in { Without(plain, {Log(Trip, i)}) : i \in Completed(plain, sid) }
  <2>1. PICK i : w = Without(plain, {Log(Trip, i)})
    BY <1>9
  <2> QED  BY <1>1, <1>6, <1>7, <2>1
<1>10. CASE w \in HalfCompacted(bare)
  <2> DEFINE created == Created(bare, SysTmp)
             copied == [created EXCEPT !.disk[SysTmp] = SysTrim, !.room = @ - SysTrim]
  <2>1. Within(vol, bare, C) /\ \A s \in Slots : bare.slot[s] = Closed
    BY <1>4, <1>5, <1>6, <1>7
  <2>2. IsVol(bare)
    BY <2>1 DEF Within
  <2>3. w \in {copied, Without(copied, {SysLog})}
    BY <1>10 DEF HalfCompacted
  <2> HIDE DEF bare
  <2>4. Within(bare, created, C) /\ created.slot = bare.slot
    BY <2>2, CreatedWithin, SystemNames
  <2>5. Within(vol, created, C)
    BY <2>1, <2>2, <2>4, WithinTrans
  <2>6. IsVol(created) /\ IsRec(created)
    BY <2>4 DEF Within, IsVol
  <2> HIDE DEF created
  <2>7. IsRec(copied) /\ copied.disk = [created.disk EXCEPT ![SysTmp] = SysTrim]
        /\ copied.slot = created.slot
    BY <2>6 DEF IsRec, Fields
  <2> HIDE DEF copied
  <2>8. IsVol(copied)
    BY <2>6, <2>7, Positives DEF IsVol
  <2>9. Within(vol, copied, C) /\ \A s \in Slots : copied.slot[s] = Closed
    BY <2>1, <2>4, <2>5, <2>7, <2>8 DEF Within
  <2> QED  BY <1>7, <2>3, <2>8, <2>9
<1>11. w \in {plain} \/ w \in { Without(plain, {Log(Trip, i)}) : i \in Completed(plain, sid) }
       \/ w \in HalfCompacted(bare)
  BY DEF Cut, plain, synced
<1> QED  BY <1>8, <1>9, <1>10, <1>11

(* A rename that fails leaves the .TMP file, and its .LOG is gone, too.     *)
LEMMA RenamedFacts ==
  ASSUME NEW w, IsVol(w), NEW I, I \subseteq Ids, NEW least, NEW stuck
  PROVE  LET v == Renamed(w, I, least, stuck)
         IN /\ IsVol(v) /\ v.slot = w.slot
            /\ \A n \in DOMAIN v.disk :
                 \/ /\ n \in DOMAIN w.disk /\ v.disk[n] = w.disk[n]
                    /\ n \in SessionNames /\ n.tmp /\ n.id \in I =>
                         ~(w.disk[n] >= least) \/ n \in stuck
                 \/ /\ n \in SessionNames /\ ~n.tmp /\ n.id \in I
                    /\ Tmp(n.stream, n.id) \in DOMAIN w.disk \ DOMAIN v.disk
<1> DEFINE v == Renamed(w, I, least, stuck)
           todo == Unnamed(w, I, least)
           done == todo \ stuck
           logs == { Log(n.stream, n.id) : n \in todo }
           new == { Log(n.stream, n.id) : n \in done }
<1>1. /\ IsRec(v) /\ v.slot = w.slot
      /\ v.disk = [ n \in (DOMAIN w.disk \ (done \cup logs)) \cup new |->
           IF n \in new THEN w.disk[Tmp(n.stream, n.id)] ELSE w.disk[n] ]
  BY DEF Renamed, IsVol, IsRec, Fields
<1> HIDE DEF v
<1>2. ASSUME NEW n \in new
      PROVE  /\ n \in SessionNames /\ ~n.tmp /\ n.id \in I
             /\ Tmp(n.stream, n.id) \in done
  <2>1. PICK m \in done : n = Log(m.stream, m.id)
    OBVIOUS
  <2>2. m \in SessionNames /\ m.tmp /\ m.id \in I
    BY DEF Unnamed
  <2>3. m.stream \in SessionStreams /\ m.id \in Ids /\ m = Tmp(m.stream, m.id)
    BY <2>2, SessionNameFacts
  <2>4. n \in SessionNames /\ n.stream = m.stream /\ n.id = m.id /\ ~n.tmp
    BY <2>1, <2>3, PairNames
  <2> QED  BY <2>2, <2>3, <2>4
<1>3. done \subseteq DOMAIN w.disk /\ \A n \in done : n.tmp
  BY DEF Unnamed
<1>4. ASSUME NEW n \in DOMAIN w.disk \ done, n \in SessionNames, n.tmp, n.id \in I
      PROVE  ~(w.disk[n] >= least) \/ n \in stuck
  BY <1>4 DEF Unnamed
<1> HIDE DEF todo, done, logs, new
<1>5. \A n \in DOMAIN v.disk : n \in Names /\ v.disk[n] \in Nat
  <2> TAKE n \in DOMAIN v.disk
  <2>1. CASE n \in new
    BY <1>1, <1>2, <1>3, <2>1, SessionNameFacts DEF IsVol
  <2>2. CASE n \notin new
    BY <1>1, <2>2 DEF IsVol
  <2> QED  BY <2>1, <2>2
<1>6. IsVol(v)
  BY <1>1, <1>5 DEF IsVol
<1>7. ASSUME NEW n \in DOMAIN v.disk, n \in new
      PROVE  /\ n \in SessionNames /\ ~n.tmp /\ n.id \in I
             /\ Tmp(n.stream, n.id) \in DOMAIN w.disk \ DOMAIN v.disk
  <2>1. Tmp(n.stream, n.id) \in done /\ Tmp(n.stream, n.id).tmp
    BY <1>2, <1>3, <1>7
  <2>2. Tmp(n.stream, n.id) \notin new
    BY <1>2, <2>1
  <2> QED  BY <1>1, <1>2, <1>3, <1>7, <2>1, <2>2
<1>8. ASSUME NEW n \in DOMAIN v.disk, n \notin new
      PROVE  /\ n \in DOMAIN w.disk /\ v.disk[n] = w.disk[n]
             /\ n \in SessionNames /\ n.tmp /\ n.id \in I =>
                  ~(w.disk[n] >= least) \/ n \in stuck
  BY <1>1, <1>4, <1>8
<1> QED  BY <1>1, <1>6, <1>7, <1>8 DEF v

-----------------------------------------------------------------------------
(* The steps of the log, by what they do to the files and to the session.  *)

SessionTypes ==
  /\ IsVol(vol)
  /\ active \in BOOLEAN /\ left \subseteq SessionNames
  /\ sid \in 0 .. MaxId /\ next \in 1 .. MaxId + 1 /\ nvs \in 1 .. MaxId + 1
  /\ given \in 0 .. MaxId
  /\ active => sid # 0

(* Nothing happens to a session; files may go, and the system log may grow.*)
IdleStep == UNCHANGED session /\ Within(vol, vol', {SysLog})

(* A line of the session that is active.                                   *)
LineStep ==
  /\ active /\ UNCHANGED session
  /\ \E s \in SessionStreams : Within(vol, vol', {Tmp(s, sid), SysLog})

(* A session starts, or fails to: then its file was not created, and no    *)
(* trip handle is open, unless that is noted.                              *)
StartStep ==
  /\ ~active /\ next <= MaxId
  /\ sid' = next /\ next' = next + 1 /\ nvs' = next + 1 /\ given' = next
  /\ active' \in BOOLEAN /\ left' \subseteq SessionNames /\ left \subseteq left'
  /\ Within(vol, vol', {Tmp(Trip, next), SysLog})
  /\ ~active' => /\ vol'.slot[Trip].file \in left' \cup {NoFile}
                 /\ Tmp(Trip, next) \in left' \/ Within(vol, vol', {})

(* The session ends: its last lines, its handles closed, its files renamed *)
(* but for those that are stuck.                                           *)
FinishStep ==
  /\ active /\ active' = FALSE /\ sid' = 0
  /\ UNCHANGED <<next, nvs, given>>
  /\ \E w : \E stuck \in SUBSET Unnamed(w, {sid}, 1) :
       /\ Within(vol, w, {Tmp(Trip, sid), SysLog})
       /\ \A s \in SessionStreams : w.slot[s] = Closed
       /\ left' = left \cup stuck
       /\ Within(Renamed(w, {sid}, 1, stuck), vol', {SysLog})

(* Every file goes.                                                        *)
WipeStep ==
  /\ ~active /\ UNCHANGED <<active, sid, nvs>> /\ left' = {}
  /\ (next' = next /\ given' = given) \/ (next' = 1 /\ given' = 0)
  /\ Within(vol, vol', {SysLog}) /\ DOMAIN vol'.disk \subseteq {SysLog}
  /\ \A s \in SessionStreams : vol'.slot[s].file = NoFile

(* Power is cut and comes back.                                            *)
CutStep ==
  /\ active' = FALSE /\ sid' = 0 /\ UNCHANGED <<nvs, given>>
  /\ \E w : \E stuck \in SUBSET Unnamed(w, Ids, 0) :
       /\ Within(vol, w, {SysTmp})
       /\ \A s \in Slots : w.slot[s] = Closed
       /\ next' = NextAfter(w, nvs)
       /\ left' = stuck
       /\ Within(Renamed(w, Ids, 0, stuck), vol', {SysLog})

SessionStep ==
  IdleStep \/ LineStep \/ StartStep \/ FinishStep \/ WipeStep \/ CutStep

(* Any number of lines to the system log.                                  *)
LEMMA SystemAppend ==
  ASSUME NEW w, IsVol(w), NEW current, NEW r \in Appends(w, SysLog, current)
  PROVE  Within(w, r.w, {SysLog})
<1>1. SysLog \in Handles(System) /\ System \in Slots /\ Targets(SysLog) = {SysLog}
  BY SystemNames DEF Handles, Targets
<1> QED  BY <1>1, AppendsWithin

LEMMA StartIsStart ==
  ASSUME SessionTypes, ~active, StartSession
  PROVE  StartStep
<1> DEFINE n == Tmp(Trip, next)
           C == {n, SysLog}
<1>1. next \in Ids /\ next <= MaxId
  BY Positives DEF StartSession, SessionTypes, Ids
<1>2. Trip \in Slots /\ Trip \in SessionStreams
  BY DEF Slots, SessionStreams
<1>3. n \in Handles(Trip) /\ n # SysLog /\ Targets(n) = C
  BY <1>1, <1>2, PairNames, SystemNames DEF Targets
<1>4. PICK r \in Appends(vol, n, next) :
        /\ active' = r.ok
        /\ vol' \in IF r.ok THEN { x.w : x \in Appends(r.w, SysLog, next) } ELSE {r.w}
        /\ left' = left \cup (IF r.ok THEN {} ELSE {r.w.slot[Trip].file} \ {NoFile})
  BY DEF StartSession
<1>5. /\ Within(vol, r.w, C) /\ r.ok \in BOOLEAN
      /\ ~r.ok => Within(vol, r.w, {}) \/ r.w.slot[Trip].file = n
  <2>1. IsVol(vol)
    BY DEF SessionTypes
  <2>2. /\ Within(vol, r.w, Targets(n)) /\ r.ok \in BOOLEAN
        /\ ~r.ok /\ n # SysLog => Within(vol, r.w, {}) \/ r.w.slot[Trip].file = n
    BY ONLY <1>2, <1>3, <1>4, <2>1, AppendsWithin
  <2> QED  BY <1>3, <2>2
<1>6. left' \subseteq SessionNames /\ left \subseteq left'
  <2>1. Handles(Trip) \subseteq SessionNames
    BY <1>2, StreamsDiffer, PairNames DEF Handles
  <2>2. r.w.slot[Trip].file \in Handles(Trip) \cup {NoFile}
    BY <1>2, <1>5 DEF Within, IsVol
  <2> QED  BY <1>4, <2>1, <2>2 DEF SessionTypes
<1>7. sid' = next /\ next' = next + 1 /\ nvs' = next + 1 /\ given' = next
  BY DEF StartSession
<1>8. IsVol(r.w)
  BY <1>5 DEF Within
<1>9. CASE r.ok
  <2>1. PICK x \in Appends(r.w, SysLog, next) : vol' = x.w
    BY <1>4, <1>9
  <2>2. Within(r.w, x.w, {SysLog})
    BY <1>8, SystemAppend
  <2>3. Within(r.w, x.w, C)
    BY <2>2, WithinMono
  <2>4. Within(vol, x.w, C)
    BY <1>5, <2>3, WithinTrans DEF SessionTypes
  <2>5. active' = TRUE
    BY <1>4, <1>5, <1>9
  <2> QED  BY <1>1, <1>6, <1>7, <2>1, <2>4, <2>5 DEF StartStep
<1>10. CASE ~r.ok
  <2>1. vol' = r.w /\ active' = FALSE
    BY <1>4, <1>5, <1>10
  <2>2. r.w.slot[Trip].file \in left' \cup {NoFile}
    BY <1>4, <1>10
  <2>3. n \in left' \/ Within(vol, r.w, {})
    BY <1>2, <1>3, <1>5, <1>10, <2>2, HandleFacts
  <2> QED  BY <1>1, <1>5, <1>6, <1>7, <2>1, <2>2, <2>3 DEF StartStep
<1> QED  BY <1>9, <1>10

(* Closing, renaming and the last lines, as one step on the files of the   *)
(* session.                                                                *)
LEMMA FinishIsFinish ==
  ASSUME SessionTypes, active, NEW w, Within(vol, w, {Tmp(Trip, sid), SysLog}),
         FinishSession(w)
  PROVE  FinishStep
<1> DEFINE n == Tmp(Trip, sid)
           C == {n, SysLog}
<1>1. sid \in Ids
  BY Positives DEF SessionTypes, Ids
<1>2. Trip \in Slots /\ Trip \in SessionStreams /\ SessionStreams \subseteq Slots
  BY DEF Slots, SessionStreams
<1>3. n \in Handles(Trip)
  BY <1>1, <1>2, PairNames
<1>4. IsVol(w)
  BY DEF Within
<1>5. PICK u \in AppendFinals(w, n) :
        \E r \in Renamings(Close(u, SessionStreams)) :
          left' = left \cup r.stuck /\ vol' \in AppendFinals(r.w, SysLog)
  BY DEF FinishSession, Finished
<1>16. PICK stuck \in SUBSET Unnamed(Close(u, SessionStreams), {sid}, 1) :
         /\ left' = left \cup stuck
         /\ vol' \in AppendFinals(Renamed(Close(u, SessionStreams), {sid}, 1, stuck), SysLog)
  <2>1. PICK r \in Renamings(Close(u, SessionStreams)) :
          left' = left \cup r.stuck /\ vol' \in AppendFinals(r.w, SysLog)
    BY <1>5
  <2>2. PICK stuck \in Stuck(Unnamed(Close(u, SessionStreams), {sid}, 1)) :
          r = [w |-> Renamed(Close(u, SessionStreams), {sid}, 1, stuck), stuck |-> stuck]
    BY DEF Renamings
  <2>3. stuck \in SUBSET Unnamed(Close(u, SessionStreams), {sid}, 1)
    BY DEF Stuck
  <2> QED  BY <2>1, <2>2, <2>3
<1>6. Within(w, u, {n})
  BY <1>2, <1>3, <1>4, AppendFinalsWithin
<1>7. IsVol(u)
  BY <1>6 DEF Within
<1> DEFINE x == Close(u, SessionStreams)
           y == Renamed(x, {sid}, 1, stuck)
<1>8. Within(u, x, {n}) /\ \A s \in SessionStreams : x.slot[s] = Closed
  BY <1>2, <1>7, CloseWithin
<1>9. Within(w, x, {n})
  BY <1>4, <1>6, <1>8, WithinTrans
<1>10. Within(w, x, C)
  BY <1>9, WithinMono
<1>11. Within(vol, x, C)
  BY <1>10, WithinTrans DEF SessionTypes
<1>12. IsVol(x)
  BY <1>8 DEF Within
<1> HIDE DEF x
<1>13. IsVol(y)
  <2>1. {sid} \subseteq Ids
    BY <1>1
  <2> QED  BY <1>12, <2>1, RenamedFacts
<1>14. SysLog \in Handles(System) /\ System \in Slots
  BY SystemNames DEF Handles
<1> HIDE DEF y
<1>15. Within(y, vol', {SysLog})
  BY <1>16, <1>13, <1>14, AppendFinalsWithin DEF x, y
<1>17. stuck \in SUBSET Unnamed(x, {sid}, 1) /\ left' = left \cup stuck
  BY <1>16 DEF x
<1> QED  BY <1>8, <1>11, <1>15, <1>17 DEF FinishStep, FinishSession, y

LEMMA EndNow ==
  ASSUME SessionTypes, active, FinishSession(vol)
  PROVE  FinishStep
<1>1. Within(vol, vol, {Tmp(Trip, sid), SysLog})
  BY WithinRefl DEF SessionTypes
<1> QED  BY <1>1, FinishIsFinish

LEMMA StayIdle ==
  ASSUME SessionTypes, UNCHANGED <<vol, session>>
  PROVE  IdleStep
<1>1. Within(vol, vol, {SysLog})
  BY WithinRefl DEF SessionTypes
<1> QED  BY <1>1 DEF IdleStep, session

LEMMA TickSteps ==
  ASSUME SessionTypes, NEW idle, Tick(idle)
  PROVE  SessionStep
<1> DEFINE w == IdleSynced(idle)
<1>1. \A C : Within(vol, w, C)
  BY SyncWithin DEF SessionTypes, IdleSynced
<1>2. IsVol(w)
  BY <1>1 DEF Within
<1> HIDE DEF w
<1>3. CASE manual /\ active /\ ~armed /\ FinishSession(w) /\ UNCHANGED <<armed, image>>
  BY <1>1, <1>3, FinishIsFinish DEF SessionStep
<1>4. CASE TripSample(w) /\ UNCHANGED <<armed, image>>
  <2>1. active /\ sid \in Ids /\ Trip \in SessionStreams /\ Trip \in Slots
    BY <1>4, Positives DEF TripSample, SessionTypes, Ids, SessionStreams, Slots
  <2>2. Tmp(Trip, sid) \in Handles(Trip)
    BY <2>1, PairNames
  <2>3. PICK r \in Appends(w, Tmp(Trip, sid), sid) :
          \/ ~r.ok /\ FinishSession(r.w)
          \/ /\ r.ok
             /\ vol' = r.w
             /\ UNCHANGED session
    BY <1>4 DEF TripSample
  <2>4. Within(w, r.w, {Tmp(Trip, sid), SysLog})
    BY <1>2, <2>1, <2>2, AppendsWithin DEF Targets
  <2>5. Within(vol, r.w, {Tmp(Trip, sid), SysLog})
    BY <1>1, <2>4, WithinTrans DEF SessionTypes
  <2>6. CASE FinishSession(r.w)
    BY <2>1, <2>5, <2>6, FinishIsFinish DEF SessionStep
  <2>7. CASE vol' = r.w /\ UNCHANGED session
    BY <2>1, <2>5, <2>7 DEF SessionStep, LineStep
  <2> QED  BY <2>3, <2>6, <2>7
<1>5. CASE Quiet(w)
  BY <1>1, <1>5 DEF Quiet, SessionStep, IdleStep
<1> QED  BY <1>3, <1>4, <1>5 DEF Tick, w

LEMMA WipeSteps ==
  ASSUME SessionTypes, ClearAll \/ FormatVolume
  PROVE  WipeStep \/ IdleStep
<1> DEFINE u == Emptied(vol)
<1>1. /\ Within(vol, u, {SysLog}) /\ DOMAIN u.disk = {SysLog}
      /\ \A s \in Slots : u.slot[s] = Closed
  BY EmptiedWithin DEF SessionTypes
<1>2. IsVol(u) /\ IsRec(u)
  BY <1>1 DEF Within, IsVol
<1> HIDE DEF u
<1>3. SessionStreams \subseteq Slots /\ Closed.file = NoFile
  BY DEF Slots, Closed
<1>4. CASE ClearAll
  <2>1. vol' = Refresh(u)
    BY <1>4 DEF ClearAll, u
  <2>2. vol'.disk = u.disk /\ vol'.slot = u.slot /\ IsRec(vol')
    BY <1>2, <2>1, UsageIs
  <2>3. Within(u, vol', {SysLog})
    BY <1>2, <2>2, SameWithin
  <2>4. Within(vol, vol', {SysLog})
    BY <1>1, <2>3, WithinTrans DEF SessionTypes
  <2> QED  BY <1>1, <1>3, <1>4, <2>2, <2>4 DEF ClearAll, WipeStep
<1>5. CASE FormatVolume
  <2>1. CASE vol' = Close(vol, Slots) /\ UNCHANGED <<next, given, left, image>>
    <3>1. Within(vol, vol', {SysLog})
      BY <2>1, CloseWithin DEF SessionTypes
    <3> QED  BY <1>5, <2>1, <3>1 DEF FormatVolume, IdleStep, session
  <2>2. CASE /\ next' = 1
             /\ given' = 0
             /\ left' = {}
             /\ \E w \in {Refresh([Emptied(vol) EXCEPT !.room = Capacity])} :
                  vol' \in { r.w : r \in Appends(w, SysLog, 0) }
    <3> DEFINE x == [u EXCEPT !.room = Capacity]
               y == Refresh(x)
    <3>1. IsRec(x) /\ x.disk = u.disk /\ x.slot = u.slot
      BY <1>2 DEF IsRec, Fields
    <3> HIDE DEF x
    <3>2. IsRec(y) /\ y.disk = u.disk /\ y.slot = u.slot
      BY <3>1, UsageIs
    <3>3. Within(u, y, {SysLog})
      BY <1>2, <3>2, SameWithin
    <3>4. IsVol(y)
      BY <3>3 DEF Within
    <3>5. Within(vol, y, {SysLog})
      BY <1>1, <3>3, WithinTrans DEF SessionTypes
    <3>6. PICK r \in Appends(y, SysLog, 0) : vol' = r.w
      BY <2>2 DEF y, x, u
    <3> HIDE DEF y
    <3>7. Within(y, vol', {SysLog})
      BY <3>4, <3>6, SystemAppend
    <3>8. Within(vol, vol', {SysLog})
      BY <3>5, <3>7, WithinTrans DEF SessionTypes
    <3>9. DOMAIN vol'.disk \subseteq {SysLog}
      BY <1>1, <3>2, <3>7 DEF Within
    <3>10. ASSUME NEW s \in SessionStreams PROVE vol'.slot[s].file = NoFile
      <4>1. vol'.slot[s].file \in {NoFile, SysLog}
        BY <1>1, <1>3, <3>2, <3>7 DEF Within
      <4>2. s # System
        BY StreamsDiffer DEF SessionStreams
      <4>3. SysLog \notin Handles(s)
        BY <1>3, <4>2, HandleFacts, SystemNames
      <4> QED  BY <1>3, <3>7, <4>1, <4>3 DEF Within, IsVol
    <3> QED  BY <1>5, <2>2, <3>8, <3>9, <3>10 DEF FormatVolume, WipeStep
  <2> QED  BY <1>5, <2>1, <2>2 DEF FormatVolume
<1> QED  BY <1>4, <1>5

(* A power cut between two of the file operations of a finish or a         *)
(* compaction, and the restart that follows.                               *)
LEMMA CutIsCut ==
  ASSUME SessionTypes, PowerCut
  PROVE  CutStep
<1>0. PICK w \in Cut :
        /\ next' = NextAfter(w, nvs)
        /\ \E stuck \in Stuck(Unnamed(w, Ids, 1)) :
             /\ left' = stuck
             /\ \E booted \in {Expired(Created(Recovered(w, stuck), SysLog))} :
                  vol' \in IF \E i \in Ids : Tmp(Trip, i) \in DOMAIN w.disk \ stuck
                           THEN { Append(booted, SysLog, 0, f, {}).w :
                                    f \in SystemFaults(booted) }
                           ELSE {booted}
  BY DEF PowerCut
<1>1. PICK stuck \in Stuck(Unnamed(w, Ids, 1)) :
        /\ next' = NextAfter(w, nvs)
        /\ left' = stuck
        /\ \E booted \in {Expired(Created(Recovered(w, stuck), SysLog))} :
             vol' \in IF \E i \in Ids : Tmp(Trip, i) \in DOMAIN w.disk \ stuck
                      THEN { Append(booted, SysLog, 0, f, {}).w :
                               f \in SystemFaults(booted) }
                      ELSE {booted}
  BY <1>0
<1> DEFINE u == Renamed(w, Ids, 0, stuck)
           x == Created(u, SysLog)
           y == Expired(x)
           C == {SysLog}
<1>2. Within(vol, w, {SysTmp}) /\ \A s \in Slots : w.slot[s] = Closed
  BY CutWithin DEF SessionTypes
<1>3. IsVol(w)
  BY <1>2 DEF Within
<1>13. stuck \in SUBSET Unnamed(w, Ids, 0)
  <2>1. stuck \in SUBSET Unnamed(w, Ids, 1)
    BY DEF Stuck
  <2>2. Unnamed(w, Ids, 1) \subseteq Unnamed(w, Ids, 0)
    BY <1>3 DEF Unnamed, IsVol
  <2> QED  BY <2>1, <2>2
<1>4. IsVol(u)
  BY <1>3, RenamedFacts
<1> HIDE DEF u
<1>5. Within(u, x, C)
  BY <1>4, CreatedWithin, SystemNames
<1>6. IsVol(x) /\ IsRec(x)
  BY <1>5 DEF Within, IsVol
<1> HIDE DEF x
<1>7. Within(x, y, C)
  BY <1>6, UsageIs, SameWithin
<1>8. Within(u, y, C)
  BY <1>4, <1>5, <1>7, WithinTrans
<1>9. IsVol(y)
  BY <1>7 DEF Within
<1>10. vol' = y \/ \E f : vol' = Append(y, SysLog, 0, f, {}).w
  BY <1>1 DEF y, x, u, Recovered
<1> HIDE DEF y
<1>11. ASSUME NEW f PROVE Within(y, Append(y, SysLog, 0, f, {}).w, C)
  <2>1. SysLog \in Handles(System) /\ System \in Slots /\ Targets(SysLog) = {SysLog}
    BY SystemNames DEF Handles, Targets
  <2> QED  BY <1>9, <2>1, AppendWithin
<1>12. Within(u, vol', C)
  BY <1>4, <1>8, <1>10, <1>11, WithinTrans
<1> QED  BY <1>1, <1>2, <1>12, <1>13 DEF PowerCut, CutStep, u

(* Every step of LogNext is one of the steps above.                        *)
LEMMA LogSteps ==
  ASSUME SessionTypes, [LogNext]_vars
  PROVE  SessionStep
<1>1. CASE StartManualCapture
  <2>1. CASE UNCHANGED <<vol, session>>
    BY <2>1, StayIdle DEF SessionStep
  <2>2. CASE ~active /\ StartSession
    BY <2>2, StartIsStart DEF SessionStep
  <2> QED  BY <1>1, <2>1, <2>2 DEF StartManualCapture
<1>2. CASE StopManualCapture
  <2>1. CASE active /\ FinishSession(vol)
    BY <2>1, EndNow DEF SessionStep
  <2>2. CASE UNCHANGED <<vol, session>>
    BY <2>2, StayIdle DEF SessionStep
  <2> QED  BY <1>2, <2>1, <2>2 DEF StopManualCapture
<1>3. CASE \E a \in BOOLEAN : NoteFcArmedState(a)
  <2>1. CASE ~active /\ StartSession
    BY <2>1, StartIsStart DEF SessionStep
  <2>2. CASE active /\ FinishSession(vol)
    BY <2>2, EndNow DEF SessionStep
  <2>3. CASE UNCHANGED <<vol, session>>
    BY <2>3, StayIdle DEF SessionStep
  <2> QED  BY <1>3, <2>1, <2>2, <2>3 DEF NoteFcArmedState
<1>4. CASE \E idle \in IdleSets(vol) : Tick(idle)
  BY <1>4, TickSteps
<1>5. CASE SonarLine
  <2>1. active /\ sid \in Ids /\ Sonar \in SessionStreams /\ Sonar \in Slots
    BY <1>5, Positives DEF SonarLine, SessionTypes, Ids, SessionStreams, Slots
  <2>2. Tmp(Sonar, sid) \in Handles(Sonar)
    BY <2>1, PairNames
  <2>3. PICK r \in Appends(vol, Tmp(Sonar, sid), sid) : vol' = r.w
    BY <1>5 DEF SonarLine
  <2>4. Within(vol, r.w, {Tmp(Sonar, sid), SysLog})
    BY <2>1, <2>2, AppendsWithin DEF Targets, SessionTypes
  <2> QED  BY <1>5, <2>1, <2>3, <2>4 DEF SonarLine, SessionStep, LineStep
<1>6. CASE SystemLine
  <2>1. PICK r \in Appends(vol, SysLog, IF active THEN sid ELSE 0) : vol' = r.w
    BY <1>6 DEF SystemLine
  <2>2. Within(vol, r.w, {SysLog})
    BY <2>1, SystemAppend DEF SessionTypes
  <2> QED  BY <1>6, <2>1, <2>2 DEF SystemLine, SessionStep, IdleStep
<1>7. CASE ReadBack
  <2> DEFINE w == Sync(vol, Slots)
  <2>1. Within(vol, w, {SysLog})
    BY SyncWithin DEF SessionTypes
  <2>2. IsVol(w) /\ IsRec(w)
    BY <2>1 DEF Within, IsVol
  <2>3. vol' = w \/ vol' = Refresh(w)
    BY <1>7 DEF ReadBack
  <2> HIDE DEF w
  <2>4. Within(w, Refresh(w), {SysLog})
    BY <2>2, UsageIs, SameWithin
  <2>5. Within(vol, vol', {SysLog})
    BY <2>1, <2>3, <2>4, WithinTrans DEF SessionTypes
  <2> QED  BY <1>7, <2>5 DEF ReadBack, SessionStep, IdleStep
<1>8. CASE \E i \in Ids : DeleteSession(i)
  <2>1. PICK i : vol' = Refresh(Without(vol, SessionFiles(i))) /\ UNCHANGED session
    BY <1>8 DEF DeleteSession
  <2> DEFINE w == Without(vol, SessionFiles(i))
  <2>2. Within(vol, w, {SysLog})
    BY WithoutWithin DEF SessionTypes
  <2>3. IsVol(w) /\ IsRec(w)
    BY <2>2 DEF Within, IsVol
  <2> HIDE DEF w
  <2>4. Within(w, Refresh(w), {SysLog})
    BY <2>3, UsageIs, SameWithin
  <2>5. Within(vol, vol', {SysLog})
    BY <2>1, <2>2, <2>4, WithinTrans DEF SessionTypes, w
  <2> QED  BY <2>1, <2>5 DEF SessionStep, IdleStep
<1>9. CASE ClearAll \/ FormatVolume
  BY <1>9, WipeSteps DEF SessionStep
<1>10. CASE ImageOpened \/ ImageGrows \/ ImageFinished \/ ImageRemoved \/ SecondPasses
  <2>1. IsRec(vol)
    BY DEF SessionTypes, IsVol
  <2>2. IsRec(vol') /\ vol'.disk = vol.disk /\ vol'.slot = vol.slot
    <3>1. CASE ImageOpened
      BY <2>1, <3>1 DEF ImageOpened, IsRec, Fields
    <3>2. CASE ImageGrows
      BY <2>1, <3>2 DEF ImageGrows, IsRec, Fields
    <3>3. CASE ImageFinished
      BY <2>1, <3>3, UsageIs DEF ImageFinished
    <3>4. CASE SecondPasses
      BY <2>1, <3>4, UsageIs DEF SecondPasses
    <3>5. CASE ImageRemoved
      <4> DEFINE w == [vol EXCEPT !.room = @ + image.bytes]
      <4>1. IsRec(w) /\ w.disk = vol.disk /\ w.slot = vol.slot
        BY <2>1 DEF IsRec, Fields
      <4>2. vol' = w \/ vol' = Refresh(w)
        BY <3>5 DEF ImageRemoved
      <4> HIDE DEF w
      <4> QED  BY <4>1, <4>2, UsageIs
    <3> QED  BY <1>10, <3>1, <3>2, <3>3, <3>4, <3>5
  <2>3. Within(vol, vol', {SysLog})
    BY <2>2, SameWithin DEF SessionTypes
  <2>4. UNCHANGED session
    BY <1>10 DEF ImageOpened, ImageGrows, ImageFinished, ImageRemoved, SecondPasses
  <2> QED  BY <2>3, <2>4 DEF SessionStep, IdleStep
<1>11. CASE PowerCut
  BY <1>11, CutIsCut DEF SessionStep
<1>12. CASE UNCHANGED vars
  BY <1>12, StayIdle DEF SessionStep, vars, session
<1> QED
  BY <1>1, <1>2, <1>3, <1>4, <1>5, <1>6, <1>7, <1>8, <1>9, <1>10, <1>11, <1>12
     DEF LogNext

-----------------------------------------------------------------------------
(* The invariants of sessions.                                             *)

(* Every id that was given, and every id on the volume, is below the next  *)
(* one; the one that is stored is, too, above what was given.              *)
IdsInv ==
  /\ given < next /\ given < nvs
  /\ active => sid < next
  /\ \A n \in DOMAIN vol.disk : n.id < next

(* No file is there both as .TMP and as .LOG, nor could the active session *)
(* become a .LOG that is there already.                                    *)
PairInv ==
  /\ \A s \in SessionStreams, i \in Ids :
       Tmp(s, i) \in DOMAIN vol.disk => Log(s, i) \notin DOMAIN vol.disk
  /\ active => \A s \in SessionStreams : Log(s, sid) \notin DOMAIN vol.disk

(* Apart from the files that were left, the open handles are those of the  *)
(* active session, and only its .TMP files have anything in them.          *)
StrayInv ==
  /\ \A s \in SessionStreams :
       \/ vol.slot[s].file \in left \cup {NoFile}
       \/ active /\ vol.slot[s].file = Tmp(s, sid)
  /\ \A n \in (DOMAIN vol.disk \cap SessionNames) \ left :
       n.tmp /\ ~(active /\ n.id = sid) => vol.disk[n] = 0

SessionInv == SessionTypes /\ IdsInv /\ PairInv /\ StrayInv

LEMMA NextAfterIs ==
  ASSUME NEW w, IsVol(w), NEW k \in 1 .. MaxId + 1
  PROVE  /\ NextAfter(w, k) \in 1 .. MaxId + 1 /\ k <= NextAfter(w, k)
         /\ \A n \in DOMAIN w.disk : n.id < NextAfter(w, k)
<1> DEFINE S == { n.id : n \in DOMAIN w.disk } \cup {k - 1, 0}
<1>1. ASSUME NEW n \in DOMAIN w.disk PROVE n.id \in 0 .. MaxId
  <2>1. n \in Names
    BY DEF IsVol
  <2>2. CASE n \in SessionNames
    BY <2>2, SessionNameFacts, Positives DEF Ids
  <2>3. CASE n \in {SysLog, SysTmp}
    BY <2>3, SystemNames, Positives
  <2> QED  BY <2>1, <2>2, <2>3 DEF Names
<1>2. k - 1 \in 0 .. MaxId /\ 0 \in 0 .. MaxId /\ MaxId \in Nat
  BY Positives
<1>3. S \subseteq 0 .. MaxId /\ S # {}
  BY <1>1, <1>2
<1>4. k - 1 \in S /\ \A n \in DOMAIN w.disk : n.id \in S
  OBVIOUS
<1>5. NextAfter(w, k) = Max(S) + 1
  BY DEF NextAfter
<1> HIDE DEF S
<1>6. Max(S) \in S /\ \A x \in S : x <= Max(S)
  BY <1>2, <1>3, MaxIs
<1>7. PICK m : m = Max(S)
  OBVIOUS
<1>8. m \in 0 .. MaxId /\ k - 1 <= m /\ \A n \in DOMAIN w.disk : n.id <= m
  BY <1>3, <1>4, <1>6, <1>7
<1>9. \A n \in DOMAIN w.disk : n.id \in Nat
  BY <1>1
<1>10. NextAfter(w, k) = m + 1
  BY <1>5, <1>7
<1> QED  BY <1>2, <1>8, <1>9, <1>10

LEMMA StartIds ==
  ASSUME SessionTypes, StartStep
  PROVE  next \in Ids /\ Trip \in SessionStreams
  BY Positives DEF StartStep, SessionTypes, Ids, SessionStreams

LEMMA ActiveId ==
  ASSUME SessionTypes, active
  PROVE  sid \in Ids
  BY Positives DEF SessionTypes, Ids

(* Each of them leaves the files, the handles and the ids well formed,     *)
(* ...                                                                     *)
LEMMA TypesStep ==
  ASSUME SessionTypes, IdsInv, SessionStep
  PROVE  SessionTypes'
<1>1. MaxId \in Nat /\ 0 \in 0 .. MaxId /\ 1 \in 1 .. MaxId + 1
  BY Positives
<1>2. IsVol(vol')
  BY DEF SessionStep, IdleStep, LineStep, StartStep, FinishStep, WipeStep, CutStep, Within
<1>3. CASE IdleStep \/ LineStep
  <2>1. UNCHANGED <<active, sid, next, nvs, left, given>>
    BY <1>3 DEF IdleStep, LineStep, session
  <2> QED  BY <1>2, <2>1 DEF SessionTypes
<1>4. CASE StartStep
  <2>1. next + 1 \in 1 .. MaxId + 1 /\ next \in 0 .. MaxId /\ next # 0
    BY <1>1, <1>4 DEF StartStep, SessionTypes
  <2> QED  BY <1>2, <1>4, <2>1 DEF StartStep, SessionTypes
<1>5. CASE FinishStep
  <2>1. left' \subseteq SessionNames
    BY <1>5 DEF FinishStep, SessionTypes, Unnamed
  <2> QED  BY <1>1, <1>2, <1>5, <2>1 DEF FinishStep, SessionTypes
<1>6. CASE WipeStep
  BY <1>1, <1>2, <1>6 DEF WipeStep, SessionTypes
<1>7. CASE CutStep
  <2>1. PICK w : Within(vol, w, {SysTmp}) /\ next' = NextAfter(w, nvs)
    BY <1>7 DEF CutStep
  <2>2. IsVol(w)
    BY <2>1 DEF Within
  <2>3. next' \in 1 .. MaxId + 1
    BY <2>1, <2>2, NextAfterIs DEF SessionTypes
  <2>4. left' \subseteq SessionNames
    BY <1>7 DEF CutStep, Unnamed
  <2> QED  BY <1>1, <1>2, <1>7, <2>3, <2>4 DEF CutStep, SessionTypes
<1> QED  BY <1>3, <1>4, <1>5, <1>6, <1>7 DEF SessionStep

(* Every file that is there after a step was there before, or is the       *)
(* system log, or has the id of the session, or is recovered.              *)
LEMMA IdsStep ==
  ASSUME SessionTypes, IdsInv, SessionStep
  PROVE  IdsInv'
<1>1. next \in Nat /\ nvs \in Nat /\ given \in Nat /\ sid \in Nat
  BY Positives DEF SessionTypes
<1>2. SysLog.id = 0 /\ next > 0
  BY SystemNames, Positives DEF SessionTypes
<1>3. \A n \in DOMAIN vol.disk : n \in Names /\ n.id \in Nat
  BY NameFacts DEF SessionTypes, IsVol
<1>4. CASE IdleStep
  <2>1. DOMAIN vol'.disk \subseteq DOMAIN vol.disk \cup {SysLog}
    BY <1>4 DEF IdleStep, Within
  <2> QED  BY <1>2, <1>4, <2>1 DEF IdleStep, session, IdsInv
<1>5. CASE LineStep
  <2>1. PICK s \in SessionStreams : Within(vol, vol', {Tmp(s, sid), SysLog})
    BY <1>5 DEF LineStep
  <2>2. Tmp(s, sid).id = sid /\ sid < next
    BY <1>5, ActiveId, PairNames DEF LineStep, IdsInv
  <2>3. DOMAIN vol'.disk \subseteq DOMAIN vol.disk \cup {Tmp(s, sid), SysLog}
    BY <2>1 DEF Within
  <2> QED  BY <1>2, <1>5, <2>2, <2>3 DEF LineStep, session, IdsInv
<1>6. CASE StartStep
  <2>1. Tmp(Trip, next).id = next
    BY <1>6, StartIds, PairNames
  <2>2. DOMAIN vol'.disk \subseteq DOMAIN vol.disk \cup {Tmp(Trip, next), SysLog}
    BY <1>6 DEF StartStep, Within
  <2>3. \A n \in DOMAIN vol'.disk : n.id < next + 1
    BY <1>1, <1>2, <1>3, <2>1, <2>2 DEF IdsInv
  <2> QED  BY <1>1, <1>6, <2>3 DEF StartStep, IdsInv
<1>7. CASE FinishStep
  <2>1. PICK w, stuck : /\ Within(vol, w, {Tmp(Trip, sid), SysLog})
                        /\ Within(Renamed(w, {sid}, 1, stuck), vol', {SysLog})
    BY <1>7 DEF FinishStep
  <2>2. sid \in Ids /\ sid < next /\ Trip \in SessionStreams
    BY <1>7, ActiveId DEF FinishStep, IdsInv, SessionStreams
  <2>3. Tmp(Trip, sid).id = sid
    BY <2>2, PairNames
  <2>4. \A n \in DOMAIN w.disk : n.id < next
    BY <1>2, <2>1, <2>2, <2>3 DEF Within, IdsInv
  <2>5. IsVol(w)
    BY <2>1 DEF Within
  <2>6. \A n \in DOMAIN Renamed(w, {sid}, 1, stuck).disk : n \in DOMAIN w.disk \/ n.id = sid
    BY <2>2, <2>5, RenamedFacts
  <2>7. DOMAIN vol'.disk \subseteq DOMAIN Renamed(w, {sid}, 1, stuck).disk \cup {SysLog}
    BY <2>1 DEF Within
  <2>8. \A n \in DOMAIN vol'.disk : n.id < next
    BY <1>2, <2>2, <2>4, <2>6, <2>7
  <2> QED  BY <1>7, <2>8 DEF FinishStep, IdsInv
<1>8. CASE WipeStep
  BY <1>1, <1>2, <1>8 DEF WipeStep, IdsInv
<1>9. CASE CutStep
  <2>1. PICK w, stuck : /\ Within(vol, w, {SysTmp})
                        /\ next' = NextAfter(w, nvs)
                        /\ Within(Renamed(w, Ids, 0, stuck), vol', {SysLog})
    BY <1>9 DEF CutStep
  <2>2. IsVol(w)
    BY <2>1 DEF Within
  <2>3. next' \in Nat /\ nvs <= next' /\ \A n \in DOMAIN w.disk : n.id < next'
    BY <2>1, <2>2, NextAfterIs, Positives DEF SessionTypes
  <2>4. \A n \in DOMAIN Renamed(w, Ids, 0, stuck).disk :
          \/ n \in DOMAIN w.disk
          \/ n \in SessionNames /\ Tmp(n.stream, n.id) \in DOMAIN w.disk
    BY <2>2, RenamedFacts
  <2>5. \A n \in SessionNames : Tmp(n.stream, n.id).id = n.id
    BY SessionNameFacts, PairNames
  <2>6. DOMAIN vol'.disk \subseteq DOMAIN Renamed(w, Ids, 0, stuck).disk \cup {SysLog}
    BY <2>1 DEF Within
  <2>7. 0 < next'
    BY <1>1, <2>3, Positives DEF SessionTypes
  <2>8. \A n \in DOMAIN vol'.disk : n.id < next'
    BY <1>2, <2>3, <2>4, <2>5, <2>6, <2>7
  <2>9. given' = given /\ nvs' = nvs /\ given < next'
    BY <1>1, <1>9, <2>3 DEF CutStep, IdsInv
  <2> QED  BY <1>9, <2>8, <2>9 DEF CutStep, IdsInv
<1> QED  BY <1>4, <1>5, <1>6, <1>7, <1>8, <1>9 DEF SessionStep

LEMMA SystemApart ==
  ASSUME NEW s \in SessionStreams, NEW i \in Ids
  PROVE  /\ Log(s, i) # SysLog /\ Log(s, i) # SysTmp
         /\ Tmp(s, i) # SysLog /\ Tmp(s, i) # SysTmp
         /\ \A t \in SessionStreams, j \in Ids : Log(s, i) # Tmp(t, j)
<1>1. Log(s, i) \in SessionNames /\ Tmp(s, i) \in SessionNames /\ ~Log(s, i).tmp
  BY PairNames
<1>2. \A t \in SessionStreams, j \in Ids : Tmp(t, j).tmp
  BY PairNames
<1> QED  BY <1>1, <1>2, SystemNames

(* ... never puts a .TMP beside the .LOG it is to become, ...              *)
LEMMA PairsStep ==
  ASSUME SessionTypes, IdsInv, PairInv, SessionStep
  PROVE  PairInv'
<1> SUFFICES /\ \A s \in SessionStreams, i \in Ids :
                  Tmp(s, i) \in DOMAIN vol'.disk => Log(s, i) \notin DOMAIN vol'.disk
             /\ active' => \A s \in SessionStreams : Log(s, sid') \notin DOMAIN vol'.disk
  BY DEF PairInv
<1>1. \A s \in SessionStreams, i \in Ids :
        Tmp(s, i) \in DOMAIN vol.disk => Log(s, i) \notin DOMAIN vol.disk
  BY DEF PairInv
<1>2. \A s \in SessionStreams, i \in Ids : Log(s, i).id = i /\ Tmp(s, i).id = i
  BY PairNames
<1>3. CASE IdleStep
  <2>1. DOMAIN vol'.disk \subseteq DOMAIN vol.disk \cup {SysLog}
    BY <1>3 DEF IdleStep, Within
  <2>2. active' = active /\ sid' = sid /\ (active => sid \in Ids)
    BY <1>3, ActiveId DEF IdleStep, session
  <2> QED  BY <1>1, <2>1, <2>2, SystemApart DEF PairInv
<1>4. CASE LineStep
  <2>1. PICK t \in SessionStreams : Within(vol, vol', {Tmp(t, sid), SysLog})
    BY <1>4 DEF LineStep
  <2>2. active' = active /\ sid' = sid /\ active /\ sid \in Ids
    BY <1>4, ActiveId DEF LineStep, session
  <2>3. DOMAIN vol'.disk \subseteq DOMAIN vol.disk \cup {Tmp(t, sid), SysLog}
    BY <2>1 DEF Within
  <2>4. \A s \in SessionStreams : Log(s, sid) \notin DOMAIN vol.disk
    BY <2>2 DEF PairInv
  <2>5. ASSUME NEW s \in SessionStreams, NEW i \in Ids, Tmp(s, i) \in DOMAIN vol'.disk
        PROVE  Log(s, i) \notin DOMAIN vol'.disk
    <3>1. Log(s, i) \notin {Tmp(t, sid), SysLog} /\ Tmp(s, i) # SysLog
      BY <2>2, SystemApart
    <3>2. Tmp(s, i) = Tmp(t, sid) => i = sid
      BY <1>2, <2>2
    <3> QED  BY <1>1, <2>3, <2>4, <2>5, <3>1, <3>2
  <2>6. ASSUME NEW s \in SessionStreams
        PROVE  Log(s, sid) \notin DOMAIN vol'.disk
    BY <2>2, <2>3, <2>4, SystemApart
  <2> QED  BY <2>2, <2>5, <2>6
<1>5. CASE StartStep
  <2>1. next \in Ids /\ Trip \in SessionStreams /\ sid' = next
    BY <1>5, StartIds DEF StartStep
  <2>2. DOMAIN vol'.disk \subseteq DOMAIN vol.disk \cup {Tmp(Trip, next), SysLog}
    BY <1>5 DEF StartStep, Within
  <2>3. \A s \in SessionStreams : Log(s, next) \notin DOMAIN vol.disk
    BY <1>2, <2>1, Positives DEF IdsInv, SessionTypes
  <2>4. ASSUME NEW s \in SessionStreams, NEW i \in Ids, Tmp(s, i) \in DOMAIN vol'.disk
        PROVE  Log(s, i) \notin DOMAIN vol'.disk
    <3>1. Log(s, i) \notin {Tmp(Trip, next), SysLog} /\ Tmp(s, i) # SysLog
      BY <2>1, SystemApart
    <3>2. Tmp(s, i) = Tmp(Trip, next) => i = next
      BY <1>2, <2>1
    <3> QED  BY <1>1, <2>2, <2>3, <2>4, <3>1, <3>2
  <2>5. ASSUME NEW s \in SessionStreams
        PROVE  Log(s, next) \notin DOMAIN vol'.disk
    BY <2>1, <2>2, <2>3, SystemApart
  <2> QED  BY <2>1, <2>4, <2>5
<1>6. CASE FinishStep
  <2>1. PICK w, stuck : /\ Within(vol, w, {Tmp(Trip, sid), SysLog})
                        /\ Within(Renamed(w, {sid}, 1, stuck), vol', {SysLog})
    BY <1>6 DEF FinishStep
  <2>2. sid \in Ids /\ Trip \in SessionStreams /\ active /\ ~active'
    BY <1>6, ActiveId DEF FinishStep, SessionStreams
  <2> DEFINE x == Renamed(w, {sid}, 1, stuck)
  <2>3. IsVol(w)
    BY <2>1 DEF Within
  <2>4. \A n \in DOMAIN x.disk :
          \/ n \in DOMAIN w.disk
          \/ ~n.tmp /\ n.id = sid /\ Tmp(n.stream, n.id) \notin DOMAIN x.disk
    BY <2>2, <2>3, RenamedFacts
  <2>5. DOMAIN w.disk \subseteq DOMAIN vol.disk \cup {Tmp(Trip, sid), SysLog}
    BY <2>1 DEF Within
  <2>6. DOMAIN vol'.disk \subseteq DOMAIN x.disk \cup {SysLog}
    BY <2>1 DEF Within
  <2> HIDE DEF x
  <2>7. ASSUME NEW s \in SessionStreams, NEW i \in Ids, Tmp(s, i) \in DOMAIN vol'.disk
        PROVE  Log(s, i) \notin DOMAIN vol'.disk
    <3> SUFFICES ASSUME Log(s, i) \in DOMAIN vol'.disk PROVE FALSE
      OBVIOUS
    <3>1. Log(s, i) \in DOMAIN x.disk /\ Tmp(s, i) \in DOMAIN x.disk
      BY <2>6, <2>7, SystemApart
    <3>2. /\ Log(s, i).stream = s /\ Log(s, i).id = i
          /\ Tmp(s, i).tmp /\ Tmp(s, i).id = i
      BY PairNames
    <3>3. Log(s, i) \in DOMAIN w.disk
      BY <2>4, <3>1, <3>2
    <3>4. Tmp(s, i) \in DOMAIN w.disk
      BY <2>4, <3>1, <3>2
    <3>5. Log(s, i) \in DOMAIN vol.disk
      BY <2>2, <2>5, <3>3, SystemApart
    <3>6. Tmp(s, i) = Tmp(Trip, sid) => i = sid
      BY <1>2, <2>2
    <3>7. Tmp(s, i) \notin DOMAIN vol.disk /\ i # sid
      BY <1>1, <2>2, <3>5 DEF PairInv
    <3> QED  BY <2>5, <3>4, <3>6, <3>7, SystemApart
  <2> QED  BY <2>2, <2>7
<1>7. CASE WipeStep
  BY <1>7, SystemApart DEF WipeStep
<1>8. CASE CutStep
  <2>1. PICK w, stuck : /\ Within(vol, w, {SysTmp})
                        /\ Within(Renamed(w, Ids, 0, stuck), vol', {SysLog})
    BY <1>8 DEF CutStep
  <2> DEFINE x == Renamed(w, Ids, 0, stuck)
  <2>2. IsVol(w)
    BY <2>1 DEF Within
  <2>3. \A n \in DOMAIN x.disk :
          \/ n \in DOMAIN w.disk
          \/ ~n.tmp /\ Tmp(n.stream, n.id) \notin DOMAIN x.disk
    BY <2>2, RenamedFacts
  <2>4. /\ DOMAIN w.disk \subseteq DOMAIN vol.disk \cup {SysTmp}
        /\ DOMAIN vol'.disk \subseteq DOMAIN x.disk \cup {SysLog}
    BY <2>1 DEF Within
  <2> HIDE DEF x
  <2>5. ASSUME NEW s \in SessionStreams, NEW i \in Ids, Tmp(s, i) \in DOMAIN vol'.disk
        PROVE  Log(s, i) \notin DOMAIN vol'.disk
    <3> SUFFICES ASSUME Log(s, i) \in DOMAIN vol'.disk PROVE FALSE
      OBVIOUS
    <3>1. Log(s, i) \in DOMAIN x.disk /\ Tmp(s, i) \in DOMAIN x.disk
      BY <2>4, <2>5, SystemApart
    <3>2. Log(s, i).stream = s /\ Log(s, i).id = i /\ Tmp(s, i).tmp
      BY PairNames
    <3>3. Log(s, i) \in DOMAIN w.disk /\ Tmp(s, i) \in DOMAIN w.disk
      BY <2>3, <3>1, <3>2
    <3> QED  BY <1>1, <2>4, <3>3, SystemApart
  <2> QED  BY <1>8, <2>5 DEF CutStep
<1> QED  BY <1>3, <1>4, <1>5, <1>6, <1>7, <1>8 DEF SessionStep

(* ... and leaves no handle open across sessions, and nothing in a .TMP,   *)
(* unless a start or a rename failed.                                      *)
LEMMA StrayStep ==
  ASSUME SessionTypes, IdsInv, StrayInv, SessionStep
  PROVE  StrayInv'
<1> SUFFICES /\ \A s \in SessionStreams :
                  \/ vol'.slot[s].file \in left' \cup {NoFile}
                  \/ active' /\ vol'.slot[s].file = Tmp(s, sid')
             /\ \A n \in (DOMAIN vol'.disk \cap SessionNames) \ left' :
                  n.tmp /\ ~(active' /\ n.id = sid') => vol'.disk[n] = 0
  BY DEF StrayInv
<1>1. SessionStreams \subseteq Slots /\ \A n \in SessionNames : n # SysLog /\ n # SysTmp
  BY SystemNames DEF Slots
<1>2. \A n \in SessionNames : n.stream \in SessionStreams /\ n # NoFile
  BY SessionNameFacts, SystemNames
<1>3. ASSUME NEW v, IsVol(v), NEW s \in SessionStreams
      PROVE  v.slot[s].file # SysLog /\ v.slot[s].file # SysTmp
             /\ \A t \in SessionStreams, i \in Ids :
                  v.slot[s].file = Tmp(t, i) => t = s
  <2>1. s \in Slots /\ s # System
    BY <1>1, StreamsDiffer DEF SessionStreams
  <2>2. v.slot[s].file \in Handles(s) \cup {NoFile}
    BY <1>3, <2>1 DEF IsVol
  <2>3. CASE v.slot[s].file = NoFile
    BY <2>3, SystemNames, PairNames, SessionNameFacts
  <2>4. CASE v.slot[s].file \in Handles(s)
    <3>1. v.slot[s].file.stream = s /\ v.slot[s].file # SysTmp
      BY <2>1, <2>4, HandleFacts
    <3> QED  BY <2>1, <3>1, SystemNames, PairNames
  <2> QED  BY <2>2, <2>3, <2>4
<1>4. IsVol(vol)
  BY DEF SessionTypes
<1>5. /\ \A s \in SessionStreams :
           \/ vol.slot[s].file \in left \cup {NoFile}
           \/ active /\ vol.slot[s].file = Tmp(s, sid)
      /\ \A n \in (DOMAIN vol.disk \cap SessionNames) \ left :
           n.tmp /\ ~(active /\ n.id = sid) => vol.disk[n] = 0
  BY DEF StrayInv
  \* what the handles allow: files that are not open stay as they are
<1>6. ASSUME NEW u, NEW v, NEW C, Within(u, v, C), C \subseteq {SysLog, SysTmp}
      PROVE  /\ \A s \in SessionStreams : v.slot[s].file \in {u.slot[s].file, NoFile}
             /\ \A n \in DOMAIN v.disk \cap SessionNames :
                  u.slot[n.stream].file # n =>
                    n \in DOMAIN u.disk /\ v.disk[n] = u.disk[n]
  <2>1. IsVol(v)
    BY <1>6 DEF Within
  <2>2. \A s \in SessionStreams : v.slot[s].file \in {u.slot[s].file, NoFile}
    BY <1>1, <1>3, <1>6, <2>1 DEF Within
  <2>3. ASSUME NEW n \in DOMAIN v.disk \cap SessionNames, u.slot[n.stream].file # n
        PROVE  n \in DOMAIN u.disk /\ v.disk[n] = u.disk[n]
    <3>1. n \notin C
      BY <1>1, <1>6
    <3> QED  BY <1>6, <2>3, <3>1 DEF Within
  <2> QED  BY <2>2, <2>3
  \* ... and those of the session are its own
<1>7. ASSUME NEW t \in SessionStreams, NEW i \in Ids, NEW C,
             Within(vol, vol', C), C \subseteq {Tmp(t, i), SysLog},
             active => i = sid, left' = left
      PROVE  /\ \A s \in SessionStreams :
                  vol'.slot[s].file \in left' \cup {NoFile, Tmp(s, i)}
             /\ \A n \in (DOMAIN vol'.disk \cap SessionNames) \ left' :
                  n.tmp /\ n.id # i => vol'.disk[n] = 0
  <2>1. IsVol(vol')
    BY <1>7 DEF Within
  <2>2. ASSUME NEW s \in SessionStreams
        PROVE  vol'.slot[s].file \in left' \cup {NoFile, Tmp(s, i)}
    <3>1. vol'.slot[s].file \in {vol.slot[s].file, NoFile, Tmp(t, i), SysLog}
      BY <1>1, <1>7 DEF Within
    <3>2. vol'.slot[s].file # SysLog /\ (vol'.slot[s].file = Tmp(t, i) => t = s)
      BY <1>3, <2>1
    <3>3. vol.slot[s].file \in left \cup {NoFile, Tmp(s, i)}
      BY <1>5, <1>7
    <3> QED  BY <1>7, <3>1, <3>2, <3>3
  <2>3. ASSUME NEW n \in (DOMAIN vol'.disk \cap SessionNames) \ left', n.tmp, n.id # i
        PROVE  vol'.disk[n] = 0
    <3>1. n # SysLog /\ n # NoFile /\ n.stream \in SessionStreams
      BY <1>1, <1>2
    <3>2. n # Tmp(t, i) /\ n # Tmp(n.stream, i)
      BY <2>3, <3>1, PairNames
    <3>3. n \notin C
      BY <1>7, <3>1, <3>2
    <3>4. vol.slot[n.stream].file # n
      BY <1>5, <1>7, <2>3, <3>1, <3>2
    <3>5. n \in DOMAIN vol.disk /\ vol'.disk[n] = vol.disk[n]
      BY <1>7, <3>3, <3>4 DEF Within
    <3> QED  BY <1>5, <1>7, <2>3, <3>5
  <2> QED  BY <2>2, <2>3
<1>8. CASE IdleStep
  <2>1. /\ active' = active /\ sid' = sid /\ left' = left
        /\ Within(vol, vol', {SysLog})
    BY <1>8 DEF IdleStep, session
  <2>2. CASE active
    <3>1. sid \in Ids /\ Trip \in SessionStreams
      BY <2>2, ActiveId DEF SessionStreams
    <3>2. {SysLog} \subseteq {Tmp(Trip, sid), SysLog}
      OBVIOUS
    <3> QED  BY <1>7, <2>1, <2>2, <3>1, <3>2
  <2>3. CASE ~active
    <3>1. \A s \in SessionStreams : vol.slot[s].file \in left \cup {NoFile}
      BY <1>5, <2>3
    <3>2. /\ \A s \in SessionStreams : vol'.slot[s].file \in {vol.slot[s].file, NoFile}
          /\ \A n \in DOMAIN vol'.disk \cap SessionNames :
               vol.slot[n.stream].file # n =>
                 n \in DOMAIN vol.disk /\ vol'.disk[n] = vol.disk[n]
      BY <1>6, <2>1
    <3>3. \A n \in SessionNames \ left : vol.slot[n.stream].file # n
      BY <1>2, <3>1
    <3> QED  BY <1>5, <2>1, <2>3, <3>1, <3>2, <3>3
  <2> QED  BY <2>2, <2>3
<1>9. CASE LineStep
  <2>1. active /\ active' = active /\ sid' = sid /\ left' = left /\ sid \in Ids
    BY <1>9, ActiveId DEF LineStep, session
  <2>2. PICK t \in SessionStreams : Within(vol, vol', {Tmp(t, sid), SysLog})
    BY <1>9 DEF LineStep
  <2> QED  BY <1>7, <2>1, <2>2
<1>10. CASE StartStep
  <2>1. /\ ~active /\ sid' = next /\ next \in Ids /\ Trip \in SessionStreams
        /\ left \subseteq left'
        /\ Within(vol, vol', {Tmp(Trip, next), SysLog})
        /\ ~active' => /\ vol'.slot[Trip].file \in left' \cup {NoFile}
                       /\ Tmp(Trip, next) \in left' \/ Within(vol, vol', {})
    BY <1>10, StartIds DEF StartStep
  <2>2. \A s \in SessionStreams : vol.slot[s].file \in left \cup {NoFile}
    BY <1>5, <2>1
  <2>3. IsVol(vol')
    BY <2>1 DEF Within
  <2>4. ASSUME NEW s \in SessionStreams
        PROVE  \/ vol'.slot[s].file \in left' \cup {NoFile}
               \/ active' /\ vol'.slot[s].file = Tmp(s, next)
    <3>1. vol'.slot[s].file \in {vol.slot[s].file, NoFile, Tmp(Trip, next), SysLog}
      BY <1>1, <2>1 DEF Within
    <3>2. vol'.slot[s].file # SysLog /\ (vol'.slot[s].file = Tmp(Trip, next) => Trip = s)
      BY <1>3, <2>1, <2>3
    <3> QED  BY <2>1, <2>2, <3>1, <3>2
  <2>5. ASSUME NEW n \in (DOMAIN vol'.disk \cap SessionNames) \ left', n.tmp,
               ~(active' /\ n.id = next)
        PROVE  vol'.disk[n] = 0
    <3>1. n # SysLog /\ n # NoFile /\ n.stream \in SessionStreams
      BY <1>1, <1>2
    <3>2. vol.slot[n.stream].file # n
      BY <2>1, <2>2, <2>5, <3>1
    <3>3. CASE n # Tmp(Trip, next)
      <4>1. n \in DOMAIN vol.disk /\ vol'.disk[n] = vol.disk[n]
        BY <2>1, <3>1, <3>2, <3>3 DEF Within
      <4> QED  BY <1>5, <2>1, <2>5, <4>1
    <3>4. CASE n = Tmp(Trip, next)
      <4>1. n.id = next
        BY <2>1, <3>4, PairNames
      <4>2. Within(vol, vol', {})
        BY <2>1, <2>5, <3>4, <4>1
      <4>3. n \in DOMAIN vol.disk /\ vol'.disk[n] = vol.disk[n]
        BY <3>2, <4>2 DEF Within
      <4> QED  BY <1>5, <2>1, <2>5, <4>3
    <3> QED  BY <3>3, <3>4
  <2> QED  BY <2>1, <2>4, <2>5
<1>11. CASE FinishStep
  <2>1. PICK w, stuck : /\ Within(vol, w, {Tmp(Trip, sid), SysLog})
                        /\ \A s \in SessionStreams : w.slot[s] = Closed
                        /\ left' = left \cup stuck
                        /\ Within(Renamed(w, {sid}, 1, stuck), vol', {SysLog})
    BY <1>11 DEF FinishStep
  <2>2. sid \in Ids /\ Trip \in SessionStreams /\ active /\ ~active'
    BY <1>11, ActiveId DEF FinishStep, SessionStreams
  <2> DEFINE x == Renamed(w, {sid}, 1, stuck)
  <2>3. IsVol(w)
    BY <2>1 DEF Within
  <2>4. x.slot = w.slot /\ \A n \in DOMAIN x.disk :
          \/ /\ n \in DOMAIN w.disk /\ x.disk[n] = w.disk[n]
             /\ n \in SessionNames /\ n.tmp /\ n.id = sid =>
                  ~(w.disk[n] >= 1) \/ n \in stuck
          \/ ~n.tmp
    <3>1. {sid} \subseteq Ids
      BY <2>2
    <3> QED  BY <2>3, <3>1, RenamedFacts
  <2>5. \A s \in SessionStreams : x.slot[s].file = NoFile
    BY <2>1, <2>4 DEF Closed
  <2> HIDE DEF x
  <2>6. \A n \in SessionNames : x.slot[n.stream].file # n
    BY <1>2, <2>5
  <2>7. /\ \A s \in SessionStreams : vol'.slot[s].file = NoFile
        /\ \A n \in DOMAIN vol'.disk \cap SessionNames :
             n \in DOMAIN x.disk /\ vol'.disk[n] = x.disk[n]
    <3>1. Within(x, vol', {SysLog})
      BY <2>1 DEF x
    <3>2. /\ \A s \in SessionStreams : vol'.slot[s].file \in {x.slot[s].file, NoFile}
          /\ \A n \in DOMAIN vol'.disk \cap SessionNames :
               x.slot[n.stream].file # n =>
                 n \in DOMAIN x.disk /\ vol'.disk[n] = x.disk[n]
      BY <1>6, <3>1
    <3> QED  BY <2>5, <2>6, <3>2
  <2>8. ASSUME NEW n \in (DOMAIN vol'.disk \cap SessionNames) \ left', n.tmp
        PROVE  vol'.disk[n] = 0
    <3>1. /\ n \in DOMAIN w.disk /\ vol'.disk[n] = w.disk[n]
          /\ n.id = sid => ~(w.disk[n] >= 1)
      BY <2>1, <2>4, <2>7, <2>8
    <3>2. CASE n.id = sid
      BY <2>3, <3>1, <3>2 DEF IsVol
    <3>3. CASE n.id # sid
      <4>1. n # Tmp(Trip, sid) /\ n # Tmp(n.stream, sid) /\ n # SysLog
        BY <1>1, <1>2, <2>2, <3>3, PairNames
      <4>2. vol.slot[n.stream].file # n
        BY <1>2, <1>5, <2>1, <2>2, <2>8, <4>1
      <4>3. n \in DOMAIN vol.disk /\ w.disk[n] = vol.disk[n]
        BY <2>1, <3>1, <4>1, <4>2 DEF Within
      <4> QED  BY <1>5, <2>1, <2>2, <2>8, <3>1, <3>3, <4>3
    <3> QED  BY <3>2, <3>3
  <2> QED  BY <2>2, <2>7, <2>8
<1>12. CASE WipeStep
  BY <1>1, <1>12 DEF WipeStep
<1>13. CASE CutStep
  <2>1. PICK w, stuck : /\ Within(vol, w, {SysTmp})
                        /\ \A s \in Slots : w.slot[s] = Closed
                        /\ left' = stuck
                        /\ Within(Renamed(w, Ids, 0, stuck), vol', {SysLog})
    BY <1>13 DEF CutStep
  <2> DEFINE x == Renamed(w, Ids, 0, stuck)
  <2>2. IsVol(w) /\ \A n \in DOMAIN w.disk : w.disk[n] \in Nat
    BY <2>1 DEF Within, IsVol
  <2>3. x.slot = w.slot /\ \A n \in DOMAIN x.disk :
          \/ /\ n \in DOMAIN w.disk
             /\ n \in SessionNames /\ n.tmp /\ n.id \in Ids =>
                  ~(w.disk[n] >= 0) \/ n \in stuck
          \/ ~n.tmp
    BY <2>2, RenamedFacts
  <2>4. \A s \in SessionStreams : x.slot[s].file = NoFile
    BY <1>1, <2>1, <2>3 DEF Closed
  <2> HIDE DEF x
  <2>5. \A n \in SessionNames : x.slot[n.stream].file # n
    BY <1>2, <2>4
  <2>6. /\ \A s \in SessionStreams : vol'.slot[s].file = NoFile
        /\ \A n \in DOMAIN vol'.disk \cap SessionNames : n \in DOMAIN x.disk
    BY <1>6, <2>1, <2>4, <2>5 DEF x
  <2>7. ASSUME NEW n \in (DOMAIN vol'.disk \cap SessionNames) \ left' PROVE ~n.tmp
    <3>1. n.id \in Ids
      BY SessionNameFacts
    <3> QED  BY <2>1, <2>2, <2>3, <2>6, <3>1
  <2> QED  BY <2>6, <2>7
<1> QED  BY <1>8, <1>9, <1>10, <1>11, <1>12, <1>13 DEF SessionStep

(* A finished log that is still there after a step is as it was: it is in  *)
(* no handle, and no rename replaces it.                                   *)
LEMMA FinalStep ==
  ASSUME SessionTypes, PairInv, SessionStep
  PROVE  \A n \in DOMAIN vol.disk \ {SysLog} :
           ~n.tmp /\ n \in DOMAIN vol'.disk => vol'.disk[n] = vol.disk[n]
<1> SUFFICES ASSUME NEW n \in DOMAIN vol.disk \ {SysLog}, ~n.tmp, n \in DOMAIN vol'.disk
             PROVE  vol'.disk[n] = vol.disk[n]
  OBVIOUS
<1>1. n \in Names /\ n # NoFile /\ n.stream \in Slots
  BY NameFacts, SystemNames DEF SessionTypes, IsVol
<1>2. n # SysTmp /\ n \in SessionNames /\ n.stream \in SessionStreams /\ n.id \in Ids
      /\ n = Log(n.stream, n.id)
  BY <1>1, SystemNames, SessionNameFacts DEF Names
<1>3. ASSUME NEW u, IsVol(u)
      PROVE  u.slot[n.stream].file # n
  BY <1>1, <1>3, HandleFacts DEF IsVol
<1>4. ASSUME NEW u, NEW v, NEW C, IsVol(u), Within(u, v, C), n \notin C, n \in DOMAIN v.disk
      PROVE  n \in DOMAIN u.disk /\ v.disk[n] = u.disk[n]
  BY <1>3, <1>4 DEF Within
<1>5. IsVol(vol)
  BY DEF SessionTypes
<1>6. CASE IdleStep \/ WipeStep
  <2>1. Within(vol, vol', {SysLog})
    BY <1>6 DEF IdleStep, WipeStep
  <2> QED  BY <1>4, <1>5, <2>1
<1>7. CASE LineStep
  <2>1. PICK s \in SessionStreams : Within(vol, vol', {Tmp(s, sid), SysLog})
    BY <1>7 DEF LineStep
  <2>2. n # Tmp(s, sid)
    BY <1>2, <1>7, <2>1, ActiveId, SystemApart DEF LineStep
  <2> QED  BY <1>4, <1>5, <2>1, <2>2
<1>8. CASE StartStep
  <2>1. n # Tmp(Trip, next)
    BY <1>2, <1>8, StartIds, SystemApart
  <2> QED  BY <1>4, <1>5, <1>8, <2>1 DEF StartStep
<1>9. CASE FinishStep
  <2>1. PICK w, stuck : /\ Within(vol, w, {Tmp(Trip, sid), SysLog})
                        /\ Within(Renamed(w, {sid}, 1, stuck), vol', {SysLog})
    BY <1>9 DEF FinishStep
  <2>2. sid \in Ids /\ Trip \in SessionStreams /\ active
    BY <1>9, ActiveId DEF FinishStep, SessionStreams
  <2> DEFINE x == Renamed(w, {sid}, 1, stuck)
  <2>3. IsVol(w)
    BY <2>1 DEF Within
  <2>4. IsVol(x) /\ (n \in DOMAIN x.disk =>
          \/ n \in DOMAIN w.disk /\ x.disk[n] = w.disk[n]
          \/ n.id = sid)
    BY <2>2, <2>3, RenamedFacts
  <2> HIDE DEF x
  <2>5. n \in DOMAIN x.disk /\ vol'.disk[n] = x.disk[n]
    BY <1>4, <2>1, <2>4 DEF x
  <2>6. n.id # sid
    BY <1>2, <2>2 DEF PairInv
  <2>7. n # Tmp(Trip, sid)
    BY <1>2, <2>2, SystemApart
  <2> QED  BY <1>4, <1>5, <2>1, <2>4, <2>5, <2>6, <2>7
<1>10. CASE CutStep
  <2>1. PICK w, stuck : /\ Within(vol, w, {SysTmp})
                        /\ Within(Renamed(w, Ids, 0, stuck), vol', {SysLog})
    BY <1>10 DEF CutStep
  <2> DEFINE x == Renamed(w, Ids, 0, stuck)
  <2>2. IsVol(w)
    BY <2>1 DEF Within
  <2>3. IsVol(x) /\ (n \in DOMAIN x.disk =>
          \/ n \in DOMAIN w.disk /\ x.disk[n] = w.disk[n]
          \/ Tmp(n.stream, n.id) \in DOMAIN w.disk)
    BY <2>2, RenamedFacts
  <2> HIDE DEF x
  <2>4. n \in DOMAIN x.disk /\ vol'.disk[n] = x.disk[n]
    BY <1>4, <2>1, <2>3 DEF x
  <2>5. Tmp(n.stream, n.id) \notin DOMAIN w.disk
    <3>1. Tmp(n.stream, n.id) \notin DOMAIN vol.disk
      BY <1>2 DEF PairInv
    <3> QED  BY <1>2, <2>1, <3>1, SystemApart DEF Within
  <2> QED  BY <1>2, <1>4, <1>5, <2>1, <2>3, <2>4, <2>5
<1> QED  BY <1>6, <1>7, <1>8, <1>9, <1>10 DEF SessionStep

-----------------------------------------------------------------------------
(* The theorems about sessions.                                            *)

LEMMA SessionInit ==
  ASSUME LogInit
  PROVE  SessionInv
<1>1. Closed \in Slot /\ Closed.file = NoFile
  BY DEF Closed, Slot
<1>2. /\ vol.disk = [ n \in {SysLog} |-> 0 ] /\ vol.slot = [ s \in Slots |-> Closed ]
      /\ IsRec(vol)
  BY DEF LogInit, IsRec, Fields
<1>3. IsVol(vol)
  BY <1>1, <1>2, SystemNames DEF IsVol
<1>4. SessionTypes
  <2>1. 0 \in 0 .. MaxId /\ 1 \in 1 .. MaxId + 1
    BY Positives
  <2> QED  BY <1>3, <2>1 DEF LogInit, SessionTypes
<1>5. IdsInv
  BY <1>2, SystemNames DEF LogInit, IdsInv
<1>6. PairInv
  BY <1>2, SystemApart DEF LogInit, PairInv
<1>7. StrayInv
  BY <1>1, <1>2, SystemNames DEF StrayInv, Slots
<1> QED  BY <1>4, <1>5, <1>6, <1>7 DEF SessionInv

(* The files, handles and ids of the sessions fit together after every     *)
(* step of db_sonar_log.c and every power cut: the inductive invariant of  *)
(* the theorems below.                                                     *)
THEOREM SessionsHold == LogSpec => []SessionInv
<1>1. LogInit => SessionInv
  BY SessionInit
<1>2. SessionInv /\ [LogNext]_vars => SessionInv'
  <2> SUFFICES ASSUME SessionInv, [LogNext]_vars PROVE SessionInv'
    OBVIOUS
  <2>1. SessionTypes /\ IdsInv /\ PairInv /\ StrayInv
    BY DEF SessionInv
  <2>2. SessionStep
    BY <2>1, LogSteps
  <2>3. SessionTypes'
    BY <2>1, <2>2, TypesStep
  <2>4. IdsInv'
    BY <2>1, <2>2, IdsStep
  <2>5. PairInv'
    BY <2>1, <2>2, PairsStep
  <2>6. StrayInv'
    BY <2>1, <2>2, StrayStep
  <2> QED  BY <2>3, <2>4, <2>5, <2>6 DEF SessionInv
<1> QED  BY <1>1, <1>2, PTL DEF LogSpec

(* A session gets an id above every id given since the volume was          *)
(* formatted: db_log_start_session_locked, with what is stored in NVS and  *)
(* found on the volume at start-up.                                        *)
THEOREM IdsGoUp == LogSpec => IdsNeverGoBack
<1>1. SessionInv /\ [LogNext]_vars => [IdIsNew]_vars
  <2> SUFFICES ASSUME SessionInv, [LogNext]_vars PROVE IdIsNew
    OBVIOUS
  <2>1. SessionTypes /\ IdsInv
    BY DEF SessionInv
  <2>2. SessionStep
    BY <2>1, LogSteps
  <2>3. CASE StartStep
    BY <2>1, <2>3 DEF StartStep, IdIsNew, IdsInv, SessionTypes
  <2>4. CASE IdleStep \/ LineStep \/ FinishStep \/ WipeStep \/ CutStep
    BY <2>4 DEF IdleStep, LineStep, FinishStep, WipeStep, CutStep, IdIsNew, session
  <2> QED  BY <2>2, <2>3, <2>4 DEF SessionStep
<1> QED  BY <1>1, SessionsHold, PTL DEF LogSpec, IdsNeverGoBack

(* A log that db_log_finish_session_locked renamed is never written again  *)
(* and never replaced by another.                                          *)
THEOREM FinishedStaysFinal == LogSpec => FinishedIsFinal
<1> DEFINE Final == \A n \in DOMAIN vol.disk \ {SysLog} :
             ~n.tmp /\ n \in DOMAIN vol'.disk => vol'.disk[n] = vol.disk[n]
<1>1. SessionInv /\ [LogNext]_vars => [Final]_vars
  <2> SUFFICES ASSUME SessionInv, [LogNext]_vars PROVE Final
    OBVIOUS
  <2>1. SessionTypes /\ PairInv
    BY DEF SessionInv
  <2>2. SessionStep
    BY <2>1, LogSteps
  <2> QED  BY <2>1, <2>2, FinalStep
<1> QED  BY <1>1, SessionsHold, PTL DEF LogSpec, FinishedIsFinal

(* db_log_finish_session_locked renames the files of a session together,   *)
(* and start-up those that a power cut left: outside a session a .TMP file *)
(* with something in it is one whose own rename failed, or one on which a  *)
(* session that could not start left the trip handle open.                 *)
THEOREM RenamedAsOne == LogSpec => []RenamedTogether
<1>1. SessionInv => RenamedTogether
  <2> SUFFICES ASSUME SessionInv, ~active, NEW n \in DOMAIN vol.disk \cap SessionNames,
                      n.tmp, n \notin left
               PROVE  ~(vol.disk[n] > 0)
    BY DEF RenamedTogether
  <2>1. vol.disk[n] = 0
    BY DEF SessionInv, StrayInv
  <2> QED  BY <2>1
<1> QED  BY <1>1, SessionsHold, PTL

-----------------------------------------------------------------------------
(* Sums over finite functions.                                             *)

(* Induction over the subsets of a finite set, for a set of them.          *)
LEMMA FiniteInduction ==
  ASSUME NEW D, IsFiniteSet(D), NEW T, {} \in T,
         \A S \in T \cap SUBSET D : \A x \in D \ S : S \cup {x} \in T
  PROVE  D \in T
<1> DEFINE U == { n \in Nat : \A S \in SUBSET D : Cardinality(S) = n => S \in T }
<1>1. 0 \in U
  <2>1. ASSUME NEW S \in SUBSET D, Cardinality(S) = 0 PROVE S \in T
    <3>1. IsFiniteSet(S)
      BY FS_Subset
    <3>2. S = {}
      BY <2>1, <3>1, FS_EmptySet
    <3> QED  BY <3>2
  <2> QED  BY <2>1
<1>2. ASSUME NEW n \in U \cap Nat PROVE n + 1 \in U
  <2>1. ASSUME NEW S \in SUBSET D, Cardinality(S) = n + 1 PROVE S \in T
    <3>1. IsFiniteSet(S)
      BY FS_Subset
    <3>2. S # {}
      BY <2>1, <3>1, FS_EmptySet
    <3>3. PICK x \in S : TRUE
      BY <3>2
    <3>4. IsFiniteSet(S \ {x}) /\ Cardinality(S \ {x}) = Cardinality(S) - 1
      BY <3>1, <3>3, FS_RemoveElement
    <3>5. Cardinality(S \ {x}) = n
      BY <2>1, <3>4
    <3>6. S \ {x} \in T
      BY <3>5
    <3>7. (S \ {x}) \cup {x} = S
      BY <3>3
    <3> QED  BY <3>3, <3>6, <3>7
  <2> QED  BY <2>1
<1> HIDE DEF U
<1>3. Nat \subseteq U
  BY <1>1, <1>2, SetInduction
<1>4. Cardinality(D) \in Nat
  BY FS_CardinalityType
<1> QED  BY <1>3, <1>4 DEF U

(* How SumFunction adds up: over the subsets of the domain.                *)
Picked(s) == CHOOSE x \in s : TRUE
Sums(f, it) ==
  it = [ s \in SUBSET DOMAIN f |-> IF s = {} THEN 0 ELSE f[Picked(s)] + it[s \ {Picked(s)}] ]

LEMMA SubsetSizes ==
  ASSUME NEW D, IsFiniteSet(D), NEW s \in SUBSET D
  PROVE  /\ Cardinality(s) \in Nat /\ Cardinality(s) <= Cardinality(D)
         /\ s = {} => Cardinality(s) = 0
         /\ Cardinality(s) = 0 => s = {}
         /\ s # {} => Picked(s) \in s
         /\ \A x \in s : s \ {x} \in SUBSET D /\ Cardinality(s \ {x}) = Cardinality(s) - 1
<1>1. IsFiniteSet(s) /\ Cardinality(s) <= Cardinality(D)
  BY FS_Subset
<1>2. Cardinality(s) \in Nat /\ ((Cardinality(s) = 0) <=> (s = {}))
  BY <1>1, FS_EmptySet, FS_CardinalityType
<1>3. \A x \in s : Cardinality(s \ {x}) = Cardinality(s) - 1
  BY <1>1, FS_RemoveElement
<1>4. s # {} => Picked(s) \in s
  BY DEF Picked
<1> QED  BY <1>1, <1>2, <1>3, <1>4

(* The fold behind SumFunction exists on every finite domain.              *)
LEMMA SumsExist ==
  ASSUME NEW f, IsFiniteSet(DOMAIN f)
  PROVE  \E it : Sums(f, it)
<1> DEFINE D == DOMAIN f
           Value(it, s) == IF s = {} THEN 0 ELSE f[Picked(s)] + it[s \ {Picked(s)}]
           T == { n \in Nat : \E it : \A s \in SUBSET D :
                                     Cardinality(s) <= n => it[s] = Value(it, s) }
<1>1. 0 \in T
  <2> DEFINE it == [ s \in SUBSET D |-> 0 ]
  <2>1. ASSUME NEW s \in SUBSET D, Cardinality(s) <= 0 PROVE it[s] = Value(it, s)
    <3>1. Cardinality(s) = 0
      BY <2>1, SubsetSizes
    <3>2. s = {}
      BY <3>1, SubsetSizes
    <3> QED  BY <3>2
  <2> HIDE DEF it
  <2> QED  BY <2>1
<1>2. ASSUME NEW n \in T \cap Nat PROVE n + 1 \in T
  <2>1. PICK h : \A s \in SUBSET D : Cardinality(s) <= n => h[s] = Value(h, s)
    OBVIOUS
  <2> DEFINE it == [ s \in SUBSET D |-> IF Cardinality(s) <= n THEN h[s] ELSE Value(h, s) ]
  <2>2. ASSUME NEW s \in SUBSET D PROVE it[s] = Value(h, s)
    BY <2>1
  <2>3. ASSUME NEW s \in SUBSET D, Cardinality(s) <= n + 1 PROVE it[s] = Value(it, s)
    <3>1. CASE s = {}
      BY <2>2, <3>1
    <3>2. CASE s # {}
      <4>1. /\ s \ {Picked(s)} \in SUBSET D
            /\ Cardinality(s \ {Picked(s)}) = Cardinality(s) - 1 /\ Cardinality(s) \in Nat
        BY <3>2, SubsetSizes
      <4>2. it[s \ {Picked(s)}] = h[s \ {Picked(s)}]
        BY <2>3, <4>1
      <4> QED  BY <2>2, <3>2, <4>2
    <3> QED  BY <3>1, <3>2
  <2> HIDE DEF it
  <2>4. n + 1 \in Nat
    OBVIOUS
  <2>5. \E g : \A s \in SUBSET D : Cardinality(s) <= n + 1 => g[s] = Value(g, s)
    BY <2>3
  <2> QED  BY <2>4, <2>5
<1> HIDE DEF T
<1>3. Nat \subseteq T
  BY <1>1, <1>2, SetInduction
<1>4. Cardinality(D) \in Nat /\ \A s \in SUBSET D : Cardinality(s) <= Cardinality(D)
  BY SubsetSizes, FS_CardinalityType
<1>5. PICK h : \A s \in SUBSET D : Cardinality(s) <= Cardinality(D) => h[s] = Value(h, s)
  BY <1>3, <1>4 DEF T
<1> DEFINE it == [ s \in SUBSET D |-> h[s] ]
<1>6. ASSUME NEW s \in SUBSET D PROVE it[s] = Value(it, s)
  <2>1. h[s] = Value(h, s)
    BY <1>4, <1>5
  <2>2. s \ {Picked(s)} \in SUBSET D
    OBVIOUS
  <2> QED  BY <2>1, <2>2
<1>7. it = [ s \in SUBSET D |-> it[s] ]
  OBVIOUS
<1> HIDE DEF it
<1>8. Sums(f, it)
  BY <1>6, <1>7 DEF Sums
<1> QED  BY <1>8

(* The sums of f over the subsets of its domain, taken in any order.       *)
SumOver(f, it) ==
  /\ it[{}] = 0
  /\ \A s \in SUBSET DOMAIN f : it[s] \in Nat
  /\ \A s \in SUBSET DOMAIN f : \A x \in s : it[s] = f[x] + it[s \ {x}]

(* A sum of numbers does not depend on the order of its terms, ...         *)
LEMMA SumsAnyOrder ==
  ASSUME NEW f, IsFiniteSet(DOMAIN f), \A x \in DOMAIN f : f[x] \in Nat, NEW it, Sums(f, it)
  PROVE  SumOver(f, it)
<1> DEFINE D == DOMAIN f
<1>1. /\ it[{}] = 0
      /\ \A s \in SUBSET D : s # {} => it[s] = f[Picked(s)] + it[s \ {Picked(s)}]
  BY DEF Sums
<1>2. \A s \in SUBSET D : it[s] \in Nat
  <2> DEFINE T == { n \in Nat : \A s \in SUBSET D : Cardinality(s) = n => it[s] \in Nat }
  <2>1. 0 \in T
    <3>1. ASSUME NEW s \in SUBSET D, Cardinality(s) = 0 PROVE it[s] \in Nat
      <4>1. s = {}
        BY <3>1, SubsetSizes
      <4> QED  BY <1>1, <4>1
    <3> QED  BY <3>1
  <2>2. ASSUME NEW n \in T \cap Nat PROVE n + 1 \in T
    <3>1. ASSUME NEW s \in SUBSET D, Cardinality(s) = n + 1 PROVE it[s] \in Nat
      <4> DEFINE c == Picked(s)
      <4>1. s # {}
        BY <3>1, SubsetSizes
      <4>2. c \in s /\ s \ {c} \in SUBSET D /\ Cardinality(s \ {c}) = n
        BY <3>1, <4>1, SubsetSizes
      <4>3. it[s] = f[c] + it[s \ {c}]
        BY <1>1, <4>1
      <4> HIDE DEF c
      <4>4. f[c] \in Nat /\ it[s \ {c}] \in Nat
        BY <4>2
      <4> QED  BY <4>3, <4>4
    <3> QED  BY <3>1
  <2> HIDE DEF T
  <2>3. Nat \subseteq T
    BY <2>1, <2>2, SetInduction
  <2> QED  BY <2>3, SubsetSizes DEF T
<1>3. \A s \in SUBSET D : \A x \in s : it[s] = f[x] + it[s \ {x}]
  <2> DEFINE T == { n \in Nat : \A s \in SUBSET D : Cardinality(s) = n =>
                       \A x \in s : it[s] = f[x] + it[s \ {x}] }
  <2>1. 0 \in T
    BY SubsetSizes
  <2>2. ASSUME NEW n \in T \cap Nat PROVE n + 1 \in T
    <3>1. ASSUME NEW s \in SUBSET D, Cardinality(s) = n + 1, NEW x \in s
          PROVE  it[s] = f[x] + it[s \ {x}]
      <4> DEFINE c == Picked(s)
      <4>1. s # {}
        OBVIOUS
      <4>2. c \in s /\ s \ {c} \in SUBSET D /\ Cardinality(s \ {c}) = n
        BY <3>1, <4>1, SubsetSizes
      <4>3. it[s] = f[c] + it[s \ {c}]
        BY <1>1, <4>1
      <4> HIDE DEF c
      <4>4. CASE x = c
        BY <4>3, <4>4
      <4>5. CASE x # c
        <5>1. s \ {x} \in SUBSET D /\ Cardinality(s \ {x}) = n
          BY <3>1, SubsetSizes
        <5>2. x \in s \ {c} /\ c \in s \ {x}
          BY <4>2, <4>5
        <5>3. it[s \ {c}] = f[x] + it[(s \ {c}) \ {x}]
          BY <4>2, <5>2
        <5>4. it[s \ {x}] = f[c] + it[(s \ {x}) \ {c}]
          BY <5>1, <5>2
        <5>5. (s \ {c}) \ {x} = (s \ {x}) \ {c} /\ (s \ {x}) \ {c} \in SUBSET D
          OBVIOUS
        <5>6. it[(s \ {x}) \ {c}] \in Nat /\ f[x] \in Nat /\ f[c] \in Nat
          BY <1>2, <4>2, <5>5
        <5>7. PICK r \in Nat : r = it[(s \ {x}) \ {c}]
          BY <5>6
        <5>8. it[s \ {c}] = f[x] + r /\ it[s \ {x}] = f[c] + r
          BY <5>3, <5>4, <5>5, <5>7
        <5> QED  BY <4>3, <5>6, <5>8
      <4> QED  BY <4>4, <4>5
    <3> QED  BY <3>1
  <2> HIDE DEF T
  <2>3. Nat \subseteq T
    BY <2>1, <2>2, SetInduction
  <2>4. ASSUME NEW s \in SUBSET D, NEW x \in s
        PROVE  it[s] = f[x] + it[s \ {x}]
    <3>1. Cardinality(s) \in T
      BY <2>3, SubsetSizes
    <3> QED  BY <3>1 DEF T
  <2> QED  BY <2>4
<1> QED  BY <1>1, <1>2, <1>3 DEF SumOver

(* What is needed of a sum: it is a number, it is 0 over nothing, and any  *)
(* element may be taken out of it.                                         *)
Numbers(f) == IsFiniteSet(DOMAIN f) /\ \A x \in DOMAIN f : f[x] \in Nat
Less(f, x) == [ y \in DOMAIN f \ {x} |-> f[y] ]

(* ... so SumFunction is the fold in any order.                            *)
LEMMA SumIsOver ==
  ASSUME NEW f, Numbers(f)
  PROVE  \E it : SumOver(f, it) /\ SumFunction(f) = it[DOMAIN f]
<1> DEFINE it == CHOOSE g : Sums(f, g)
<1>1. Sums(f, it)
  BY SumsExist DEF Numbers
<1>2. SumFunction(f) = it[DOMAIN f]
  BY DEF SumFunction, SumFunctionOnSet, FoldFunctionOnSet, MapThenFoldSet, Sums, Picked
<1> HIDE DEF it
<1>3. SumOver(f, it)
  BY <1>1, SumsAnyOrder DEF Numbers
<1> QED  BY <1>2, <1>3

(* Sums of functions that agree are the same.                              *)
LEMMA SumsAgree ==
  ASSUME NEW f, NEW g, Numbers(f), Numbers(g), DOMAIN g \subseteq DOMAIN f,
         \A x \in DOMAIN g : g[x] = f[x], NEW it, SumOver(f, it), NEW h, SumOver(g, h)
  PROVE  h[DOMAIN g] = it[DOMAIN g]
<1> DEFINE D == DOMAIN g
           T == { s \in SUBSET D : h[s] = it[s] }
<1>1. {} \in T
  BY DEF SumOver
<1>2. ASSUME NEW s \in T \cap SUBSET D, NEW x \in D \ s
      PROVE  s \cup {x} \in T
  <2>1. (s \cup {x}) \ {x} = s /\ s \cup {x} \in SUBSET D /\ s \cup {x} \in SUBSET DOMAIN f
        /\ x \in s \cup {x}
    OBVIOUS
  <2>2. h[s \cup {x}] = g[x] + h[s]
    BY <2>1 DEF SumOver
  <2>3. it[s \cup {x}] = f[x] + it[s]
    <3>1. \A t \in SUBSET DOMAIN f : \A y \in t : it[t] = f[y] + it[t \ {y}]
      BY DEF SumOver
    <3> QED  BY <2>1, <3>1
  <2> QED  BY <2>1, <2>2, <2>3
<1>3. IsFiniteSet(D)
  BY DEF Numbers
<1> HIDE DEF T
<1>4. D \in T
  BY <1>1, <1>2, <1>3, FiniteInduction
<1> QED  BY <1>4 DEF T

(* What the accounts need of a sum: it is a number, and each term can be   *)
(* taken out of it.                                                        *)
LEMMA SumFacts ==
  ASSUME NEW f, Numbers(f)
  PROVE  /\ SumFunction(f) \in Nat
         /\ DOMAIN f = {} => SumFunction(f) = 0
         /\ \A x \in DOMAIN f : Numbers(Less(f, x))
                               /\ SumFunction(f) = f[x] + SumFunction(Less(f, x))
<1>1. PICK it : SumOver(f, it) /\ SumFunction(f) = it[DOMAIN f]
  BY SumIsOver
<1>2. SumFunction(f) \in Nat
  BY <1>1 DEF SumOver
<1>3. DOMAIN f = {} => SumFunction(f) = 0
  BY <1>1 DEF SumOver
<1>4. ASSUME NEW x \in DOMAIN f
      PROVE  Numbers(Less(f, x)) /\ SumFunction(f) = f[x] + SumFunction(Less(f, x))
  <2> DEFINE g == Less(f, x)
  <2>1. DOMAIN g = DOMAIN f \ {x} /\ \A y \in DOMAIN g : g[y] = f[y]
    BY DEF Less
  <2>2. IsFiniteSet(DOMAIN f \ {x})
    BY FS_Subset DEF Numbers
  <2> HIDE DEF g
  <2>3. Numbers(g)
    BY <2>1, <2>2 DEF Numbers
  <2>4. PICK h : SumOver(g, h) /\ SumFunction(g) = h[DOMAIN g]
    BY <2>3, SumIsOver
  <2>5. h[DOMAIN g] = it[DOMAIN g]
    BY <1>1, <2>1, <2>3, <2>4, SumsAgree
  <2>6. it[DOMAIN f] = f[x] + it[DOMAIN f \ {x}]
    BY <1>1 DEF SumOver
  <2>7. SumFunction(f) = f[x] + SumFunction(g)
    BY <1>1, <2>1, <2>4, <2>5, <2>6
  <2> QED  BY <2>3, <2>7 DEF g
<1> QED  BY <1>2, <1>3, <1>4

LEMMA RestrictFacts ==
  ASSUME NEW f, Numbers(f), NEW S, S \subseteq DOMAIN f
  PROVE  /\ Numbers(Restrict(f, S)) /\ SumFunction(Restrict(f, S)) \in Nat
         /\ SumFunction(Restrict(f, {})) = 0
         /\ \A x \in DOMAIN f \ S :
              SumFunction(Restrict(f, S \cup {x})) = f[x] + SumFunction(Restrict(f, S))
<1>1. ASSUME NEW R, R \subseteq DOMAIN f
      PROVE  /\ Numbers(Restrict(f, R)) /\ DOMAIN Restrict(f, R) = R
             /\ SumFunction(Restrict(f, R)) \in Nat
             /\ R = {} => SumFunction(Restrict(f, R)) = 0
  <2>1. IsFiniteSet(R)
    BY <1>1, FS_Subset DEF Numbers
  <2>2. Numbers(Restrict(f, R)) /\ DOMAIN Restrict(f, R) = R
    BY <1>1, <2>1 DEF Numbers, Restrict
  <2> QED  BY <2>2, SumFacts
<1>2. ASSUME NEW x \in DOMAIN f \ S
      PROVE  SumFunction(Restrict(f, S \cup {x})) = f[x] + SumFunction(Restrict(f, S))
  <2> DEFINE g == Restrict(f, S \cup {x})
  <2>1. g[x] = f[x] /\ x \in DOMAIN g /\ DOMAIN g = S \cup {x}
    BY DEF Restrict
  <2>2. Less(g, x) = Restrict(f, S)
    <3>1. (S \cup {x}) \ {x} = S
      OBVIOUS
    <3>2. \A y \in S : g[y] = f[y]
      BY DEF Restrict
    <3>3. DOMAIN g \ {x} = S
      BY <2>1, <3>1
    <3> HIDE DEF g
    <3> QED  BY <3>2, <3>3 DEF Less, Restrict
  <2>3. Numbers(g)
    BY <1>1
  <2> HIDE DEF g
  <2>4. SumFunction(g) = g[x] + SumFunction(Less(g, x))
    BY <2>1, <2>3, SumFacts
  <2> QED  BY <2>1, <2>2, <2>4 DEF g
<1> QED  BY <1>1, <1>2

LEMMA RestrictAll ==
  ASSUME NEW f, f = [ x \in DOMAIN f |-> f[x] ]
  PROVE  Restrict(f, DOMAIN f) = f
  BY DEF Restrict

(* A sum is that over a part of the domain and that over the rest.         *)
LEMMA SumSplit ==
  ASSUME NEW f, Numbers(f), f = [ x \in DOMAIN f |-> f[x] ], NEW S
  PROVE  SumFunction(f) = SumFunction(Restrict(f, DOMAIN f \cap S))
                          + SumFunction(Restrict(f, DOMAIN f \ S))
<1> DEFINE A == DOMAIN f \cap S
           B == DOMAIN f \ S
           T == { s \in SUBSET A : SumFunction(Restrict(f, s \cup B)) =
                    SumFunction(Restrict(f, s)) + SumFunction(Restrict(f, B)) }
<1>1. {} \in T
  <2>1. {} \cup B = B
    OBVIOUS
  <2>2. SumFunction(Restrict(f, {})) = 0 /\ SumFunction(Restrict(f, B)) \in Nat
    BY RestrictFacts
  <2> QED  BY <2>1, <2>2
<1>2. ASSUME NEW s \in T \cap SUBSET A, NEW x \in A \ s
      PROVE  s \cup {x} \in T
  <2>1. /\ s \subseteq DOMAIN f /\ s \cup B \subseteq DOMAIN f /\ B \subseteq DOMAIN f
        /\ x \in DOMAIN f \ s /\ x \in DOMAIN f \ (s \cup B)
        /\ (s \cup {x}) \cup B = (s \cup B) \cup {x} /\ s \cup {x} \in SUBSET A
    OBVIOUS
  <2>2. SumFunction(Restrict(f, s \cup {x})) = f[x] + SumFunction(Restrict(f, s))
    BY <2>1, RestrictFacts
  <2>3. PICK R : R = s \cup B
    OBVIOUS
  <2>4. SumFunction(Restrict(f, R \cup {x})) = f[x] + SumFunction(Restrict(f, R))
    BY <2>1, <2>3, RestrictFacts
  <2>5. PICK a \in Nat, b \in Nat, c \in Nat :
          /\ a = SumFunction(Restrict(f, s)) /\ b = SumFunction(Restrict(f, B)) /\ c = f[x]
    BY <2>1, RestrictFacts DEF Numbers
  <2>6. SumFunction(Restrict(f, R)) = a + b
    BY <2>3, <2>5
  <2>7. SumFunction(Restrict(f, R \cup {x})) = c + (a + b)
    BY <2>4, <2>5, <2>6
  <2>8. SumFunction(Restrict(f, s \cup {x})) = c + a
    BY <2>2, <2>5
  <2>9. SumFunction(Restrict(f, R \cup {x})) =
          SumFunction(Restrict(f, s \cup {x})) + SumFunction(Restrict(f, B))
    BY <2>5, <2>7, <2>8
  <2>10. (s \cup {x}) \cup B = R \cup {x}
    BY <2>1, <2>3
  <2> QED  BY <2>1, <2>9, <2>10
<1>3. IsFiniteSet(A)
  BY FS_Subset DEF Numbers
<1>4. A \cup B = DOMAIN f
  OBVIOUS
<1> HIDE DEF T, A, B
<1>5. A \in T
  BY <1>1, <1>2, <1>3, FiniteInduction
<1>6. SumFunction(Restrict(f, A \cup B)) =
        SumFunction(Restrict(f, A)) + SumFunction(Restrict(f, B))
  BY <1>5 DEF T
<1> QED  BY <1>4, <1>6, RestrictAll DEF A, B

(* No term is above the sum.                                               *)
LEMMA SumMember ==
  ASSUME NEW f, Numbers(f), NEW x \in DOMAIN f
  PROVE  f[x] <= SumFunction(f)
<1>1. /\ SumFunction(f) = f[x] + SumFunction(Less(f, x))
      /\ SumFunction(Less(f, x)) \in Nat /\ f[x] \in Nat
  BY SumFacts DEF Numbers
<1> QED  BY <1>1

(* One element changes, and with it the sum.                               *)
LEMMA SumChange ==
  ASSUME NEW f, NEW g, Numbers(f), Numbers(g), DOMAIN g = DOMAIN f, NEW x \in DOMAIN f,
         \A y \in DOMAIN f \ {x} : g[y] = f[y]
  PROVE  SumFunction(g) + f[x] = SumFunction(f) + g[x]
<1>1. Less(g, x) = Less(f, x)
  BY DEF Less
<1>2. /\ SumFunction(f) = f[x] + SumFunction(Less(f, x))
      /\ SumFunction(g) = g[x] + SumFunction(Less(g, x))
      /\ SumFunction(Less(f, x)) \in Nat /\ f[x] \in Nat /\ g[x] \in Nat
  BY SumFacts DEF Numbers
<1> QED  BY <1>1, <1>2

(* A sum of two functions is the sum of their sums.                        *)
LEMMA SumPlus ==
  ASSUME NEW f, NEW g, NEW h, Numbers(f), Numbers(g), Numbers(h),
         DOMAIN g = DOMAIN f, DOMAIN h = DOMAIN f,
         f = [ x \in DOMAIN f |-> f[x] ], g = [ x \in DOMAIN f |-> g[x] ],
         h = [ x \in DOMAIN f |-> h[x] ], \A x \in DOMAIN f : h[x] = f[x] + g[x]
  PROVE  SumFunction(h) = SumFunction(f) + SumFunction(g)
<1> DEFINE D == DOMAIN f
           T == { s \in SUBSET D : SumFunction(Restrict(h, s)) =
                    SumFunction(Restrict(f, s)) + SumFunction(Restrict(g, s)) }
<1>1. {} \in T
  BY RestrictFacts
<1>2. ASSUME NEW s \in T \cap SUBSET D, NEW x \in D \ s
      PROVE  s \cup {x} \in T
  <2>1. /\ SumFunction(Restrict(f, s \cup {x})) = f[x] + SumFunction(Restrict(f, s))
        /\ SumFunction(Restrict(g, s \cup {x})) = g[x] + SumFunction(Restrict(g, s))
        /\ SumFunction(Restrict(h, s \cup {x})) = h[x] + SumFunction(Restrict(h, s))
    BY RestrictFacts
  <2>2. /\ f[x] \in Nat /\ SumFunction(Restrict(f, s)) \in Nat
        /\ g[x] \in Nat /\ SumFunction(Restrict(g, s)) \in Nat
        /\ h[x] = f[x] + g[x]
        /\ SumFunction(Restrict(h, s)) =
                    SumFunction(Restrict(f, s)) + SumFunction(Restrict(g, s))
    BY RestrictFacts DEF Numbers
  <2>3. SumFunction(Restrict(h, s \cup {x})) =
          SumFunction(Restrict(f, s \cup {x})) + SumFunction(Restrict(g, s \cup {x}))
    BY <2>1, <2>2
  <2> QED  BY <2>3
<1>3. IsFiniteSet(D)
  BY DEF Numbers
<1> HIDE DEF T
<1>4. D \in T
  BY <1>1, <1>2, <1>3, FiniteInduction
<1> QED  BY <1>4, RestrictAll DEF T

(* Renaming the elements does not change the sum.                          *)
LEMMA SumMapped ==
  ASSUME NEW f, NEW g, NEW h, Numbers(f), Numbers(g),
         f = [ x \in DOMAIN f |-> f[x] ], g = [ x \in DOMAIN g |-> g[x] ],
         \A x \in DOMAIN f : h[x] \in DOMAIN g /\ g[h[x]] = f[x],
         \A x, y \in DOMAIN f : h[x] = h[y] => x = y,
         \A z \in DOMAIN g : \E x \in DOMAIN f : z = h[x]
  PROVE  SumFunction(g) = SumFunction(f)
<1> DEFINE D == DOMAIN f
           Image(s) == { h[x] : x \in s }
           T == { s \in SUBSET D : SumFunction(Restrict(g, Image(s))) =
                                     SumFunction(Restrict(f, s)) }
<1>1. {} \in T
  <2>1. Image({}) = {}
    OBVIOUS
  <2> QED  BY <2>1, RestrictFacts
<1>2. ASSUME NEW s \in T \cap SUBSET D, NEW x \in D \ s
      PROVE  s \cup {x} \in T
  <2>1. Image(s \cup {x}) = Image(s) \cup {h[x]}
    OBVIOUS
  <2>2. Image(s) \subseteq DOMAIN g /\ h[x] \in DOMAIN g \ Image(s)
    OBVIOUS
  <2>3. SumFunction(Restrict(f, s \cup {x})) = f[x] + SumFunction(Restrict(f, s))
    BY RestrictFacts
  <2>4. SumFunction(Restrict(g, Image(s) \cup {h[x]}))
        = g[h[x]] + SumFunction(Restrict(g, Image(s)))
    BY <2>2, RestrictFacts
  <2>5. SumFunction(Restrict(g, Image(s \cup {x}))) = SumFunction(Restrict(f, s \cup {x}))
    BY <2>1, <2>3, <2>4
  <2> QED  BY <2>5
<1>3. IsFiniteSet(D) /\ Image(D) = DOMAIN g
  BY DEF Numbers
<1> HIDE DEF T
<1>4. D \in T
  BY <1>1, <1>2, <1>3, FiniteInduction
<1>5. SumFunction(Restrict(g, Image(D))) = SumFunction(Restrict(f, D))
  BY <1>4 DEF T
<1> QED  BY <1>3, <1>5, RestrictAll

-----------------------------------------------------------------------------
(* The books of a volume: what its files hold, and what is free.           *)

Held(w) == [ n \in DOMAIN w.disk |-> Bytes(w, n) ]
Used(w) == SumFunction(Held(w))

(* Handles are either closed, with nothing in their buffers, or have in    *)
(* them what came after the last end of a block.                           *)
Tidy(w) ==
  /\ \A s \in Slots :
       LET slot == w.slot[s]
       IN /\ slot.buffered < Block
          /\ slot.file = NoFile => slot.buffered = 0
          /\ slot.file \in DOMAIN w.disk => slot.buffered <= Bytes(w, slot.file) % Block
  /\ w.slot[System].file = SysLog => SysLog \in DOMAIN w.disk

Sound(w) ==
  /\ IsVol(w)
  /\ Tidy(w)
  /\ w.room \in Nat /\ w.free \in 0 .. Capacity /\ w.age \in 0 .. LinesPerSecond
  /\ w.room + Used(w) <= Capacity

(* What an operation keeps: what is free and what is held are together as  *)
(* much as before.                                                         *)
Keeps(w, v) == Sound(v) /\ v.room + Used(v) = w.room + Used(w)

LEMMA KeepsTrans ==
  ASSUME NEW u, NEW v, NEW w, Keeps(u, v), Keeps(v, w)
  PROVE  Keeps(u, w)
  BY DEF Keeps

LEMMA KeepsRefl ==
  ASSUME NEW w, Sound(w)
  PROVE  Keeps(w, w)
  BY DEF Keeps

LEMMA IdsFinite ==
  ASSUME NEW f, DOMAIN f = Ids
  PROVE  IsFiniteSet({ f[i] : i \in Ids })
<1> DEFINE T == { f[i] : i \in Ids }
           g == [ i \in Ids |-> f[i] ]
<1>1. g \in Surjection(Ids, T)
  BY DEF Surjection
<1>2. IsFiniteSet(Ids)
  BY FS_Interval, Positives DEF Ids
<1> HIDE DEF g
<1> QED  BY <1>1, <1>2, FS_Surjection

LEMMA NamesFinite == IsFiniteSet(Names)
<1> DEFINE A == { [ j \in Ids |-> Tmp(Trip, j) ][i] : i \in Ids }
           B == { [ j \in Ids |-> Log(Trip, j) ][i] : i \in Ids }
           C == { [ j \in Ids |-> Tmp(Sonar, j) ][i] : i \in Ids }
           D == { [ j \in Ids |-> Log(Sonar, j) ][i] : i \in Ids }
<1>1. IsFiniteSet(A) /\ IsFiniteSet(B) /\ IsFiniteSet(C) /\ IsFiniteSet(D)
  BY IdsFinite
<1>2. IsFiniteSet((A \cup B) \cup (C \cup D))
  BY <1>1, FS_Union
<1>3. ASSUME NEW n \in SessionNames PROVE n \in (A \cup B) \cup (C \cup D)
  <2>1. /\ n.stream \in {Trip, Sonar} /\ n.id \in Ids /\ n.tmp \in BOOLEAN
        /\ n.tmp => n = Tmp(n.stream, n.id)
        /\ ~n.tmp => n = Log(n.stream, n.id)
    BY SessionNameFacts DEF SessionNames, SessionStreams
  <2>2. \A i \in Ids : Tmp(Trip, i) \in A /\ Log(Trip, i) \in B
                       /\ Tmp(Sonar, i) \in C /\ Log(Sonar, i) \in D
    OBVIOUS
  <2> HIDE DEF A, B, C, D
  <2> QED  BY <2>1, <2>2
<1> HIDE DEF A, B, C, D
<1>4. SessionNames \in SUBSET ((A \cup B) \cup (C \cup D))
  BY <1>3
<1>5. IsFiniteSet(SessionNames)
  BY <1>2, <1>4, FS_Subset
<1>6. IsFiniteSet(SessionNames \cup {SysLog}) /\ IsFiniteSet((SessionNames \cup {SysLog}) \cup {SysTmp})
  BY <1>5, FS_AddElement
<1>7. Names = (SessionNames \cup {SysLog}) \cup {SysTmp}
  BY DEF Names
<1> QED  BY <1>6, <1>7

LEMMA HeldFacts ==
  ASSUME NEW w, IsVol(w)
  PROVE  /\ Numbers(Held(w)) /\ DOMAIN Held(w) = DOMAIN w.disk
         /\ Held(w) = [ n \in DOMAIN Held(w) |-> Held(w)[n] ]
         /\ \A n \in DOMAIN w.disk : Held(w)[n] = Bytes(w, n) /\ Bytes(w, n) \in Nat
         /\ Used(w) \in Nat
<1>1. DOMAIN w.disk \in SUBSET Names
  BY DEF IsVol
<1>2. IsFiniteSet(DOMAIN w.disk)
  BY <1>1, NamesFinite, FS_Subset
<1>3. \A n \in DOMAIN w.disk : Bytes(w, n) \in Nat
  BY <1>1, BytesNat
<1>4. DOMAIN Held(w) = DOMAIN w.disk /\ \A n \in DOMAIN w.disk : Held(w)[n] = Bytes(w, n)
  BY DEF Held
<1>5. Held(w) = [ n \in DOMAIN Held(w) |-> Held(w)[n] ]
  BY DEF Held
<1>6. Numbers(Held(w))
  BY <1>2, <1>3, <1>4 DEF Numbers
<1> QED  BY <1>3, <1>4, <1>5, <1>6, SumFacts DEF Used

(* Files of the same lengths are the same in sum.                          *)
LEMMA SameHeld ==
  ASSUME NEW w, NEW v, DOMAIN v.disk = DOMAIN w.disk,
         \A n \in DOMAIN w.disk : Bytes(v, n) = Bytes(w, n)
  PROVE  Used(v) = Used(w)
<1>1. Held(v) = Held(w)
  BY DEF Held
<1> QED  BY <1>1 DEF Used

LEMMA TotalIs ==
  ASSUME NEW w, IsVol(w), NEW S
  PROVE  /\ Total(w, S) = SumFunction(Restrict(Held(w), DOMAIN Held(w) \cap S))
         /\ Total(w, S) \in Nat
<1>1. DOMAIN Held(w) = DOMAIN w.disk /\ \A n \in DOMAIN w.disk : Held(w)[n] = Bytes(w, n)
  BY HeldFacts
<1>2. [ n \in DOMAIN w.disk \cap S |-> Bytes(w, n) ]
      = [ n \in DOMAIN w.disk \cap S |-> Held(w)[n] ]
  BY <1>1
<1>3. Total(w, S) = SumFunction(Restrict(Held(w), DOMAIN w.disk \cap S))
  BY <1>2 DEF Total, Restrict
<1>4. DOMAIN w.disk \cap S \subseteq DOMAIN Held(w)
  BY <1>1
<1>5. SumFunction(Restrict(Held(w), DOMAIN w.disk \cap S)) \in Nat
  BY <1>4, HeldFacts, RestrictFacts
<1> QED  BY <1>1, <1>3, <1>5

(* What is said of a slot, when lengths do not change.                     *)
LEMMA UsageKeeps ==
  ASSUME NEW w, Sound(w), NEW v, v \in {Refresh(w), Reread(w), Expired(w), Aged(w)}
  PROVE  Keeps(w, v)
<1>1. IsRec(w)
  BY DEF Sound, IsVol
<1>2. IsRec(v) /\ v.disk = w.disk /\ v.slot = w.slot /\ v.room = w.room
  BY <1>1, UsageIs
<1>3. IsVol(v)
  BY <1>2 DEF Sound, IsVol
<1>4. \A n : Bytes(v, n) = Bytes(w, n)
  BY <1>2 DEF Bytes, Durable, Unsynced
<1>5. Used(v) = Used(w)
  BY <1>2, <1>4, SameHeld
<1>6. Tidy(v)
  BY <1>2, <1>4 DEF Sound, Tidy
<1>7. w.room \in 0 .. Capacity /\ 0 \in 0 .. Capacity /\ LinesPerSecond \in Nat
      /\ 0 \in 0 .. LinesPerSecond /\ LinesPerSecond \in 0 .. LinesPerSecond
  BY HeldFacts, Positives DEF Sound
<1>8. /\ Expired(w).free = 0 /\ Expired(w).age = LinesPerSecond
      /\ Refresh(w).free \in {w.room, 0} /\ Refresh(w).age = w.age
      /\ Reread(w).free \in {w.room, 0} /\ Reread(w).age = 0
  <2>1. Expired(w).free = 0 /\ Expired(w).age = LinesPerSecond
    BY <1>1 DEF Expired, IsRec, Fields
  <2>2. Refresh(w).free \in {w.room, 0} /\ Refresh(w).age = w.age
    BY <1>1 DEF Refresh, IsRec, Fields
  <2> DEFINE u == [w EXCEPT !.age = 0]
  <2>3. IsRec(u) /\ u.age = 0 /\ u.room = w.room
    BY <1>1 DEF IsRec, Fields
  <2>4. Reread(w) = Refresh(u)
    BY DEF Reread
  <2> HIDE DEF u
  <2>5. Refresh(u).free \in {u.room, 0} /\ Refresh(u).age = u.age
    BY <2>3 DEF Refresh, IsRec, Fields
  <2> QED  BY <2>1, <2>2, <2>3, <2>4, <2>5
<1>9. Aged(w) = Expired(w) \/
      /\ Aged(w).free = w.free /\ Aged(w).age = w.age + 1 /\ w.age + 1 < LinesPerSecond
  <2>1. CASE w.age + 1 < LinesPerSecond
    <3>1. Aged(w) = [w EXCEPT !.age = @ + 1]
      BY <2>1 DEF Aged
    <3>2. Aged(w).free = w.free /\ Aged(w).age = w.age + 1
      BY <1>1, <3>1 DEF IsRec, Fields
    <3> QED  BY <2>1, <3>2
  <2>2. CASE ~(w.age + 1 < LinesPerSecond)
    BY <2>2 DEF Aged
  <2> QED  BY <2>1, <2>2
<1>10. v.free \in 0 .. Capacity /\ v.age \in 0 .. LinesPerSecond
  <2>1. w.free \in 0 .. Capacity /\ w.age \in 0 .. LinesPerSecond
    BY DEF Sound
  <2>2. w.age + 1 < LinesPerSecond => w.age + 1 \in 0 .. LinesPerSecond
    BY <1>7, <2>1
  <2> QED  BY <1>7, <1>8, <1>9, <2>1, <2>2
<1>11. Sound(v)
  BY <1>2, <1>3, <1>5, <1>6, <1>10 DEF Sound
<1> QED  BY <1>2, <1>5, <1>11 DEF Keeps

(* What is synced was counted when it was buffered.                        *)
LEMMA SyncKeeps ==
  ASSUME NEW w, Sound(w), NEW S
  PROVE  /\ Keeps(w, Sync(w, S)) /\ DOMAIN Sync(w, S).disk = DOMAIN w.disk
         /\ \A s \in Slots : /\ Sync(w, S).slot[s].file = w.slot[s].file
                             /\ s \in S => Sync(w, S).slot[s].buffered = 0
<1> DEFINE v == Sync(w, S)
<1>1. IsVol(w) /\ IsRec(w)
  BY DEF Sound, IsVol
<1>2. /\ v.disk = [ n \in DOMAIN w.disk |->
                      IF n.stream \in S THEN Bytes(w, n) ELSE w.disk[n] ]
      /\ v.slot = [ s \in Slots |->
                      IF s \in S THEN [w.slot[s] EXCEPT !.buffered = 0] ELSE w.slot[s] ]
      /\ v.room = w.room /\ v.free = w.free /\ v.age = w.age
  BY <1>1 DEF Sync, IsRec, Fields
<1>3. IsVol(v)
  BY <1>1, SyncWithin DEF Within
<1> HIDE DEF v
<1>4. ASSUME NEW s \in Slots
      PROVE  /\ v.slot[s].file = w.slot[s].file
             /\ s \in S => v.slot[s].buffered = 0
             /\ s \notin S => v.slot[s] = w.slot[s]
             /\ v.slot[s].buffered \in Nat /\ v.slot[s].buffered <= w.slot[s].buffered
             /\ w.slot[s].buffered \in Nat
  <2>1. w.slot[s] \in Slot
    BY <1>1 DEF IsVol
  <2> QED  BY <1>2, <2>1 DEF Slot
<1>5. ASSUME NEW n \in DOMAIN w.disk
      PROVE  Bytes(v, n) = Bytes(w, n)
  <2>1. n \in Names /\ n.stream \in Slots /\ n \in DOMAIN v.disk
    BY <1>1, <1>2, NameFacts DEF IsVol
  <2>2. Bytes(w, n) \in Nat
    BY <1>1, <2>1, BytesNat
  <2>3. CASE n.stream \in S
    <3>1. Unsynced(v, n) = 0
      BY <1>4, <2>1, <2>3 DEF Unsynced
    <3>2. Durable(v, n) = Bytes(w, n)
      BY <1>2, <2>1, <2>3 DEF Durable
    <3> QED  BY <2>2, <3>1, <3>2 DEF Bytes
  <2>4. CASE n.stream \notin S
    <3>1. Unsynced(v, n) = Unsynced(w, n)
      BY <1>4, <2>1, <2>4 DEF Unsynced
    <3>2. Durable(v, n) = Durable(w, n)
      BY <1>2, <2>1, <2>4 DEF Durable
    <3> QED  BY <3>1, <3>2 DEF Bytes
  <2> QED  BY <2>3, <2>4
<1>6. DOMAIN v.disk = DOMAIN w.disk
  BY <1>2
<1>7. Used(v) = Used(w)
  BY <1>5, <1>6, SameHeld
<1>8. Tidy(v)
  <2>1. ASSUME NEW s \in Slots
        PROVE  /\ v.slot[s].buffered < Block
               /\ v.slot[s].file = NoFile => v.slot[s].buffered = 0
               /\ v.slot[s].file \in DOMAIN v.disk =>
                    v.slot[s].buffered <= Bytes(v, v.slot[s].file) % Block
    <3>1. /\ w.slot[s].buffered < Block
          /\ w.slot[s].file = NoFile => w.slot[s].buffered = 0
          /\ w.slot[s].file \in DOMAIN w.disk =>
               w.slot[s].buffered <= Bytes(w, w.slot[s].file) % Block
      BY DEF Sound, Tidy
    <3>2. /\ v.slot[s].file = w.slot[s].file
          /\ v.slot[s].buffered \in Nat /\ w.slot[s].buffered \in Nat
          /\ v.slot[s].buffered <= w.slot[s].buffered
      BY <1>4
    <3>3. v.slot[s].buffered < Block /\ (v.slot[s].file = NoFile => v.slot[s].buffered = 0)
      BY <3>1, <3>2, Positives
    <3>4. ASSUME v.slot[s].file \in DOMAIN v.disk
          PROVE  v.slot[s].buffered <= Bytes(v, v.slot[s].file) % Block
      <4>1. PICK b : b = Bytes(w, w.slot[s].file) /\ b = Bytes(v, v.slot[s].file)
        BY <1>5, <1>6, <3>2, <3>4
      <4>5. w.slot[s].file \in DOMAIN w.disk
        BY <1>6, <3>2, <3>4
      <4>6. \A n \in DOMAIN w.disk : Bytes(w, n) \in Nat
        BY <1>1, HeldFacts
      <4>2. b \in Nat
        BY <4>1, <4>5, <4>6
      <4>3. b % Block \in Nat
        BY <4>2, Positives
      <4>4. w.slot[s].buffered <= b % Block
        BY <1>6, <3>1, <3>2, <3>4, <4>1
      <4> QED  BY <3>2, <4>1, <4>3, <4>4
    <3> QED  BY <3>3, <3>4
  <2>2. v.slot[System].file = SysLog => SysLog \in DOMAIN v.disk
    BY <1>4, <1>6, SystemNames DEF Sound, Tidy
  <2> QED  BY <2>1, <2>2 DEF Tidy
<1>9. Sound(v)
  BY <1>2, <1>3, <1>7, <1>8 DEF Sound
<1> QED  BY <1>2, <1>4, <1>6, <1>7, <1>9 DEF Keeps, v

LEMMA CloseKeeps ==
  ASSUME NEW w, Sound(w), NEW S
  PROVE  /\ Keeps(w, Close(w, S)) /\ DOMAIN Close(w, S).disk = DOMAIN w.disk
         /\ \A s \in S \cap Slots : Close(w, S).slot[s] = Closed
<1> DEFINE u == Sync(w, S)
           v == Close(w, S)
<1>1. /\ Keeps(w, u) /\ DOMAIN u.disk = DOMAIN w.disk
      /\ \A s \in Slots \cap S : u.slot[s].buffered = 0
  BY SyncKeeps
<1>2. v = [u EXCEPT !.slot = [ s \in Slots |-> IF s \in S THEN Closed ELSE u.slot[s] ]]
  BY DEF Close
<1>3. IsVol(v)
  BY CloseWithin DEF Sound, Within
<1> HIDE DEF u, v
<1>4. IsVol(u) /\ IsRec(u)
  BY <1>1 DEF Keeps, Sound, IsVol
<1>5. /\ v.disk = u.disk
      /\ v.slot = [ s \in Slots |-> IF s \in S THEN Closed ELSE u.slot[s] ]
      /\ v.room = u.room /\ v.free = u.free /\ v.age = u.age
  BY <1>2, <1>4 DEF IsRec, Fields
<1>6. Closed.file = NoFile /\ Closed.buffered = 0
  BY DEF Closed
<1>7. ASSUME NEW n \in DOMAIN u.disk
      PROVE  Bytes(v, n) = Bytes(u, n)
  <2>1. n \in Names /\ n.stream \in Slots /\ n # NoFile
    BY <1>4, NameFacts, SystemNames DEF IsVol
  <2>2. Unsynced(v, n) = Unsynced(u, n)
    BY <1>1, <1>5, <1>6, <2>1 DEF Unsynced
  <2>3. Durable(v, n) = Durable(u, n)
    BY <1>5 DEF Durable
  <2> QED  BY <2>2, <2>3 DEF Bytes
<1>8. Used(v) = Used(u)
  BY <1>5, <1>7, SameHeld
<1>9. Tidy(v)
  <2>1. Tidy(u)
    BY <1>1 DEF Keeps, Sound
  <2>2. \A s \in Slots : v.slot[s] = Closed \/ v.slot[s] = u.slot[s]
    BY <1>5
  <2>3. NoFile \notin DOMAIN u.disk /\ SysLog # NoFile /\ System \in Slots
    BY <1>4, SystemNames DEF IsVol
  <2>4. 0 < Block
    BY Positives
  <2> QED  BY <1>5, <1>6, <1>7, <2>1, <2>2, <2>3, <2>4 DEF Tidy
<1>10. Sound(v)
  BY <1>1, <1>3, <1>5, <1>8, <1>9 DEF Keeps, Sound
<1>11. Keeps(w, v)
  BY <1>1, <1>5, <1>8, <1>10 DEF Keeps
<1> QED  BY <1>1, <1>5, <1>11 DEF v

LEMMA WithoutKeeps ==
  ASSUME NEW w, Sound(w), NEW S, SysLog \in S => w.slot[System].file # SysLog
  PROVE  /\ Keeps(w, Without(w, S)) /\ DOMAIN Without(w, S).disk = DOMAIN w.disk \ S
         /\ Without(w, S).slot = w.slot
<1> DEFINE v == Without(w, S)
           f == Held(w)
<1>1. IsVol(w) /\ IsRec(w)
  BY DEF Sound, IsVol
<1>2. /\ v.disk = [ n \in DOMAIN w.disk \ S |-> w.disk[n] ] /\ v.slot = w.slot
      /\ v.room = w.room + Total(w, S) /\ v.free = w.free /\ v.age = w.age
  BY <1>1 DEF Without, Restrict, IsRec, Fields
<1>3. IsVol(v)
  BY <1>1, WithoutWithin DEF Within
<1> HIDE DEF v
<1>4. \A n \in DOMAIN v.disk : Bytes(v, n) = Bytes(w, n)
  BY <1>2 DEF Bytes, Durable, Unsynced
<1>5. Numbers(f) /\ DOMAIN f = DOMAIN w.disk /\ f = [ n \in DOMAIN f |-> f[n] ]
      /\ \A n \in DOMAIN w.disk : f[n] = Bytes(w, n)
  BY <1>1, HeldFacts
<1>6. Held(v) = Restrict(f, DOMAIN f \ S)
  BY <1>2, <1>4, <1>5 DEF Held, Restrict
<1>7. Total(w, S) = SumFunction(Restrict(f, DOMAIN f \cap S)) /\ Total(w, S) \in Nat
  BY <1>1, TotalIs
<1>8. Used(w) = SumFunction(f) /\ Used(v) = SumFunction(Held(v))
  BY DEF Used
<1> HIDE DEF f
<1>9. SumFunction(f) = SumFunction(Restrict(f, DOMAIN f \cap S))
                       + SumFunction(Restrict(f, DOMAIN f \ S))
  BY <1>5, SumSplit
<1>10. Used(w) = Total(w, S) + Used(v)
  BY <1>6, <1>7, <1>8, <1>9
<1>11. Used(v) \in Nat /\ w.room \in Nat
  BY <1>3, HeldFacts DEF Sound
<1>12. v.room \in Nat /\ v.room + Used(v) = w.room + Used(w)
  BY <1>2, <1>7, <1>10, <1>11
<1>13. Tidy(v)
  <2>1. DOMAIN v.disk = DOMAIN w.disk \ S
    BY <1>2
  <2> QED  BY <1>2, <1>4, <2>1 DEF Sound, Tidy
<1>14. Sound(v)
  BY <1>2, <1>3, <1>12, <1>13 DEF Sound
<1> QED  BY <1>2, <1>12, <1>14 DEF Keeps, v

(* A file may be created when no handle is open on its name.               *)
LEMMA CreatedKeeps ==
  ASSUME NEW w, Sound(w), NEW n \in Names,
         n \in DOMAIN w.disk \/ w.slot[n.stream].file # n
  PROVE  /\ Keeps(w, Created(w, n)) /\ Created(w, n).slot = w.slot
         /\ DOMAIN Created(w, n).disk = DOMAIN w.disk \cup {n}
         /\ n \notin DOMAIN w.disk => Created(w, n).disk[n] = 0
         /\ n \notin DOMAIN w.disk => Bytes(Created(w, n), n) = 0
<1> DEFINE v == Created(w, n)
<1>1. IsVol(w) /\ IsRec(w)
  BY DEF Sound, IsVol
<1>2. /\ v.disk = [ m \in DOMAIN w.disk \cup {n} |-> Durable(w, m) ]
      /\ v.slot = w.slot /\ v.room = w.room /\ v.free = w.free /\ v.age = w.age
  BY <1>1 DEF Created, IsRec, Fields
<1>3. IsVol(v)
  <2>1. n \in {n}
    OBVIOUS
  <2> QED  BY <1>1, <2>1, CreatedWithin DEF Within
<1> HIDE DEF v
<1>4. \A m \in DOMAIN v.disk : Bytes(v, m) = Bytes(w, m)
  BY <1>2 DEF Bytes, Durable, Unsynced
<1>5. DOMAIN v.disk = DOMAIN w.disk \cup {n}
  BY <1>2
<1>6. n \notin DOMAIN w.disk => Bytes(v, n) = 0 /\ v.disk[n] = 0
  BY <1>2, <1>4, <1>5 DEF Bytes, Durable, Unsynced
<1>7. Used(v) = Used(w)
  <2>1. CASE n \in DOMAIN w.disk
    <3>1. DOMAIN v.disk = DOMAIN w.disk
      BY <1>5, <2>1
    <3> QED  BY <1>4, <3>1, SameHeld
  <2>2. CASE n \notin DOMAIN w.disk
    <3> DEFINE g == Held(v)
    <3>1. Numbers(g) /\ DOMAIN g = DOMAIN v.disk
          /\ \A m \in DOMAIN v.disk : g[m] = Bytes(v, m)
      BY <1>3, HeldFacts
    <3>2. g[n] = 0 /\ n \in DOMAIN g
      BY <1>5, <1>6, <2>2, <3>1
    <3>3. DOMAIN g \ {n} = DOMAIN w.disk
      BY <1>5, <2>2, <3>1
    <3>4. Less(g, n) = Held(w)
      BY <1>4, <1>5, <3>1, <3>3 DEF Less, Held
    <3> HIDE DEF g
    <3>5. SumFunction(g) = g[n] + SumFunction(Less(g, n))
      BY <3>1, <3>2, SumFacts
    <3>6. SumFunction(Held(w)) \in Nat
      BY <1>1, HeldFacts DEF Used
    <3>7. SumFunction(g) = SumFunction(Held(w))
      BY <3>2, <3>4, <3>5, <3>6
    <3> QED  BY <3>7 DEF Used, g
  <2> QED  BY <2>1, <2>2
<1>8. Tidy(v)
  <2>1. ASSUME NEW s \in Slots, w.slot[s].file \in DOMAIN v.disk
        PROVE  w.slot[s].file \in DOMAIN w.disk
    <3>1. w.slot[s].file \in Handles(s)
      BY <1>3, <2>1, SystemNames DEF Sound, IsVol
    <3>2. w.slot[s].file.stream = s
      BY <3>1, HandleFacts
    <3> QED  BY <1>5, <2>1, <3>2
  <2>2. Tidy(w)
    BY DEF Sound
  <2>3. \A s \in Slots : w.slot[s].file \in DOMAIN v.disk =>
          w.slot[s].buffered <= Bytes(v, w.slot[s].file) % Block
    BY <1>4, <2>1, <2>2 DEF Tidy
  <2>4. w.slot[System].file = SysLog => SysLog \in DOMAIN v.disk
    BY <1>5, <2>2 DEF Tidy
  <2> QED  BY <1>2, <2>2, <2>3, <2>4 DEF Tidy
<1>9. Sound(v)
  BY <1>2, <1>3, <1>7, <1>8 DEF Sound
<1> QED  BY <1>2, <1>5, <1>6, <1>7, <1>9 DEF Keeps, v

LEMMA OpenKeeps ==
  ASSUME NEW w, Sound(w), NEW s \in Slots, NEW n \in Handles(s), NEW fault
  PROVE  /\ Keeps(w, Open(w, n, fault).w)
         /\ Open(w, n, fault).ok \in BOOLEAN
<1>1. n \in Names /\ n.stream = s /\ n # NoFile
  BY HandleFacts
<1>2. CASE w.slot[s].file # NoFile
  <2>1. Open(w, n, fault).w = w /\ Open(w, n, fault).ok = TRUE
    BY <1>1, <1>2 DEF Open, Ok
  <2> QED  BY <2>1, KeepsRefl
<1>3. CASE w.slot[s].file = NoFile /\ fault = "open"
  <2>1. Open(w, n, fault).w = w /\ Open(w, n, fault).ok = FALSE
    BY <1>1, <1>3 DEF Open, Failed
  <2> QED  BY <2>1, KeepsRefl
<1>4. CASE w.slot[s].file = NoFile /\ fault # "open"
  <2> DEFINE u == Created(w, n)
             v == [u EXCEPT !.slot[s].file = n]
  <2>1. Keeps(w, u) /\ u.slot = w.slot /\ DOMAIN u.disk = DOMAIN w.disk \cup {n}
    BY <1>1, <1>4, CreatedKeeps
  <2>2. Open(w, n, fault).w = v /\ Open(w, n, fault).ok = TRUE
    BY <1>1, <1>4 DEF Open, Ok
  <2>3. IsVol(v)
    <3>1. n \in {n} /\ IsVol(w)
      BY DEF Sound
    <3>2. Within(w, Open(w, n, fault).w, {n})
      BY <3>1, OpenWithin
    <3> QED  BY <2>2, <3>2 DEF Within
  <2> HIDE DEF u
  <2>4. IsVol(u) /\ IsRec(u) /\ Tidy(u)
    BY <2>1 DEF Keeps, Sound, IsVol
  <2>5. /\ v.disk = u.disk /\ v.slot = [u.slot EXCEPT ![s].file = n]
        /\ v.room = u.room /\ v.free = u.free /\ v.age = u.age
    BY <2>4 DEF IsRec, Fields
  <2> HIDE DEF v
  <2>6. u.slot[s].file = NoFile /\ u.slot[s].buffered = 0 /\ u.slot \in [Slots -> Slot]
    BY <1>4, <2>1, <2>4 DEF Tidy, IsVol
  <2>7. /\ v.slot[s].file = n /\ v.slot[s].buffered = 0
        /\ \A t \in Slots \ {s} : v.slot[t] = u.slot[t]
    <3>1. u.slot[s] \in Slot
      BY <2>6
    <3> QED  BY <2>5, <2>6, <3>1 DEF Slot
  <2>8. ASSUME NEW m \in DOMAIN u.disk PROVE Bytes(v, m) = Bytes(u, m)
    <3>1. m \in Names /\ m.stream \in Slots /\ m # NoFile
      BY <2>4, NameFacts, SystemNames DEF IsVol
    <3>2. Unsynced(v, m) = Unsynced(u, m)
      BY <2>6, <2>7, <3>1 DEF Unsynced
    <3>3. Durable(v, m) = Durable(u, m)
      BY <2>5 DEF Durable
    <3> QED  BY <3>2, <3>3 DEF Bytes
  <2>9. Used(v) = Used(u)
    BY <2>5, <2>8, SameHeld
  <2>10. Tidy(v)
    <3>1. n \in DOMAIN v.disk
      BY <2>1, <2>5
    <3>2. 0 < Block /\ Bytes(v, n) % Block >= 0
      <4>1. Bytes(v, n) \in Nat
        BY <1>1, <2>3, BytesNat
      <4> QED  BY <4>1, Positives
    <3>3. \A t \in Slots \ {s} :
            /\ v.slot[t].buffered < Block
            /\ v.slot[t].file = NoFile => v.slot[t].buffered = 0
            /\ v.slot[t].file \in DOMAIN v.disk =>
                 v.slot[t].buffered <= Bytes(v, v.slot[t].file) % Block
      BY <2>4, <2>5, <2>7, <2>8 DEF Tidy
    <3>4. /\ v.slot[s].buffered < Block
          /\ v.slot[s].file = NoFile => v.slot[s].buffered = 0
          /\ v.slot[s].file \in DOMAIN v.disk =>
               v.slot[s].buffered <= Bytes(v, v.slot[s].file) % Block
      BY <2>7, <3>2
    <3>5. v.slot[System].file = SysLog => SysLog \in DOMAIN v.disk
      BY <2>4, <2>5, <2>7, <3>1, SystemNames DEF Tidy
    <3> QED  BY <3>3, <3>4, <3>5 DEF Tidy
  <2>11. Sound(v)
    BY <2>1, <2>3, <2>5, <2>9, <2>10 DEF Keeps, Sound
  <2>12. Keeps(w, v)
    BY <2>1, <2>5, <2>9, <2>11 DEF Keeps
  <2> QED  BY <2>2, <2>12
<1> QED  BY <1>2, <1>3, <1>4

LEMMA Multiple ==
  ASSUME NEW m \in Nat, NEW k \in Int, k >= 1
  PROVE  m * k >= m
  OBVIOUS

(* What is left over grows by one, unless that ends a block.               *)
LEMMA OneMore ==
  ASSUME NEW a \in Nat
  PROVE  /\ (a + 1) % Block \in 0 .. Block - 1
         /\ (a + 1) % Block = 0 \/ (a + 1) % Block = (a % Block) + 1
<1>1. Block \in Nat /\ Block > 0
  BY Positives
<1> DEFINE q == a \div Block
           p == (a + 1) \div Block
           k == a % Block
           l == (a + 1) % Block
<1>2. q \in Int /\ k \in 0 .. Block - 1 /\ a = (Block * q) + k
  BY <1>1
<1>3. p \in Int /\ l \in 0 .. Block - 1 /\ a + 1 = (Block * p) + l
  <2>1. a + 1 \in Nat
    OBVIOUS
  <2> QED  BY <1>1, <2>1
<1> HIDE DEF q, p, k, l
<1>4. Block * (p - q) = k + 1 - l
  BY <1>1, <1>2, <1>3
<1>5. CASE p - q >= 2
  <2>1. Block * ((p - q) - 1) >= Block
    BY <1>1, <1>2, <1>3, <1>5, Multiple
  <2>2. Block * ((p - q) - 1) = Block * (p - q) - Block
    BY <1>1, <1>2, <1>3
  <2> QED  BY <1>1, <1>2, <1>3, <1>4, <2>1, <2>2
<1>6. CASE p - q <= -1
  <2>1. Block * (q - p) >= Block
    BY <1>1, <1>2, <1>3, <1>6, Multiple
  <2>2. Block * (q - p) = -(Block * (p - q))
    BY <1>1, <1>2, <1>3
  <2> QED  BY <1>1, <1>2, <1>3, <1>4, <2>1, <2>2
<1>7. CASE p - q = 1
  BY <1>1, <1>2, <1>3, <1>4, <1>7
<1>8. CASE p - q = 0
  BY <1>1, <1>2, <1>3, <1>4, <1>8
<1> QED  BY <1>2, <1>3, <1>5, <1>6, <1>7, <1>8 DEF k, l

(* A line moves from what is free to the buffer, and a buffer that comes   *)
(* to the end of a block goes to the flash.                                *)
LEMMA WriteKeeps ==
  ASSUME NEW w, Sound(w), NEW s \in Slots, NEW fault
  PROVE  /\ Keeps(w, Write(w, s, fault).w)
         /\ Write(w, s, fault).ok \in BOOLEAN
<1> DEFINE n == w.slot[s].file
           v == [w EXCEPT !.slot[s].buffered = @ + 1, !.room = @ - 1]
<1>1. CASE fault = "write" \/ w.room = 0
  <2>1. Write(w, s, fault).w = w /\ Write(w, s, fault).ok = FALSE
    BY <1>1 DEF Write, Failed
  <2> QED  BY <2>1, KeepsRefl
<1>2. CASE ~(fault = "write" \/ w.room = 0) /\ n \notin DOMAIN w.disk
  <2>1. Write(w, s, fault).w = w /\ Write(w, s, fault).ok = TRUE
    BY <1>2 DEF Write, Ok
  <2> QED  BY <2>1, KeepsRefl
<1>3. CASE ~(fault = "write" \/ w.room = 0) /\ n \in DOMAIN w.disk
  <2>1. /\ Write(w, s, fault).w = IF Bytes(v, n) % Block = 0 THEN Sync(v, {s}) ELSE v
        /\ Write(w, s, fault).ok = TRUE
    BY <1>3 DEF Write, Ok
  <2>2. IsVol(w) /\ IsRec(w) /\ w.slot[s] \in Slot /\ w.slot \in [Slots -> Slot]
    BY DEF Sound, IsVol
  <2>3. /\ v.disk = w.disk /\ v.slot = [w.slot EXCEPT ![s].buffered = @ + 1]
        /\ v.room = w.room - 1 /\ v.free = w.free /\ v.age = w.age /\ IsRec(v)
    BY <2>2 DEF IsRec, Fields
  <2> HIDE DEF v
  <2>4. /\ v.slot[s] \in Slot
        /\ v.slot[s].file = n /\ v.slot[s].buffered = w.slot[s].buffered + 1
        /\ w.slot[s].buffered \in Nat
        /\ \A t \in Slots \ {s} : v.slot[t] = w.slot[t]
    BY <2>2, <2>3 DEF Slot
  <2>5. IsVol(v)
    <3>1. \A t \in Slots : v.slot[t] \in Slot /\ v.slot[t].file = w.slot[t].file
      BY <2>2, <2>4
    <3>2. v.slot \in [Slots -> Slot]
      BY <2>2, <2>3, <3>1
    <3> QED  BY <2>2, <2>3, <3>1, <3>2 DEF IsVol
  <2>6. n \in Names /\ n # NoFile /\ n \in Handles(s) /\ n.stream = s
    <3>1. n \in Handles(s) \cup {NoFile} /\ n # NoFile
      BY <1>3, <2>2, SystemNames DEF IsVol
    <3> QED  BY <3>1, HandleFacts
  <2>7. Bytes(w, n) \in Nat /\ Bytes(v, n) = Bytes(w, n) + 1
    <3>1. Unsynced(w, n) \in Nat /\ Durable(w, n) \in Nat
      BY <2>2, <2>6, BytesNat
    <3>2. Unsynced(v, n) = Unsynced(w, n) + 1 /\ Durable(v, n) = Durable(w, n)
      BY <2>3, <2>4, <2>6 DEF Unsynced, Durable
    <3> QED  BY <3>1, <3>2 DEF Bytes
  <2>8. ASSUME NEW m \in DOMAIN w.disk \ {n} PROVE Bytes(v, m) = Bytes(w, m)
    <3>1. m.stream \in Slots
      BY <2>2, NameFacts DEF IsVol
    <3>2. Unsynced(v, m) = Unsynced(w, m) /\ Durable(v, m) = Durable(w, m)
      BY <2>3, <2>4, <3>1 DEF Unsynced, Durable
    <3> QED  BY <3>2 DEF Bytes
  <2>9. Used(v) = Used(w) + 1
    <3> DEFINE f == Held(w)
               g == Held(v)
    <3>1. /\ Numbers(f) /\ Numbers(g) /\ DOMAIN f = DOMAIN w.disk /\ DOMAIN g = DOMAIN w.disk
          /\ \A m \in DOMAIN w.disk : f[m] = Bytes(w, m) /\ g[m] = Bytes(v, m)
          /\ SumFunction(f) = Used(w) /\ SumFunction(g) = Used(v)
          /\ Used(w) \in Nat /\ Used(v) \in Nat
      BY <2>2, <2>3, <2>5, HeldFacts DEF Used
    <3> HIDE DEF f, g
    <3>2. \A m \in DOMAIN f \ {n} : g[m] = f[m]
      BY <2>8, <3>1
    <3>3. SumFunction(g) + f[n] = SumFunction(f) + g[n]
      BY <1>3, <3>1, <3>2, SumChange
    <3>4. f[n] = Bytes(w, n) /\ g[n] = Bytes(w, n) + 1
      BY <1>3, <2>7, <3>1
    <3> QED  BY <2>7, <3>1, <3>3, <3>4
  <2>10. /\ v.room \in Nat /\ v.room + Used(v) = w.room + Used(w)
         /\ v.room + Used(v) <= Capacity
    <3>1. Used(w) \in Nat
      BY <2>2, HeldFacts
    <3> QED  BY <1>3, <2>3, <2>9, <3>1 DEF Sound
  <2>11. /\ Bytes(v, n) % Block \in 0 .. Block - 1
         /\ Bytes(v, n) % Block = 0 \/ Bytes(v, n) % Block = (Bytes(w, n) % Block) + 1
    BY <2>7, OneMore
  <2>12. w.slot[s].buffered <= Bytes(w, n) % Block /\ Bytes(w, n) % Block \in Nat
    <3>1. w.slot[s].buffered <= Bytes(w, n) % Block
      BY <1>3 DEF Sound, Tidy
    <3> QED  BY <2>7, <3>1, Positives
  <2>13. \A t \in Slots \ {s} : n # w.slot[t].file
    BY <2>2, <2>6, HandleFacts DEF IsVol
  <2>14. CASE Bytes(v, n) % Block # 0
    <3>1. v.slot[s].buffered < Block /\ v.slot[s].buffered <= Bytes(v, n) % Block
      BY <2>4, <2>11, <2>12, <2>14, Positives
    <3>2. ASSUME NEW t \in Slots
          PROVE  /\ v.slot[t].buffered < Block
                 /\ v.slot[t].file = NoFile => v.slot[t].buffered = 0
                 /\ v.slot[t].file \in DOMAIN v.disk =>
                      v.slot[t].buffered <= Bytes(v, v.slot[t].file) % Block
      <4>1. CASE t = s
        BY <2>4, <2>6, <3>1, <4>1
      <4>2. CASE t # s
        BY <2>3, <2>4, <2>8, <2>13, <4>2 DEF Sound, Tidy
      <4> QED  BY <4>1, <4>2
    <3>3. v.slot[System].file = SysLog => SysLog \in DOMAIN v.disk
      BY <2>3, <2>4, SystemNames DEF Sound, Tidy
    <3>4. Tidy(v)
      BY <3>2, <3>3 DEF Tidy
    <3>5. Keeps(w, v)
      BY <2>3, <2>5, <2>10, <3>4 DEF Sound, Keeps
    <3>6. Write(w, s, fault).w = v
      BY <2>1, <2>14
    <3> QED  BY <2>1, <3>5, <3>6
  <2>15. CASE Bytes(v, n) % Block = 0
    <3> DEFINE x == Sync(v, {s})
    <3>1. /\ x.disk = [ m \in DOMAIN w.disk |->
                          IF m.stream \in {s} THEN Bytes(v, m) ELSE v.disk[m] ]
          /\ x.slot = [ t \in Slots |->
                          IF t \in {s} THEN [v.slot[t] EXCEPT !.buffered = 0] ELSE v.slot[t] ]
          /\ x.room = v.room /\ x.free = v.free /\ x.age = v.age
      BY <2>3 DEF Sync, IsRec, Fields
    <3>2. IsVol(x)
      BY <2>5, SyncWithin DEF Within
    <3> HIDE DEF x
    <3>3. x.slot[s].file = n /\ x.slot[s].buffered = 0
          /\ \A t \in Slots \ {s} : x.slot[t] = w.slot[t]
      BY <2>4, <3>1 DEF Slot
    <3>4. ASSUME NEW m \in DOMAIN w.disk PROVE Bytes(x, m) = Bytes(v, m)
      <4>1. m \in Names /\ m.stream \in Slots
        BY <2>2, NameFacts DEF IsVol
      <4>2. Bytes(v, m) \in Nat
        BY <2>5, <4>1, BytesNat
      <4>3. CASE m.stream = s
        <5>1. Unsynced(x, m) = 0 /\ Durable(x, m) = Bytes(v, m)
          BY <3>1, <3>3, <4>3 DEF Unsynced, Durable
        <5> QED  BY <4>2, <5>1 DEF Bytes
      <4>4. CASE m.stream # s
        <5>1. Unsynced(x, m) = Unsynced(v, m) /\ Durable(x, m) = Durable(v, m)
          BY <2>3, <2>4, <3>1, <3>3, <4>1, <4>4 DEF Unsynced, Durable
        <5> QED  BY <5>1 DEF Bytes
      <4> QED  BY <4>3, <4>4
    <3>5. DOMAIN x.disk = DOMAIN w.disk
      BY <3>1
    <3>6. Used(x) = Used(v)
      BY <2>3, <3>4, <3>5, SameHeld
    <3>7. ASSUME NEW t \in Slots
          PROVE  /\ x.slot[t].buffered < Block
                 /\ x.slot[t].file = NoFile => x.slot[t].buffered = 0
                 /\ x.slot[t].file \in DOMAIN x.disk =>
                      x.slot[t].buffered <= Bytes(x, x.slot[t].file) % Block
      <4>1. CASE t = s
        <5>1. Bytes(x, n) % Block = 0
          BY <1>3, <2>15, <3>4
        <5> QED  BY <3>3, <4>1, <5>1, Positives
      <4>2. CASE t # s
        BY <2>8, <2>13, <3>3, <3>4, <3>5, <4>2 DEF Sound, Tidy
      <4> QED  BY <4>1, <4>2
    <3>8. x.slot[System].file = SysLog => SysLog \in DOMAIN x.disk
      BY <3>3, <3>5, SystemNames, <1>3 DEF Sound, Tidy
    <3>9. Tidy(x)
      BY <3>7, <3>8 DEF Tidy
    <3>10. Keeps(w, x)
      BY <2>3, <2>10, <3>1, <3>2, <3>6, <3>9 DEF Sound, Keeps
    <3>11. Write(w, s, fault).w = x
      BY <2>1, <2>15 DEF x
    <3> QED  BY <2>1, <3>10, <3>11
  <2> QED  BY <2>14, <2>15
<1> QED  BY <1>1, <1>2, <1>3

LEMMA EvictOneKeeps ==
  ASSUME NEW r, NEW current, Sound(r.w), r.ok \in BOOLEAN
  PROVE  Keeps(r.w, EvictOne(r, current).w) /\ EvictOne(r, current).ok \in BOOLEAN
<1>1. CASE ~r.ok \/ Enough(r.w) \/ Completed(r.w, current) = {}
  <2>1. EvictOne(r, current) = r
    BY <1>1 DEF EvictOne
  <2> QED  BY <2>1, KeepsRefl
<1>2. CASE ~(~r.ok \/ Enough(r.w) \/ Completed(r.w, current) = {})
  <2> DEFINE S == SessionFiles(Min(Completed(r.w, current)))
             u == Without(r.w, S)
             v == Refresh(u)
  <2>1. SysLog \notin S
    BY SystemNames DEF SessionFiles
  <2>5. EvictOne(r, current) = [w |-> v, ok |-> v.free > r.w.free]
    BY <1>2 DEF EvictOne, Smaller, Grown
  <2> HIDE DEF S
  <2>2. Keeps(r.w, u)
    BY <2>1, WithoutKeeps
  <2>3. Sound(u)
    BY <2>2 DEF Keeps
  <2> HIDE DEF u
  <2>4. Keeps(u, v)
    BY <2>3, UsageKeeps
  <2>6. Keeps(r.w, v)
    BY <2>2, <2>4, KeepsTrans
  <2> HIDE DEF v
  <2> QED  BY <2>5, <2>6
<1> QED  BY <1>1, <1>2

LEMMA EvictKeeps ==
  ASSUME NEW w, NEW current, Sound(w)
  PROVE  /\ Keeps(w, Evict(w, current).w)
         /\ Evict(w, current).ok \in BOOLEAN
         /\ DOMAIN Evict(w, current) = {"w", "ok"}
<1>1. PICK f : /\ f[0] = Ok(w)
               /\ \A k \in Nat : k + 1 <= MaxId => f[k + 1] = EvictOne(f[k], current)
               /\ Evict(w, current) = [f[MaxId] EXCEPT !.ok = @ /\ Enough(f[MaxId].w)]
  BY EvictRuns
<1> DEFINE T == { k \in Nat : k <= MaxId =>
                     Keeps(w, f[k].w) /\ f[k].ok \in BOOLEAN
                     /\ DOMAIN f[k] = {"w", "ok"} }
<1>2. 0 \in T
  <2>1. f[0] = [w |-> w, ok |-> TRUE]
    BY <1>1 DEF Ok
  <2>2. f[0].w = w /\ f[0].ok = TRUE /\ DOMAIN f[0] = {"w", "ok"}
    BY <2>1
  <2>3. Keeps(w, w)
    BY KeepsRefl
  <2>4. Keeps(w, f[0].w) /\ f[0].ok \in BOOLEAN /\ DOMAIN f[0] = {"w", "ok"}
    BY <2>2, <2>3
  <2> QED  BY <2>4
<1>3. ASSUME NEW k \in T \cap Nat PROVE k + 1 \in T
  <2> SUFFICES ASSUME k + 1 <= MaxId
               PROVE  Keeps(w, f[k + 1].w) /\ f[k + 1].ok \in BOOLEAN
                      /\ DOMAIN f[k + 1] = {"w", "ok"}
    OBVIOUS
  <2>1. k <= MaxId
    BY Positives
  <2>2. Keeps(w, f[k].w) /\ f[k].ok \in BOOLEAN /\ DOMAIN f[k] = {"w", "ok"}
    BY <2>1
  <2>3. f[k + 1] = EvictOne(f[k], current)
    BY <1>1
  <2>4. Sound(f[k].w)
    BY <2>2 DEF Keeps
  <2>5. Keeps(f[k].w, f[k + 1].w) /\ f[k + 1].ok \in BOOLEAN
    BY <2>2, <2>3, <2>4, EvictOneKeeps
  <2>6. Keeps(w, f[k + 1].w)
    BY <2>2, <2>5, KeepsTrans
  <2>7. DOMAIN f[k + 1] = {"w", "ok"}
    BY <2>2, <2>3 DEF EvictOne, Grown
  <2> QED  BY <2>5, <2>6, <2>7
<1> HIDE DEF T
<1>4. Nat \subseteq T
  BY <1>2, <1>3, SetInduction
<1>5. Keeps(w, f[MaxId].w) /\ f[MaxId].ok \in BOOLEAN /\ DOMAIN f[MaxId] = {"w", "ok"}
  BY <1>4, Positives DEF T
<1>6. Enough(f[MaxId].w) \in BOOLEAN
  BY DEF Enough
<1> QED  BY <1>1, <1>5, <1>6

LEMMA PrepareKeeps ==
  ASSUME NEW w, NEW current, Sound(w)
  PROVE  /\ Keeps(w, PrepareSpace(w, current).w)
         /\ PrepareSpace(w, current).ok \in BOOLEAN
<1> DEFINE due == w.age = LinesPerSecond \/ w.free < RequiredFree + 1 + Block
           u == IF due THEN Reread(w) ELSE w
           r == Evict(u, current)
           v == Aged(r.w)
<1>1. Keeps(w, u)
  BY UsageKeeps, KeepsRefl
<1>2. Sound(u)
  BY <1>1 DEF Keeps
<1> HIDE DEF u
<1>3. Keeps(u, r.w) /\ r.ok \in BOOLEAN /\ DOMAIN r = {"w", "ok"}
  BY <1>2, EvictKeeps
<1>4. Sound(r.w)
  BY <1>3 DEF Keeps
<1>5. Keeps(r.w, v)
  BY <1>4, UsageKeeps
<1>6. Keeps(w, v)
  BY <1>1, <1>3, <1>5, KeepsTrans
<1>7. PrepareSpace(w, current) = [r EXCEPT !.w = v]
  BY DEF PrepareSpace, u
<1> HIDE DEF r
<1>8. PrepareSpace(w, current).w = v /\ PrepareSpace(w, current).ok = r.ok
  BY <1>3, <1>7
<1> HIDE DEF v
<1> QED  BY <1>3, <1>6, <1>8

(* A file that no handle is open on is replaced by one of another length.  *)
LEMMA ReplacedKeeps ==
  ASSUME NEW w, Sound(w), NEW n \in DOMAIN w.disk, w.slot[n.stream].file # n,
         NEW k \in Nat, NEW v, IsRec(v), v.slot = w.slot,
         v.disk = [w.disk EXCEPT ![n] = k],
         v.room \in Nat, v.room + k = w.room + w.disk[n],
         v.free = w.free, v.age = w.age
  PROVE  Keeps(w, v)
<1>1. IsVol(w) /\ IsRec(w)
  BY DEF Sound, IsVol
<1>2. IsVol(v) /\ DOMAIN v.disk = DOMAIN w.disk
  BY <1>1 DEF IsVol
<1>3. n \in Names /\ n.stream \in Slots /\ w.disk[n] \in Nat
  BY <1>1, NameFacts DEF IsVol
<1>4. Bytes(w, n) = w.disk[n] /\ Bytes(v, n) = k
  <2>1. Unsynced(w, n) = 0 /\ Unsynced(v, n) = 0
    BY DEF Unsynced
  <2>2. Durable(w, n) = w.disk[n] /\ Durable(v, n) = k
    BY <1>2 DEF Durable
  <2> QED  BY <1>3, <2>1, <2>2 DEF Bytes
<1>5. \A m \in DOMAIN w.disk \ {n} : Bytes(v, m) = Bytes(w, m)
  BY <1>2 DEF Bytes, Durable, Unsynced
<1>6. Used(v) + w.disk[n] = Used(w) + k
  <2> DEFINE f == Held(w)
             g == Held(v)
  <2>1. /\ Numbers(f) /\ Numbers(g) /\ DOMAIN f = DOMAIN w.disk /\ DOMAIN g = DOMAIN w.disk
        /\ \A m \in DOMAIN w.disk : f[m] = Bytes(w, m) /\ g[m] = Bytes(v, m)
        /\ SumFunction(f) = Used(w) /\ SumFunction(g) = Used(v)
    BY <1>1, <1>2, HeldFacts DEF Used
  <2> HIDE DEF f, g
  <2>2. \A m \in DOMAIN f \ {n} : g[m] = f[m]
    BY <1>5, <2>1
  <2>3. SumFunction(g) + f[n] = SumFunction(f) + g[n]
    BY <2>1, <2>2, SumChange
  <2> QED  BY <1>4, <2>1, <2>3
<1>7. v.room + Used(v) = w.room + Used(w)
  <2>1. Used(w) \in Nat /\ Used(v) \in Nat
    BY <1>1, <1>2, HeldFacts
  <2>2. w.room \in Nat
    BY DEF Sound
  <2> QED  BY <1>3, <1>6, <2>1, <2>2
<1>8. Tidy(v)
  <2>1. ASSUME NEW s \in Slots
        PROVE  /\ v.slot[s].buffered < Block
               /\ v.slot[s].file = NoFile => v.slot[s].buffered = 0
               /\ v.slot[s].file \in DOMAIN v.disk =>
                    v.slot[s].buffered <= Bytes(v, v.slot[s].file) % Block
    <3>1. w.slot[s].file # n
      <4>1. w.slot[s].file \in Handles(s) \cup {NoFile} /\ n # NoFile
        BY <1>1, <1>3, SystemNames DEF IsVol
      <4> QED  BY <4>1, HandleFacts
    <3> QED  BY <1>2, <1>5, <3>1 DEF Sound, Tidy
  <2>2. v.slot[System].file = SysLog => SysLog \in DOMAIN v.disk
    BY <1>2 DEF Sound, Tidy
  <2> QED  BY <2>1, <2>2 DEF Tidy
<1> QED  BY <1>2, <1>7, <1>8 DEF Sound, Keeps

(* A copy takes the place of a log that is longer than it.                 *)
LEMMA CopiedKeeps ==
  ASSUME NEW w, NEW fault, Sound(w), SysLog \in DOMAIN w.disk, w.slot[System] = Closed
  PROVE  Keeps(w, Copied(w, fault).w) /\ Copied(w, fault).ok \in BOOLEAN
<1>1. w.slot[System].file # SysLog
  BY SystemNames DEF Closed
<1>2. CASE fault = "copy" \/ w.room < SysTrim
  <2>1. Copied(w, fault).w = w /\ Copied(w, fault).ok = FALSE
    BY <1>2 DEF Copied, Failed
  <2> QED  BY <2>1, KeepsRefl
<1>3. CASE ~(fault = "copy" \/ w.room < SysTrim) /\ fault = "rename"
  <2>1. Copied(w, fault).w = Without(w, {SysLog}) /\ Copied(w, fault).ok = FALSE
    BY <1>3 DEF Copied, Failed
  <2>2. Keeps(w, Without(w, {SysLog}))
    BY <1>1, WithoutKeeps
  <2> QED  BY <2>1, <2>2
<1>4. CASE ~(fault = "copy" \/ w.room < SysTrim) /\ fault # "rename"
  <2> DEFINE v == [w EXCEPT !.disk[SysLog] = SysTrim,
                            !.room = @ + Durable(w, SysLog) - SysTrim]
  <2>1. Copied(w, fault).w = v /\ Copied(w, fault).ok = TRUE
    BY <1>4 DEF Copied, Ok
  <2>2. IsVol(w) /\ IsRec(w) /\ w.room \in Nat
    BY DEF Sound, IsVol
  <2>3. PICK room, disk : /\ room = w.room + Durable(w, SysLog) - SysTrim
                          /\ disk = [w.disk EXCEPT ![SysLog] = SysTrim]
    OBVIOUS
  <2>4. v = [w EXCEPT !.disk = disk, !.room = room]
    BY <2>3
  <2> HIDE DEF v
  <2>5. /\ v.slot = w.slot /\ v.disk = disk /\ v.room = room
        /\ v.free = w.free /\ v.age = w.age /\ IsRec(v)
    BY <2>2, <2>4 DEF IsRec, Fields
  <2>6. Durable(w, SysLog) = w.disk[SysLog] /\ w.disk[SysLog] \in Nat
    BY <2>2 DEF Durable, IsVol
  <2>7. room \in Nat /\ room + SysTrim = w.room + w.disk[SysLog] /\ SysTrim \in Nat
    BY <1>4, <2>2, <2>3, <2>6, Positives
  <2>8. w.slot[SysLog.stream].file # SysLog
    BY <1>1, SystemNames
  <2>9. Keeps(w, v)
    BY <2>3, <2>5, <2>7, <2>8, ReplacedKeeps
  <2> QED  BY <2>1, <2>9
<1> QED  BY <1>2, <1>3, <1>4

LEMMA FitsKeeps ==
  ASSUME NEW w, NEW fault, Sound(w)
  PROVE  Keeps(w, FitsSystem(w, fault).w) /\ FitsSystem(w, fault).ok \in BOOLEAN
<1> DEFINE u == Close(w, {System})
           v == Without(u, {SysTmp})
<1>1. /\ Keeps(w, u) /\ DOMAIN u.disk = DOMAIN w.disk /\ u.slot[System] = Closed
  BY CloseKeeps, SystemNames
<1>2. Sound(u)
  BY <1>1 DEF Keeps
<1>3. CASE ~SystemFull(w)
  <2>1. FitsSystem(w, fault).w = w /\ FitsSystem(w, fault).ok = TRUE
    BY <1>3 DEF FitsSystem, Ok
  <2> QED  BY <2>1, KeepsRefl
<1>4. CASE SystemFull(w) /\ fault = "open"
  <2>1. FitsSystem(w, fault).w = u /\ FitsSystem(w, fault).ok = FALSE
    BY <1>4 DEF FitsSystem, Compact, Failed
  <2> QED  BY <1>1, <2>1
<1>5. CASE SystemFull(w) /\ fault # "open"
  <2>1. FitsSystem(w, fault) = Copied(v, fault)
    BY <1>5 DEF FitsSystem, Compact
  <2>2. SysLog \in DOMAIN w.disk
    <3>1. Bytes(w, SysLog) # 0
      BY <1>5, Positives DEF SystemFull
    <3>2. w.slot[System].file = SysLog => SysLog \in DOMAIN w.disk
      BY DEF Sound, Tidy
    <3> QED  BY <3>1, <3>2, SystemNames DEF Bytes, Durable, Unsynced
  <2> HIDE DEF u
  <2>3. Keeps(u, v) /\ DOMAIN v.disk = DOMAIN u.disk \ {SysTmp} /\ v.slot = u.slot
    BY <1>2, WithoutKeeps, SystemNames
  <2>4. Sound(v)
    BY <2>3 DEF Keeps
  <2>5. SysLog \in DOMAIN v.disk /\ v.slot[System] = Closed
    BY <1>1, <2>2, <2>3, SystemNames
  <2> HIDE DEF v
  <2>6. Keeps(v, Copied(v, fault).w) /\ Copied(v, fault).ok \in BOOLEAN
    BY <2>4, <2>5, CopiedKeeps
  <2>7. Keeps(w, Copied(v, fault).w)
    BY <1>1, <2>3, <2>6, KeepsTrans
  <2> QED  BY <2>1, <2>6, <2>7
<1> QED  BY <1>3, <1>4, <1>5

LEMMA AppendKeeps ==
  ASSUME NEW w, Sound(w), NEW s \in Slots, NEW n \in Handles(s),
         NEW current, NEW fault, NEW idle
  PROVE  Keeps(w, Append(w, n, current, fault, idle).w)
<1> DEFINE r1 == IF n = SysLog THEN FitsSystem(w, fault) ELSE Ok(w)
           r2 == Spaced(r1, current)
           r3 == Opened(r2, n, fault)
           r4 == Written(r3, s, fault, idle)
<1>1. Append(w, n, current, fault, idle) = r4
  BY HandleFacts DEF Append, Readied
<1>2. Keeps(w, r1.w) /\ r1.ok \in BOOLEAN
  BY FitsKeeps, KeepsRefl DEF Ok
<1> HIDE DEF r1
<1>3. Sound(r1.w)
  BY <1>2 DEF Keeps
<1>4. Keeps(r1.w, r2.w) /\ r2.ok \in BOOLEAN
  BY <1>2, <1>3, PrepareKeeps, KeepsRefl DEF Spaced
<1> HIDE DEF r2
<1>5. Sound(r2.w)
  BY <1>4 DEF Keeps
<1>6. Keeps(r2.w, r3.w) /\ r3.ok \in BOOLEAN
  BY <1>4, <1>5, OpenKeeps, KeepsRefl DEF Opened
<1> HIDE DEF r3
<1>7. Sound(r3.w)
  BY <1>6 DEF Keeps
<1>8. Keeps(r3.w, r4.w)
  <2>1. CASE ~r3.ok
    BY <1>7, <2>1, KeepsRefl DEF Written
  <2>2. CASE r3.ok
    <3> DEFINE x == Write(r3.w, s, fault)
               y == Sync(x.w, idle)
    <3>1. Keeps(r3.w, x.w)
      BY <1>7, WriteKeeps
    <3>2. DOMAIN x = {"w", "ok"}
      BY DEF Write, Ok, Failed
    <3>3. r4 = [x EXCEPT !.w = y]
      BY <2>2 DEF Written, IdleToo
    <3> HIDE DEF x
    <3>4. Sound(x.w)
      BY <3>1 DEF Keeps
    <3>5. Keeps(x.w, y)
      BY <3>4, SyncKeeps
    <3>6. Keeps(r3.w, y)
      BY <3>1, <3>5, KeepsTrans
    <3> HIDE DEF y
    <3>7. r4.w = y
      BY <3>2, <3>3
    <3> QED  BY <3>6, <3>7
  <2> QED  BY <2>1, <2>2
<1>9. Keeps(w, r4.w)
  BY <1>2, <1>4, <1>6, <1>8, KeepsTrans
<1> QED  BY <1>1, <1>9

LEMMA AppendsKeep ==
  ASSUME NEW w, Sound(w), NEW s \in Slots, NEW n \in Handles(s),
         NEW current, NEW r \in Appends(w, n, current)
  PROVE  Keeps(w, r.w)
<1>1. PICK fault, idle : r = Append(w, n, current, fault, idle)
  BY AppendsAre
<1> QED  BY <1>1, AppendKeeps

LEMMA SystemKeeps ==
  ASSUME NEW w, Sound(w), NEW current, NEW r \in Appends(w, SysLog, current)
  PROVE  Keeps(w, r.w)
<1>1. SysLog \in Handles(System) /\ System \in Slots
  BY SystemNames DEF Handles
<1> QED  BY <1>1, AppendsKeep

LEMMA AppendFinalsKeep ==
  ASSUME NEW w, Sound(w), NEW s \in Slots, NEW n \in Handles(s),
         NEW v \in AppendFinals(w, n)
  PROVE  Keeps(w, v)
<1>1. n.stream = s
  BY HandleFacts
<1>2. PICK fault : v = Ended(Open(w, n, fault), s, fault)
  BY <1>1 DEF AppendFinals
<1> DEFINE r == Open(w, n, fault)
           x == Write(r.w, s, fault).w
<1>3. Keeps(w, r.w) /\ r.ok \in BOOLEAN
  BY OpenKeeps
<1>4. Sound(r.w)
  BY <1>3 DEF Keeps
<1> HIDE DEF r
<1>5. Keeps(r.w, x)
  BY <1>4, WriteKeeps
<1>6. Sound(x)
  BY <1>5 DEF Keeps
<1>7. Keeps(x, Sync(x, {s}))
  BY <1>6, SyncKeeps
<1>8. Keeps(w, Sync(x, {s}))
  BY <1>3, <1>5, <1>7, KeepsTrans
<1>9. v = IF r.ok THEN Sync(x, {s}) ELSE r.w
  BY <1>2 DEF Ended, r
<1> QED  BY <1>3, <1>8, <1>9

(* Renaming moves what the files hold; what is overwritten becomes free.   *)
LEMMA RenamedKeeps ==
  ASSUME NEW w, Sound(w), NEW I, I \subseteq Ids, NEW least, NEW stuck,
         \A s \in SessionStreams : w.slot[s] = Closed
  PROVE  /\ Keeps(w, Renamed(w, I, least, stuck))
         /\ Renamed(w, I, least, stuck).slot = w.slot
<1> DEFINE v == Renamed(w, I, least, stuck)
           todo == Unnamed(w, I, least)
           done == todo \ stuck
           logs == { Log(n.stream, n.id) : n \in todo }
           new == { Log(n.stream, n.id) : n \in done }
           h == [ n \in DOMAIN w.disk \ logs |->
                    IF n \in done THEN Log(n.stream, n.id) ELSE n ]
<1>1. IsVol(w) /\ IsRec(w)
  BY DEF Sound, IsVol
<1>2. /\ v.disk = [ n \in (DOMAIN w.disk \ (done \cup logs)) \cup new |->
           IF n \in new THEN w.disk[Tmp(n.stream, n.id)] ELSE w.disk[n] ]
      /\ v.slot = w.slot /\ v.room = w.room + Total(w, logs)
      /\ v.free = w.free /\ v.age = w.age
  BY <1>1 DEF Renamed, IsRec, Fields
<1>3. IsVol(v)
  BY <1>1, RenamedFacts
<1> HIDE DEF v
<1>4. ASSUME NEW n \in todo
      PROVE  /\ n \in DOMAIN w.disk /\ n \in SessionNames /\ n.tmp
             /\ n.stream \in SessionStreams /\ n.id \in Ids
             /\ n = Tmp(n.stream, n.id)
             /\ Log(n.stream, n.id) \in logs
             /\ Log(n.stream, n.id) \in SessionNames /\ ~Log(n.stream, n.id).tmp
             /\ Log(n.stream, n.id).stream = n.stream /\ Log(n.stream, n.id).id = n.id
  <2>1. n \in DOMAIN w.disk /\ n \in SessionNames /\ n.tmp /\ Log(n.stream, n.id) \in logs
    BY DEF Unnamed
  <2>2. n.stream \in SessionStreams /\ n.id \in Ids /\ n = Tmp(n.stream, n.id)
    BY <2>1, SessionNameFacts
  <2> QED  BY <2>1, <2>2, PairNames
<1>26. \A n \in done : n \in todo /\ Log(n.stream, n.id) \in new
  OBVIOUS
<1>5. ASSUME NEW n \in logs
      PROVE  n \in SessionNames /\ ~n.tmp
  <2>1. PICK m \in todo : n = Log(m.stream, m.id)
    OBVIOUS
  <2> HIDE DEF todo, done, logs, new
  <2> QED  BY <1>4, <2>1
<1>27. ASSUME NEW n \in new
       PROVE  n \in logs /\ Tmp(n.stream, n.id) \in done /\ n = Log(n.stream, n.id)
  <2>1. PICK m \in done : n = Log(m.stream, m.id)
    OBVIOUS
  <2>2. m \in todo
    OBVIOUS
  <2> HIDE DEF todo, done, logs, new
  <2> QED  BY <1>4, <2>1, <2>2
<1>6. \A n \in DOMAIN w.disk \ logs : h[n] = IF n \in done THEN Log(n.stream, n.id) ELSE n
  OBVIOUS
<1>7. DOMAIN h = DOMAIN w.disk \ logs
  OBVIOUS
<1> HIDE DEF todo, done, logs, new, h
<1>8. ASSUME NEW n \in SessionNames, NEW u, u.slot = w.slot
      PROVE  Unsynced(u, n) = 0
  <2>1. n.stream \in SessionStreams
    BY SessionNameFacts
  <2>2. u.slot[n.stream].buffered = 0
    BY <1>8, <2>1 DEF Closed
  <2> QED  BY <2>2 DEF Unsynced
<1>9. ASSUME NEW n \in DOMAIN w.disk \ logs, n \notin done
      PROVE  n \in DOMAIN v.disk /\ Bytes(v, n) = Bytes(w, n)
  <2>1. n \in DOMAIN v.disk /\ v.disk[n] = w.disk[n]
    BY <1>2, <1>9, <1>27
  <2>2. Durable(v, n) = Durable(w, n)
    BY <2>1 DEF Durable
  <2>3. Unsynced(v, n) = Unsynced(w, n)
    BY <1>2 DEF Unsynced
  <2> QED  BY <2>1, <2>2, <2>3 DEF Bytes
<1>10. ASSUME NEW n \in done
       PROVE  /\ Log(n.stream, n.id) \in DOMAIN v.disk
              /\ Bytes(v, Log(n.stream, n.id)) = Bytes(w, n)
  <2> DEFINE m == Log(n.stream, n.id)
  <2>1. m \in new /\ m \in SessionNames /\ n \in SessionNames /\ n \in DOMAIN w.disk
        /\ Tmp(m.stream, m.id) = n
    BY <1>4, <1>26
  <2> HIDE DEF m
  <2>2. m \in DOMAIN v.disk /\ v.disk[m] = w.disk[n]
    BY <1>2, <2>1
  <2>3. Durable(v, m) = Durable(w, n)
    BY <2>1, <2>2 DEF Durable
  <2>4. Unsynced(v, m) = 0 /\ Unsynced(w, n) = 0
    BY <1>2, <1>8, <2>1
  <2>5. m \in DOMAIN v.disk /\ Bytes(v, m) = Bytes(w, n)
    BY <2>2, <2>3, <2>4 DEF Bytes
  <2> QED  BY <2>5 DEF m
<1>11. DOMAIN v.disk = (DOMAIN w.disk \ (done \cup logs)) \cup new
  BY <1>2
<1> DEFINE f == Held(w)
           part == Restrict(f, DOMAIN f \ logs)
           g == Held(v)
<1>12. /\ Numbers(f) /\ DOMAIN f = DOMAIN w.disk /\ f = [ n \in DOMAIN f |-> f[n] ]
       /\ \A n \in DOMAIN w.disk : f[n] = Bytes(w, n)
       /\ Used(w) = SumFunction(f)
  BY <1>1, HeldFacts DEF Used
<1>13. /\ Numbers(g) /\ DOMAIN g = DOMAIN v.disk /\ g = [ n \in DOMAIN g |-> g[n] ]
       /\ \A n \in DOMAIN v.disk : g[n] = Bytes(v, n)
       /\ Used(v) = SumFunction(g) /\ Used(v) \in Nat
  BY <1>3, HeldFacts DEF Used
<1> HIDE DEF f, g
<1>14. /\ DOMAIN part = DOMAIN w.disk \ logs /\ \A n \in DOMAIN part : part[n] = Bytes(w, n)
       /\ part = [ n \in DOMAIN part |-> part[n] ]
  BY <1>12 DEF Restrict
<1>15. Numbers(part)
  BY <1>12, RestrictFacts
<1>16. Total(w, logs) = SumFunction(Restrict(f, DOMAIN f \cap logs)) /\ Total(w, logs) \in Nat
  BY <1>1, TotalIs DEF f
<1>17. SumFunction(f) = SumFunction(Restrict(f, DOMAIN f \cap logs)) + SumFunction(part)
  BY <1>12, SumSplit
<1> HIDE DEF part
<1>18. \A n \in DOMAIN part : h[n] \in DOMAIN g /\ g[h[n]] = part[n]
  BY <1>6, <1>9, <1>10, <1>13, <1>14
<1>19. \A m, n \in DOMAIN part : h[m] = h[n] => m = n
  <2> TAKE m, n \in DOMAIN part
  <2>1. m \in DOMAIN w.disk \ logs /\ n \in DOMAIN w.disk \ logs
    BY <1>14
  <2>2. CASE m \in done /\ n \in done
    <3>1. h[m] = Log(m.stream, m.id) /\ h[n] = Log(n.stream, n.id)
      BY <1>6, <2>1, <2>2
    <3>2. /\ h[m].stream = m.stream /\ h[m].id = m.id /\ m = Tmp(m.stream, m.id)
          /\ h[n].stream = n.stream /\ h[n].id = n.id /\ n = Tmp(n.stream, n.id)
      BY <1>4, <1>26, <2>2, <3>1
    <3> QED  BY <3>2
  <2>3. CASE m \notin done /\ n \notin done
    BY <1>6, <2>1, <2>3
  <2>4. CASE m \in done /\ n \notin done
    BY <1>4, <1>6, <1>26, <2>1, <2>4
  <2>5. CASE m \notin done /\ n \in done
    BY <1>4, <1>6, <1>26, <2>1, <2>5
  <2> QED  BY <2>2, <2>3, <2>4, <2>5
<1>20. \A m \in DOMAIN g : \E n \in DOMAIN part : m = h[n]
  <2> TAKE m \in DOMAIN g
  <2>1. CASE m \in new
    <3> DEFINE n == Tmp(m.stream, m.id)
    <3>1. n \in done /\ m = Log(m.stream, m.id)
      BY <1>27, <2>1
    <3>2. m.stream \in SessionStreams /\ m.id \in Ids
      BY <1>5, <1>27, <2>1, SessionNameFacts
    <3>3. n.stream = m.stream /\ n.id = m.id /\ n.tmp
      BY <3>2, PairNames
    <3> HIDE DEF n
    <3>4. n \notin logs /\ n \in DOMAIN w.disk
      BY <1>4, <1>5, <1>26, <3>1, <3>3
    <3>5. h[n] = m
      BY <1>6, <3>1, <3>3, <3>4
    <3> QED  BY <1>14, <3>4, <3>5
  <2>2. CASE m \notin new
    <3>1. m \in DOMAIN w.disk \ logs /\ m \notin done
      BY <1>11, <1>13, <2>2
    <3> QED  BY <1>6, <1>14, <3>1
  <2> QED  BY <2>1, <2>2
<1>21. SumFunction(g) = SumFunction(part)
  BY <1>13, <1>14, <1>15, <1>18, <1>19, <1>20, SumMapped
<1>22. Used(w) = Total(w, logs) + Used(v)
  BY <1>12, <1>13, <1>16, <1>17, <1>21
<1>23. v.room \in Nat /\ v.room + Used(v) = w.room + Used(w)
  <2>1. w.room \in Nat
    BY DEF Sound
  <2> QED  BY <1>2, <1>13, <1>16, <1>22, <2>1
<1>24. Tidy(v)
  <2>1. ASSUME NEW s \in Slots
        PROVE  /\ v.slot[s].buffered < Block
               /\ v.slot[s].file = NoFile => v.slot[s].buffered = 0
               /\ v.slot[s].file \in DOMAIN v.disk =>
                    v.slot[s].buffered <= Bytes(v, v.slot[s].file) % Block
    <3>1. CASE s \in SessionStreams
      <4>1. v.slot[s].file = NoFile /\ v.slot[s].buffered = 0
        BY <1>2, <3>1 DEF Closed
      <4>2. NoFile \notin DOMAIN v.disk
        BY <1>3, SystemNames DEF IsVol
      <4> QED  BY <4>1, <4>2, Positives
    <3>2. CASE s = System
      <4>1. w.slot[System].file \in {SysLog, NoFile}
        BY <1>1, SystemNames DEF IsVol, Handles
      <4>2. SysLog \notin logs /\ SysLog \notin done /\ SysLog # NoFile
        BY <1>4, <1>5, <1>26, SystemNames
      <4>3. SysLog \in DOMAIN v.disk => SysLog \in DOMAIN w.disk
        BY <1>11, <1>27, <4>2
      <4>4. NoFile \notin DOMAIN v.disk
        BY <1>3, SystemNames DEF IsVol
      <4> QED  BY <1>2, <1>9, <3>2, <4>1, <4>2, <4>3, <4>4, SystemNames DEF Sound, Tidy
    <3> QED  BY <3>1, <3>2 DEF Slots
  <2>2. v.slot[System].file = SysLog => SysLog \in DOMAIN v.disk
    <3>1. SysLog \notin done /\ SysLog \notin logs
      BY <1>4, <1>5, <1>26, SystemNames
    <3> QED  BY <1>2, <1>11, <3>1 DEF Sound, Tidy
  <2> QED  BY <2>1, <2>2 DEF Tidy
<1>25. Keeps(w, v)
  BY <1>2, <1>3, <1>23, <1>24 DEF Sound, Keeps
<1> QED  BY <1>2, <1>25 DEF v

(* What was buffered is lost, and the space it would have taken is free.   *)
LEMMA DroppedKeeps ==
  ASSUME NEW w, Sound(w)
  PROVE  /\ Keeps(w, Dropped(w, Slots))
         /\ \A s \in Slots : Dropped(w, Slots).slot[s] = Closed
<1> DEFINE v == Dropped(w, Slots)
           lost == [ n \in DOMAIN w.disk |->
                       IF n.stream \in Slots THEN Unsynced(w, n) ELSE 0 ]
<1>1. IsVol(w) /\ IsRec(w)
  BY DEF Sound, IsVol
<1>2. /\ v.disk = w.disk
      /\ v.slot = [ s \in Slots |-> IF s \in Slots THEN Closed ELSE w.slot[s] ]
      /\ v.room = w.room + SumFunction(lost) /\ v.free = w.free /\ v.age = w.age
  <2>1. PICK slot, room : slot = [ s \in Slots |-> IF s \in Slots THEN Closed ELSE w.slot[s] ]
                          /\ room = w.room + SumFunction(lost)
    OBVIOUS
  <2>2. v = [w EXCEPT !.slot = slot, !.room = room]
    BY <2>1 DEF Dropped
  <2> HIDE DEF v, lost
  <2>3. v.disk = w.disk /\ v.slot = slot /\ v.room = room /\ v.free = w.free /\ v.age = w.age
    BY <1>1, <2>2 DEF IsRec, Fields
  <2> QED  BY <2>1, <2>3
<1>3. IsVol(v)
  BY <1>1, DroppedWithin DEF Within
<1> HIDE DEF v
<1>4. DOMAIN lost = DOMAIN w.disk /\ lost = [ n \in DOMAIN w.disk |-> lost[n] ]
  OBVIOUS
<1>5. ASSUME NEW n \in DOMAIN w.disk
      PROVE  /\ lost[n] \in Nat /\ Bytes(v, n) \in Nat
             /\ Bytes(w, n) = Bytes(v, n) + lost[n]
  <2>1. n \in Names /\ n.stream \in Slots /\ n # NoFile
    BY <1>1, NameFacts, SystemNames DEF IsVol
  <2>2. lost[n] = Unsynced(w, n)
    BY <2>1
  <2>3. Unsynced(v, n) = 0
    BY <1>2, <2>1 DEF Unsynced, Closed
  <2>4. Durable(v, n) = Durable(w, n)
    BY <1>2 DEF Durable
  <2>5. Unsynced(w, n) \in Nat /\ Durable(w, n) \in Nat
    BY <1>1, <2>1, BytesNat
  <2> QED  BY <2>2, <2>3, <2>4, <2>5 DEF Bytes
<1> HIDE DEF lost
<1> DEFINE f == Held(v)
           g == Held(w)
<1>6. /\ Numbers(f) /\ Numbers(g) /\ DOMAIN f = DOMAIN w.disk /\ DOMAIN g = DOMAIN w.disk
      /\ f = [ n \in DOMAIN f |-> f[n] ] /\ g = [ n \in DOMAIN g |-> g[n] ]
      /\ \A n \in DOMAIN w.disk : f[n] = Bytes(v, n) /\ g[n] = Bytes(w, n)
      /\ SumFunction(f) = Used(v) /\ SumFunction(g) = Used(w)
      /\ Used(v) \in Nat /\ Used(w) \in Nat
  BY <1>1, <1>2, <1>3, HeldFacts DEF Used
<1> HIDE DEF f, g
<1>7. Numbers(lost)
  BY <1>4, <1>5, <1>6 DEF Numbers
<1>8. SumFunction(g) = SumFunction(f) + SumFunction(lost)
  <2>1. DOMAIN g = DOMAIN f /\ DOMAIN lost = DOMAIN f
    BY <1>4, <1>6
  <2>2. /\ f = [ n \in DOMAIN f |-> f[n] ] /\ g = [ n \in DOMAIN f |-> g[n] ]
        /\ lost = [ n \in DOMAIN f |-> lost[n] ]
    BY <1>4, <1>6, <2>1
  <2>3. \A n \in DOMAIN f : g[n] = f[n] + lost[n]
    BY <1>5, <1>6
  <2> QED  BY <1>6, <1>7, <2>1, <2>2, <2>3, SumPlus
<1>9. SumFunction(lost) \in Nat
  BY <1>7, SumFacts
<1>10. v.room \in Nat /\ v.room + Used(v) = w.room + Used(w)
  BY <1>2, <1>6, <1>8, <1>9 DEF Sound
<1>11. \A s \in Slots : v.slot[s] = Closed
  BY <1>2
<1>12. Tidy(v)
  <2>1. NoFile \notin DOMAIN v.disk
    BY <1>3, SystemNames DEF IsVol
  <2> QED  BY <1>11, <2>1, SystemNames, Positives DEF Tidy, Closed
<1>13. Keeps(w, v)
  BY <1>2, <1>3, <1>10, <1>12 DEF Sound, Keeps
<1> QED  BY <1>11, <1>13 DEF v

LEMMA EmptiedKeeps ==
  ASSUME NEW w, Sound(w)
  PROVE  Keeps(w, Emptied(w)) /\ Used(Emptied(w)) = 0
<1> DEFINE u == Close(w, Slots)
           x == Without(u, Names)
           v == Emptied(w)
<1>1. Keeps(w, u) /\ \A s \in Slots : u.slot[s] = Closed
  BY CloseKeeps
<1>2. Sound(u) /\ u.slot[System].file # SysLog
  BY <1>1, SystemNames DEF Keeps, Closed
<1> HIDE DEF u
<1>3. Keeps(u, x) /\ x.slot = u.slot /\ DOMAIN x.disk = DOMAIN u.disk \ Names
  BY <1>2, WithoutKeeps
<1>4. v = [x EXCEPT !.disk = [ n \in {SysLog} |-> 0 ]]
  BY DEF Emptied, u
<1>5. IsVol(v)
  BY EmptiedWithin DEF Sound, Within
<1> HIDE DEF x, v
<1>6. Sound(x) /\ IsVol(x) /\ IsRec(x)
  BY <1>3 DEF Keeps, Sound, IsVol
<1>7. /\ v.disk = [ n \in {SysLog} |-> 0 ] /\ v.slot = x.slot
      /\ v.room = x.room /\ v.free = x.free /\ v.age = x.age
  BY <1>4, <1>6 DEF IsRec, Fields
<1>8. \A s \in Slots : v.slot[s].file = NoFile /\ v.slot[s].buffered = 0
  BY <1>1, <1>3, <1>7 DEF Closed
<1>9. DOMAIN x.disk = {}
  BY <1>2, <1>3 DEF Sound, IsVol
<1>10. Used(x) = 0
  <2>1. Numbers(Held(x)) /\ DOMAIN Held(x) = {}
    BY <1>6, <1>9, HeldFacts
  <2> QED  BY <2>1, SumFacts DEF Used
<1>11. Used(v) = 0
  <2> DEFINE g == Held(v)
  <2>1. Numbers(g) /\ DOMAIN g = {SysLog} /\ g[SysLog] = Bytes(v, SysLog)
    BY <1>5, <1>7, HeldFacts
  <2>2. Bytes(v, SysLog) = 0
    <3>1. Unsynced(v, SysLog) = 0
      BY <1>8, SystemNames DEF Unsynced
    <3>2. Durable(v, SysLog) = 0
      BY <1>7 DEF Durable
    <3> QED  BY <3>1, <3>2 DEF Bytes
  <2> HIDE DEF g
  <2>3. /\ SumFunction(g) = g[SysLog] + SumFunction(Less(g, SysLog))
        /\ Numbers(Less(g, SysLog))
    BY <2>1, SumFacts
  <2>4. DOMAIN Less(g, SysLog) = {}
    BY <2>1 DEF Less
  <2>5. SumFunction(Less(g, SysLog)) = 0
    BY <2>3, <2>4, SumFacts
  <2>6. SumFunction(g) = 0
    BY <2>1, <2>2, <2>3, <2>5
  <2> QED  BY <2>6 DEF Used, g
<1>12. Tidy(v)
  <2>1. NoFile \notin DOMAIN v.disk
    BY <1>5, SystemNames DEF IsVol
  <2> QED  BY <1>8, <2>1, SystemNames, Positives DEF Tidy
<1>13. Keeps(x, v)
  BY <1>5, <1>6, <1>7, <1>10, <1>11, <1>12 DEF Sound, Keeps
<1>14. Keeps(w, v)
  BY <1>1, <1>3, <1>13, KeepsTrans
<1> QED  BY <1>11, <1>14 DEF v

(* A power cut gives back what was not synced, and the leftovers of what   *)
(* it interrupts are counted.                                              *)
LEMMA CutKeeps ==
  ASSUME Sound(vol), NEW w \in Cut
  PROVE  Keeps(vol, w) /\ \A s \in Slots : w.slot[s] = Closed
<1> DEFINE plain == Dropped(vol, Slots)
           idle == Sync(vol, {System})
           synced == Dropped(idle, Slots)
           bare == Without(synced, {SysTmp})
<1>1. Keeps(vol, plain) /\ \A s \in Slots : plain.slot[s] = Closed
  BY DroppedKeeps
<1>2. Keeps(vol, idle)
  BY SyncKeeps
<1>3. Sound(idle)
  BY <1>2 DEF Keeps
<1> HIDE DEF idle
<1>4. Keeps(idle, synced) /\ \A s \in Slots : synced.slot[s] = Closed
  BY <1>3, DroppedKeeps
<1>5. Keeps(vol, synced)
  BY <1>2, <1>4, KeepsTrans
<1> HIDE DEF plain, synced
<1>6. ASSUME NEW x, Keeps(vol, x), \A s \in Slots : x.slot[s] = Closed, NEW S
      PROVE  /\ Keeps(vol, Without(x, S)) /\ \A s \in Slots : Without(x, S).slot[s] = Closed
             /\ DOMAIN Without(x, S).disk = DOMAIN x.disk \ S
  <2>1. Sound(x) /\ x.slot[System].file # SysLog
    BY <1>6, SystemNames DEF Keeps, Closed
  <2>2. Keeps(x, Without(x, S)) /\ Without(x, S).slot = x.slot
        /\ DOMAIN Without(x, S).disk = DOMAIN x.disk \ S
    BY <2>1, WithoutKeeps
  <2>3. Keeps(vol, Without(x, S))
    BY <1>6, <2>2, KeepsTrans
  <2> QED  BY <1>6, <2>2, <2>3
<1>7. CASE w = plain
  BY <1>1, <1>7
<1>8. CASE w \in { Without(plain, {Log(Trip, i)}) : i \in Completed(plain, sid) }
  <2>1. PICK i : w = Without(plain, {Log(Trip, i)})
    BY <1>8
  <2> QED  BY <1>1, <1>6, <2>1
<1>9. CASE w \in HalfCompacted(bare)
  <2> DEFINE created == Created(bare, SysTmp)
             copied == [created EXCEPT !.disk[SysTmp] = SysTrim, !.room = @ - SysTrim]
  <2>1. Keeps(vol, bare) /\ (\A s \in Slots : bare.slot[s] = Closed)
        /\ SysTmp \notin DOMAIN bare.disk
    BY <1>4, <1>5, <1>6
  <2>2. Sound(bare) /\ bare.slot[SysTmp.stream].file # SysTmp
    BY <2>1, SystemNames DEF Keeps, Closed
  <2>3. w \in {copied, Without(copied, {SysLog})} /\ ~(bare.room < SysTrim)
    BY <1>9 DEF HalfCompacted
  <2> HIDE DEF bare
  <2>4. /\ Keeps(bare, created) /\ created.slot = bare.slot
        /\ SysTmp \in DOMAIN created.disk /\ created.disk[SysTmp] = 0
    BY <2>1, <2>2, CreatedKeeps, SystemNames
  <2>5. created.room = bare.room
    BY <2>2 DEF Created, Sound, IsVol, IsRec, Fields
  <2> HIDE DEF created
  <2>6. Sound(created) /\ IsVol(created) /\ IsRec(created) /\ created.room \in Nat
    BY <2>4 DEF Keeps, Sound, IsVol
  <2>7. PICK room, disk : /\ room = created.room - SysTrim
                          /\ disk = [created.disk EXCEPT ![SysTmp] = SysTrim]
    OBVIOUS
  <2>8. copied = [created EXCEPT !.disk = disk, !.room = room]
    BY <2>7
  <2> HIDE DEF copied
  <2>9. /\ IsRec(copied) /\ copied.disk = disk /\ copied.slot = created.slot
        /\ copied.room = room /\ copied.free = created.free /\ copied.age = created.age
    BY <2>6, <2>8 DEF IsRec, Fields
  <2>10. room \in Nat /\ room + SysTrim = created.room + created.disk[SysTmp] /\ SysTrim \in Nat
    BY <2>3, <2>4, <2>5, <2>6, <2>7, Positives
  <2>11. created.slot[SysTmp.stream].file # SysTmp
    BY <2>2, <2>4
  <2>12. Keeps(created, copied)
    BY <2>4, <2>6, <2>7, <2>9, <2>10, <2>11, ReplacedKeeps
  <2>13. Keeps(vol, copied) /\ \A s \in Slots : copied.slot[s] = Closed
    BY <2>1, <2>4, <2>9, <2>12, KeepsTrans
  <2> QED  BY <1>6, <2>3, <2>13
<1>10. w \in {plain} \/ w \in { Without(plain, {Log(Trip, i)}) : i \in Completed(plain, sid) }
       \/ w \in HalfCompacted(bare)
  BY DEF Cut, plain, synced, idle
<1> QED  BY <1>7, <1>8, <1>9, <1>10

-----------------------------------------------------------------------------
(* The steps of the log, by what they do to the books.                     *)

AccountInv ==
  /\ Sound(vol)
  /\ vol.room + Used(vol) + image.bytes = Capacity
  /\ armed \in BOOLEAN /\ manual \in BOOLEAN
  /\ image \in [bytes: 0 .. MaxImage, open: BOOLEAN]

(* Only files change.                                                      *)
FileStep ==
  /\ Keeps(vol, vol') /\ image' = image
  /\ armed' \in BOOLEAN /\ manual' \in BOOLEAN

LEMMA StartKeeps ==
  ASSUME SessionTypes, AccountInv, StartSession
  PROVE  Keeps(vol, vol') /\ active' \in BOOLEAN
<1> DEFINE n == Tmp(Trip, next)
<1>1. next \in Ids
  BY Positives DEF StartSession, SessionTypes, Ids
<1>2. Trip \in Slots /\ n \in Handles(Trip)
  BY <1>1, PairNames DEF Slots, SessionStreams
<1>3. Sound(vol) /\ IsVol(vol)
  BY DEF AccountInv, Sound
<1>4. PICK r \in Appends(vol, n, next) :
        /\ active' = r.ok
        /\ vol' \in IF r.ok THEN { x.w : x \in Appends(r.w, SysLog, next) } ELSE {r.w}
  BY DEF StartSession
<1> HIDE DEF n
<1>5. Keeps(vol, r.w) /\ r.ok \in BOOLEAN
  BY <1>2, <1>3, AppendsKeep, AppendsWithin
<1>6. Sound(r.w)
  BY <1>5 DEF Keeps
<1>7. CASE r.ok
  <2>1. PICK x \in Appends(r.w, SysLog, next) : vol' = x.w
    BY <1>4, <1>7
  <2>2. Keeps(r.w, x.w)
    BY <1>6, SystemKeeps
  <2>3. Keeps(vol, x.w)
    BY <1>5, <2>2, KeepsTrans
  <2> QED  BY <1>4, <1>5, <2>1, <2>3
<1>8. CASE ~r.ok
  BY <1>4, <1>5, <1>8
<1> QED  BY <1>7, <1>8

LEMMA FinishKeeps ==
  ASSUME SessionTypes, active, NEW w, Sound(w), FinishSession(w)
  PROVE  Keeps(w, vol') /\ manual' = FALSE
<1> DEFINE n == Tmp(Trip, sid)
<1>1. sid \in Ids /\ {sid} \subseteq Ids
  BY Positives DEF SessionTypes, Ids
<1>2. Trip \in Slots /\ n \in Handles(Trip) /\ SessionStreams \subseteq Slots
  BY <1>1, PairNames DEF Slots, SessionStreams
<1>3. PICK u \in AppendFinals(w, n) :
        \E stuck : vol' \in AppendFinals(Renamed(Close(u, SessionStreams), {sid}, 1, stuck),
                                        SysLog)
  BY DEF FinishSession, Finished, Renamings
<1>20. PICK stuck :
         vol' \in AppendFinals(Renamed(Close(u, SessionStreams), {sid}, 1, stuck), SysLog)
  BY <1>3
<1> HIDE DEF n
<1>4. Keeps(w, u)
  BY <1>2, AppendFinalsKeep
<1>5. Sound(u)
  BY <1>4 DEF Keeps
<1> DEFINE x == Close(u, SessionStreams)
           y == Renamed(x, {sid}, 1, stuck)
<1>6. Keeps(u, x) /\ \A s \in SessionStreams : x.slot[s] = Closed
  BY <1>2, <1>5, CloseKeeps
<1>7. Sound(x)
  BY <1>6 DEF Keeps
<1> HIDE DEF x
<1>8. Keeps(x, y)
  BY <1>1, <1>6, <1>7, RenamedKeeps
<1>9. Sound(y)
  BY <1>8 DEF Keeps
<1>10. SysLog \in Handles(System) /\ System \in Slots
  BY SystemNames DEF Handles
<1> HIDE DEF y
<1>11. Keeps(y, vol')
  BY <1>20, <1>9, <1>10, AppendFinalsKeep DEF x, y
<1>12. Keeps(w, vol')
  BY <1>4, <1>6, <1>8, <1>11, KeepsTrans
<1> QED  BY <1>12 DEF FinishSession

LEMMA TickKeeps ==
  ASSUME SessionTypes, AccountInv, NEW idle, Tick(idle)
  PROVE  FileStep
<1> DEFINE w == IdleSynced(idle)
<1>1. Keeps(vol, w)
  BY SyncKeeps DEF AccountInv, IdleSynced
<1>2. Sound(w)
  BY <1>1 DEF Keeps
<1> HIDE DEF w
<1>3. CASE manual /\ active /\ ~armed /\ FinishSession(w) /\ UNCHANGED <<armed, image>>
  <2>1. Keeps(w, vol') /\ manual' = FALSE
    BY <1>2, <1>3, FinishKeeps
  <2>2. Keeps(vol, vol')
    BY <1>1, <2>1, KeepsTrans
  <2> QED  BY <1>3, <2>1, <2>2 DEF FileStep, AccountInv
<1>4. CASE TripSample(w) /\ UNCHANGED <<armed, image>>
  <2>1. active /\ sid \in Ids /\ Trip \in SessionStreams /\ Trip \in Slots
    BY <1>4, Positives DEF TripSample, SessionTypes, Ids, SessionStreams, Slots
  <2>2. Tmp(Trip, sid) \in Handles(Trip)
    BY <2>1, PairNames
  <2>3. PICK r \in Appends(w, Tmp(Trip, sid), sid) :
          \/ ~r.ok /\ FinishSession(r.w)
          \/ vol' = r.w /\ (UNCHANGED manual \/ TimeIsUp)
    BY <1>4 DEF TripSample
  <2>4. Keeps(w, r.w)
    BY <1>2, <2>1, <2>2, AppendsKeep
  <2>5. Keeps(vol, r.w) /\ Sound(r.w)
    BY <1>1, <2>4, KeepsTrans DEF Keeps
  <2>6. CASE FinishSession(r.w)
    <3>1. Keeps(r.w, vol') /\ manual' = FALSE
      BY <2>1, <2>5, <2>6, FinishKeeps
    <3>2. Keeps(vol, vol')
      BY <2>5, <3>1, KeepsTrans
    <3> QED  BY <1>4, <3>1, <3>2 DEF FileStep, AccountInv
  <2>7. CASE vol' = r.w /\ (UNCHANGED manual \/ TimeIsUp)
    BY <1>4, <2>5, <2>7 DEF FileStep, AccountInv, TimeIsUp
  <2> QED  BY <2>3, <2>6, <2>7
<1>5. CASE Quiet(w) /\ UNCHANGED <<armed, image>>
  BY <1>1, <1>5 DEF Quiet, FileStep, AccountInv, TimeIsUp
<1> QED  BY <1>3, <1>4, <1>5 DEF Tick, w

(* The power goes and comes back.                                          *)
LEMMA PowerKeeps ==
  ASSUME SessionTypes, AccountInv, PowerCut
  PROVE  FileStep
<1>0. PICK w \in Cut : \E stuck \in Stuck(Unnamed(w, Ids, 1)) :
        \E booted \in {Expired(Created(Recovered(w, stuck), SysLog))} :
          vol' \in IF \E i \in Ids : Tmp(Trip, i) \in DOMAIN w.disk \ stuck
                   THEN { Append(booted, SysLog, 0, f, {}).w :
                            f \in SystemFaults(booted) }
                   ELSE {booted}
  BY DEF PowerCut
<1>1. PICK stuck \in Stuck(Unnamed(w, Ids, 1)) :
        \E booted \in {Expired(Created(Recovered(w, stuck), SysLog))} :
          vol' \in IF \E i \in Ids : Tmp(Trip, i) \in DOMAIN w.disk \ stuck
                   THEN { Append(booted, SysLog, 0, f, {}).w :
                            f \in SystemFaults(booted) }
                   ELSE {booted}
  BY <1>0
<1> DEFINE u == Renamed(w, Ids, 0, stuck)
           x == Created(u, SysLog)
           y == Expired(x)
<1>2. Keeps(vol, w) /\ \A s \in Slots : w.slot[s] = Closed
  BY CutKeeps DEF AccountInv
<1>3. Sound(w) /\ SessionStreams \subseteq Slots
  BY <1>2 DEF Keeps, Slots
<1>4. Keeps(w, u) /\ u.slot = w.slot
  BY <1>2, <1>3, RenamedKeeps
<1>5. Sound(u) /\ u.slot[SysLog.stream].file # SysLog /\ SysLog \in Names
  BY <1>2, <1>4, SystemNames DEF Keeps, Closed
<1> HIDE DEF u
<1>6. Keeps(u, x)
  BY <1>5, CreatedKeeps
<1>7. Sound(x)
  BY <1>6 DEF Keeps
<1> HIDE DEF x
<1>8. Keeps(x, y)
  BY <1>7, UsageKeeps
<1>9. Keeps(vol, y) /\ Sound(y)
  BY <1>2, <1>4, <1>6, <1>8, KeepsTrans DEF Keeps
<1>10. vol' = y \/ \E f : vol' = Append(y, SysLog, 0, f, {}).w
  BY <1>1 DEF y, x, u, Recovered
<1> HIDE DEF y
<1>11. ASSUME NEW f PROVE Keeps(y, Append(y, SysLog, 0, f, {}).w)
  <2>1. SysLog \in Handles(System) /\ System \in Slots
    BY SystemNames DEF Handles
  <2> QED  BY <1>9, <2>1, AppendKeeps
<1>12. Keeps(vol, vol')
  BY <1>9, <1>10, <1>11, KeepsTrans
<1> QED  BY <1>12 DEF PowerCut, FileStep

(* The image takes space, or gives it back.                                *)
LEMMA RoomSound ==
  ASSUME NEW w, Sound(w), NEW room \in Nat, room + Used(w) <= Capacity
  PROVE  LET v == [w EXCEPT !.room = room]
         IN Sound(v) /\ v.room = room /\ Used(v) = Used(w)
<1> DEFINE v == [w EXCEPT !.room = room]
<1>1. IsVol(w) /\ IsRec(w)
  BY DEF Sound, IsVol
<1>2. /\ IsRec(v) /\ v.disk = w.disk /\ v.slot = w.slot /\ v.room = room
      /\ v.free = w.free /\ v.age = w.age
  BY <1>1 DEF IsRec, Fields
<1> HIDE DEF v
<1>3. IsVol(v)
  BY <1>1, <1>2 DEF IsVol
<1>4. \A n : Bytes(v, n) = Bytes(w, n)
  BY <1>2 DEF Bytes, Durable, Unsynced
<1>5. Used(v) = Used(w)
  BY <1>2, <1>4, SameHeld
<1>6. Tidy(v)
  BY <1>2, <1>4 DEF Sound, Tidy
<1>7. Sound(v) /\ v.room = room /\ Used(v) = Used(w)
  BY <1>2, <1>3, <1>5, <1>6 DEF Sound
<1> QED  BY <1>7 DEF v

LEMMA ImageAccounts ==
  ASSUME AccountInv, ImageOpened \/ ImageGrows \/ ImageFinished \/ ImageRemoved
  PROVE  AccountInv'
<1> DEFINE u == [vol EXCEPT !.room = @ + image.bytes]
           d == [vol EXCEPT !.room = @ - Chunk]
<1>1. /\ Sound(vol) /\ vol.room \in Nat /\ Used(vol) \in Nat /\ image.bytes \in Nat
      /\ vol.room + Used(vol) + image.bytes = Capacity
      /\ image \in [bytes: 0 .. MaxImage, open: BOOLEAN]
  BY HeldFacts DEF AccountInv, Sound
<1>2. Sound(u) /\ u.room = vol.room + image.bytes /\ Used(u) = Used(vol)
  <2>1. PICK room : room = vol.room + image.bytes
    OBVIOUS
  <2>2. room \in Nat /\ room + Used(vol) <= Capacity
    BY <1>1, <2>1, Positives
  <2>3. u = [vol EXCEPT !.room = room]
    BY <2>1
  <2> HIDE DEF u
  <2> QED  BY <1>1, <2>1, <2>2, <2>3, RoomSound
<1>3. vol.room >= Chunk =>
        Sound(d) /\ d.room = vol.room - Chunk /\ Used(d) = Used(vol)
  <2> SUFFICES ASSUME vol.room >= Chunk
               PROVE  Sound(d) /\ d.room = vol.room - Chunk /\ Used(d) = Used(vol)
    OBVIOUS
  <2>1. PICK room : room = vol.room - Chunk
    OBVIOUS
  <2>2. room \in Nat /\ room + Used(vol) <= Capacity
    BY <1>1, <2>1, Positives
  <2>3. d = [vol EXCEPT !.room = room]
    BY <2>1
  <2> HIDE DEF d
  <2> QED  BY <1>1, <2>1, <2>2, <2>3, RoomSound
<1>4. 0 \in 0 .. MaxImage
  BY Positives
<1>5. CASE ImageOpened
  <2>1. vol' = u /\ image' = [bytes |-> 0, open |-> TRUE] /\ UNCHANGED <<armed, manual>>
    BY <1>5 DEF ImageOpened
  <2> HIDE DEF u
  <2>2. vol'.room + Used(vol') + image'.bytes = Capacity
    BY <1>1, <1>2, <2>1
  <2> QED  BY <1>2, <1>4, <2>1, <2>2 DEF AccountInv
<1>6. CASE ImageGrows
  <2>1. /\ vol' = d /\ image' = [image EXCEPT !.bytes = @ + Chunk]
        /\ vol.room >= Chunk /\ image.bytes + Chunk <= MaxImage /\ UNCHANGED <<armed, manual>>
    BY <1>6 DEF ImageGrows
  <2> HIDE DEF d
  <2>2. image'.bytes = image.bytes + Chunk /\ image' \in [bytes: 0 .. MaxImage, open: BOOLEAN]
    <3>1. image.bytes + Chunk \in 0 .. MaxImage
      BY <1>1, <2>1, Positives
    <3> QED  BY <1>1, <2>1, <3>1
  <2>3. vol'.room + Used(vol') + image'.bytes = Capacity
    BY <1>1, <1>3, <2>1, <2>2, Positives
  <2> QED  BY <1>3, <2>1, <2>2, <2>3 DEF AccountInv
<1>7. CASE ImageFinished
  <2>1. vol' = Refresh(vol) /\ image' = [image EXCEPT !.open = FALSE] /\ UNCHANGED <<armed, manual>>
    BY <1>7 DEF ImageFinished
  <2>2. Keeps(vol, vol')
    BY <1>1, <2>1, UsageKeeps
  <2>3. image'.bytes = image.bytes /\ image' \in [bytes: 0 .. MaxImage, open: BOOLEAN]
    BY <1>1, <2>1
  <2>4. Used(vol') \in Nat /\ vol'.room \in Nat
    BY <2>2, HeldFacts DEF Keeps, Sound
  <2>5. vol'.room + Used(vol') + image'.bytes = Capacity
    BY <1>1, <2>2, <2>3, <2>4 DEF Keeps
  <2> QED  BY <2>1, <2>2, <2>3, <2>5 DEF AccountInv, Keeps
<1>8. CASE ImageRemoved
  <2>1. vol' \in {u, Refresh(u)} /\ image' = [bytes |-> 0, open |-> FALSE]
        /\ UNCHANGED <<armed, manual>>
    BY <1>8 DEF ImageRemoved
  <2> HIDE DEF u
  <2>2. Keeps(u, vol')
    BY <1>2, <2>1, UsageKeeps, KeepsRefl
  <2>3. Used(vol') \in Nat /\ vol'.room \in Nat
    BY <2>2, HeldFacts DEF Keeps, Sound
  <2>4. vol'.room + Used(vol') + image'.bytes = Capacity
    BY <1>1, <1>2, <2>1, <2>2, <2>3 DEF Keeps
  <2> QED  BY <1>4, <2>1, <2>2, <2>4 DEF AccountInv, Keeps
<1> QED  BY <1>5, <1>6, <1>7, <1>8

LEMMA FormatAccounts ==
  ASSUME AccountInv, FormatVolume
  PROVE  AccountInv'
<1>1. Sound(vol)
  BY DEF AccountInv
<1>2. UNCHANGED <<armed, manual>>
  BY DEF FormatVolume
<1>3. CASE /\ image' = [bytes |-> 0, open |-> FALSE]
           /\ \E w \in {Refresh([Emptied(vol) EXCEPT !.room = Capacity])} :
                vol' \in { r.w : r \in Appends(w, SysLog, 0) }
  <2> DEFINE u == Emptied(vol)
             x == [u EXCEPT !.room = Capacity]
             y == Refresh(x)
  <2>1. Sound(u) /\ Used(u) = 0
    BY <1>1, EmptiedKeeps DEF Keeps
  <2> HIDE DEF u
  <2>2. Sound(x) /\ x.room = Capacity /\ Used(x) = 0
    BY <2>1, RoomSound, Positives
  <2> HIDE DEF x
  <2>3. Keeps(x, y)
    BY <2>2, UsageKeeps
  <2>4. Sound(y)
    BY <2>3 DEF Keeps
  <2>5. PICK r \in Appends(y, SysLog, 0) : vol' = r.w
    BY <1>3 DEF y, x, u
  <2> HIDE DEF y
  <2>6. Keeps(y, vol')
    BY <2>4, <2>5, SystemKeeps
  <2>7. Keeps(x, vol')
    BY <2>3, <2>6, KeepsTrans
  <2>8. Used(vol') \in Nat /\ vol'.room \in Nat
    BY <2>7, HeldFacts DEF Keeps, Sound
  <2>9. vol'.room + Used(vol') + image'.bytes = Capacity
    BY <1>3, <2>2, <2>7, <2>8, Positives DEF Keeps
  <2>10. 0 \in 0 .. MaxImage
    BY Positives
  <2> QED  BY <1>2, <1>3, <2>7, <2>9, <2>10 DEF AccountInv, Keeps
<1>4. CASE vol' = Close(vol, Slots) /\ image' = image
  <2>1. Keeps(vol, vol')
    BY <1>1, <1>4, CloseKeeps
  <2> QED  BY <1>2, <1>4, <2>1 DEF AccountInv, Keeps
<1> QED  BY <1>3, <1>4 DEF FormatVolume

(* No step of LogNext loses or invents space.                              *)
LEMMA AccountStep ==
  ASSUME SessionTypes, AccountInv, [LogNext]_vars
  PROVE  AccountInv'
<1>0. Sound(vol) /\ armed \in BOOLEAN /\ manual \in BOOLEAN
  BY DEF AccountInv
<1>1. ASSUME FileStep PROVE AccountInv'
  BY <1>1 DEF FileStep, AccountInv, Keeps
<1>2. ASSUME active, FinishSession(vol) PROVE Keeps(vol, vol') /\ manual' = FALSE
  BY <1>0, <1>2, FinishKeeps
<1>3. Keeps(vol, vol)
  BY <1>0, KeepsRefl
<1>4. CASE StartManualCapture
  <2>1. CASE manual' = TRUE /\ UNCHANGED vol
    BY <1>1, <1>3, <1>4, <1>0, <2>1 DEF StartManualCapture, FileStep
  <2>2. CASE StartSession /\ manual' = (active' \/ manual)
    <3>1. Keeps(vol, vol') /\ active' \in BOOLEAN
      BY <2>2, StartKeeps
    <3>2. manual' \in BOOLEAN
      BY <2>2
    <3> QED  BY <1>0, <1>1, <1>4, <3>1, <3>2 DEF StartManualCapture, FileStep
  <2> QED  BY <1>4, <2>1, <2>2 DEF StartManualCapture
<1>5. CASE StopManualCapture
  <2>1. UNCHANGED <<armed, image>>
    BY <1>5 DEF StopManualCapture
  <2>2. CASE active /\ FinishSession(vol)
    BY <1>0, <1>1, <1>2, <2>1, <2>2 DEF FileStep
  <2>3. CASE manual' = FALSE /\ UNCHANGED vol
    BY <1>0, <1>1, <1>3, <2>1, <2>3 DEF FileStep
  <2> QED  BY <1>5, <2>2, <2>3 DEF StopManualCapture
<1>6. CASE \E a \in BOOLEAN : NoteFcArmedState(a)
  <2>1. image' = image /\ armed' \in BOOLEAN
    BY <1>6 DEF NoteFcArmedState
  <2>2. CASE StartSession /\ UNCHANGED manual
    BY <1>0, <1>1, <2>1, <2>2, StartKeeps DEF FileStep
  <2>3. CASE active /\ FinishSession(vol)
    BY <1>1, <1>2, <2>1, <2>3 DEF FileStep
  <2>4. CASE UNCHANGED <<vol, manual>>
    BY <1>0, <1>1, <1>3, <2>1, <2>4 DEF FileStep
  <2> QED  BY <1>6, <2>2, <2>3, <2>4 DEF NoteFcArmedState
<1>7. CASE \E idle \in IdleSets(vol) : Tick(idle)
  BY <1>1, <1>7, TickKeeps
<1>8. CASE SonarLine
  <2>1. active /\ sid \in Ids /\ Sonar \in SessionStreams /\ Sonar \in Slots
    BY <1>8, Positives DEF SonarLine, SessionTypes, Ids, SessionStreams, Slots
  <2>2. Tmp(Sonar, sid) \in Handles(Sonar)
    BY <2>1, PairNames
  <2>3. PICK r \in Appends(vol, Tmp(Sonar, sid), sid) : vol' = r.w
    BY <1>8 DEF SonarLine
  <2>4. Keeps(vol, r.w)
    BY <1>0, <2>1, <2>2, AppendsKeep
  <2> QED  BY <1>0, <1>1, <1>8, <2>3, <2>4 DEF SonarLine, FileStep
<1>9. CASE SystemLine
  <2>1. PICK r \in Appends(vol, SysLog, IF active THEN sid ELSE 0) : vol' = r.w
    BY <1>9 DEF SystemLine
  <2>2. Keeps(vol, r.w)
    BY <1>0, <2>1, SystemKeeps
  <2> QED  BY <1>0, <1>1, <1>9, <2>1, <2>2 DEF SystemLine, FileStep
<1>10. CASE ReadBack
  <2> DEFINE w == Sync(vol, Slots)
  <2>1. Keeps(vol, w) /\ Sound(w)
    BY <1>0, SyncKeeps DEF Keeps
  <2>2. vol' \in {w, Refresh(w)}
    BY <1>10 DEF ReadBack
  <2> HIDE DEF w
  <2>3. Keeps(w, vol')
    BY <2>1, <2>2, UsageKeeps, KeepsRefl
  <2>4. Keeps(vol, vol')
    BY <2>1, <2>3, KeepsTrans
  <2> QED  BY <1>0, <1>1, <1>10, <2>4 DEF ReadBack, FileStep
<1>11. CASE \E i \in Ids : DeleteSession(i)
  <2>1. PICK i : vol' = Refresh(Without(vol, SessionFiles(i)))
                 /\ UNCHANGED <<manual, armed, image>>
    BY <1>11 DEF DeleteSession
  <2>2. SysLog \notin SessionFiles(i)
    BY SystemNames DEF SessionFiles
  <2> DEFINE w == Without(vol, SessionFiles(i))
  <2>3. Keeps(vol, w) /\ Sound(w)
    BY <1>0, <2>2, WithoutKeeps DEF Keeps
  <2> HIDE DEF w
  <2>4. Keeps(w, Refresh(w))
    BY <2>3, UsageKeeps
  <2>5. Keeps(vol, vol')
    BY <2>1, <2>3, <2>4, KeepsTrans DEF w
  <2> QED  BY <1>0, <1>1, <2>1, <2>5 DEF FileStep
<1>12. CASE ClearAll
  <2> DEFINE w == Emptied(vol)
  <2>1. Keeps(vol, w) /\ Sound(w)
    BY <1>0, EmptiedKeeps DEF Keeps
  <2>2. vol' = Refresh(w) /\ UNCHANGED <<manual, armed, image>>
    BY <1>12 DEF ClearAll
  <2> HIDE DEF w
  <2>3. Keeps(w, vol')
    BY <2>1, <2>2, UsageKeeps
  <2>4. Keeps(vol, vol')
    BY <2>1, <2>3, KeepsTrans
  <2> QED  BY <1>0, <1>1, <2>2, <2>4 DEF FileStep
<1>13. CASE FormatVolume
  BY <1>13, FormatAccounts
<1>14. CASE ImageOpened \/ ImageGrows \/ ImageFinished \/ ImageRemoved
  BY <1>14, ImageAccounts
<1>15. CASE SecondPasses
  <2>1. Keeps(vol, vol')
    BY <1>0, <1>15, UsageKeeps DEF SecondPasses
  <2> QED  BY <1>0, <1>1, <1>15, <2>1 DEF SecondPasses, FileStep
<1>16. CASE PowerCut
  BY <1>1, <1>16, PowerKeeps
<1>17. CASE UNCHANGED vars
  BY <1>0, <1>1, <1>3, <1>17 DEF vars, FileStep
<1> QED  BY <1>4, <1>5, <1>6, <1>7, <1>8, <1>9, <1>10, <1>11, <1>12, <1>13, <1>14,
            <1>15, <1>16, <1>17 DEF LogNext

LEMMA AccountInit ==
  ASSUME LogInit
  PROVE  AccountInv
<1>1. /\ vol.disk = [ n \in {SysLog} |-> 0 ] /\ vol.slot = [ s \in Slots |-> Closed ]
      /\ vol.room = Capacity /\ vol.free = 0 /\ vol.age = LinesPerSecond
  BY DEF LogInit
<1>2. IsVol(vol)
  BY SessionInit DEF SessionInv, SessionTypes
<1>3. Used(vol) = 0
  <2> DEFINE g == Held(vol)
  <2>1. Numbers(g) /\ DOMAIN g = {SysLog} /\ g[SysLog] = Bytes(vol, SysLog)
    BY <1>1, <1>2, HeldFacts
  <2>2. Bytes(vol, SysLog) = 0
    BY <1>1, SystemNames DEF Bytes, Durable, Unsynced, Closed
  <2> HIDE DEF g
  <2>3. /\ SumFunction(g) = g[SysLog] + SumFunction(Less(g, SysLog))
        /\ Numbers(Less(g, SysLog))
    BY <2>1, SumFacts
  <2>4. DOMAIN Less(g, SysLog) = {}
    BY <2>1 DEF Less
  <2>5. SumFunction(Less(g, SysLog)) = 0
    BY <2>3, <2>4, SumFacts
  <2> QED  BY <2>1, <2>2, <2>3, <2>5 DEF Used, g
<1>4. Tidy(vol)
  <2>1. NoFile \notin DOMAIN vol.disk /\ SysLog \in DOMAIN vol.disk
    BY <1>1, <1>2, SystemNames DEF IsVol
  <2> QED  BY <1>1, <2>1, Positives DEF Tidy, Closed
<1>5. Sound(vol)
  BY <1>1, <1>2, <1>3, <1>4, Positives DEF Sound
<1>6. image.bytes = 0 /\ image \in [bytes: 0 .. MaxImage, open: BOOLEAN]
  BY Positives DEF LogInit
<1>7. vol.room + Used(vol) + image.bytes = Capacity
  BY <1>1, <1>3, <1>6, Positives
<1> QED  BY <1>5, <1>6, <1>7 DEF LogInit, AccountInv

(* The types, with what the accounts say of room and lengths.              *)
LEMMA AccountTypes ==
  ASSUME SessionTypes, AccountInv
  PROVE  LogTypeOK
<1>1. IsVol(vol) /\ Sound(vol)
  BY DEF AccountInv, Sound
<1> DEFINE f == Held(vol)
<1>2. /\ Numbers(f) /\ DOMAIN f = DOMAIN vol.disk
      /\ \A n \in DOMAIN vol.disk : f[n] = Bytes(vol, n)
      /\ SumFunction(f) = Used(vol) /\ Used(vol) \in Nat
      /\ f = [ n \in DOMAIN f |-> f[n] ]
  BY <1>1, HeldFacts DEF Used
<1>3. Total(vol, Names) = Used(vol)
  <2>1. DOMAIN vol.disk \cap Names = DOMAIN vol.disk
    BY <1>1 DEF IsVol
  <2> QED  BY <2>1 DEF Total, Used, Held
<1> HIDE DEF f
<1>4. vol.room \in Nat /\ vol.room + Used(vol) <= Capacity
  BY <1>1 DEF Sound
<1>5. ASSUME NEW n \in DOMAIN vol.disk PROVE vol.disk[n] \in 0 .. Capacity
  <2>1. f[n] <= Used(vol)
    BY <1>2, SumMember
  <2>2. n \in Names
    BY <1>1 DEF IsVol
  <2>3. Unsynced(vol, n) \in Nat /\ Durable(vol, n) \in Nat
    BY <1>1, <2>2, BytesNat
  <2>4. f[n] = vol.disk[n] + Unsynced(vol, n) /\ vol.disk[n] \in Nat
    BY <1>2, <2>3 DEF Bytes, Durable
  <2> QED  BY <1>2, <1>4, <2>1, <2>3, <2>4, Positives
<1>6. ASSUME NEW s \in Slots
      PROVE  /\ vol.slot[s].buffered < Block
             /\ vol.slot[s].file # NoFile => vol.slot[s].file.stream = s
  <2>1. vol.slot[s].file \in Handles(s) \cup {NoFile}
    BY <1>1 DEF IsVol
  <2> QED  BY <1>1, <2>1, HandleFacts DEF Sound, Tidy
<1>7. image.bytes \in Nat /\ image \in [bytes: 0 .. MaxImage, open: BOOLEAN]
  BY DEF AccountInv
<1>8. vol.room = Capacity - image.bytes - Total(vol, Names)
  <2>1. vol.room + Used(vol) + image.bytes = Capacity
    BY DEF AccountInv
  <2> QED  BY <1>2, <1>3, <1>4, <1>7, <2>1, Positives
<1>9. vol.slot \in [Slots -> Slot] /\ DOMAIN vol.disk \subseteq Names
      /\ vol.free \in 0 .. Capacity /\ vol.age \in 0 .. LinesPerSecond
  BY <1>1 DEF IsVol, Sound
<1> QED  BY <1>5, <1>6, <1>7, <1>8, <1>9 DEF LogTypeOK, SessionTypes, AccountInv

(* What is free is always what the files and the firmware leave, through   *)
(* every eviction, compaction, rename and power cut: none of the           *)
(* operations of db_sonar_log.c loses or invents space.                    *)
THEOREM AccountsHold == LogSpec => []AccountInv
<1>1. LogInit => AccountInv
  BY AccountInit
<1>2. SessionInv /\ AccountInv /\ [LogNext]_vars => AccountInv'
  BY AccountStep DEF SessionInv
<1> QED  BY <1>1, <1>2, SessionsHold, PTL DEF LogSpec

(* The volume stays a volume: handles hold files of their own stream,      *)
(* buffers less than a block, and no figure goes below zero or above the   *)
(* size of the volume, whatever db_sonar_log.c writes, evicts, compacts    *)
(* or renames, and wherever the power is cut.                              *)
THEOREM LogTypesHold == LogSpec => []LogTypeOK
<1>1. SessionInv /\ AccountInv => LogTypeOK
  BY AccountTypes DEF SessionInv
<1> QED  BY <1>1, SessionsHold, AccountsHold, PTL

-----------------------------------------------------------------------------
(* What an operation spends of the space.                                  *)

(* What is free and what the remains of a compaction occupy, which the     *)
(* next compaction gives back.                                             *)
Spare(w) == w.room + Durable(w, SysTmp)

Thrifty(w, v, k) ==
  /\ v.room + k >= w.room
  /\ Spare(v) + k >= Spare(w)
  /\ Durable(v, SysTmp) <= Durable(w, SysTmp)

(* ... and leaves the figures of the last refresh as they are.             *)
Frugal(w, v, k) == Thrifty(w, v, k) /\ v.free = w.free /\ v.age = w.age

LEMMA SoundNumbers ==
  ASSUME NEW w, Sound(w)
  PROVE  /\ IsVol(w) /\ IsRec(w) /\ w.room \in Nat /\ Durable(w, SysTmp) \in Nat
         /\ Spare(w) \in Nat /\ w.free \in Nat /\ w.age \in Nat
         /\ w.free <= Capacity /\ w.age <= LinesPerSecond
         /\ w.slot[System].file # SysTmp /\ Unsynced(w, SysTmp) = 0
<1>1. IsVol(w) /\ IsRec(w)
  BY DEF Sound, IsVol
<1>2. Durable(w, SysTmp) \in Nat /\ w.room \in Nat
  BY <1>1, BytesNat, SystemNames DEF Sound
<1>3. w.slot[System].file # SysTmp
  BY <1>1, SystemNames, HandleFacts DEF IsVol
<1>4. Unsynced(w, SysTmp) = 0
  BY <1>3, SystemNames DEF Unsynced
<1>5. w.free \in Nat /\ w.age \in Nat /\ w.free <= Capacity /\ w.age <= LinesPerSecond
  BY Positives DEF Sound
<1> QED  BY <1>1, <1>2, <1>3, <1>4, <1>5 DEF Spare

LEMMA ThriftyTrans ==
  ASSUME NEW u, NEW v, NEW w, Sound(u), Sound(v), Sound(w), NEW j \in Nat, NEW k \in Nat,
         Thrifty(u, v, j), Thrifty(v, w, k)
  PROVE  Thrifty(u, w, j + k)
<1>1. /\ u.room \in Nat /\ v.room \in Nat /\ w.room \in Nat
      /\ Spare(u) \in Nat /\ Spare(v) \in Nat /\ Spare(w) \in Nat
      /\ Durable(u, SysTmp) \in Nat /\ Durable(v, SysTmp) \in Nat /\ Durable(w, SysTmp) \in Nat
  BY SoundNumbers
<1>2. w.room + (j + k) >= u.room
  BY <1>1 DEF Thrifty
<1>3. Spare(w) + (j + k) >= Spare(u)
  BY <1>1 DEF Thrifty
<1>4. Durable(w, SysTmp) <= Durable(u, SysTmp)
  BY <1>1 DEF Thrifty
<1> QED  BY <1>2, <1>3, <1>4 DEF Thrifty

LEMMA FrugalTrans ==
  ASSUME NEW u, NEW v, NEW w, Sound(u), Sound(v), Sound(w), NEW j \in Nat, NEW k \in Nat,
         Frugal(u, v, j), Frugal(v, w, k)
  PROVE  Frugal(u, w, j + k)
  BY ThriftyTrans DEF Frugal

LEMMA FrugalRefl ==
  ASSUME NEW w, Sound(w), NEW k \in Nat
  PROVE  Frugal(w, w, k) /\ Thrifty(w, w, k)
<1>1. w.room \in Nat /\ Spare(w) \in Nat /\ Durable(w, SysTmp) \in Nat
  BY SoundNumbers
<1> QED  BY <1>1 DEF Frugal, Thrifty

(* Room only grows, and the remains of a compaction are left alone.        *)
LEMMA FrugalAlike ==
  ASSUME NEW w, NEW v, Sound(w), Sound(v), v.room >= w.room,
         Durable(v, SysTmp) = Durable(w, SysTmp), v.free = w.free, v.age = w.age
  PROVE  Frugal(w, v, 0)
<1>1. /\ w.room \in Nat /\ v.room \in Nat /\ Durable(w, SysTmp) \in Nat
      /\ Durable(v, SysTmp) \in Nat
  BY SoundNumbers
<1> QED  BY <1>1 DEF Frugal, Thrifty, Spare

LEMMA SyncFrugal ==
  ASSUME NEW w, Sound(w), NEW S
  PROVE  Sound(Sync(w, S)) /\ Frugal(w, Sync(w, S), 0)
<1> DEFINE v == Sync(w, S)
<1>1. /\ IsRec(w) /\ w.room \in Nat /\ Unsynced(w, SysTmp) = 0 /\ Durable(w, SysTmp) \in Nat
  BY SoundNumbers
<1>2. /\ v.disk = [ n \in DOMAIN w.disk |->
                      IF n.stream \in S THEN Bytes(w, n) ELSE w.disk[n] ]
      /\ v.room = w.room /\ v.free = w.free /\ v.age = w.age
  BY <1>1 DEF Sync, IsRec, Fields
<1>3. Sound(v)
  BY SyncKeeps DEF Keeps
<1> HIDE DEF v
<1>4. Bytes(w, SysTmp) = Durable(w, SysTmp)
  BY <1>1 DEF Bytes
<1>5. Durable(v, SysTmp) = Durable(w, SysTmp)
  BY <1>2, <1>4 DEF Durable
<1>6. Frugal(w, v, 0)
  BY <1>1, <1>2, <1>3, <1>5, FrugalAlike
<1> QED  BY <1>3, <1>6 DEF v

LEMMA CloseFrugal ==
  ASSUME NEW w, Sound(w), NEW S
  PROVE  Sound(Close(w, S)) /\ Frugal(w, Close(w, S), 0)
<1> DEFINE u == Sync(w, S)
           v == Close(w, S)
<1>1. Sound(u) /\ Frugal(w, u, 0)
  BY SyncFrugal
<1>2. v = [u EXCEPT !.slot = [ s \in Slots |-> IF s \in S THEN Closed ELSE u.slot[s] ]]
  BY DEF Close
<1>3. Sound(v)
  BY CloseKeeps DEF Keeps
<1> HIDE DEF u, v
<1>4. v.disk = u.disk /\ v.room = u.room /\ v.free = u.free /\ v.age = u.age /\ u.room \in Nat
  BY <1>1, <1>2, SoundNumbers DEF IsRec, Fields
<1>5. Frugal(u, v, 0)
  BY <1>1, <1>3, <1>4, FrugalAlike DEF Durable
<1>6. Frugal(w, v, 0)
  BY <1>1, <1>3, <1>5, FrugalTrans
<1> QED  BY <1>3, <1>6 DEF v

LEMMA WithoutFrugal ==
  ASSUME NEW w, Sound(w), NEW S, SysLog \in S => w.slot[System].file # SysLog
  PROVE  Sound(Without(w, S)) /\ Frugal(w, Without(w, S), 0)
<1> DEFINE v == Without(w, S)
           f == Held(w)
           g == Restrict(f, DOMAIN f \cap S)
<1>1. IsRec(w) /\ IsVol(w) /\ w.room \in Nat /\ Durable(w, SysTmp) \in Nat
      /\ Unsynced(w, SysTmp) = 0
  BY SoundNumbers
<1>2. /\ v.disk = [ n \in DOMAIN w.disk \ S |-> w.disk[n] ]
      /\ v.room = w.room + Total(w, S) /\ v.free = w.free /\ v.age = w.age
  BY <1>1 DEF Without, Restrict, IsRec, Fields
<1>3. Sound(v)
  BY WithoutKeeps DEF Keeps
<1>4. Total(w, S) = SumFunction(g) /\ Total(w, S) \in Nat
  BY <1>1, TotalIs
<1> HIDE DEF v
<1>5. CASE SysTmp \in DOMAIN w.disk \cap S
  <2>1. /\ Numbers(f) /\ DOMAIN f = DOMAIN w.disk /\ f[SysTmp] = Bytes(w, SysTmp)
    BY <1>1, <1>5, HeldFacts
  <2> HIDE DEF f
  <2>2. Numbers(g) /\ SysTmp \in DOMAIN g /\ g[SysTmp] = f[SysTmp]
    <3>1. DOMAIN f \cap S \subseteq DOMAIN f
      OBVIOUS
    <3>2. Numbers(g)
      BY <2>1, <3>1, RestrictFacts
    <3> QED  BY <1>5, <2>1, <3>2 DEF Restrict
  <2> HIDE DEF g
  <2>3. g[SysTmp] <= SumFunction(g)
    BY <2>2, SumMember
  <2>4. Bytes(w, SysTmp) = Durable(w, SysTmp)
    BY <1>1 DEF Bytes
  <2>5. Durable(v, SysTmp) = 0
    BY <1>2, <1>5 DEF Durable
  <2>6. v.room >= w.room + Durable(w, SysTmp)
    BY <1>1, <1>2, <1>4, <2>1, <2>2, <2>3, <2>4
  <2>7. v.room \in Nat
    BY <1>3, SoundNumbers
  <2> QED  BY <1>1, <1>2, <1>3, <2>5, <2>6, <2>7 DEF Frugal, Thrifty, Spare, v
<1>6. CASE SysTmp \notin DOMAIN w.disk \cap S
  <2>1. Durable(v, SysTmp) = Durable(w, SysTmp)
    BY <1>2, <1>6 DEF Durable
  <2>2. v.room >= w.room
    BY <1>1, <1>2, <1>4
  <2>3. Frugal(w, v, 0)
    BY <1>2, <1>3, <2>1, <2>2, FrugalAlike
  <2> QED  BY <1>3, <2>3 DEF v
<1> QED  BY <1>5, <1>6

LEMMA CreatedFrugal ==
  ASSUME NEW w, Sound(w), NEW n \in Names,
         n \in DOMAIN w.disk \/ w.slot[n.stream].file # n
  PROVE  Sound(Created(w, n)) /\ Frugal(w, Created(w, n), 0)
<1> DEFINE v == Created(w, n)
<1>1. IsRec(w) /\ w.room \in Nat
  BY SoundNumbers
<1>2. /\ v.disk = [ m \in DOMAIN w.disk \cup {n} |-> Durable(w, m) ]
      /\ v.room = w.room /\ v.free = w.free /\ v.age = w.age
  BY <1>1 DEF Created, IsRec, Fields
<1>3. Sound(v)
  BY CreatedKeeps DEF Keeps
<1> HIDE DEF v
<1>4. Durable(v, SysTmp) = Durable(w, SysTmp)
  BY <1>2 DEF Durable
<1>5. Frugal(w, v, 0)
  BY <1>1, <1>2, <1>3, <1>4, FrugalAlike
<1> QED  BY <1>3, <1>5 DEF v

LEMMA OpenFrugal ==
  ASSUME NEW w, Sound(w), NEW s \in Slots, NEW n \in Handles(s), NEW fault
  PROVE  Sound(Open(w, n, fault).w) /\ Frugal(w, Open(w, n, fault).w, 0)
<1>1. n \in Names /\ n.stream = s /\ n # NoFile
  BY HandleFacts
<1>2. Sound(Open(w, n, fault).w)
  BY OpenKeeps DEF Keeps
<1>3. CASE w.slot[s].file # NoFile \/ fault = "open"
  <2>1. Open(w, n, fault).w = w
    BY <1>1, <1>3 DEF Open, Ok, Failed
  <2> QED  BY <2>1, FrugalRefl
<1>4. CASE w.slot[s].file = NoFile /\ fault # "open"
  <2> DEFINE u == Created(w, n)
             v == [u EXCEPT !.slot[s].file = n]
  <2>1. Sound(u) /\ Frugal(w, u, 0)
    BY <1>1, <1>4, CreatedFrugal
  <2>2. Open(w, n, fault).w = v
    BY <1>1, <1>4 DEF Open, Ok
  <2> HIDE DEF u
  <2>3. v.disk = u.disk /\ v.room = u.room /\ v.free = u.free /\ v.age = u.age /\ u.room \in Nat
    BY <2>1, SoundNumbers DEF IsRec, Fields
  <2> HIDE DEF v
  <2>4. Frugal(u, v, 0)
    BY <1>2, <2>1, <2>2, <2>3, FrugalAlike DEF Durable
  <2>5. Frugal(w, v, 0)
    BY <1>2, <2>1, <2>2, <2>4, FrugalTrans
  <2> QED  BY <1>2, <2>2, <2>5
<1> QED  BY <1>2, <1>3, <1>4

(* A line takes one of what is free.                                       *)
LEMMA WriteFrugal ==
  ASSUME NEW w, Sound(w), NEW s \in Slots, NEW fault
  PROVE  /\ Sound(Write(w, s, fault).w)
         /\ Frugal(w, Write(w, s, fault).w, 1)
         /\ ~Write(w, s, fault).ok => Write(w, s, fault).w = w
<1> DEFINE n == w.slot[s].file
           v == [w EXCEPT !.slot[s].buffered = @ + 1, !.room = @ - 1]
           x == Sync(v, {s})
<1>1. Sound(Write(w, s, fault).w)
  BY WriteKeeps DEF Keeps
<1>2. CASE fault = "write" \/ w.room = 0 \/ n \notin DOMAIN w.disk
  <2>1. Write(w, s, fault).w = w
    BY <1>2 DEF Write, Ok, Failed
  <2> QED  BY <1>1, <2>1, FrugalRefl
<1>3. CASE ~(fault = "write" \/ w.room = 0) /\ n \in DOMAIN w.disk
  <2>1. /\ Write(w, s, fault).w = IF Bytes(v, n) % Block = 0 THEN x ELSE v
        /\ Write(w, s, fault).ok = TRUE
    BY <1>3 DEF Write, Ok
  <2>2. /\ IsRec(w) /\ IsVol(w) /\ w.room \in Nat /\ w.slot[s] \in Slot
        /\ Durable(w, SysTmp) \in Nat
    BY SoundNumbers DEF IsVol
  <2>3. /\ v.disk = w.disk /\ v.slot = [w.slot EXCEPT ![s].buffered = @ + 1]
        /\ v.room = w.room - 1 /\ v.free = w.free /\ v.age = w.age /\ IsRec(v)
    BY <2>2 DEF IsRec, Fields
  <2> HIDE DEF v
  <2>4. v.slot[System].file # SysTmp
    <3>1. v.slot[s].file = w.slot[s].file /\ \A t \in Slots \ {s} : v.slot[t] = w.slot[t]
      BY <2>2, <2>3 DEF Slot, IsVol
    <3> QED  BY <3>1, SoundNumbers, SystemNames
  <2>5. Bytes(v, SysTmp) = Durable(w, SysTmp) /\ Durable(v, SysTmp) = Durable(w, SysTmp)
    <3>1. Unsynced(v, SysTmp) = 0
      BY <2>4, SystemNames DEF Unsynced
    <3>2. Durable(v, SysTmp) = Durable(w, SysTmp)
      BY <2>3 DEF Durable
    <3> QED  BY <2>2, <3>1, <3>2 DEF Bytes
  <2>6. /\ x.disk = [ m \in DOMAIN w.disk |->
                        IF m.stream \in {s} THEN Bytes(v, m) ELSE v.disk[m] ]
        /\ x.room = v.room /\ x.free = v.free /\ x.age = v.age
    BY <2>3 DEF Sync, IsRec, Fields
  <2> HIDE DEF x
  <2>7. Durable(x, SysTmp) = Durable(w, SysTmp)
    BY <2>3, <2>5, <2>6 DEF Durable
  <2>8. PICK y : y = Write(w, s, fault).w
    OBVIOUS
  <2>9. /\ y.room = w.room - 1 /\ y.free = w.free /\ y.age = w.age
        /\ Durable(y, SysTmp) = Durable(w, SysTmp)
    BY <2>1, <2>3, <2>5, <2>6, <2>7, <2>8
  <2>10. Frugal(w, y, 1)
    BY <2>2, <2>9 DEF Frugal, Thrifty, Spare
  <2> QED  BY <1>1, <2>1, <2>8, <2>10
<1> QED  BY <1>2, <1>3

LEMMA RenamedFrugal ==
  ASSUME NEW w, Sound(w), NEW I, I \subseteq Ids, NEW least, NEW stuck,
         \A s \in SessionStreams : w.slot[s] = Closed
  PROVE  /\ Sound(Renamed(w, I, least, stuck))
         /\ Frugal(w, Renamed(w, I, least, stuck), 0)
<1> DEFINE v == Renamed(w, I, least, stuck)
           todo == Unnamed(w, I, least)
           logs == { Log(n.stream, n.id) : n \in todo }
           new == { Log(n.stream, n.id) : n \in todo \ stuck }
<1>1. IsVol(w) /\ IsRec(w) /\ w.room \in Nat
  BY SoundNumbers
<1>2. /\ v.disk = [ n \in (DOMAIN w.disk \ ((todo \ stuck) \cup logs)) \cup new |->
           IF n \in new THEN w.disk[Tmp(n.stream, n.id)] ELSE w.disk[n] ]
      /\ v.room = w.room + Total(w, logs) /\ v.free = w.free /\ v.age = w.age
  BY <1>1 DEF Renamed, IsRec, Fields
<1>3. Sound(v)
  BY RenamedKeeps DEF Keeps
<1> HIDE DEF v
<1>4. SysTmp \notin todo /\ SysTmp \notin logs /\ SysTmp \notin new
  <2>1. \A n \in todo : n \in SessionNames
    BY DEF Unnamed
  <2>2. \A n \in todo : ~Log(n.stream, n.id).tmp
    BY DEF Log
  <2> QED  BY <2>1, <2>2, SystemNames
<1>5. Total(w, logs) \in Nat
  BY <1>1, TotalIs
<1> HIDE DEF todo, logs, new
<1>6. Durable(v, SysTmp) = Durable(w, SysTmp)
  BY <1>2, <1>4 DEF Durable
<1>7. v.room >= w.room
  BY <1>1, <1>2, <1>5
<1>8. Frugal(w, v, 0)
  BY <1>2, <1>3, <1>6, <1>7, FrugalAlike
<1> QED  BY <1>3, <1>8 DEF v

LEMMA DroppedFrugal ==
  ASSUME NEW w, Sound(w)
  PROVE  Sound(Dropped(w, Slots)) /\ Frugal(w, Dropped(w, Slots), 0)
<1> DEFINE v == Dropped(w, Slots)
           lost == [ n \in DOMAIN w.disk |->
                       IF n.stream \in Slots THEN Unsynced(w, n) ELSE 0 ]
<1>1. IsVol(w) /\ IsRec(w) /\ w.room \in Nat
  BY SoundNumbers
<1>2. v.disk = w.disk /\ v.room = w.room + SumFunction(lost) /\ v.free = w.free /\ v.age = w.age
  <2>1. PICK slot, room : slot = [ s \in Slots |-> IF s \in Slots THEN Closed ELSE w.slot[s] ]
                          /\ room = w.room + SumFunction(lost)
    OBVIOUS
  <2>2. v = [w EXCEPT !.slot = slot, !.room = room]
    BY <2>1 DEF Dropped
  <2> HIDE DEF v, lost
  <2> QED  BY <1>1, <2>1, <2>2 DEF IsRec, Fields
<1>3. Sound(v)
  BY DroppedKeeps DEF Keeps
<1> HIDE DEF v
<1>4. SumFunction(lost) \in Nat
  <2>1. DOMAIN lost = DOMAIN Held(w) /\ Numbers(Held(w)) /\ DOMAIN Held(w) = DOMAIN w.disk
    BY <1>1, HeldFacts
  <2>2. \A n \in DOMAIN w.disk : lost[n] \in Nat
    BY <1>1, BytesNat DEF IsVol
  <2> HIDE DEF lost
  <2>3. Numbers(lost)
    BY <2>1, <2>2 DEF Numbers
  <2> QED  BY <2>3, SumFacts
<1>5. v.room >= w.room
  BY <1>1, <1>2, <1>4
<1>6. Frugal(w, v, 0)
  BY <1>2, <1>3, <1>5, FrugalAlike DEF Durable
<1> QED  BY <1>3, <1>6 DEF v

LEMMA EmptiedFrugal ==
  ASSUME NEW w, Sound(w)
  PROVE  Sound(Emptied(w)) /\ Frugal(w, Emptied(w), 0) /\ Durable(Emptied(w), SysTmp) = 0
<1> DEFINE u == Close(w, Slots)
           x == Without(u, Names)
           v == Emptied(w)
<1>1. Sound(u) /\ Frugal(w, u, 0)
  BY CloseFrugal
<1>2. u.slot[System].file # SysLog
  BY CloseKeeps, SystemNames DEF Closed
<1> HIDE DEF u
<1>3. Sound(x) /\ Frugal(u, x, 0) /\ DOMAIN x.disk = DOMAIN u.disk \ Names
  BY <1>1, <1>2, WithoutFrugal, WithoutKeeps
<1>4. v = [x EXCEPT !.disk = [ n \in {SysLog} |-> 0 ]]
  BY DEF Emptied, u
<1>5. Sound(v)
  BY EmptiedKeeps DEF Keeps
<1> HIDE DEF x, v
<1>6. /\ v.disk = [ n \in {SysLog} |-> 0 ] /\ v.room = x.room /\ v.free = x.free
      /\ v.age = x.age /\ x.room \in Nat
  BY <1>3, <1>4, SoundNumbers DEF IsRec, Fields
<1>7. Durable(x, SysTmp) = 0 /\ Durable(v, SysTmp) = 0
  BY <1>3, <1>6, SystemNames DEF Durable
<1>8. Frugal(x, v, 0)
  BY <1>3, <1>5, <1>6, <1>7, FrugalAlike
<1>9. Frugal(w, x, 0)
  BY <1>1, <1>3, FrugalTrans
<1>10. Frugal(w, v, 0)
  BY <1>3, <1>5, <1>8, <1>9, FrugalTrans
<1> QED  BY <1>5, <1>7, <1>10 DEF v

(* A copy is shorter than the log it replaces.                             *)
LEMMA CopiedFrugal ==
  ASSUME NEW w, NEW fault, Sound(w), SysLog \in DOMAIN w.disk, w.slot[System] = Closed,
         w.disk[SysLog] >= SysTrim
  PROVE  Sound(Copied(w, fault).w) /\ Frugal(w, Copied(w, fault).w, 0)
<1>1. w.slot[System].file # SysLog
  BY SystemNames DEF Closed
<1>2. CASE fault = "copy" \/ w.room < SysTrim
  <2>1. Copied(w, fault).w = w
    BY <1>2 DEF Copied, Failed
  <2> QED  BY <2>1, FrugalRefl
<1>3. CASE ~(fault = "copy" \/ w.room < SysTrim) /\ fault = "rename"
  <2>1. Copied(w, fault).w = Without(w, {SysLog})
    BY <1>3 DEF Copied, Failed
  <2> QED  BY <1>1, <2>1, WithoutFrugal
<1>4. CASE ~(fault = "copy" \/ w.room < SysTrim) /\ fault # "rename"
  <2>1. PICK room, disk : /\ room = w.room + Durable(w, SysLog) - SysTrim
                          /\ disk = [w.disk EXCEPT ![SysLog] = SysTrim]
    OBVIOUS
  <2>2. PICK v : v = Copied(w, fault).w
    OBVIOUS
  <2>3. v = [w EXCEPT !.disk = disk, !.room = room]
    BY <1>4, <2>1, <2>2 DEF Copied, Ok
  <2>4. Sound(v)
    BY <2>2, CopiedKeeps DEF Keeps
  <2>5. IsRec(w) /\ IsVol(w) /\ w.room \in Nat
    BY SoundNumbers
  <2>6. v.disk = disk /\ v.room = room /\ v.free = w.free /\ v.age = w.age
    BY <2>3, <2>5 DEF IsRec, Fields
  <2>7. Durable(w, SysLog) = w.disk[SysLog] /\ w.disk[SysLog] \in Nat
    BY <2>5 DEF Durable, IsVol
  <2>8. v.room >= w.room
    BY <2>1, <2>5, <2>6, <2>7, Positives
  <2>9. Durable(v, SysTmp) = Durable(w, SysTmp)
    BY <2>1, <2>6, SystemNames DEF Durable
  <2>10. Frugal(w, v, 0)
    BY <2>4, <2>6, <2>8, <2>9, FrugalAlike
  <2> QED  BY <2>2, <2>4, <2>10
<1> QED  BY <1>2, <1>3, <1>4

LEMMA FitsFrugal ==
  ASSUME NEW w, NEW fault, Sound(w)
  PROVE  Sound(FitsSystem(w, fault).w) /\ Frugal(w, FitsSystem(w, fault).w, 0)
<1> DEFINE u == Close(w, {System})
           v == Without(u, {SysTmp})
<1>1. CASE ~SystemFull(w)
  <2>1. FitsSystem(w, fault).w = w
    BY <1>1 DEF FitsSystem, Ok
  <2> QED  BY <2>1, FrugalRefl
<1>2. Sound(u) /\ Frugal(w, u, 0)
  BY CloseFrugal
<1>3. CASE SystemFull(w) /\ fault = "open"
  <2>1. FitsSystem(w, fault).w = u
    BY <1>3 DEF FitsSystem, Compact, Failed
  <2> QED  BY <1>2, <2>1
<1>4. CASE SystemFull(w) /\ fault # "open"
  <2>1. FitsSystem(w, fault) = Copied(v, fault)
    BY <1>4 DEF FitsSystem, Compact
  <2>2. IsVol(w) /\ IsRec(w)
    BY SoundNumbers
  <2>3. Bytes(w, SysLog) \in Nat /\ Bytes(w, SysLog) + 1 > SysLimit
    BY <1>4, <2>2, BytesNat, SystemNames DEF SystemFull
  <2>4. SysLog \in DOMAIN w.disk
    <3>1. Bytes(w, SysLog) # 0
      BY <2>3, Positives
    <3>2. w.slot[System].file = SysLog => SysLog \in DOMAIN w.disk
      BY DEF Sound, Tidy
    <3> QED  BY <3>1, <3>2, SystemNames DEF Bytes, Durable, Unsynced
  <2>5. u.disk = [ n \in DOMAIN w.disk |->
                     IF n.stream \in {System} THEN Bytes(w, n) ELSE w.disk[n] ]
        /\ u.slot[System] = Closed
    <3> DEFINE x == Sync(w, {System})
    <3>1. IsRec(x) /\ x.disk = [ n \in DOMAIN w.disk |->
                     IF n.stream \in {System} THEN Bytes(w, n) ELSE w.disk[n] ]
      BY <2>2 DEF Sync, IsRec, Fields
    <3>2. u = [x EXCEPT !.slot = [ s \in Slots |-> IF s \in {System} THEN Closed ELSE x.slot[s] ]]
      BY DEF Close
    <3> HIDE DEF x, u
    <3>3. u.disk = x.disk
      BY <3>1, <3>2 DEF IsRec, Fields
    <3> QED  BY <3>1, <3>3, CloseKeeps, SystemNames DEF u
  <2>6. SysLog \in DOMAIN u.disk /\ u.disk[SysLog] = Bytes(w, SysLog)
    BY <2>4, <2>5, SystemNames
  <2> HIDE DEF u
  <2>7. Sound(v) /\ Frugal(u, v, 0)
    BY <1>2, WithoutFrugal, SystemNames
  <2>8. v.disk = [ n \in DOMAIN u.disk \ {SysTmp} |-> u.disk[n] ] /\ v.slot = u.slot
    BY <1>2, SoundNumbers DEF Without, Restrict, IsRec, Fields
  <2> HIDE DEF v
  <2>9. SysLog \in DOMAIN v.disk /\ v.disk[SysLog] = Bytes(w, SysLog) /\ v.slot[System] = Closed
    BY <2>5, <2>6, <2>8, SystemNames
  <2>10. v.disk[SysLog] >= SysTrim
    BY <2>3, <2>9, Positives
  <2>11. Sound(Copied(v, fault).w) /\ Frugal(v, Copied(v, fault).w, 0)
    BY <2>7, <2>9, <2>10, CopiedFrugal
  <2>12. Frugal(w, v, 0)
    BY <1>2, <2>7, FrugalTrans
  <2>13. Frugal(w, Copied(v, fault).w, 0)
    BY <2>7, <2>11, <2>12, FrugalTrans
  <2> QED  BY <2>1, <2>11, <2>13
<1> QED  BY <1>1, <1>3, <1>4

-----------------------------------------------------------------------------
(* What has to be left over at every moment.  During a session b is 1:     *)
(* the two lines that end it do not ask for space.                         *)

(* The figure of the last refresh was not too high by more than the lines  *)
(* written since.                                                          *)
Current(w, b) ==
  w.free + ImageSeen + 2 * b <= w.room + image.bytes + 3 * w.age + 2

(* The reserve, and a copy of the system log that a power cut may leave.   *)
Afloat(w, b) ==
  /\ ImageReserve + SysTrim + 2 * b <= Spare(w) + image.bytes
  /\ Durable(w, SysTmp) <= SysTrim

Cautious(w, b) == Current(w, b) /\ Afloat(w, b)

(* There is space for a line of a session.                                 *)
Roomy(w) ==
  /\ w.free + ImageSeen + 2 <= w.room + image.bytes + 3 * w.age + 1
  /\ ImageReserve + SysTrim + 3 <= w.room + image.bytes
  /\ Durable(w, SysTmp) <= SysTrim

(* An image is at least as long as the file system says it is.             *)
ImageIs == image.bytes \in Nat /\ image.open \in BOOLEAN

LEMMA ImageNumbers ==
  ASSUME ImageIs
  PROVE  /\ image.bytes \in Nat /\ ImageSeen \in Nat /\ ImageSeen <= image.bytes
         /\ RequiredFree \in Nat
         /\ RequiredFree + ImageSeen >= Headroom + ImageReserve
<1>1. image.bytes \in Nat /\ ImageSeen \in Nat /\ ImageSeen <= image.bytes
  BY DEF ImageIs, ImageSeen
<1>2. /\ Positive(ImageReserve, ImageSeen) \in Nat
      /\ Positive(ImageReserve, ImageSeen) + ImageSeen >= ImageReserve
  BY <1>1, Positives DEF Positive
<1> QED  BY <1>1, <1>2, Positives DEF RequiredFree

(* What is spent of the margin comes off it.                               *)
LEMMA CautiousAfter ==
  ASSUME NEW w, NEW v, Sound(w), Sound(v), ImageIs, NEW k \in Nat, NEW b \in {0, 1},
         NEW c \in {0, 1}, Frugal(w, v, k), Cautious(w, b), k + 2 * c <= 2 * b
  PROVE  Cautious(v, c)
<1>1. /\ w.room \in Nat /\ v.room \in Nat /\ Spare(w) \in Nat /\ Spare(v) \in Nat
      /\ Durable(w, SysTmp) \in Nat /\ Durable(v, SysTmp) \in Nat
      /\ w.free \in Nat /\ w.age \in Nat
  BY SoundNumbers
<1>2. image.bytes \in Nat /\ ImageSeen \in Nat
  BY ImageNumbers
<1>3. Current(v, c)
  BY <1>1, <1>2 DEF Cautious, Current, Frugal, Thrifty
<1>4. Afloat(v, c)
  BY <1>1, <1>2, Positives DEF Cautious, Afloat, Frugal, Thrifty
<1> QED  BY <1>3, <1>4 DEF Cautious

LEMMA AfloatAfter ==
  ASSUME NEW w, NEW v, Sound(w), Sound(v), ImageIs, NEW b \in {0, 1},
         NEW c \in {0, 1}, Thrifty(w, v, 0), Afloat(w, b), c <= b
  PROVE  Afloat(v, c)
<1>1. /\ Spare(w) \in Nat /\ Spare(v) \in Nat
      /\ Durable(w, SysTmp) \in Nat /\ Durable(v, SysTmp) \in Nat
  BY SoundNumbers
<1>2. image.bytes \in Nat
  BY ImageNumbers
<1> QED  BY <1>1, <1>2, Positives DEF Afloat, Thrifty

(* After the check there is space for one line more.                       *)
LEMMA RoomyAfter ==
  ASSUME NEW w, NEW v, Sound(w), Sound(v), ImageIs, Roomy(w)
  PROVE  /\ Frugal(w, v, 0) => Roomy(v)
         /\ Frugal(w, v, 1) => Cautious(v, 1)
<1>1. /\ w.room \in Nat /\ v.room \in Nat /\ Spare(w) \in Nat /\ Spare(v) \in Nat
      /\ Durable(w, SysTmp) \in Nat /\ Durable(v, SysTmp) \in Nat
      /\ w.free \in Nat /\ w.age \in Nat
  BY SoundNumbers
<1>2. image.bytes \in Nat /\ ImageSeen \in Nat
  BY ImageNumbers
<1>3. Frugal(w, v, 0) => Roomy(v)
  BY <1>1, <1>2, Positives DEF Roomy, Frugal, Thrifty
<1>4. ASSUME Frugal(w, v, 1) PROVE Cautious(v, 1)
  <2>1. Current(v, 1)
    BY <1>1, <1>2, <1>4 DEF Roomy, Current, Frugal, Thrifty
  <2>2. Afloat(v, 1)
    BY <1>1, <1>2, <1>4, Positives DEF Roomy, Afloat, Frugal, Thrifty, Spare
  <2> QED  BY <2>1, <2>2 DEF Cautious
<1> QED  BY <1>3, <1>4

(* What the figures are after a refresh, and when time goes by.            *)
LEMMA UsageValues ==
  ASSUME NEW w, Sound(w)
  PROVE  /\ Reread(w).free = w.room /\ Reread(w).age = 0
         /\ Refresh(w).free \in {w.room, 0} /\ Refresh(w).age = w.age
         /\ w.age = 0 => Refresh(w).free = w.room
         /\ Expired(w).free = 0 /\ Expired(w).age = LinesPerSecond
         /\ \/ Aged(w).free = 0 /\ Aged(w).age = LinesPerSecond
            \/ Aged(w).free = w.free /\ Aged(w).age = w.age + 1
         /\ \A v \in {Refresh(w), Reread(w), Expired(w), Aged(w)} :
              Sound(v) /\ Thrifty(w, v, 0) /\ v.room = w.room
<1>1. IsRec(w) /\ w.room \in Nat /\ w.age \in Nat /\ Durable(w, SysTmp) \in Nat
  BY SoundNumbers
<1>2. /\ Refresh(w).free = (IF w.age < LinesPerSecond THEN w.room ELSE 0)
      /\ Refresh(w).age = w.age
  BY <1>1 DEF Refresh, IsRec, Fields
<1>3. Expired(w).free = 0 /\ Expired(w).age = LinesPerSecond
  BY <1>1 DEF Expired, IsRec, Fields
<1>4. Reread(w).free = w.room /\ Reread(w).age = 0
  <2> DEFINE u == [w EXCEPT !.age = 0]
  <2>1. IsRec(u) /\ u.age = 0 /\ u.room = w.room
    BY <1>1 DEF IsRec, Fields
  <2>2. Reread(w) = Refresh(u)
    BY DEF Reread
  <2> HIDE DEF u
  <2>3. Refresh(u).free = (IF u.age < LinesPerSecond THEN u.room ELSE 0)
        /\ Refresh(u).age = u.age
    BY <2>1 DEF Refresh, IsRec, Fields
  <2> QED  BY <2>1, <2>2, <2>3, Positives
<1>5. \/ Aged(w).free = 0 /\ Aged(w).age = LinesPerSecond
      \/ Aged(w).free = w.free /\ Aged(w).age = w.age + 1
  <2>1. CASE w.age + 1 < LinesPerSecond
    <3>1. Aged(w) = [w EXCEPT !.age = @ + 1]
      BY <2>1 DEF Aged
    <3> QED  BY <1>1, <3>1 DEF IsRec, Fields
  <2>2. CASE ~(w.age + 1 < LinesPerSecond)
    BY <1>3, <2>2 DEF Aged
  <2> QED  BY <2>1, <2>2
<1>6. ASSUME NEW v \in {Refresh(w), Reread(w), Expired(w), Aged(w)}
      PROVE  Sound(v) /\ Thrifty(w, v, 0) /\ v.room = w.room
  <2>1. v.disk = w.disk /\ v.room = w.room
    BY <1>1, UsageIs
  <2>2. Durable(v, SysTmp) = Durable(w, SysTmp)
    BY <2>1 DEF Durable
  <2>3. Sound(v)
    BY UsageKeeps DEF Keeps
  <2> QED  BY <1>1, <2>1, <2>2, <2>3 DEF Thrifty, Spare
<1>7. w.age = 0 => Refresh(w).free = w.room
  BY <1>2, Positives
<1>8. Refresh(w).free \in {w.room, 0}
  BY <1>2
<1> QED  BY <1>2, <1>3, <1>4, <1>5, <1>6, <1>7, <1>8

(* A figure that was read just now, or that will be read before it is used *)
(* again, is not too high.                                                 *)
LEMMA RefreshedCautious ==
  ASSUME NEW w, Sound(w), ImageIs, NEW b \in {0, 1}, Afloat(w, b),
         NEW v \in {Refresh(w), Expired(w)}
  PROVE  Cautious(v, b)
<1>1. w.room \in Nat /\ w.age \in Nat
  BY SoundNumbers
<1>2. image.bytes \in Nat /\ ImageSeen \in Nat /\ ImageSeen <= image.bytes
  BY ImageNumbers
<1>3. Sound(v) /\ Thrifty(w, v, 0) /\ v.room = w.room
  BY UsageValues
<1>4. v.free \in {w.room, 0} /\ v.age \in Nat
  BY <1>1, UsageValues, Positives
<1>5. Current(v, b)
  BY <1>1, <1>2, <1>3, <1>4 DEF Current
<1>6. Afloat(v, b)
  BY <1>3, AfloatAfter
<1> QED  BY <1>5, <1>6 DEF Cautious

(* What is free is known exactly.                                          *)
Fresh(w) == w.free = w.room /\ w.age = 0

LEMMA EvictOneThrifty ==
  ASSUME NEW r, NEW current, Sound(r.w), r.ok \in BOOLEAN
  PROVE  LET x == EvictOne(r, current)
         IN /\ Sound(x.w) /\ Thrifty(r.w, x.w, 0) /\ x.ok \in BOOLEAN
            /\ Fresh(r.w) => Fresh(x.w)
            /\ Enough(r.w) => x = r
<1>1. CASE ~r.ok \/ Enough(r.w) \/ Completed(r.w, current) = {}
  <2>1. EvictOne(r, current) = r
    BY <1>1 DEF EvictOne
  <2> QED  BY <2>1, FrugalRefl
<1>2. CASE ~(~r.ok \/ Enough(r.w) \/ Completed(r.w, current) = {})
  <2> DEFINE S == SessionFiles(Min(Completed(r.w, current)))
             u == Without(r.w, S)
             v == Refresh(u)
  <2>1. SysLog \notin S
    BY SystemNames DEF SessionFiles
  <2>2. EvictOne(r, current) = [w |-> v, ok |-> v.free > r.w.free]
    BY <1>2 DEF EvictOne, Smaller, Grown
  <2> HIDE DEF S
  <2>3. Sound(u) /\ Frugal(r.w, u, 0)
    BY <2>1, WithoutFrugal
  <2> HIDE DEF u
  <2>4. /\ Sound(v) /\ Thrifty(u, v, 0) /\ v.room = u.room /\ v.age = u.age
        /\ u.age = 0 => v.free = u.room
    BY <2>3, UsageValues
  <2> HIDE DEF v
  <2>5. Thrifty(r.w, v, 0)
    BY <2>3, <2>4, ThriftyTrans DEF Frugal
  <2>6. Fresh(r.w) => Fresh(v)
    BY <2>3, <2>4 DEF Fresh, Frugal
  <2> QED  BY <1>2, <2>2, <2>4, <2>5, <2>6
<1> QED  BY <1>1, <1>2

(* Eviction only gives space back, and measures it each time.              *)
LEMMA EvictThrifty ==
  ASSUME NEW w, NEW current, Sound(w)
  PROVE  LET r == Evict(w, current)
         IN /\ Sound(r.w) /\ Thrifty(w, r.w, 0)
            /\ Fresh(w) => Fresh(r.w)
            /\ Enough(w) => r.w = w
            /\ r.ok => Enough(r.w)
            /\ r.ok \in BOOLEAN /\ DOMAIN r = {"w", "ok"}
<1>1. PICK f : /\ f[0] = Ok(w)
               /\ \A k \in Nat : k + 1 <= MaxId => f[k + 1] = EvictOne(f[k], current)
               /\ Evict(w, current) = [f[MaxId] EXCEPT !.ok = @ /\ Enough(f[MaxId].w)]
  BY EvictRuns
<1> DEFINE Good(r) == /\ Sound(r.w) /\ Thrifty(w, r.w, 0) /\ r.ok \in BOOLEAN
                      /\ Fresh(w) => Fresh(r.w)
                      /\ Enough(w) => r.w = w
                      /\ DOMAIN r = {"w", "ok"}
           T == { k \in Nat : k <= MaxId => Good(f[k]) }
<1>2. 0 \in T
  <2>1. f[0] = [w |-> w, ok |-> TRUE]
    BY <1>1 DEF Ok
  <2>2. f[0].w = w /\ f[0].ok = TRUE /\ DOMAIN f[0] = {"w", "ok"}
    BY <2>1
  <2>3. Thrifty(w, w, 0)
    BY FrugalRefl
  <2>4. Good(f[0])
    BY <2>2, <2>3
  <2> HIDE DEF Good
  <2> QED  BY <2>4
<1>3. ASSUME NEW k \in T \cap Nat PROVE k + 1 \in T
  <2> SUFFICES ASSUME k + 1 <= MaxId PROVE Good(f[k + 1])
    OBVIOUS
  <2>1. k <= MaxId
    BY Positives
  <2>2. Good(f[k])
    BY <2>1
  <2>3. f[k + 1] = EvictOne(f[k], current)
    BY <1>1
  <2>4. PICK r, x : r = f[k] /\ x = f[k + 1]
    OBVIOUS
  <2>5. Good(r) /\ x = EvictOne(r, current)
    BY <2>2, <2>3, <2>4
  <2>6. /\ Sound(x.w) /\ Thrifty(r.w, x.w, 0) /\ x.ok \in BOOLEAN
        /\ Fresh(r.w) => Fresh(x.w)
        /\ Enough(r.w) => x = r
    BY <2>5, EvictOneThrifty
  <2>7. Thrifty(w, x.w, 0)
    BY <2>5, <2>6, ThriftyTrans
  <2>8. DOMAIN x = {"w", "ok"}
    BY <2>5 DEF EvictOne, Grown
  <2>9. Enough(w) => x.w = w
    BY <2>5, <2>6
  <2> QED  BY <2>4, <2>5, <2>6, <2>7, <2>8, <2>9
<1> HIDE DEF T
<1>4. Nat \subseteq T
  BY <1>2, <1>3, SetInduction
<1>5. Good(f[MaxId])
  BY <1>4, Positives DEF T
<1>6. Enough(f[MaxId].w) \in BOOLEAN
  BY DEF Enough
<1> QED  BY <1>1, <1>5, <1>6

(* A line is let through only when there is space for it, and the volume   *)
(* is never worse off for having asked.                                    *)
LEMMA PrepareThrifty ==
  ASSUME NEW w, NEW current, Sound(w), ImageIs, NEW b \in {0, 1}, Cautious(w, b)
  PROVE  LET r == PrepareSpace(w, current)
         IN /\ Sound(r.w) /\ Thrifty(w, r.w, 0) /\ r.ok \in BOOLEAN
            /\ Cautious(r.w, b)
            /\ r.ok => Roomy(r.w)
<1> DEFINE due == w.age = LinesPerSecond \/ w.free < RequiredFree + 1 + Block
           u == IF due THEN Reread(w) ELSE w
           r == Evict(u, current)
           v == Aged(r.w)
<1>1. Sound(u) /\ Thrifty(w, u, 0) /\ (due => Fresh(u)) /\ (~due => u = w)
  BY UsageValues, FrugalRefl DEF Fresh
<1>2. PrepareSpace(w, current) = [r EXCEPT !.w = v]
  BY DEF PrepareSpace
<1> HIDE DEF u
<1>3. /\ Sound(r.w) /\ Thrifty(u, r.w, 0) /\ r.ok \in BOOLEAN /\ DOMAIN r = {"w", "ok"}
      /\ Fresh(u) => Fresh(r.w)
      /\ Enough(u) => r.w = u
      /\ r.ok => Enough(r.w)
  BY <1>1, EvictThrifty
<1> HIDE DEF r
<1>4. /\ Sound(v) /\ Thrifty(r.w, v, 0) /\ v.room = r.w.room
      /\ \/ v.free = 0 /\ v.age = LinesPerSecond
         \/ v.free = r.w.free /\ v.age = r.w.age + 1
  BY <1>3, UsageValues
<1> HIDE DEF v
<1>5. Thrifty(w, r.w, 0)
  BY <1>1, <1>3, ThriftyTrans
<1>6. Thrifty(w, v, 0)
  BY <1>3, <1>4, <1>5, ThriftyTrans
<1>7. Afloat(v, b) /\ Durable(v, SysTmp) <= SysTrim
  BY <1>4, <1>6, AfloatAfter DEF Cautious, Afloat
<1>8. /\ w.room \in Nat /\ v.room \in Nat /\ r.w.room \in Nat /\ w.free \in Nat /\ w.age \in Nat
      /\ r.w.free \in Nat /\ r.w.age \in Nat /\ w.age <= LinesPerSecond
  BY <1>3, <1>4, SoundNumbers
<1>9. /\ image.bytes \in Nat /\ ImageSeen \in Nat /\ ImageSeen <= image.bytes
      /\ RequiredFree \in Nat /\ RequiredFree + ImageSeen >= Headroom + ImageReserve
  BY ImageNumbers
<1>10. Headroom >= SysTrim + 2 /\ Headroom + Block > SysTrim + 3 * LinesPerSecond
       /\ LinesPerSecond \in Nat /\ LinesPerSecond >= 1
       /\ Headroom \in Nat /\ SysTrim \in Nat /\ ImageReserve \in Nat /\ Block \in Nat
  BY LogAssumption, Positives
<1>11. r.ok => r.w.free >= RequiredFree + 1
  BY <1>3 DEF Enough
<1>12. CASE due
  <2>1. r.w.free = r.w.room /\ r.w.age = 0
    BY <1>1, <1>3, <1>12 DEF Fresh
  <2>2. v.free + ImageSeen + 2 <= v.room + image.bytes + 3 * v.age + 1
    BY <1>4, <1>8, <1>9, <1>10, <2>1
  <2>3. Current(v, b)
    BY <1>4, <1>8, <1>9, <1>10, <2>1 DEF Current
  <2>4. r.ok => ImageReserve + SysTrim + 3 <= v.room + image.bytes
    BY <1>4, <1>8, <1>9, <1>10, <1>11, <2>1
  <2>5. Cautious(v, b) /\ (r.ok => Roomy(v))
    BY <1>7, <2>2, <2>3, <2>4 DEF Cautious, Roomy
  <2> QED  BY <1>2, <1>3, <1>4, <1>6, <2>5
<1>13. CASE ~due
  <2>1. u = w /\ w.age < LinesPerSecond /\ w.free >= RequiredFree + 1 + Block
    BY <1>1, <1>8, <1>9, <1>10, <1>13
  <2>2. Enough(u)
    BY <1>8, <1>9, <1>10, <2>1 DEF Enough
  <2>3. r.w = w
    BY <1>3, <2>1, <2>2
  <2>4. w.free + ImageSeen + 2 * b <= w.room + image.bytes + 3 * w.age + 2
    BY DEF Cautious, Current
  <2>5. v.free + ImageSeen + 2 <= v.room + image.bytes + 3 * v.age + 1
    BY <1>4, <1>8, <1>9, <1>10, <2>3, <2>4
  <2>6. Current(v, b)
    BY <1>4, <1>8, <1>9, <1>10, <2>3, <2>4 DEF Current
  <2>7. ImageReserve + SysTrim + 3 <= v.room + image.bytes
    BY <1>4, <1>8, <1>9, <1>10, <2>1, <2>3, <2>4
  <2>8. Cautious(v, b) /\ Roomy(v)
    BY <1>7, <2>5, <2>6, <2>7 DEF Cautious, Roomy
  <2> QED  BY <1>2, <1>3, <1>4, <1>6, <2>8
<1> QED  BY <1>12, <1>13

(* A line that was written leaves what the end of a session may need; one  *)
(* that was not leaves what there was.                                     *)
LEMMA AppendThrifty ==
  ASSUME NEW w, Sound(w), NEW s \in Slots, NEW n \in Handles(s),
         NEW current, NEW fault, NEW idle, ImageIs, NEW b \in {0, 1}, Cautious(w, b)
  PROVE  LET r == Append(w, n, current, fault, idle)
         IN /\ Sound(r.w) /\ Thrifty(w, r.w, 1)
            /\ r.ok => Cautious(r.w, 1)
            /\ Cautious(r.w, b)
<1> DEFINE r1 == IF n = SysLog THEN FitsSystem(w, fault) ELSE Ok(w)
           r2 == Spaced(r1, current)
           r3 == Opened(r2, n, fault)
           r4 == Written(r3, s, fault, idle)
<1>1. Append(w, n, current, fault, idle) = r4
  BY HandleFacts DEF Append, Readied
<1>2. Sound(r1.w) /\ Frugal(w, r1.w, 0) /\ r1.ok \in BOOLEAN
  BY FitsFrugal, FitsKeeps, FrugalRefl DEF Ok
<1> HIDE DEF r1
<1>3. Cautious(r1.w, b)
  BY <1>2, CautiousAfter
<1>4. /\ Sound(r2.w) /\ Thrifty(r1.w, r2.w, 0) /\ r2.ok \in BOOLEAN /\ Cautious(r2.w, b)
      /\ r2.ok => Roomy(r2.w)
  <2>1. CASE r1.ok
    BY <1>2, <1>3, <2>1, PrepareThrifty DEF Spaced
  <2>2. CASE ~r1.ok
    BY <1>2, <1>3, <2>2, FrugalRefl DEF Spaced
  <2> QED  BY <1>2, <2>1, <2>2
<1> HIDE DEF r2
<1>5. /\ Sound(r3.w) /\ Frugal(r2.w, r3.w, 0) /\ r3.ok \in BOOLEAN /\ Cautious(r3.w, b)
      /\ r3.ok => Roomy(r3.w)
  <2>1. CASE r2.ok
    <3>1. r3 = Open(r2.w, n, fault)
      BY <2>1 DEF Opened
    <3>2. Sound(r3.w) /\ Frugal(r2.w, r3.w, 0) /\ r3.ok \in BOOLEAN
      BY <1>4, <3>1, OpenFrugal, OpenKeeps
    <3> HIDE DEF r3
    <3>3. Cautious(r3.w, b)
      BY <1>4, <3>2, CautiousAfter
    <3>4. Roomy(r3.w)
      BY <1>4, <2>1, <3>2, RoomyAfter
    <3> QED  BY <3>2, <3>3, <3>4
  <2>2. CASE ~r2.ok
    <3>1. r3 = r2
      BY <2>2 DEF Opened
    <3> QED  BY <1>4, <2>2, <3>1, FrugalRefl
  <2> QED  BY <1>4, <2>1, <2>2
<1> HIDE DEF r3
<1>6. Thrifty(w, r2.w, 0)
  BY <1>2, <1>4, ThriftyTrans DEF Frugal
<1>7. Thrifty(w, r3.w, 0)
  BY <1>4, <1>5, <1>6, ThriftyTrans DEF Frugal
<1>8. CASE ~r3.ok
  <2>1. r4 = r3
    BY <1>8 DEF Written
  <2>2. Thrifty(r3.w, r3.w, 1)
    BY <1>5, FrugalRefl
  <2>3. Thrifty(w, r3.w, 1)
    BY <1>5, <1>7, <2>2, ThriftyTrans
  <2> QED  BY <1>1, <1>5, <1>8, <2>1, <2>3
<1>9. CASE r3.ok
  <2> DEFINE x == Write(r3.w, s, fault)
             y == Sync(x.w, idle)
  <2>1. /\ Sound(x.w) /\ Frugal(r3.w, x.w, 1) /\ x.ok \in BOOLEAN
        /\ ~x.ok => x.w = r3.w
    BY <1>5, WriteFrugal, WriteKeeps
  <2>2. DOMAIN x = {"w", "ok"}
    BY DEF Write, Ok, Failed
  <2>3. r4 = [x EXCEPT !.w = y]
    BY <1>9 DEF Written, IdleToo
  <2> HIDE DEF x
  <2>4. Sound(y) /\ Frugal(x.w, y, 0)
    BY <2>1, SyncFrugal
  <2> HIDE DEF y
  <2>5. r4.w = y /\ r4.ok = x.ok
    BY <2>2, <2>3
  <2>6. Frugal(r3.w, y, 1)
    BY <1>5, <2>1, <2>4, FrugalTrans
  <2>7. Thrifty(w, y, 1)
    BY <1>5, <1>7, <2>4, <2>6, ThriftyTrans DEF Frugal
  <2>8. Cautious(y, 1)
    BY <1>5, <1>9, <2>4, <2>6, RoomyAfter
  <2>9. Cautious(y, b)
    <3>1. Frugal(y, y, 0)
      BY <2>4, FrugalRefl
    <3> QED  BY <2>4, <2>8, <3>1, CautiousAfter
  <2> QED  BY <1>1, <2>4, <2>5, <2>7, <2>8, <2>9
<1> QED  BY <1>5, <1>8, <1>9

LEMMA AppendsThrifty ==
  ASSUME NEW w, Sound(w), NEW s \in Slots, NEW n \in Handles(s), NEW current,
         NEW r \in Appends(w, n, current), ImageIs, NEW b \in {0, 1}, Cautious(w, b)
  PROVE  /\ Sound(r.w) /\ Thrifty(w, r.w, 1) /\ (r.ok => Cautious(r.w, 1))
         /\ Cautious(r.w, b) /\ r.ok \in BOOLEAN
<1>1. PICK fault, idle : r = Append(w, n, current, fault, idle)
  BY AppendsAre
<1>2. r.ok \in BOOLEAN
  BY AppendsWithin DEF Sound
<1> QED  BY <1>1, <1>2, AppendThrifty

LEMMA SystemThrifty ==
  ASSUME NEW w, Sound(w), NEW current, NEW r \in Appends(w, SysLog, current),
         ImageIs, NEW b \in {0, 1}, Cautious(w, b)
  PROVE  Sound(r.w) /\ Thrifty(w, r.w, 1) /\ Cautious(r.w, b)
<1>1. SysLog \in Handles(System) /\ System \in Slots
  BY SystemNames DEF Handles
<1> QED  BY <1>1, AppendsThrifty

(* The last lines of a session take one each.                              *)
LEMMA AppendFinalsFrugal ==
  ASSUME NEW w, Sound(w), NEW s \in Slots, NEW n \in Handles(s),
         NEW v \in AppendFinals(w, n)
  PROVE  Sound(v) /\ Frugal(w, v, 1)
<1>1. n.stream = s
  BY HandleFacts
<1>2. PICK fault : v = Ended(Open(w, n, fault), s, fault)
  BY <1>1 DEF AppendFinals
<1> DEFINE r == Open(w, n, fault)
           x == Write(r.w, s, fault).w
<1>3. Sound(r.w) /\ Frugal(w, r.w, 0)
  BY OpenFrugal
<1>4. v = IF r.ok THEN Sync(x, {s}) ELSE r.w
  BY <1>2 DEF Ended, r
<1> HIDE DEF r
<1>5. Sound(x) /\ Frugal(r.w, x, 1)
  BY <1>3, WriteFrugal
<1> HIDE DEF x
<1>6. Sound(Sync(x, {s})) /\ Frugal(x, Sync(x, {s}), 0)
  BY <1>5, SyncFrugal
<1>7. Frugal(w, x, 1)
  BY <1>3, <1>5, FrugalTrans
<1>8. Frugal(w, Sync(x, {s}), 1)
  BY <1>5, <1>6, <1>7, FrugalTrans
<1>9. Frugal(w, r.w, 1)
  <2>1. Frugal(r.w, r.w, 1)
    BY <1>3, FrugalRefl
  <2> QED  BY <1>3, <2>1, FrugalTrans
<1> QED  BY <1>3, <1>4, <1>6, <1>8, <1>9

-----------------------------------------------------------------------------
(* The reserve.                                                            *)

(* Whether the lines that end a session are still to come.                 *)
Unfinished == IF active THEN 1 ELSE 0
ReserveInv == Cautious(vol, Unfinished)

(* The files change, and the image does not.                               *)
LEMMA SameImage ==
  ASSUME image' = image, Cautious(vol', Unfinished')
  PROVE  ReserveInv'
  BY DEF ReserveInv, Cautious, Current, Afloat, Spare, Durable, ImageSeen

LEMMA AccountImage ==
  ASSUME AccountInv
  PROVE  /\ Sound(vol) /\ ImageIs /\ Unfinished \in {0, 1}
         /\ active => Unfinished = 1
         /\ active \in BOOLEAN /\ ~active => Unfinished = 0
  BY DEF AccountInv, ImageIs, Unfinished

(* With less to come, what was enough still is.                            *)
LEMMA FewerLines ==
  ASSUME NEW w, Sound(w), ImageIs, NEW b \in {0, 1}, NEW c \in {0, 1},
         Cautious(w, b), c <= b
  PROVE  Cautious(w, c)
<1>1. Frugal(w, w, 0)
  BY FrugalRefl
<1> QED  BY <1>1, CautiousAfter

(* A session that starts has space for its first lines and for those that  *)
(* end it.                                                                 *)
LEMMA StartReserve ==
  ASSUME SessionTypes, AccountInv, ReserveInv, ~active, StartSession
  PROVE  Cautious(vol', Unfinished')
<1> DEFINE n == Tmp(Trip, next)
<1>1. next \in Ids
  BY Positives DEF StartSession, SessionTypes, Ids
<1>2. Trip \in Slots /\ n \in Handles(Trip)
  BY <1>1, PairNames DEF Slots, SessionStreams
<1>3. Sound(vol) /\ ImageIs /\ Cautious(vol, 0)
  BY AccountImage DEF ReserveInv, Unfinished
<1>4. PICK r \in Appends(vol, n, next) :
        /\ active' = r.ok
        /\ vol' \in IF r.ok THEN { x.w : x \in Appends(r.w, SysLog, next) } ELSE {r.w}
  BY DEF StartSession
<1> HIDE DEF n
<1>5. Sound(r.w) /\ Cautious(r.w, 0) /\ (r.ok => Cautious(r.w, 1)) /\ r.ok \in BOOLEAN
  BY <1>2, <1>3, AppendsThrifty
<1>6. CASE r.ok
  <2>1. PICK x \in Appends(r.w, SysLog, next) : vol' = x.w
    BY <1>4, <1>6
  <2>2. Cautious(x.w, 1)
    BY <1>3, <1>5, <1>6, <2>1, SystemThrifty
  <2> QED  BY <1>4, <1>6, <2>1, <2>2 DEF Unfinished
<1>7. CASE ~r.ok
  BY <1>4, <1>5, <1>7 DEF Unfinished
<1> QED  BY <1>5, <1>6, <1>7

(* The two lines that end a session were kept free for it.                 *)
LEMMA FinishReserve ==
  ASSUME SessionTypes, active, ImageIs, NEW w, Sound(w), Cautious(w, 1), FinishSession(w)
  PROVE  Cautious(vol', Unfinished')
<1> DEFINE n == Tmp(Trip, sid)
<1>1. sid \in Ids /\ {sid} \subseteq Ids
  BY Positives DEF SessionTypes, Ids
<1>2. Trip \in Slots /\ n \in Handles(Trip) /\ SessionStreams \subseteq Slots
  BY <1>1, PairNames DEF Slots, SessionStreams
<1>3. PICK u \in AppendFinals(w, n) :
        \E stuck : vol' \in AppendFinals(Renamed(Close(u, SessionStreams), {sid}, 1, stuck),
                                        SysLog)
  BY DEF FinishSession, Finished, Renamings
<1>20. PICK stuck :
         vol' \in AppendFinals(Renamed(Close(u, SessionStreams), {sid}, 1, stuck), SysLog)
  BY <1>3
<1> HIDE DEF n
<1>4. Sound(u) /\ Frugal(w, u, 1)
  BY <1>2, AppendFinalsFrugal
<1> DEFINE x == Close(u, SessionStreams)
           y == Renamed(x, {sid}, 1, stuck)
<1>5. Sound(x) /\ Frugal(u, x, 0) /\ \A s \in SessionStreams : x.slot[s] = Closed
  BY <1>2, <1>4, CloseFrugal, CloseKeeps
<1> HIDE DEF x
<1>6. Sound(y) /\ Frugal(x, y, 0)
  BY <1>1, <1>5, RenamedFrugal
<1>7. SysLog \in Handles(System) /\ System \in Slots
  BY SystemNames DEF Handles
<1> HIDE DEF y
<1>8. Sound(vol') /\ Frugal(y, vol', 1)
  BY <1>20, <1>6, <1>7, AppendFinalsFrugal DEF x, y
<1>9. Frugal(w, x, 1)
  BY <1>4, <1>5, FrugalTrans
<1>10. Frugal(w, y, 1)
  BY <1>5, <1>6, <1>9, FrugalTrans
<1>11. Frugal(w, vol', 1 + 1)
  BY <1>6, <1>8, <1>10, FrugalTrans
<1>12. Cautious(vol', 0)
  BY <1>8, <1>11, CautiousAfter
<1>13. active' = FALSE
  BY DEF FinishSession
<1> QED  BY <1>12, <1>13 DEF Unfinished

(* A tick may log, end a session for lack of space and start another.      *)
LEMMA TickReserve ==
  ASSUME SessionTypes, AccountInv, ReserveInv, NEW idle, Tick(idle)
  PROVE  Cautious(vol', Unfinished')
<1> DEFINE w == IdleSynced(idle)
<1>1. Sound(w) /\ Frugal(vol, w, 0)
  BY SyncFrugal, AccountImage DEF IdleSynced
<1>2. ImageIs /\ Unfinished \in {0, 1} /\ (active => Unfinished = 1)
  BY AccountImage
<1> HIDE DEF w
<1>3. Cautious(w, Unfinished)
  BY <1>1, <1>2, AccountImage, CautiousAfter DEF ReserveInv
<1>4. CASE active /\ FinishSession(w)
  BY <1>1, <1>2, <1>3, <1>4, FinishReserve
<1>5. CASE TripSample(w)
  <2>1. active /\ sid \in Ids /\ Trip \in SessionStreams /\ Trip \in Slots
    BY <1>5, Positives DEF TripSample, SessionTypes, Ids, SessionStreams, Slots
  <2>2. Tmp(Trip, sid) \in Handles(Trip)
    BY <2>1, PairNames
  <2>3. PICK r \in Appends(w, Tmp(Trip, sid), sid) :
          \/ ~r.ok /\ FinishSession(r.w)
          \/ vol' = r.w /\ UNCHANGED session
    BY <1>5 DEF TripSample
  <2>4. Sound(r.w) /\ Cautious(r.w, 1)
    BY <1>1, <1>2, <1>3, <2>1, <2>2, AppendsThrifty
  <2>5. CASE FinishSession(r.w)
    BY <1>2, <2>1, <2>4, <2>5, FinishReserve
  <2>6. CASE vol' = r.w /\ UNCHANGED session
    BY <2>1, <2>4, <2>6 DEF session, Unfinished
  <2> QED  BY <2>3, <2>5, <2>6
<1>6. CASE Quiet(w)
  BY <1>3, <1>6 DEF Quiet, session, Unfinished
<1> QED  BY <1>4, <1>5, <1>6 DEF Tick, w

(* What a power cut leaves of the space.                                   *)
LEMMA CutAfloat ==
  ASSUME Sound(vol), ImageIs, NEW b \in {0, 1}, Afloat(vol, b), NEW w \in Cut
  PROVE  Sound(w) /\ Afloat(w, 0) /\ \A s \in Slots : w.slot[s] = Closed
<1> DEFINE plain == Dropped(vol, Slots)
           idle == Sync(vol, {System})
           synced == Dropped(idle, Slots)
           bare == Without(synced, {SysTmp})
<1>1. Sound(w) /\ \A s \in Slots : w.slot[s] = Closed
  BY CutKeeps DEF Keeps
<1>2. Sound(plain) /\ Afloat(plain, 0) /\ \A s \in Slots : plain.slot[s] = Closed
  <2>1. Sound(plain) /\ Frugal(vol, plain, 0) /\ \A s \in Slots : plain.slot[s] = Closed
    BY DroppedFrugal, DroppedKeeps
  <2> HIDE DEF plain
  <2> QED  BY <2>1, AfloatAfter DEF Frugal
<1>3. Sound(idle) /\ Afloat(idle, 0)
  <2>1. Sound(idle) /\ Frugal(vol, idle, 0)
    BY SyncFrugal
  <2> HIDE DEF idle
  <2> QED  BY <2>1, AfloatAfter DEF Frugal
<1> HIDE DEF idle
<1>4. Sound(synced) /\ Afloat(synced, 0) /\ \A s \in Slots : synced.slot[s] = Closed
  <2>1. Sound(synced) /\ Frugal(idle, synced, 0) /\ \A s \in Slots : synced.slot[s] = Closed
    BY <1>3, DroppedFrugal, DroppedKeeps
  <2> HIDE DEF synced
  <2> QED  BY <1>3, <2>1, AfloatAfter DEF Frugal
<1> HIDE DEF plain, synced
<1>5. ASSUME NEW x, Sound(x), Afloat(x, 0), \A s \in Slots : x.slot[s] = Closed, NEW S
      PROVE  /\ Sound(Without(x, S)) /\ Afloat(Without(x, S), 0)
             /\ \A s \in Slots : Without(x, S).slot[s] = Closed
             /\ DOMAIN Without(x, S).disk = DOMAIN x.disk \ S
  <2>1. x.slot[System].file # SysLog
    BY <1>5, SystemNames DEF Closed
  <2>2. /\ Sound(Without(x, S)) /\ Frugal(x, Without(x, S), 0)
        /\ Without(x, S).slot = x.slot /\ DOMAIN Without(x, S).disk = DOMAIN x.disk \ S
    BY <1>5, <2>1, WithoutFrugal, WithoutKeeps
  <2>3. Afloat(Without(x, S), 0)
    BY <1>5, <2>2, AfloatAfter DEF Frugal
  <2> QED  BY <1>5, <2>2, <2>3
<1>6. CASE w = plain
  BY <1>1, <1>2, <1>6
<1>7. CASE w \in { Without(plain, {Log(Trip, i)}) : i \in Completed(plain, sid) }
  <2>1. PICK i : w = Without(plain, {Log(Trip, i)})
    BY <1>7
  <2> QED  BY <1>1, <1>2, <1>5, <2>1
<1>8. CASE w \in HalfCompacted(bare)
  <2> DEFINE created == Created(bare, SysTmp)
             copied == [created EXCEPT !.disk[SysTmp] = SysTrim, !.room = @ - SysTrim]
  <2>1. /\ Sound(bare) /\ Afloat(bare, 0) /\ \A s \in Slots : bare.slot[s] = Closed
        /\ SysTmp \notin DOMAIN bare.disk
    BY <1>4, <1>5
  <2>2. w \in {copied, Without(copied, {SysLog})} /\ ~(bare.room < SysTrim)
    BY <1>8 DEF HalfCompacted
  <2> HIDE DEF bare
  <2>3. IsRec(bare) /\ IsVol(bare) /\ bare.room \in Nat
    BY <2>1, SoundNumbers
  <2>4. /\ IsRec(created) /\ created.room = bare.room /\ created.slot = bare.slot
        /\ SysTmp \in DOMAIN created.disk
    BY <2>3 DEF Created, IsRec, Fields
  <2> HIDE DEF created
  <2>5. PICK room, disk : /\ room = created.room - SysTrim
                          /\ disk = [created.disk EXCEPT ![SysTmp] = SysTrim]
    OBVIOUS
  <2>6. copied = [created EXCEPT !.disk = disk, !.room = room]
    BY <2>5
  <2> HIDE DEF copied
  <2>7. IsRec(copied) /\ copied.disk = disk /\ copied.room = room /\ copied.slot = created.slot
    BY <2>4, <2>6 DEF IsRec, Fields
  <2>8. Durable(copied, SysTmp) = SysTrim /\ Durable(bare, SysTmp) = 0
    BY <2>1, <2>4, <2>5, <2>7 DEF Durable
  <2>9. Spare(copied) = Spare(bare)
    BY <2>3, <2>4, <2>5, <2>7, <2>8, Positives DEF Spare
  <2>10. Afloat(copied, 0)
    BY <2>1, <2>8, <2>9, Positives DEF Afloat
  <2>11. CASE w = copied
    BY <1>1, <2>10, <2>11
  <2>12. CASE w = Without(copied, {SysLog})
    <3>1. IsRec(w) /\ w.disk = [ n \in DOMAIN copied.disk \ {SysLog} |-> copied.disk[n] ]
          /\ w.room = copied.room + Total(copied, {SysLog})
      BY <2>7, <2>12 DEF Without, Restrict, IsRec, Fields
    <3>2. Total(copied, {SysLog}) \in Nat
      <4>1. IsVol(created)
        <5>1. Sound(created)
          <6>1. SysTmp \in Names /\ bare.slot[SysTmp.stream].file # SysTmp
            BY <2>1, SystemNames DEF Closed
          <6> QED  BY <2>1, <6>1, CreatedFrugal DEF created
        <5> QED  BY <5>1, SoundNumbers
      <4>2. IsVol(copied)
        BY <2>5, <2>7, <4>1, Positives DEF IsVol
      <4> QED  BY <4>2, TotalIs
    <3>3. Durable(w, SysTmp) = SysTrim
      BY <2>8, <3>1, SystemNames DEF Durable
    <3>4. w.room \in Nat /\ copied.room \in Nat
      BY <1>1, <2>2, <2>3, <2>4, <2>5, <2>7, Positives, SoundNumbers
    <3>5. Spare(w) >= Spare(copied) /\ Spare(w) \in Nat /\ Spare(copied) \in Nat
      BY <2>8, <3>1, <3>2, <3>3, <3>4, Positives DEF Spare
    <3>6. Afloat(w, 0)
      BY <2>10, <3>3, <3>5, ImageNumbers, Positives DEF Afloat
    <3> QED  BY <1>1, <3>6
  <2> QED  BY <2>2, <2>11, <2>12
<1>9. w \in {plain} \/ w \in { Without(plain, {Log(Trip, i)}) : i \in Completed(plain, sid) }
      \/ w \in HalfCompacted(bare)
  BY DEF Cut, plain, synced, idle
<1> QED  BY <1>6, <1>7, <1>8, <1>9

(* After a power cut there may be a copy of the system log beside it, and  *)
(* the first refresh knows.                                                *)
LEMMA PowerReserve ==
  ASSUME SessionTypes, AccountInv, ReserveInv, PowerCut
  PROVE  ReserveInv'
<1>0. PICK w \in Cut : \E stuck \in Stuck(Unnamed(w, Ids, 1)) :
        \E booted \in {Expired(Created(Recovered(w, stuck), SysLog))} :
          vol' \in IF \E i \in Ids : Tmp(Trip, i) \in DOMAIN w.disk \ stuck
                   THEN { Append(booted, SysLog, 0, f, {}).w :
                            f \in SystemFaults(booted) }
                   ELSE {booted}
  BY DEF PowerCut
<1>1. PICK stuck \in Stuck(Unnamed(w, Ids, 1)) :
        \E booted \in {Expired(Created(Recovered(w, stuck), SysLog))} :
          vol' \in IF \E i \in Ids : Tmp(Trip, i) \in DOMAIN w.disk \ stuck
                   THEN { Append(booted, SysLog, 0, f, {}).w :
                            f \in SystemFaults(booted) }
                   ELSE {booted}
  BY <1>0
<1> DEFINE u == Renamed(w, Ids, 0, stuck)
           x == Created(u, SysLog)
           y == Expired(x)
<1>2. Sound(vol) /\ ImageIs /\ Unfinished \in {0, 1}
  BY AccountImage
<1>3. Sound(w) /\ Afloat(w, 0) /\ \A s \in Slots : w.slot[s] = Closed
  BY <1>2, CutAfloat DEF ReserveInv, Cautious
<1>4. /\ Sound(u) /\ Frugal(w, u, 0) /\ u.slot = w.slot
  BY <1>3, RenamedFrugal, RenamedKeeps DEF Slots
<1> HIDE DEF u
<1>5. Afloat(u, 0)
  BY <1>2, <1>3, <1>4, AfloatAfter DEF Frugal
<1>6. u.slot[SysLog.stream].file # SysLog /\ SysLog \in Names
  BY <1>3, <1>4, SystemNames DEF Closed
<1>7. Sound(x) /\ Frugal(u, x, 0)
  BY <1>4, <1>6, CreatedFrugal
<1> HIDE DEF x
<1>8. Afloat(x, 0)
  BY <1>2, <1>4, <1>5, <1>7, AfloatAfter DEF Frugal
<1>9. Sound(y) /\ Cautious(y, 0)
  BY <1>2, <1>7, <1>8, RefreshedCautious, UsageValues
<1>10. vol' = y \/ \E f : vol' = Append(y, SysLog, 0, f, {}).w
  BY <1>1 DEF y, x, u, Recovered
<1> HIDE DEF y
<1>11. ASSUME NEW f PROVE Cautious(Append(y, SysLog, 0, f, {}).w, 0)
  <2>1. SysLog \in Handles(System) /\ System \in Slots
    BY SystemNames DEF Handles
  <2> QED  BY <1>2, <1>9, <2>1, AppendThrifty
<1>12. Cautious(vol', 0)
  BY <1>9, <1>10, <1>11
<1>13. image' = image /\ active' = FALSE
  BY DEF PowerCut
<1> QED  BY <1>12, <1>13, SameImage DEF Unfinished

LEMMA ImageReserves ==
  ASSUME AccountInv, ReserveInv, ImageOpened \/ ImageGrows \/ ImageFinished \/ ImageRemoved
  PROVE  ReserveInv'
<1> DEFINE u == [vol EXCEPT !.room = @ + image.bytes]
           d == [vol EXCEPT !.room = @ - Chunk]
           b == Unfinished
<1>1. Sound(vol) /\ ImageIs /\ b \in {0, 1}
  BY AccountImage
<1>2. /\ IsRec(vol) /\ vol.room \in Nat /\ vol.free \in Nat /\ vol.age \in Nat
      /\ Durable(vol, SysTmp) \in Nat
  BY <1>1, SoundNumbers
<1>3. image.bytes \in Nat /\ ImageSeen \in Nat /\ image.open \in BOOLEAN
      /\ image \in [bytes: 0 .. MaxImage, open: BOOLEAN]
  BY <1>1, ImageNumbers DEF ImageIs, AccountInv
<1>4. /\ vol.free + ImageSeen + 2 * b <= vol.room + image.bytes + 3 * vol.age + 2
      /\ ImageReserve + SysTrim + 2 * b <= (vol.room + Durable(vol, SysTmp)) + image.bytes
      /\ Durable(vol, SysTmp) <= SysTrim
  BY DEF ReserveInv, Cautious, Current, Afloat, Spare
<1>5. ImageReserve \in Nat /\ SysTrim \in Nat /\ Chunk \in Nat /\ LinesPerSecond \in Nat
  BY Positives
<1>6. b' = b
  BY DEF ImageOpened, ImageGrows, ImageFinished, ImageRemoved, session, Unfinished
<1> HIDE DEF b
\* what is to be shown of a volume v and an image of k bytes that is seen as seen
<1> DEFINE Fine(v, k, seen) ==
             /\ v.free + seen + 2 * b <= v.room + k + 3 * v.age + 2
             /\ ImageReserve + SysTrim + 2 * b <= (v.room + Durable(v, SysTmp)) + k
             /\ Durable(v, SysTmp) <= SysTrim
<1>7. ASSUME Fine(vol', image'.bytes, ImageSeen') PROVE ReserveInv'
  BY <1>6, <1>7 DEF ReserveInv, Cautious, Current, Afloat, Spare, Durable, b
<1>8. /\ u.disk = vol.disk /\ u.room = vol.room + image.bytes /\ u.free = vol.free
      /\ u.age = vol.age /\ IsRec(u)
  BY <1>2 DEF IsRec, Fields
<1>9. /\ d.disk = vol.disk /\ d.room = vol.room - Chunk /\ d.free = vol.free
      /\ d.age = vol.age
  BY <1>2 DEF IsRec, Fields
<1> HIDE DEF u, d
<1>10. Durable(u, SysTmp) = Durable(vol, SysTmp) /\ Durable(d, SysTmp) = Durable(vol, SysTmp)
  BY <1>8, <1>9 DEF Durable
<1>11. CASE ImageOpened \/ (ImageRemoved /\ image.open)
  <2>1. vol' = u /\ image'.bytes = 0 /\ ImageSeen' = 0
    BY <1>11 DEF ImageOpened, ImageRemoved, ImageSeen, u
  <2>2. Fine(u, 0, 0)
    BY <1>1, <1>2, <1>3, <1>4, <1>5, <1>8, <1>10
  <2> HIDE DEF Fine
  <2> QED  BY <1>7, <2>1, <2>2
<1>12. CASE ImageGrows
  <2>1. vol' = d /\ vol.room >= Chunk /\ image.open
        /\ image'.bytes = image.bytes + Chunk /\ image'.open = image.open
    BY <1>3, <1>12 DEF ImageGrows, d
  <2>2. ImageSeen = 0 /\ ImageSeen' = 0
    BY <2>1 DEF ImageSeen
  <2>3. Fine(d, image.bytes + Chunk, 0)
    BY <1>1, <1>2, <1>3, <1>4, <1>5, <1>9, <1>10, <2>1, <2>2
  <2> HIDE DEF Fine
  <2> QED  BY <1>7, <2>1, <2>2, <2>3
<1>13. ASSUME NEW v, IsRec(v), v.disk = vol.disk, v.age = vol.age, v.room \in Nat,
              NEW k \in Nat, v.room + k = vol.room + image.bytes,
              vol' = Refresh(v), image'.bytes = k, ImageSeen' \in Nat, ImageSeen' <= k
       PROVE  ReserveInv'
  <2>1. /\ vol'.disk = v.disk /\ vol'.room = v.room /\ vol'.age = v.age
        /\ vol'.free = (IF v.age < LinesPerSecond THEN v.room ELSE 0)
    BY <1>13 DEF Refresh, IsRec, Fields
  <2>2. vol'.free \in {v.room, 0}
    BY <2>1
  <2>3. Durable(vol', SysTmp) = Durable(vol, SysTmp)
    BY <1>13, <2>1 DEF Durable
  <2>4. PICK p, t : p = vol' /\ t = ImageSeen'
    OBVIOUS
  <2>5. p.room = v.room /\ p.age = vol.age /\ p.free \in {v.room, 0} /\ t \in Nat /\ t <= k
        /\ Durable(p, SysTmp) = Durable(vol, SysTmp)
    BY <1>13, <2>1, <2>2, <2>3, <2>4
  <2>6. Fine(p, k, t)
    BY <1>1, <1>2, <1>3, <1>4, <1>5, <1>13, <2>5
  <2> HIDE DEF Fine
  <2> QED  BY <1>7, <1>13, <2>4, <2>6
<1>14. CASE ImageFinished
  <2>1. vol' = Refresh(vol) /\ image'.bytes = image.bytes /\ image'.open = FALSE
    BY <1>3, <1>14 DEF ImageFinished
  <2>2. ImageSeen' = image.bytes
    BY <2>1 DEF ImageSeen
  <2> QED  BY <1>2, <1>3, <1>13, <2>1, <2>2
<1>15. CASE ImageRemoved /\ ~image.open
  <2>1. vol' = Refresh(u) /\ image'.bytes = 0 /\ ImageSeen' = 0
    BY <1>15 DEF ImageRemoved, ImageSeen, u
  <2>2. u.room \in Nat /\ u.room + 0 = vol.room + image.bytes
    BY <1>2, <1>3, <1>8
  <2> QED  BY <1>8, <1>13, <2>1, <2>2
<1> QED  BY <1>3, <1>11, <1>12, <1>14, <1>15

(* A line on a volume that was just formatted.                             *)
LEMMA FormatReserve ==
  ASSUME AccountInv, ReserveInv, FormatVolume
  PROVE  ReserveInv'
<1>1. Sound(vol) /\ ImageIs /\ ~active /\ ~active'
  BY AccountImage DEF FormatVolume
<1>2. CASE /\ image' = [bytes |-> 0, open |-> FALSE]
           /\ \E w \in {Refresh([Emptied(vol) EXCEPT !.room = Capacity])} :
                vol' \in { r.w : r \in Appends(w, SysLog, 0) }
  <2> DEFINE u == Emptied(vol)
             x == [u EXCEPT !.room = Capacity]
             y == Refresh(x)
  <2>1. Sound(u) /\ Used(u) = 0 /\ Durable(u, SysTmp) = 0
    BY <1>1, EmptiedKeeps, EmptiedFrugal
  <2> HIDE DEF u
  <2>2. IsRec(u)
    BY <2>1, SoundNumbers
  <2>3. x.disk = u.disk /\ x.room = Capacity
    BY <2>2 DEF IsRec, Fields
  <2>4. Sound(x)
    BY <2>1, RoomSound, Positives
  <2> HIDE DEF x
  <2>5. Durable(x, SysTmp) = 0
    BY <2>1, <2>3 DEF Durable
  <2>6. /\ Capacity \in Nat /\ Capacity > Headroom + ImageReserve + Block
        /\ Headroom >= SysTrim + 2 /\ Headroom \in Nat /\ ImageReserve \in Nat
        /\ SysTrim \in Nat /\ Block \in Nat
    BY LogAssumption, Positives
  <2>7. Afloat(x, 0)
    BY <1>1, <2>3, <2>5, <2>6, ImageNumbers DEF Afloat, Spare
  <2>8. Sound(y) /\ Cautious(y, 0) /\ y.room = Capacity /\ Thrifty(x, y, 0)
    BY <1>1, <2>3, <2>4, <2>7, RefreshedCautious, UsageValues
  <2>9. PICK r \in Appends(y, SysLog, 0) : vol' = r.w
    BY <1>2 DEF y, x, u
  <2> HIDE DEF y
  <2>10. Sound(r.w) /\ Thrifty(y, r.w, 1)
    BY <1>1, <2>8, <2>9, SystemThrifty
  <2>11. /\ r.w.room \in Nat /\ Durable(r.w, SysTmp) \in Nat /\ r.w.free \in Nat
         /\ r.w.free <= Capacity /\ r.w.age \in Nat /\ Durable(y, SysTmp) \in Nat
    BY <2>8, <2>10, SoundNumbers
  <2>12. r.w.room + 1 >= Capacity /\ Durable(r.w, SysTmp) = 0
    BY <2>5, <2>8, <2>10, <2>11 DEF Thrifty
  <2>13. r.w.free <= r.w.room + 3 * r.w.age + 2
    BY <2>6, <2>11, <2>12
  <2>14. ImageReserve + SysTrim <= r.w.room + Durable(r.w, SysTmp)
    BY <2>6, <2>11, <2>12
  <2>15. ImageSeen' = 0 /\ image'.bytes = 0 /\ Unfinished' = 0
    BY <1>1, <1>2 DEF ImageSeen, Unfinished
  <2>16. Current(vol, Unfinished)'
    BY <2>6, <2>9, <2>11, <2>13, <2>15 DEF Current
  <2>17. Afloat(vol, Unfinished)'
    BY <2>6, <2>9, <2>11, <2>12, <2>14, <2>15 DEF Afloat, Spare, Durable
  <2> QED  BY <2>16, <2>17 DEF ReserveInv, Cautious
<1>3. CASE vol' = Close(vol, Slots) /\ image' = image
  <2>1. Sound(vol') /\ Frugal(vol, vol', 0)
    BY <1>1, <1>3, CloseFrugal
  <2>2. Unfinished = 0 /\ Unfinished' = 0
    BY <1>1 DEF Unfinished
  <2>3. Cautious(vol', 0)
    BY <1>1, <2>1, <2>2, CautiousAfter DEF ReserveInv
  <2> QED  BY <1>3, <2>2, <2>3, SameImage
<1> QED  BY <1>2, <1>3 DEF FormatVolume

(* Every step of LogNext leaves the reserve alone.                         *)
LEMMA ReserveStep ==
  ASSUME SessionTypes, AccountInv, ReserveInv, [LogNext]_vars
  PROVE  ReserveInv'
<1>1. Sound(vol) /\ ImageIs /\ Unfinished \in {0, 1} /\ Cautious(vol, Unfinished)
      /\ (active => Unfinished = 1)
  BY AccountImage DEF ReserveInv
<1>2. ASSUME UNCHANGED <<vol, active, image>> PROVE ReserveInv'
  BY <1>2 DEF ReserveInv, Cautious, Current, Afloat, Spare, Durable, ImageSeen, Unfinished
\* a volume on which nothing was written, and one on which the usage was read
<1>3. ASSUME NEW w, Sound(w), Thrifty(vol, w, 0), UNCHANGED <<active, image>>,
             (Frugal(vol, w, 0) /\ vol' = w) \/ vol' \in {Refresh(w), Expired(w)}
      PROVE  ReserveInv'
  <2>1. Unfinished' = Unfinished
    BY <1>3 DEF Unfinished
  <2>2. CASE Frugal(vol, w, 0) /\ vol' = w
    <3>1. Cautious(w, Unfinished)
      BY <1>1, <1>3, <2>2, CautiousAfter
    <3> QED  BY <1>3, <2>1, <2>2, <3>1, SameImage
  <2>3. CASE vol' \in {Refresh(w), Expired(w)}
    <3>1. Afloat(w, Unfinished)
      BY <1>1, <1>3, AfloatAfter DEF Cautious
    <3>2. Cautious(vol', Unfinished)
      BY <1>1, <1>3, <2>3, <3>1, RefreshedCautious
    <3> QED  BY <1>3, <2>1, <3>2, SameImage
  <2> QED  BY <1>3, <2>2, <2>3
<1>4. CASE StartManualCapture
  <2>1. CASE ~active /\ StartSession
    BY <1>4, <2>1, StartReserve, SameImage DEF StartManualCapture
  <2>2. CASE UNCHANGED <<vol, session>>
    BY <1>2, <1>4, <2>2 DEF StartManualCapture, session
  <2> QED  BY <1>4, <2>1, <2>2 DEF StartManualCapture
<1>5. CASE StopManualCapture
  <2>1. CASE active /\ FinishSession(vol)
    BY <1>1, <1>5, <2>1, FinishReserve, SameImage DEF StopManualCapture
  <2>2. CASE UNCHANGED <<vol, session>>
    BY <1>2, <1>5, <2>2 DEF StopManualCapture, session
  <2> QED  BY <1>5, <2>1, <2>2 DEF StopManualCapture
<1>6. CASE \E a \in BOOLEAN : NoteFcArmedState(a)
  <2>1. image' = image
    BY <1>6 DEF NoteFcArmedState
  <2>2. CASE ~active /\ StartSession
    BY <2>1, <2>2, StartReserve, SameImage
  <2>3. CASE active /\ FinishSession(vol)
    BY <1>1, <2>1, <2>3, FinishReserve, SameImage
  <2>4. CASE UNCHANGED <<vol, session>>
    BY <1>2, <2>1, <2>4 DEF session
  <2> QED  BY <1>6, <2>2, <2>3, <2>4 DEF NoteFcArmedState
<1>7. CASE \E idle \in IdleSets(vol) : Tick(idle)
  <2>1. image' = image
    BY <1>7 DEF Tick, Quiet
  <2> QED  BY <1>7, <2>1, TickReserve, SameImage
<1>8. CASE SonarLine
  <2>1. active /\ sid \in Ids /\ Sonar \in SessionStreams /\ Sonar \in Slots
    BY <1>8, Positives DEF SonarLine, SessionTypes, Ids, SessionStreams, Slots
  <2>2. Tmp(Sonar, sid) \in Handles(Sonar)
    BY <2>1, PairNames
  <2>3. PICK r \in Appends(vol, Tmp(Sonar, sid), sid) : vol' = r.w
    BY <1>8 DEF SonarLine
  <2>4. Cautious(r.w, Unfinished)
    BY <1>1, <2>1, <2>2, AppendsThrifty
  <2> QED  BY <1>8, <2>3, <2>4, SameImage DEF SonarLine, session, Unfinished
<1>9. CASE SystemLine
  <2>1. PICK r \in Appends(vol, SysLog, IF active THEN sid ELSE 0) : vol' = r.w
    BY <1>9 DEF SystemLine
  <2>2. Cautious(r.w, Unfinished)
    BY <1>1, <2>1, SystemThrifty
  <2> QED  BY <1>9, <2>1, <2>2, SameImage DEF SystemLine, session, Unfinished
<1>10. CASE ReadBack
  <2> DEFINE w == Sync(vol, Slots)
  <2>1. Sound(w) /\ Frugal(vol, w, 0)
    BY <1>1, SyncFrugal
  <2>2. vol' \in {w, Refresh(w)} /\ UNCHANGED <<active, image>>
    BY <1>10 DEF ReadBack, session
  <2> HIDE DEF w
  <2> QED  BY <1>3, <2>1, <2>2 DEF Frugal
<1>11. CASE \E i \in Ids : DeleteSession(i)
  <2>1. PICK i : vol' = Refresh(Without(vol, SessionFiles(i))) /\ UNCHANGED <<active, image>>
    BY <1>11 DEF DeleteSession, session
  <2>2. SysLog \notin SessionFiles(i)
    BY SystemNames DEF SessionFiles
  <2> DEFINE w == Without(vol, SessionFiles(i))
  <2>3. Sound(w) /\ Frugal(vol, w, 0) /\ vol' = Refresh(w)
    BY <1>1, <2>1, <2>2, WithoutFrugal
  <2> HIDE DEF w
  <2> QED  BY <1>3, <2>1, <2>3 DEF Frugal
<1>12. CASE ClearAll
  <2> DEFINE w == Emptied(vol)
  <2>1. Sound(w) /\ Frugal(vol, w, 0)
    BY <1>1, EmptiedFrugal
  <2>2. vol' = Refresh(w) /\ UNCHANGED <<active, image>>
    BY <1>12 DEF ClearAll
  <2> HIDE DEF w
  <2> QED  BY <1>3, <2>1, <2>2 DEF Frugal
<1>13. CASE FormatVolume
  BY <1>13, FormatReserve
<1>14. CASE ImageOpened \/ ImageGrows \/ ImageFinished \/ ImageRemoved
  BY <1>14, ImageReserves
<1>15. CASE SecondPasses
  <2>1. vol' = Expired(vol) /\ UNCHANGED <<active, image>>
    BY <1>15 DEF SecondPasses, session
  <2>2. Thrifty(vol, vol, 0)
    BY <1>1, FrugalRefl
  <2> QED  BY <1>1, <1>3, <2>1, <2>2
<1>16. CASE PowerCut
  BY <1>16, PowerReserve
<1>17. CASE UNCHANGED vars
  BY <1>2, <1>17 DEF vars
<1> QED  BY <1>4, <1>5, <1>6, <1>7, <1>8, <1>9, <1>10, <1>11, <1>12, <1>13, <1>14,
            <1>15, <1>16, <1>17 DEF LogNext

LEMMA ReserveInit ==
  ASSUME LogInit
  PROVE  ReserveInv
<1>1. /\ vol.disk = [ n \in {SysLog} |-> 0 ] /\ vol.room = Capacity /\ vol.free = 0
      /\ vol.age = LinesPerSecond /\ image.bytes = 0 /\ ImageSeen = 0 /\ Unfinished = 0
  BY DEF LogInit, ImageSeen, Unfinished
<1>2. Durable(vol, SysTmp) = 0
  BY <1>1, SystemNames DEF Durable
<1>3. /\ Capacity \in Nat /\ Capacity > Headroom + ImageReserve + Block
      /\ Headroom >= SysTrim + 2 /\ Headroom \in Nat /\ ImageReserve \in Nat
      /\ SysTrim \in Nat /\ Block \in Nat /\ LinesPerSecond \in Nat
  BY LogAssumption, Positives
<1>4. Current(vol, Unfinished)
  BY <1>1, <1>3 DEF Current
<1>5. Afloat(vol, Unfinished)
  BY <1>1, <1>2, <1>3 DEF Afloat, Spare
<1> QED  BY <1>4, <1>5 DEF ReserveInv, Cautious

(* Logging never takes the space that an upload of the firmware may need   *)
(* (DB_FC_FLASH_RESERVE_BYTES): db_log_prepare_space_locked checks a       *)
(* figure that may be a second old and does not know of a line that ends   *)
(* a session or of a half compacted system log, and DB_LOG_HEADROOM_BYTES  *)
(* is enough for all of them.                                              *)
THEOREM ReserveHolds == LogSpec => []ReserveKept
<1>1. LogInit => ReserveInv
  BY ReserveInit
<1>2. SessionInv /\ AccountInv /\ ReserveInv /\ [LogNext]_vars => ReserveInv'
  BY ReserveStep DEF SessionInv
<1>3. AccountInv /\ ReserveInv => ReserveKept
  <2> SUFFICES ASSUME AccountInv, ReserveInv PROVE ReserveKept
    OBVIOUS
  <2>1. /\ vol.room \in Nat /\ image.bytes \in Nat /\ Durable(vol, SysTmp) \in Nat
        /\ Unfinished \in {0, 1}
    BY AccountImage, SoundNumbers DEF ImageIs
  <2>2. /\ ImageReserve + SysTrim + 2 * Unfinished
             <= (vol.room + Durable(vol, SysTmp)) + image.bytes
        /\ Durable(vol, SysTmp) <= SysTrim
    BY DEF ReserveInv, Cautious, Afloat, Spare
  <2> QED  BY <2>1, <2>2, Positives DEF ReserveKept, Positive
<1> QED  BY <1>1, <1>2, <1>3, SessionsHold, AccountsHold, PTL DEF LogSpec
=============================================================================
