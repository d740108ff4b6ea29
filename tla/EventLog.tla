------------------------------ MODULE EventLog ------------------------------
(***************************************************************************)
(* What the diagnostic journal promises, whatever its sectors and the      *)
(* power supply do: a log of numbered events of which the latest stay      *)
(* readable.  DiagJournal implements it.                                   *)
(*                                                                         *)
(* An event once acknowledged is only lost to one that came Depth - 1      *)
(* later, and numbers and time agree.                                      *)
(***************************************************************************)
EXTENDS Naturals

CONSTANT Depth  \* how many records there is room for

VARIABLES
  kept,  \* what can be read: numbers and events, in the order of time
  acked  \* all that was ever reported as stored

EventLogInit == kept = {} /\ acked = {}

(* A new event, after all that were acknowledged or can be read.           *)
Record(r) ==
  /\ \A k \in kept \cup acked : k.seq < r.seq /\ k.ev < r.ev
  /\ kept' = kept \cup {r}
  /\ UNCHANGED acked

Acknowledge(r) ==
  /\ r \in kept
  /\ \A k \in kept : k.seq <= r.seq
  /\ acked' = acked \cup {r}
  /\ UNCHANGED kept

(* What was never acknowledged, or is Depth - 1 events old, may go.        *)
Forget(r) ==
  /\ r \notin acked \/ \E k \in kept : k.seq >= r.seq + Depth - 1
  /\ kept' = kept \ {r}
  /\ UNCHANGED acked

EventLogNext ==
  \/ \E r \in kept' : Record(r)
  \/ \E r \in kept : Acknowledge(r) \/ Forget(r)

EventLogSpec == EventLogInit /\ [][EventLogNext]_<<kept, acked>>
=============================================================================
