----------------------------- MODULE MCSonarLog -----------------------------
(* SonarLog with two sessions on a volume that holds about one of them next*)
(* to the reserves, so that sessions are evicted and captures meet a full  *)
(* volume.                                                                 *)
EXTENDS SonarLog
=============================================================================
