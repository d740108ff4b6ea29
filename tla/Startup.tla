------------------------------- MODULE Startup -------------------------------
(***************************************************************************)
(* app_main (main.c:1188-1340): the boot is recorded in the diagnostic     *)
(* journal before Wi-Fi is brought up, whatever becomes of the record; the *)
(* rest of the firmware runs once Wi-Fi is there, and then other events    *)
(* (a confirmed update, a request of the web page) are recorded.  A        *)
(* restart takes both parts with it, at any moment.                        *)
(***************************************************************************)
EXTENDS DiagJournal, WifiLink

VARIABLE app  \* the boot record: "new", "ready", "writing", "recorded"

startupVars == <<journalVars, wifiVars, app>>

StartupInit == JournalInit /\ WifiInit /\ app = "new"

(* db_diag_log_boot: looks for the latest record, then writes its own.     *)
BootInit ==
  /\ app = "new" /\ DiagInit
  /\ app' = IF diag' = "ready" THEN "ready" ELSE "recorded"
  /\ UNCHANGED wifiVars

BootRecord == app = "ready" /\ LogEvent /\ app' = "writing" /\ UNCHANGED wifiVars

(* db_diag_log_ota_confirmed, and the web server's bench crash.            *)
LaterRecord == app = "recorded" /\ main \in {"station", "ap"} /\ LogEvent /\ UNCHANGED <<wifiVars, app>>

Recording ==
  /\ Erase \/ Write \/ Verify
  /\ app' = IF app = "writing" /\ step' = "idle" THEN "recorded" ELSE app
  /\ UNCHANGED wifiVars

(* Mutation: Wi-Fi does not wait for the record.                           *)
StartWifiAtOnce == (StartStation \/ StartAp) /\ UNCHANGED <<journalVars, app>>

StartWifi == app = "recorded" /\ (StartStation \/ StartAp) /\ UNCHANGED <<journalVars, app>>

Restart == JournalRestart /\ WifiRestart /\ app' = "new"

StartupNext ==
  \/ BootInit \/ BootRecord \/ LaterRecord \/ Recording
  \/ StartWifi
  \/ WifiStep /\ UNCHANGED <<journalVars, app>>
  \/ Restart

StartupSpec == StartupInit /\ [][StartupNext]_startupVars

Wifi(A) == A /\ UNCHANGED <<journalVars, app>>

(* Tasks run when they have work, and a timer that runs fires.  Of the     *)
(* access point see Resolves.                                              *)
StartupFairSpec ==
  /\ StartupSpec
  /\ WF_startupVars(Wifi(MainStep)) /\ WF_startupVars(Wifi(Handle))
  /\ WF_startupVars(Wifi(TimerFires)) /\ WF_startupVars(Wifi(Resolves))

-----------------------------------------------------------------------------
StartupTypeOK ==
  /\ JournalTypeOK /\ WifiTypeOK
  /\ app \in {"new", "ready", "writing", "recorded"}
  /\ app # "recorded" => main = "boot"
=============================================================================
