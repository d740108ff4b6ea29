------------------------------ MODULE WifiLink -------------------------------
(***************************************************************************)
(* The Wi-Fi station of the companion (main.c): how it is brought up at    *)
(* boot, with an access point of its own as the fallback, and kept up.     *)
(*                                                                         *)
(* Actors: the main task, which starts the station and waits; the event    *)
(* task, which runs wifi_event_handler; the timer task; and the MAVLink    *)
(* task, which may switch the radio off when the vehicle is armed.         *)
(* External: the Wi-Fi driver and the access point.  A time is over or     *)
(* not.  esp_wifi_connect has no effect on a stopped radio or a station    *)
(* that is not down; nothing is assumed to be lost on the way to the timer *)
(* task.                                                                   *)
(***************************************************************************)
EXTENDS Naturals, Sequences

CONSTANT FastRetries  \* DB_STA_FAST_RETRIES

ASSUME WifiAssumption == FastRetries \in Nat

VARIABLES
  main,    \* where app_main is: "boot", "waiting", and then "station" or "ap"
  link,    \* external: the station in the driver
  inbox,   \* events of the driver that the handler has not seen
  retries, \* s_retry_num
  ever,    \* s_sta_ever_connected
  timer,   \* s_sta_reconnect_timer is running
  window,  \* s_sta_retry_uses_deadline: "none", "open", or its time is "over"
  bits,    \* s_wifi_event_group
  radio    \* "on", "stopped", or stopped and known to be: "off", DB_RADIO_IS_OFF

retry    == <<retries, ever, timer, window>>
wifiVars == <<main, link, inbox, retry, bits, radio>>

WifiInit ==
  /\ main = "boot" /\ link = "off" /\ inbox = <<>>
  /\ retries = 0 /\ ever = FALSE /\ timer = FALSE /\ window = "none"
  /\ bits = {} /\ radio = "on"

(* esp_wifi_connect.                                                       *)
Connect == link' = IF link = "down" /\ radio = "on" THEN "trying" ELSE link

-----------------------------------------------------------------------------
(* The main task.                                                          *)

(* db_init_wifi_clientmode starts the station and waits: for a minute when *)
(* it looks for the sonar's network, for as long as it takes when it is    *)
(* configured as a station.                                                *)
StartStation ==
  /\ main = "boot"
  /\ main' = "waiting" /\ link' = "down" /\ inbox' = << "start" >>
  /\ window' \in {"none", "open"}
  /\ retries' = 0 /\ bits' = {}
  /\ UNCHANGED <<ever, timer, radio>>

(* db_init_wifi_apmode, when no station is wanted.                         *)
StartAp == main = "boot" /\ main' = "ap" /\ UNCHANGED <<link, inbox, retry, bits, radio>>

WaitConnected ==
  /\ main = "waiting" /\ "connected" \in bits
  /\ main' = "station"
  /\ UNCHANGED <<link, inbox, retry, bits, radio>>

(* Mutation: the timeout of the window is not looked at.                   *)
WaitFailsOnBit ==
  /\ main = "waiting" /\ bits = {"fail"}
  /\ main' = "ap"
  /\ link' = "off" /\ inbox' = <<>>
  /\ retries' = 0 /\ window' = "none" /\ bits' = {}
  /\ UNCHANGED <<ever, timer, radio>>

(* No network, or none in time: db_cleanup_wifi_runtime, then the access   *)
(* point.                                                                  *)
WaitFails ==
  /\ main = "waiting" /\ "connected" \notin bits
  /\ ("fail" \in bits \/ window = "over")
  /\ main' = "ap"
  /\ link' = "off" /\ inbox' = <<>>
  /\ retries' = 0 /\ window' = "none" /\ bits' = {}
  /\ UNCHANGED <<ever, timer, radio>>

WindowCloses ==
  /\ window = "open" /\ window' = "over"
  /\ UNCHANGED <<main, link, inbox, retries, ever, timer, bits, radio>>

MainStep == WaitConnected \/ WaitFails \/ WindowCloses

-----------------------------------------------------------------------------
(* The event task: wifi_event_handler.                                     *)

Event(e) == inbox # <<>> /\ Head(inbox) = e /\ inbox' = Tail(inbox)

OnStart ==
  /\ Event("start")
  /\ IF radio = "off" THEN UNCHANGED link ELSE Connect
  /\ UNCHANGED <<main, retry, bits, radio>>

(* Tried again at once while the window of the boot is open, else while    *)
(* fast retries are left; slowly if this link has ever been up.            *)
AtOnce == window = "open" \/ (window = "none" /\ retries < FastRetries)
Slowly == window = "none" /\ ever

(* Mutation: when the fast retries are used up, that is the end of it, as  *)
(* before 22-08-2026.                                                      *)
OnDisconnectedGivesUp ==
  /\ Event("disconnected")
  /\ IF radio = "off" THEN UNCHANGED <<link, retry, bits>>
     ELSE IF AtOnce
       THEN /\ Connect
            /\ retries' = IF retries < FastRetries THEN retries + 1 ELSE retries
            /\ UNCHANGED <<ever, timer, window, bits>>
       ELSE bits' = bits \cup {"fail"} /\ UNCHANGED <<link, retry>>
  /\ UNCHANGED <<main, radio>>

(* A lost link or a failed attempt.  Retries beyond FastRetries are only   *)
(* made while a window is open, when nobody looks at their number: the     *)
(* count stops there.                                                      *)
OnDisconnected ==
  /\ Event("disconnected")
  /\ IF radio = "off" THEN UNCHANGED <<link, retry, bits>>
     ELSE IF AtOnce
       THEN /\ Connect
            /\ retries' = IF retries < FastRetries THEN retries + 1 ELSE retries
            /\ UNCHANGED <<ever, timer, window, bits>>
     ELSE IF Slowly
       THEN timer' = TRUE /\ UNCHANGED <<link, retries, ever, window, bits>>
       ELSE bits' = bits \cup {"fail"} /\ UNCHANGED <<link, retry>>
  /\ UNCHANGED <<main, radio>>

(* Mutation: the window of the boot stays when the link is up.             *)
OnGotIpKeepsWindow ==
  /\ Event("got_ip")
  /\ ever' = TRUE /\ timer' = FALSE /\ retries' = 0
  /\ bits' = bits \cup {"connected"}
  /\ UNCHANGED <<main, link, window, radio>>

OnGotIp ==
  /\ Event("got_ip")
  /\ ever' = TRUE /\ timer' = FALSE /\ retries' = 0 /\ window' = "none"
  /\ bits' = bits \cup {"connected"}
  /\ UNCHANGED <<main, link, radio>>

Handle == OnStart \/ OnDisconnected \/ OnGotIp

(* db_sta_reconnect_timer_cb, in the timer task.                           *)
TimerFires ==
  /\ timer /\ timer' = FALSE
  /\ IF radio = "off" THEN UNCHANGED <<retries, link>> ELSE retries' = 0 /\ Connect
  /\ UNCHANGED <<main, inbox, ever, window, bits, radio>>

-----------------------------------------------------------------------------
(* The MAVLink task: db_set_radio_status stops the radio, and then notes   *)
(* that it did.  To switch it on again it restarts the companion.          *)
RadioStop ==
  /\ main \in {"station", "ap"} /\ radio = "on"
  /\ radio' = "stopped"
  /\ link' = IF link = "off" THEN "off" ELSE "down"
  /\ inbox' = IF link \in {"joined", "up"} THEN Append(inbox, "disconnected") ELSE inbox
  /\ UNCHANGED <<main, retry, bits>>

RadioOff == radio = "stopped" /\ radio' = "off" /\ UNCHANGED <<main, link, inbox, retry, bits>>

-----------------------------------------------------------------------------
(* External: the driver and the access point.                              *)
Joins == link = "trying" /\ link' = "joined" /\ UNCHANGED <<main, inbox, retry, bits, radio>>

GetsAddress ==
  /\ link = "joined" /\ link' = "up"
  /\ inbox' = Append(inbox, "got_ip")
  /\ UNCHANGED <<main, retry, bits, radio>>

Drops ==
  /\ link \in {"trying", "joined", "up"} /\ link' = "down"
  /\ inbox' = Append(inbox, "disconnected")
  /\ UNCHANGED <<main, retry, bits, radio>>

(* An attempt has an outcome.  Who has joined may be left without an       *)
(* address for ever, except when the companion waits for ever, too.        *)
Resolves ==
  /\ link = "trying" \/ (link = "joined" /\ window = "none")
  /\ Joins \/ GetsAddress \/ Drops

(* A restart, from the start of app_main.                                  *)
WifiRestart ==
  /\ main' = "boot" /\ link' = "off" /\ inbox' = <<>>
  /\ retries' = 0 /\ ever' = FALSE /\ timer' = FALSE /\ window' = "none"
  /\ bits' = {} /\ radio' = "on"

WifiStep == MainStep \/ Handle \/ TimerFires \/ RadioStop \/ RadioOff \/ Joins \/ GetsAddress \/ Drops

-----------------------------------------------------------------------------
WifiTypeOK ==
  /\ main \in {"boot", "waiting", "station", "ap"}
  /\ link \in {"off", "down", "trying", "joined", "up"}
  /\ Len(inbox) <= 3
  /\ retries \in 0 .. FastRetries
  /\ window \in {"none", "open", "over"}
  /\ bits \subseteq {"connected", "fail"}
  /\ radio \in {"on", "stopped", "off"}

(* "Keep trying forever ... must never need a power cycle to come back"    *)
(* (main.c:581-583): once the link has been up, whenever it is down it is  *)
(* tried again, unless the radio was switched off.                         *)
KeepsTrying ==
  ever /\ main = "station" /\ link = "down" /\ radio = "on" ~> link # "down" \/ radio # "on"

(* Start-up gets past Wi-Fi: with the network, or with the access point as *)
(* a fallback, even if the network keeps letting the station in and        *)
(* dropping it, or lets it in without an address while a window is set.    *)
BootEnds == main = "waiting" ~> main # "waiting"
=============================================================================
