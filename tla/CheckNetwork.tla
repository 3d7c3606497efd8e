---------------------------- MODULE CheckNetwork ---------------------------
(***************************************************************************)
(* Who decides what the LED says of the network: the period task of        *)
(* Host/LibCamera/Src/PeriodTask_CheckNetwork.c, which follows the video   *)
(* stream; the callbacks of the WiFi supplicant in Wireless/wlan0.c; and   *)
(* the battery task of PeriodTask_CheckBattery.c.  All of them write the    *)
(* status of module Led.                                                   *)
(***************************************************************************)
EXTENDS Led

VARIABLES
    fnTask,     \* the function of g_prdtskCheckNetwork
    waits,      \* it has looked at the stream and waits for g_rmLED
    wpa_state,  \* of the supplicant: "connecting" or "completed"
    speed       \* vp_bitrate_control_getspeed() > 0: somebody watches the stream

net  == <<fnTask, waits, wpa_state, speed>>
netVars == <<ledVars, net>>

NetInit == /\ LedInit
           /\ fnTask = "NoActive" /\ waits = FALSE
           /\ wpa_state = "connecting"
           /\ speed = FALSE

\* The period thread is free to call a task.
Idle == run = "idle" /\ owner # "prd" /\ ~waits

\* The task is called and goes on to change the status: the thread waits for g_rmLED.
CheckNetwork == /\ Idle
                /\ \/ fnTask = "NoActive" /\ speed
                   \/ fnTask = "TryConnectOver"
                   \/ fnTask = "Active" /\ ~speed
                /\ waits' = TRUE
                /\ UNCHANGED <<ledVars, fnTask, wpa_state, speed>>

\* prdLock(); prdDelTask(..); prdAddTask(.., f, ..); prdUnlock()
Become(f) == fnTask' = f /\ waits' = FALSE /\ UNCHANGED <<wpa_state, speed>>

NoActive == /\ waits /\ fnTask = "NoActive"
            /\ ledSetNetwork("try_connect", "prd")
            /\ Become("TryConnect")

TryConnect == /\ Idle /\ fnTask = "TryConnect"
              /\ Become("TryConnectOver")
              /\ UNCHANGED ledVars

\* mutated: back to waiting for a stream
AfterConnectWaits == "NoActive"

AfterConnect == "Active"

TryConnectOver == /\ waits /\ fnTask = "TryConnectOver"
                  /\ ledSetNetwork("streaming", "prd")
                  /\ Become(AfterConnect)

Active == /\ waits /\ fnTask = "Active"
          /\ ledSetNetwork("ready", "prd")
          /\ Become("NoActive")

prdTask_CheckNetwork == NoActive \/ TryConnectOver \/ Active

\* The battery, as mcuGetBattery reports it.
prdTask_CheckBattery == /\ Idle
                        /\ \E low \in BOOLEAN : ledSetLowBattery(low, "prd")
                        /\ UNCHANGED net

\* wpa_supplicant_set_state: every state but scanning and completed, the rekeying of
\* a connection that stays up included.
wsp_connecting_callback == /\ ledSetNetwork("try_connect", "other")
                           /\ wpa_state' = "connecting"
                           /\ UNCHANGED <<fnTask, waits, speed>>

wsp_connected_callback == /\ ledSetNetwork("ready", "other")
                          /\ wpa_state' = "completed"
                          /\ UNCHANGED <<fnTask, waits, speed>>

\* A stream begins on a connection, and ends.
StreamBegins == /\ ~speed /\ speed' = TRUE /\ wpa_state = "completed"
                /\ UNCHANGED <<ledVars, fnTask, waits, wpa_state>>
StreamEnds   == /\ speed /\ speed' = FALSE
                /\ UNCHANGED <<ledVars, fnTask, waits, wpa_state>>

\* The display's own steps; the LED task is not called while the thread waits.
Display == /\ Setter \/ Report \/ (~waits /\ (Task \/ prdTask_LED_Late))
           /\ UNCHANGED net

NetNext == \/ CheckNetwork \/ TryConnect \/ prdTask_CheckNetwork \/ prdTask_CheckBattery
           \/ wsp_connecting_callback \/ wsp_connected_callback
           \/ StreamBegins \/ StreamEnds \/ Display

\* The period thread calls its tasks in turn, g_rmLED goes to whoever waits for it, a
\* setter finishes, the system wakes up again; nothing is assumed of the ten-minute step.
NetSpec == /\ NetInit /\ [][NetNext]_netVars
           /\ WF_netVars(Setter /\ UNCHANGED net)
           /\ SF_netVars(~waits /\ Task /\ UNCHANGED net)
           /\ WF_netVars(ledWakeup /\ UNCHANGED net)
           /\ SF_netVars(CheckNetwork \/ TryConnect) /\ SF_netVars(prdTask_CheckNetwork)

------------------------------------------------------------------------------
(* Properties *)

\* When nobody watches any more, the LED stops saying that somebody does.
StreamEndIsShown == <>[](~speed) => <>[](g_uLED_STATUS.network # "streaming")
=============================================================================
