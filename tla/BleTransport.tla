---------------------------- MODULE BleTransport ----------------------------
(***************************************************************************)
(* The Bluetooth side of the firmware: src/ble_transport.c and the part of *)
(* the main loop of src/main.c that keeps it advertising.                  *)
(*                                                                         *)
(* Three threads meet.  The Bluetooth host calls connected,                *)
(* security_changed, disconnected and nus_received one after the other;    *)
(* the system workqueue runs adv_restart_work and clearbond_work; the main *)
(* loop may be preempted between its test of current_conn and the start of *)
(* advertising.  bt_unpair writes flash, so other threads run between it   *)
(* and the disconnection that follows.                                     *)
(*                                                                         *)
(* External: one link (CONFIG_BT_MAX_CONN=1), whose peer may leave it at   *)
(* any level of security; advertising, which a connection ends and which   *)
(* cannot start while a link exists, or for another passing reason.        *)
(***************************************************************************)
EXTENDS Integers

CONSTANTS
    MaxFailures  \* bound: bt_le_adv_start refused although no link exists

ASSUME FailuresAssumption == MaxFailures \in Nat

VARIABLES
    link,           \* external: "none", "opened" (connected is due), "up", "closed"
                    \* (disconnected is due)
    level,          \* external: its security, "none" so far, "weak" or failed, "L3"
    advertising,    \* external
    bond,           \* keys are stored; survives a restart
    current_conn,   \* it is not NULL
    stream_active,
    adv_restart,    \* adv_restart_work is queued
    clear_timer, clearing,  \* clearbond_work: armed; between its two calls
    main,           \* the main loop: "sleep", or "start" once it found no connection
    asked,          \* history: the peer of this link asked for the stream, and not to stop
    failures        \* history: refused starts

radio == <<link, level, advertising, bond>>
works == <<adv_restart, clear_timer, clearing>>
deviceVars == <<radio, current_conn, stream_active, works, main, asked, failures>>

\* After ble_transport_init, whose advertising_start may have failed.
DeviceInit ==
    /\ link = "none" /\ level = "none" /\ advertising \in BOOLEAN /\ bond \in BOOLEAN
    /\ current_conn = FALSE /\ stream_active = FALSE
    /\ adv_restart = FALSE /\ clear_timer = FALSE /\ clearing = FALSE
    /\ main = "sleep"
    /\ asked = FALSE /\ failures = 0

\* Only the stored keys survive.
DeviceRestart ==
    /\ link' = "none" /\ level' = "none" /\ advertising' \in BOOLEAN /\ bond' = bond
    /\ current_conn' = FALSE /\ stream_active' = FALSE
    /\ adv_restart' = FALSE /\ clear_timer' = FALSE /\ clearing' = FALSE
    /\ main' = "sleep"
    /\ asked' = FALSE /\ failures' = failures

---------------------------------------------------------------------------
(* The link (external).                                                    *)

LinkOpens ==
    /\ link = "none" /\ link' = "opened"
    /\ advertising /\ advertising' = FALSE
    /\ asked' = FALSE
    /\ UNCHANGED <<level, bond, current_conn, stream_active, works, main, failures>>

\* Pairing, or encryption with the stored keys, ends; a pairing at L3 stores keys.
SecurityEnds(l) ==
    /\ link = "up" /\ level = "none" /\ level' = l
    /\ bond' = (bond \/ l = "L3")
    /\ UNCHANGED <<link, advertising, current_conn, stream_active, works, main, asked, failures>>

LinkLost ==
    /\ link = "up" /\ link' = "closed"
    /\ UNCHANGED <<level, advertising, bond, current_conn, stream_active, works, main,
                   asked, failures>>

---------------------------------------------------------------------------
(* Callbacks of the Bluetooth host.                                        *)

\* connected: with an error, with a security request that is refused, or not.
ConnectFailed ==
    /\ link = "opened" /\ link' = "none"
    /\ UNCHANGED <<level, advertising, bond, current_conn, stream_active, works, main,
                   asked, failures>>

Connected(secured) ==
    /\ link = "opened" /\ link' = IF secured THEN "up" ELSE "closed"
    /\ current_conn' = TRUE
    /\ UNCHANGED <<level, advertising, bond, stream_active, works, main, asked, failures>>

SecurityReported(drop) ==
    /\ link = "up" /\ level = "weak" /\ drop
    /\ link' = "closed"
    /\ UNCHANGED <<level, advertising, bond, current_conn, stream_active, works, main,
                   asked, failures>>

\* Variant: a pairing that ends without an error is accepted at any level.
SecurityChangedAccepts == SecurityReported(FALSE)

\* security_changed drops a link that failed or stayed below L3; at L3 it only logs.
SecurityChanged == SecurityReported(TRUE)

Hangup(streaming) ==
    /\ link = "closed" /\ link' = "none" /\ level' = "none"
    /\ stream_active' = streaming
    /\ current_conn' = FALSE
    /\ adv_restart' = TRUE
    /\ UNCHANGED <<advertising, bond, clear_timer, clearing, main, asked, failures>>

\* Variant: streaming goes on with the next connection.
DisconnectedStreams == Hangup(stream_active)

Disconnected == Hangup(FALSE)

\* nus_received.  The service answers only a link at L3 (CONFIG_BT_NUS_AUTHEN).
\* The commands state and zbstate only report; mode, setpoint and zbreset call
\* the queue functions of FlexitSlave and RequestReset of ZigbeeLifecycle.
Received == link = "up" /\ level = "L3"

Stream(on) ==
    /\ Received
    /\ stream_active' = on /\ asked' = on
    /\ UNCHANGED <<radio, current_conn, works, main, failures>>

Clearbond ==
    /\ Received
    /\ clear_timer' = TRUE
    /\ UNCHANGED <<radio, current_conn, stream_active, adv_restart, clearing, main,
                   asked, failures>>

---------------------------------------------------------------------------
(* Advertising, from the workqueue and from the main loop.                 *)

\* advertising_start.
Advertise(ok) ==
    /\ advertising' = (advertising \/ (ok /\ link = "none"))
    /\ failures < MaxFailures \/ ok
    /\ failures' = IF ok THEN failures ELSE failures + 1

AdvRestartWork(ok) ==
    /\ adv_restart /\ adv_restart' = FALSE
    /\ IF current_conn THEN ok /\ UNCHANGED <<advertising, failures>> ELSE Advertise(ok)
    /\ UNCHANGED <<link, level, bond, current_conn, stream_active, clear_timer, clearing,
                   main, asked>>

\* ble_transport_ensure_advertising, about once a second.
MainTest ==
    /\ main = "sleep" /\ ~current_conn
    /\ main' = "start"
    /\ UNCHANGED <<radio, current_conn, stream_active, works, asked, failures>>

MainTries(ok) ==
    /\ main = "start" /\ main' = "sleep"
    /\ UNCHANGED <<link, level, bond, current_conn, stream_active, works, asked>>

\* Variant: a start that fails is left to the next disconnection.
MainStartsNever(ok) == MainTries(ok) /\ ok /\ UNCHANGED <<advertising, failures>>

MainStart(ok) == MainTries(ok) /\ Advertise(ok)

---------------------------------------------------------------------------
(* clearbond_work_fn, 300 ms after the command.                            *)

ClearbondRuns(keeps) ==
    /\ clear_timer /\ clear_timer' = FALSE
    /\ ~clearing /\ clearing' = TRUE
    /\ bond' = (bond /\ keeps)
    /\ UNCHANGED <<link, level, advertising, current_conn, stream_active, adv_restart, main,
                   asked, failures>>

\* Variant: without a connection nothing is left to do.
ClearbondOfSession == ClearbondRuns(~current_conn)

ClearbondUnpairs == ClearbondRuns(FALSE)

ClearbondEnds(drops) ==
    /\ clearing /\ clearing' = FALSE
    /\ link' = IF drops /\ link = "up" THEN "closed" ELSE link
    /\ UNCHANGED <<level, advertising, bond, current_conn, stream_active, adv_restart,
                   clear_timer, main, asked, failures>>

\* Variant: the session is left alone.
ClearbondKeepsLink == ClearbondEnds(FALSE)

ClearbondDisconnects == ClearbondEnds(current_conn)

---------------------------------------------------------------------------
HostRuns ==
    \/ ConnectFailed \/ \E secured \in BOOLEAN : Connected(secured)
    \/ SecurityChanged \/ Disconnected
WorkqueueRuns ==
    (\E ok \in BOOLEAN : AdvRestartWork(ok)) \/ ClearbondUnpairs \/ ClearbondDisconnects
MainRuns == MainTest \/ \E ok \in BOOLEAN : MainStart(ok)

DeviceTypeOK ==
    /\ link \in {"none", "opened", "up", "closed"} /\ level \in {"none", "weak", "L3"}
    /\ advertising \in BOOLEAN /\ bond \in BOOLEAN
    /\ current_conn \in BOOLEAN /\ stream_active \in BOOLEAN
    /\ adv_restart \in BOOLEAN /\ clear_timer \in BOOLEAN /\ clearing \in BOOLEAN
    /\ main \in {"sleep", "start"}
    /\ asked \in BOOLEAN /\ failures \in 0 .. MaxFailures

\* ble_transport_forward_rs485 sends under this condition.
Forwards == stream_active /\ current_conn

\* RS485 bytes go only to a peer that asked for them on this very connection,
\* whatever an earlier one left behind.
StreamedToAsker == Forwards => asked

\* The device can be found again after every connection, failed connection,
\* restart and refused start of advertising.
AdvertisingReturns == link = "none" ~> advertising

\* A link that failed to reach L3 does not occupy the only connection.
WeakLinkEnds == level = "weak" ~> level # "weak"

\* A session secured with keys that clearbond removed ends, also when its peer
\* had reconnected with them in the 300 ms before.
StaleSessionEnds == level = "L3" /\ ~bond ~> ~(level = "L3" /\ ~bond)
=============================================================================
