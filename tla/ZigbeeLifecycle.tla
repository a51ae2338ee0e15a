--------------------------- MODULE ZigbeeLifecycle ---------------------------
(***************************************************************************)
(* The life of the Zigbee stack in src/zigbee_ep.c: network state and join *)
(* window, factory reset, and the suspension of the ZBOSS thread while a   *)
(* firmware image is uploaded.                                             *)
(*                                                                         *)
(* Four threads meet: ZBOSS (signal handler, its callbacks and alarms),    *)
(* which takes a step only while it is not suspended; the BLE command      *)
(* thread (zbreset); the MCUmgr thread (upload events); and the system     *)
(* workqueue (reboot_work, dfu_resume_work).  Atomics and kernel calls are *)
(* single steps.  Delayed work fires at any time once armed, except that   *)
(* the reboot timer, seconds long, never beats a BLE command in progress   *)
(* or a ZBOSS thread that is ready to run its queue.                       *)
(*                                                                         *)
(* The workqueue also runs bridge_work, which waits for pending_lock, and  *)
(* the UART drain work, which waits for the mutexes of the panel mirror    *)
(* and the Modbus slave; ZBOSS takes the same mutexes in publish_tick and  *)
(* in the write handlers.  One flag stands for all of them.                *)
(***************************************************************************)
EXTENDS Integers

CONSTANTS
    MaxEvents,   \* bound: upload events
    MaxResets,   \* bound: zbreset commands
    MaxLosses,   \* bound: networks left or links lost without a zbreset
    MaxRestarts, \* bound: restarts for other reasons (power, SMP reset)
    Preempted    \* external: the MCUmgr thread gets the CPU while ZBOSS holds a
                 \* mutex, as with equal priorities and time slices

ASSUME PreemptedAssumption == Preempted \in BOOLEAN
ASSUME BoundsAssumption == {MaxEvents, MaxResets, MaxLosses, MaxRestarts} \subseteq Nat

VARIABLES
    \* the ZBOSS thread and stack
    zboss,      \* the thread: "none" before zigbee_enable, "ready" or "suspended"
    holding,    \* it is inside a section under a mutex the workqueue needs
    stack,      \* external: "off", "steering", "joined", "apart" or "left"
    nvram,      \* external, survives a restart: "clean" or "network"
    leaving,    \* external: the LEAVE signal of a local reset is due
    net_state,  \* "IDLE", "JOINING" or "JOINED"
    window,     \* the join_window_expire alarm is armed
    ticks,      \* publish_tick alarms in flight
    \* factory reset
    ble, factory_reset_pending, reset_cb, reboot_timer,
    \* DFU radio yield
    smp, uploading,     \* the callback's step; external: chunks may follow a DFU_STARTED
    zboss_dfu_suspended,
    watchdog, watchdog_due,          \* dfu_resume_work: timer, queued
    worker,     \* the workqueue: "idle", "resume" (inside dfu_resume_work_fn) or
                \* "blocked" (bridge_work or drain work wait for a mutex)
    \* history
    events, resets, losses, restarts

nets == <<stack, nvram, leaving, net_state, window, ticks>>
resetVars == <<ble, factory_reset_pending, reset_cb, reboot_timer>>
watch == <<watchdog, watchdog_due, worker>>
dfuVars == <<smp, uploading, zboss_dfu_suspended, watch>>
history == <<events, resets, losses, restarts>>
vars == <<zboss, holding, nets, resetVars, dfuVars, history>>

Init ==
    /\ zboss = "none" /\ holding = FALSE /\ stack = "off" /\ leaving = FALSE
    /\ nvram \in {"clean", "network"}
    /\ net_state = "IDLE" /\ window = FALSE /\ ticks = 0
    /\ ble = "idle" /\ factory_reset_pending = FALSE /\ reset_cb = FALSE /\ reboot_timer = FALSE
    /\ smp = "idle" /\ uploading = FALSE /\ zboss_dfu_suspended = FALSE
    /\ watchdog = FALSE /\ watchdog_due = FALSE /\ worker = "idle"
    /\ events = 0 /\ resets = 0 /\ losses = 0 /\ restarts = 0

\* Only NVRAM survives.
Reboot ==
    /\ zboss' = "none" /\ holding' = FALSE /\ stack' = "off" /\ leaving' = FALSE
    /\ nvram' = nvram
    /\ net_state' = "IDLE" /\ window' = FALSE /\ ticks' = 0
    /\ ble' = "idle" /\ factory_reset_pending' = FALSE /\ reset_cb' = FALSE /\ reboot_timer' = FALSE
    /\ smp' = "idle" /\ uploading' = FALSE /\ zboss_dfu_suspended' = FALSE
    /\ watchdog' = FALSE /\ watchdog_due' = FALSE /\ worker' = "idle"

---------------------------------------------------------------------------
(* The ZBOSS thread.                                                       *)

\* The end of zigbee_ep_init.
ZigbeeEnable ==
    /\ zboss = "none" /\ zboss' = "ready"
    /\ UNCHANGED <<holding, nets, resetVars, dfuVars, history>>

\* publish_tick or a write handler takes a mutex, and releases it.  A released
\* mutex goes to the thread that waits for it, so ZBOSS does not overtake.
EnterCritical ==
    /\ zboss = "ready" /\ ticks > 0 /\ worker # "blocked"
    /\ ~holding /\ holding' = TRUE
    /\ UNCHANGED <<zboss, nets, resetVars, dfuVars, history>>

\* Variant: an early return leaves the mutex locked.
LeaveCriticalLocked ==
    zboss = "ready" /\ holding /\ UNCHANGED vars

LeaveCritical ==
    /\ zboss = "ready"
    /\ holding /\ holding' = FALSE
    /\ UNCHANGED <<zboss, nets, resetVars, dfuVars, history>>

OnZboss ==
    /\ zboss = "ready" /\ ~holding
    /\ UNCHANGED <<zboss, holding, dfuVars, events, resets, restarts>>
NoReset == UNCHANGED resetVars
NoLoss == UNCHANGED losses

\* The publish tick is started by the first start signal of a boot only.
StartPublishing == ticks' = IF ticks = 0 THEN 1 ELSE ticks

\* ZB_BDB_SIGNAL_DEVICE_FIRST_START: clean NVRAM, steering begins.
Steer(ok, armed) ==
    /\ OnZboss /\ NoReset /\ NoLoss
    /\ stack = "off" /\ nvram = "clean"
    /\ stack' = "steering"
    /\ net_state' = IF ok THEN "JOINING" ELSE net_state
    /\ window' = (window \/ armed)
    /\ StartPublishing
    /\ UNCHANGED <<nvram, leaving>>

\* Variant: the alarm that closes the window is forgotten.
FirstStartNoAlarm(ok) == Steer(ok, FALSE)
FirstStart(ok) == Steer(ok, ok)

\* ZB_BDB_SIGNAL_DEVICE_REBOOT: the stored network is rejoined, or not yet.
Rejoin(ok) ==
    /\ OnZboss /\ NoReset /\ NoLoss
    /\ stack = "apart" \/ (stack = "off" /\ nvram = "network")
    /\ stack' = IF ok THEN "joined" ELSE "apart"
    /\ net_state' = IF ok THEN "JOINED" ELSE "IDLE"
    /\ UNCHANGED <<nvram, leaving, window>>

\* Variant: every start signal starts a tick.
DeviceRebootTicks(ok) == Rejoin(ok) /\ ticks' = ticks + 1
DeviceReboot(ok) == Rejoin(ok) /\ StartPublishing

\* ZB_BDB_SIGNAL_STEERING with RET_OK; a failed one changes nothing.
SteeringDone ==
    /\ OnZboss /\ NoReset /\ NoLoss
    /\ stack = "steering" /\ stack' = "joined" /\ nvram' = "network"
    /\ net_state' = "JOINED"
    /\ UNCHANGED <<leaving, window, ticks>>

JoinWindowExpire ==
    /\ OnZboss /\ NoReset /\ NoLoss
    /\ window /\ window' = FALSE
    /\ net_state' = IF net_state = "JOINING" THEN "IDLE" ELSE net_state
    /\ UNCHANGED <<stack, nvram, leaving, ticks>>

\* A network lost without a local reset.
Lost ==
    /\ stack = "joined" /\ losses < MaxLosses
    /\ stack' = "apart" /\ losses' = losses + 1
    /\ net_state' = "IDLE"
    /\ UNCHANGED <<nvram, leaving, window, ticks>>

\* ZB_NWK_SIGNAL_NO_ACTIVE_LINKS_LEFT.
LinksLost == OnZboss /\ NoReset /\ Lost

\* ZB_ZDO_SIGNAL_LEAVE hastens the reboot of a requested reset.
HastenReboot ==
    /\ reboot_timer' = (reboot_timer \/ factory_reset_pending)
    /\ UNCHANGED <<ble, factory_reset_pending, reset_cb>>

\* LEAVE because the coordinator removed the device, or after a local reset.
Removed == OnZboss /\ Lost /\ HastenReboot
Left ==
    /\ OnZboss /\ NoLoss /\ HastenReboot
    /\ leaving /\ leaving' = FALSE
    /\ net_state' = "IDLE"
    /\ UNCHANGED <<stack, nvram, window, ticks>>

\* zb_bdb_reset_via_local_action: NVRAM is wiped; LEAVE follows if joined.
ResetViaLocalAction ==
    /\ OnZboss /\ NoLoss
    /\ reset_cb /\ reset_cb' = FALSE
    /\ nvram' = "clean" /\ leaving' = (stack = "joined") /\ stack' = "left"
    /\ UNCHANGED <<net_state, window, ticks, ble, factory_reset_pending, reboot_timer>>

---------------------------------------------------------------------------
(* zigbee_ep_factory_reset, on the BLE command thread.                     *)

\* A second call finds the flag set and returns.
RequestReset ==
    /\ ble = "idle" /\ zboss # "none"
    /\ resets < MaxResets /\ resets' = resets + 1
    /\ factory_reset_pending' = TRUE
    /\ ble' = IF factory_reset_pending THEN "idle" ELSE "schedule"
    /\ UNCHANGED <<zboss, holding, nets, reset_cb, reboot_timer, dfuVars, events, losses, restarts>>

BleStep(from, to) ==
    /\ ble = from /\ ble' = to
    /\ UNCHANGED <<zboss, holding, nets, dfuVars, history>>

ScheduleReset ==
    /\ BleStep("schedule", "fallback")
    /\ reset_cb' = TRUE /\ UNCHANGED <<factory_reset_pending, reboot_timer>>

\* ZBOSS's callback queue is full: the request is given up.
ScheduleFails ==
    /\ BleStep("schedule", "idle")
    /\ factory_reset_pending' = FALSE /\ UNCHANGED <<reset_cb, reboot_timer>>

\* Variant: the reboot is left to the LEAVE signal.
ArmFallbackNever ==
    BleStep("fallback", "idle") /\ UNCHANGED <<factory_reset_pending, reset_cb, reboot_timer>>

ArmFallback ==
    /\ BleStep("fallback", "idle")
    /\ reboot_timer' = TRUE /\ UNCHANGED <<factory_reset_pending, reset_cb>>

\* reboot_work_fn.
RebootWork ==
    /\ reboot_timer /\ worker = "idle" /\ ble = "idle"
    /\ ~(zboss = "ready" /\ reset_cb)
    /\ Reboot
    /\ UNCHANGED history

\* Power loss, or the reset a client asks for after an upload.
Restart ==
    /\ restarts < MaxRestarts /\ restarts' = restarts + 1
    /\ Reboot
    /\ UNCHANGED <<events, resets, losses>>

---------------------------------------------------------------------------
(* dfu_radio_yield_cb, on the MCUmgr thread.                               *)

OnSmp == UNCHANGED <<holding, nets, resetVars, worker, resets, losses, restarts>>
Event == smp = "idle" /\ events < MaxEvents /\ events' = events + 1 /\ UNCHANGED zboss
SmpStep(from, to) == OnSmp /\ smp = from /\ smp' = to /\ UNCHANGED <<uploading, events>>

\* DFU_STARTED: the flag first; the watchdog is armed last, by ArmWatchdog.
DfuStarted ==
    /\ OnSmp /\ Event
    /\ uploading' = TRUE
    /\ IF zboss # "none" /\ ~zboss_dfu_suspended
       THEN smp' = "suspend" /\ zboss_dfu_suspended' = TRUE
       ELSE smp' = "arm" /\ UNCHANGED zboss_dfu_suspended
    /\ UNCHANGED <<watchdog, watchdog_due>>

\* While the workqueue waits for it, the holder runs at the workqueue's priority.
Suspend(next) ==
    /\ SmpStep("suspend", next)
    /\ holding => Preempted /\ worker # "blocked"
    /\ zboss' = "suspended"
    /\ UNCHANGED <<zboss_dfu_suspended, watchdog, watchdog_due>>

\* Variant: the callback returns from the suspension without arming.
SuspendZbossUnguarded == Suspend("idle")
SuspendZboss == Suspend("arm")

\* The end of DFU_STARTED.
ArmWatchdog ==
    /\ SmpStep("arm", "idle")
    /\ watchdog' = TRUE
    /\ UNCHANGED <<zboss, zboss_dfu_suspended, watchdog_due>>

\* DFU_CHUNK_WRITE_COMPLETE and DFU_PENDING.
DfuProgress ==
    /\ OnSmp /\ Event /\ uploading
    /\ watchdog' = TRUE
    /\ UNCHANGED <<smp, uploading, zboss_dfu_suspended, watchdog_due>>

\* DFU_STOPPED: the watchdog is cancelled, queued or not, then ZBOSS resumed.
DfuStopped ==
    /\ OnSmp /\ Event
    /\ smp' = "stop" /\ uploading' = FALSE
    /\ watchdog' = FALSE /\ watchdog_due' = FALSE
    /\ UNCHANGED zboss_dfu_suspended

\* zboss_dfu_resume: the flag, then, if it was set, the thread.
Resumed == IF zboss = "suspended" THEN "ready" ELSE zboss

StopLowersFlag ==
    /\ SmpStep("stop", IF zboss_dfu_suspended THEN "resume" ELSE "idle")
    /\ zboss_dfu_suspended' = FALSE
    /\ UNCHANGED <<zboss, watchdog, watchdog_due>>
StopResumes ==
    /\ SmpStep("resume", "idle")
    /\ zboss' = Resumed
    /\ UNCHANGED <<zboss_dfu_suspended, watchdog, watchdog_due>>

(* dfu_resume_work_fn, on the system workqueue.                            *)
OnWorkqueue == UNCHANGED <<holding, nets, resetVars, smp, uploading, history>>

WatchdogExpires ==
    /\ OnWorkqueue
    /\ watchdog /\ watchdog' = FALSE /\ watchdog_due' = TRUE
    /\ UNCHANGED <<zboss, zboss_dfu_suspended, worker>>

WorkerLowersFlag ==
    /\ OnWorkqueue
    /\ watchdog_due /\ watchdog_due' = FALSE
    /\ worker = "idle" /\ worker' = IF zboss_dfu_suspended THEN "resume" ELSE "idle"
    /\ zboss_dfu_suspended' = FALSE
    /\ UNCHANGED <<zboss, watchdog>>
WorkerResumes ==
    /\ OnWorkqueue
    /\ worker = "resume" /\ worker' = "idle"
    /\ zboss' = Resumed
    /\ UNCHANGED <<zboss_dfu_suspended, watchdog, watchdog_due>>

(* bridge_work and the drain work.                                         *)
BlockedOn(from, to) ==
    /\ OnWorkqueue
    /\ worker = from /\ worker' = to
    /\ UNCHANGED <<zboss, zboss_dfu_suspended, watchdog, watchdog_due>>

WorkerBlocks == holding /\ BlockedOn("idle", "blocked")
WorkerUnblocks == ~holding /\ BlockedOn("blocked", "idle")

---------------------------------------------------------------------------
Signals ==
    \/ \E ok \in BOOLEAN : FirstStart(ok) \/ DeviceReboot(ok)
    \/ SteeringDone \/ LinksLost \/ Removed
ZbossRuns == ZigbeeEnable \/ JoinWindowExpire \/ Left \/ ResetViaLocalAction
Critical == EnterCritical \/ LeaveCritical
BleRuns == ScheduleReset \/ ScheduleFails \/ ArmFallback
SmpRuns == SuspendZboss \/ ArmWatchdog \/ StopLowersFlag \/ StopResumes
WorkqueueRuns == WatchdogExpires \/ WorkerLowersFlag \/ WorkerResumes
Waits == WorkerBlocks \/ WorkerUnblocks

Next ==
    \/ Signals \/ ZbossRuns \/ Critical \/ BleRuns \/ SmpRuns \/ WorkqueueRuns \/ Waits
    \/ RequestReset \/ RebootWork \/ Restart
    \/ DfuStarted \/ DfuProgress \/ DfuStopped

Spec == Init /\ [][Next]_vars

\* Every thread that can run does, and timers expire; which signals the stack
\* raises, and what clients do, is left open.  Both ZBOSS and the workqueue take
\* what is queued in order, so that neither the tick nor bridge_work, which come
\* back every two seconds, keeps the rest from running for ever.
Fairness ==
    /\ SF_vars(ZbossRuns) /\ WF_vars(LeaveCritical) /\ WF_vars(BleRuns) /\ SF_vars(SmpRuns)
    /\ SF_vars(WorkqueueRuns) /\ WF_vars(WorkerUnblocks) /\ SF_vars(RebootWork)

FairSpec == Spec /\ Fairness

---------------------------------------------------------------------------
Places ==
    /\ zboss \in {"none", "ready", "suspended"}
    /\ stack \in {"off", "steering", "joined", "apart", "left"}
    /\ nvram \in {"clean", "network"} /\ net_state \in {"IDLE", "JOINING", "JOINED"}
    /\ ble \in {"idle", "schedule", "fallback"}
    /\ smp \in {"idle", "suspend", "arm", "stop", "resume"}
    /\ worker \in {"idle", "resume", "blocked"}

Flags ==
    /\ {holding, leaving, window} \subseteq BOOLEAN
    /\ {factory_reset_pending, reset_cb, reboot_timer} \subseteq BOOLEAN
    /\ {uploading, zboss_dfu_suspended, watchdog, watchdog_due} \subseteq BOOLEAN

Counts ==
    /\ ticks \in {0, 1}
    /\ events \in 0 .. MaxEvents /\ resets \in 0 .. MaxResets
    /\ losses \in 0 .. MaxLosses /\ restarts \in 0 .. MaxRestarts

TypeOK == Places /\ Flags /\ Counts

\* The flag that says "suspended for an upload" is never left raised with
\* nobody to lower it: an upload callback is under way, or the watchdog is
\* armed or queued, whatever the order of upload events and expiries.
WatchdogCovers ==
    zboss_dfu_suspended => smp \in {"suspend", "arm", "stop"} \/ watchdog \/ watchdog_due

\* The LED's pairing blink ends: while the state is JOINING, the alarm that ends
\* it is armed, across joins, leaves and restarts (zigbee_ep.c:940-950).
JoiningHasDeadline == net_state = "JOINING" => window

\* Publishing runs exactly once per boot from the first start signal on, however
\* often the stack reports a start (zigbee_ep.c:1024).
OnePublishTick == ticks <= 1 /\ (stack \in {"steering", "joined", "apart"} => ticks = 1)

\* ZBOSS was suspended inside a section the workqueue waits for: neither the
\* watchdog nor the reboot work, which share that queue, can end it.
Stuck == zboss = "suspended" /\ holding

\* A reset that was accepted ends in a reboot, even when ZBOSS is suspended or
\* LEAVE never comes, and one that was refused may be asked for again; the one
\* exception is a ZBOSS that stays suspended with a mutex (zigbee_ep.c:1098).
ResetEnds == (factory_reset_pending ~> ~factory_reset_pending) \/ <>[]Stuck

\* The workqueue, on which reception, bridge, watchdog and reboot depend, always
\* gets the mutexes it waits for, with that same exception.
WorkqueueFreed == []<>(worker # "blocked") \/ <>[]Stuck

\* zigbee_ep.c:1048 says an abandoned upload "is caught by a no-activity
\* watchdog that resumes ZBOSS so Zigbee keeps running".
ZbossResumes == zboss = "suspended" ~> zboss # "suspended"
=============================================================================
