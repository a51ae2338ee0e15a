---------------------------- MODULE ZigbeeBridge ----------------------------
(***************************************************************************)
(* From the CS60 broadcast to the Zigbee attributes and back:              *)
(* src/flexit_bridge.c and the latches of src/zigbee_ep.c.                 *)
(*                                                                         *)
(* bridge_work runs on the system workqueue: it snapshots the panel mirror *)
(* and calls one setter after the other, each under pending_lock.          *)
(* publish_tick and the attribute writes of a client run on the ZBOSS      *)
(* thread: the tick takes the latches under the lock and writes the        *)
(* attributes after releasing it.  Time passes in whole units; uptimes are *)
(* kept as ages and countdowns.  Four channels stand for all: temp (with   *)
(* its stale guard), plain (percentages, intake temperature and alarms,    *)
(* whose setters only latch), setpoint and mode.                           *)
(***************************************************************************)
EXTENDS Integers

CONSTANTS
    Cs60States,       \* what the CS60 may do by itself: a value for each channel
    SetpointWrites,   \* setpoints a Zigbee client writes
    FanModeWrites,    \* FanModes a Zigbee client writes
    SETPOINT_MIN, SETPOINT_MAX,
    POLL,             \* bridge and publish period
    HOLD,             \* FLEXIT_SETPOINT_WRITE_HOLD_MS
    STALE,            \* FLEXIT_TEMP_STALE_MS
    LINK_STALE,       \* FLEXIT_CS60_LINK_STALE_MS
    MaxWrites,        \* bound: client writes
    MaxChanges        \* bound: changes of the CS60's own state

Channels == {"temp", "plain", "setpoint", "mode"}
UNKNOWN == -1         \* attribute never written, or the ZCL invalid sentinel
NOTHING == -2         \* no command on its way to the CS60
NEVER == -1

ASSUME TimesAssumption == {POLL, HOLD, STALE, LINK_STALE} \subseteq Nat \ {0} /\ POLL <= STALE
ASSUME BoundsAssumption == MaxWrites \in Nat /\ MaxChanges \in Nat
ASSUME ValuesAssumption ==
    /\ Cs60States \subseteq [Channels -> Nat] /\ SetpointWrites \cup FanModeWrites \subseteq Nat
    /\ SETPOINT_MIN \in Nat /\ SETPOINT_MAX \in Nat /\ SETPOINT_MIN <= SETPOINT_MAX

VARIABLES
    cs60,        \* the CS60's actual reading, setpoint and mode
    mirror,      \* what the last FC10 broadcast said
    unpushed,    \* fc10_frames # pushed_fc10_frames
    fc10_age,    \* time since that broadcast, up to AgeCap; AgeCap also before the first
    bridge, snap, bridge_in,    \* next setter, its snapshot, time to the next run
    latch, dirty, hold,         \* struct pending; hold: setpoint_hold_until - now
    temp_age,                   \* now - temp_last_ms, up to STALE + 1; NEVER when that is 0
    tick, taken, tick_in,       \* publish_tick's step, its local copies, time to the next
    temp_stale,
    attr, link,                 \* the attributes clients see; the link-state input
    command,                    \* by slot, the command on its way to the CS60
    bridged,                    \* flexit_bridge_init has registered the handlers
    written,                    \* history: the setpoint a client wrote last
    writes, changes             \* history: how many of each so far

AgeCap == STALE + LINK_STALE + 4 * POLL
world == <<cs60, changes>>
mirrorVars == <<mirror, unpushed, fc10_age>>
bridgeVars == <<bridge, snap, bridge_in, bridged>>
latchVars == <<latch, dirty, hold, temp_age>>
tickVars == <<tick, taken, tick_in, temp_stale, attr, link>>
writeVars == <<command, written, writes>>
vars == <<world, mirrorVars, bridgeVars, latchVars, tickVars, writeVars>>

Lesser(m, n) == IF m < n THEN m ELSE n
Older(age, cap) == Lesser(age + 1, cap)
Sooner(n) == IF n = 0 THEN 0 ELSE n - 1

\* The mirror and the latches start zeroed.
Zeroed == [c \in Channels |-> 0]

Init ==
    /\ cs60 \in Cs60States /\ changes = 0
    /\ mirror = Zeroed /\ unpushed = FALSE /\ fc10_age = AgeCap
    /\ bridge = "idle" /\ snap = Zeroed /\ bridge_in = POLL /\ bridged = FALSE
    /\ latch = Zeroed /\ dirty = [c \in Channels |-> FALSE] /\ hold = 0
    /\ temp_age = NEVER
    /\ tick = "idle" /\ taken = [val |-> Zeroed, dirty |-> dirty, age |-> NEVER] /\ tick_in = POLL
    /\ temp_stale = TRUE
    /\ attr = [temp |-> UNKNOWN, plain |-> UNKNOWN, setpoint |-> UNKNOWN, mode |-> 0]
    /\ link = "none"
    /\ command = [c \in {"setpoint", "mode"} |-> NOTHING]
    /\ written = NOTHING /\ writes = 0

---------------------------------------------------------------------------
(* The CS60 (external).                                                    *)

Cs60Changes ==
    /\ changes < MaxChanges
    /\ cs60' \in Cs60States /\ changes' = changes + 1
    /\ UNCHANGED <<mirrorVars, bridgeVars, latchVars, tickVars, writeVars>>

\* An FC10 broadcast is decoded by the panel mirror.  The drain work that feeds it
\* and bridge_work share the workqueue thread: never between two setters.
Broadcast ==
    /\ bridge = "idle"
    /\ mirror' = cs60 /\ unpushed' = TRUE /\ fc10_age' = 0
    /\ UNCHANGED <<world, bridgeVars, latchVars, tickVars, writeVars>>

\* The slave's exchange ends: the CS60 adopts the command or it is lost.
CommandEnds(c) ==
    /\ command[c] # NOTHING
    /\ command' = [command EXCEPT ![c] = NOTHING]
    /\ cs60' \in {cs60, [cs60 EXCEPT ![c] = command[c]]}
    /\ UNCHANGED <<changes, mirrorVars, bridgeVars, latchVars, tickVars, written, writes>>

---------------------------------------------------------------------------
(* flexit_bridge.c                                                         *)

BridgeInit ==
    /\ ~bridged /\ bridged' = TRUE
    /\ bridge_in' = POLL
    /\ UNCHANGED <<world, mirrorVars, bridge, snap, latchVars, tickVars, writeVars>>

Rearmed(pushing) == IF pushing THEN bridge_in' = 0 ELSE bridge_in' = POLL

\* Variant: every run pushes the snapshot, new or not.
BridgeRunAlwaysPushes ==
    /\ bridged /\ bridge = "idle" /\ bridge_in = 0
    /\ snap' = mirror /\ unpushed' = FALSE
    /\ bridge' = IF fc10_age < AgeCap THEN "temp" ELSE "idle"
    /\ Rearmed(fc10_age < AgeCap)
    /\ UNCHANGED <<world, mirror, fc10_age, bridged, latchVars, tickVars, writeVars>>

\* bridge_work_fn up to its first setter.
BridgeRun ==
    /\ bridged /\ bridge = "idle" /\ bridge_in = 0
    /\ snap' = mirror /\ unpushed' = FALSE
    /\ bridge' = IF unpushed THEN "temp" ELSE "idle"
    /\ Rearmed(unpushed)
    /\ UNCHANGED <<world, mirror, fc10_age, bridged, latchVars, tickVars, writeVars>>

After(c) == CASE c = "temp" -> "plain" [] c = "plain" -> "setpoint"
              [] c = "setpoint" -> "mode" [] c = "mode" -> "idle"

\* A setter that latches c, or does not; after the last the work is rearmed.
Setter(c, latches) ==
    /\ bridge = c /\ bridge' = After(c)
    /\ IF latches
       THEN /\ latch' = [latch EXCEPT ![c] = snap[c]]
            /\ dirty' = [dirty EXCEPT ![c] = TRUE]
            /\ temp_age' = IF c = "temp" THEN 0 ELSE temp_age
       ELSE UNCHANGED <<latch, dirty, temp_age>>
    /\ Rearmed(c # "mode")
    /\ UNCHANGED <<world, mirrorVars, snap, bridged, hold, tickVars, writeVars>>

SetTemperature == Setter("temp", TRUE)

\* Variant: a reading that waits to be published is kept.
SetPlainWhenClear == Setter("plain", ~dirty["plain"])
SetPlain == Setter("plain", TRUE)

\* Variant: the hold blocks readback for good once a client has written.
SetSetpointHeldForGood == Setter("setpoint", written = NOTHING)
SetSetpoint == Setter("setpoint", hold = 0)

\* Variant: only a mode that differs from the last latched one is latched.
SetModeOnChange == Setter("mode", snap["mode"] <= 3 /\ snap["mode"] # latch["mode"])
\* Variant: without the guard on the modes FanMode cannot show.
SetModeAny == Setter("mode", TRUE)
SetMode == Setter("mode", snap["mode"] <= 3)

---------------------------------------------------------------------------
(* zigbee_ep.c, on the ZBOSS thread.                                       *)

Idle == tick = "idle"

\* The attribute takes the value, then the callback runs: above High it is
\* ignored, before flexit_bridge_init it goes nowhere.
WriteFanMode(v) ==
    /\ Idle /\ writes < MaxWrites /\ writes' = writes + 1
    /\ attr' = [attr EXCEPT !["mode"] = v]
    /\ command' = IF v <= 3 /\ bridged THEN [command EXCEPT !["mode"] = v] ELSE command
    /\ UNCHANGED <<world, mirrorVars, bridgeVars, latchVars, tick, taken, tick_in, temp_stale,
                   link, written>>

Clamp(v) == IF v < SETPOINT_MIN THEN SETPOINT_MIN ELSE Lesser(v, SETPOINT_MAX)

WriteSetpoint(v) ==
    /\ Idle /\ writes < MaxWrites /\ writes' = writes + 1
    /\ attr' = [attr EXCEPT !["setpoint"] = v]
    /\ written' = v
    /\ hold' = HOLD
    /\ command' = IF bridged THEN [command EXCEPT !["setpoint"] = Clamp(v)] ELSE command
    /\ UNCHANGED <<world, mirrorVars, bridgeVars, latch, dirty, temp_age, tick, taken, tick_in,
                   temp_stale, link>>

\* publish_tick under pending_lock.
TickTake ==
    /\ Idle /\ tick_in = 0
    /\ tick' = "publish"
    /\ taken' = [val |-> latch, dirty |-> dirty, age |-> temp_age]
    /\ dirty' = [c \in Channels |-> FALSE]
    /\ UNCHANGED <<world, mirrorVars, bridgeVars, latch, hold, temp_age, tick_in, temp_stale,
                   attr, link, writeVars>>

GoesStale == ~taken.dirty["temp"] /\ ~temp_stale /\ taken.age > STALE
LinkUp == fc10_age <= LINK_STALE

\* The attribute writes of publish_tick, given its local copies.
Publish(cleared, linkUp) ==
    /\ tick = "publish" /\ tick' = "idle" /\ tick_in' = POLL
    /\ attr' = [c \in Channels |->
                  IF taken.dirty[c] THEN taken.val[c]
                  ELSE IF c = "temp" /\ GoesStale THEN UNKNOWN
                  ELSE attr[c]]
    /\ temp_stale' = (GoesStale \/ (temp_stale /\ ~taken.dirty["temp"]))
    /\ link' = IF linkUp THEN "up" ELSE "down"
    /\ dirty' = [c \in Channels |-> dirty[c] /\ c \notin cleared]
    /\ UNCHANGED <<world, mirrorVars, bridgeVars, latch, hold, temp_age, taken, writeVars>>

\* Variants: the dirty flags are cleared only now; the link state is published
\* when a broadcast was ever seen.
TickPublishClears == Publish(Channels, LinkUp)
TickPublishEverUp == Publish({}, fc10_age < AgeCap)

TickPublish == Publish({}, LinkUp)

---------------------------------------------------------------------------
\* Nothing that is due waits: main goes straight on to flexit_bridge_init, and
\* both periodic jobs run in the unit they are due.
Due == ~bridged \/ bridge_in = 0 \/ tick_in = 0

Time ==
    /\ ~Due
    /\ fc10_age' = Older(fc10_age, AgeCap)
    /\ temp_age' = IF temp_age = NEVER THEN NEVER ELSE Older(temp_age, STALE + 1)
    /\ hold' = Sooner(hold)
    /\ bridge_in' = Sooner(bridge_in)
    /\ tick_in' = Sooner(tick_in)
    /\ UNCHANGED <<world, mirror, unpushed, bridge, snap, bridged, latch, dirty, tick, taken,
                   temp_stale, attr, link, writeVars>>

BridgeStep == BridgeInit \/ BridgeRun \/ SetTemperature \/ SetPlain \/ SetSetpoint \/ SetMode
TickStep == TickTake \/ TickPublish
ClientStep == \/ \E v \in FanModeWrites : WriteFanMode(v)
              \/ \E v \in SetpointWrites : WriteSetpoint(v)

Next ==
    \/ Cs60Changes \/ Broadcast \/ \E c \in {"setpoint", "mode"} : CommandEnds(c)
    \/ BridgeStep \/ TickStep \/ ClientStep \/ Time

Spec == Init /\ [][Next]_vars

\* The workqueue and the ZBOSS thread run what is due, the CS60 keeps
\* broadcasting and concludes every exchange, and time passes.
Fairness ==
    /\ WF_vars(BridgeStep) /\ WF_vars(TickStep) /\ WF_vars(Time)
    /\ WF_vars(Broadcast /\ ~unpushed) /\ \A c \in {"setpoint", "mode"} : WF_vars(CommandEnds(c))

FairSpec == Spec /\ Fairness

---------------------------------------------------------------------------
Numbers == {s[c] : s \in Cs60States, c \in Channels} \cup SetpointWrites \cup FanModeWrites
           \cup {0, UNKNOWN, NOTHING, SETPOINT_MIN, SETPOINT_MAX}

\* What reaches the slave is in range: no mode above High and no setpoint that was
\* not clamped, whatever a client writes (zigbee_ep.c:595, :622-627).
TypeOK ==
    /\ cs60 \in [Channels -> Numbers] /\ changes \in 0 .. MaxChanges
    /\ mirror \in [Channels -> Numbers] /\ unpushed \in BOOLEAN /\ fc10_age \in 0 .. AgeCap
    /\ bridge \in Channels \cup {"idle"} /\ snap \in [Channels -> Numbers]
    /\ bridge_in \in 0 .. POLL /\ bridged \in BOOLEAN
    /\ latch \in [Channels -> Numbers] /\ latch["mode"] \in 0 .. 3
    /\ dirty \in [Channels -> BOOLEAN]
    /\ hold \in 0 .. HOLD /\ temp_age \in {NEVER} \cup 0 .. STALE + 1
    /\ tick \in {"idle", "publish"} /\ tick_in \in 0 .. POLL
    /\ taken \in [val : [Channels -> Numbers], dirty : [Channels -> BOOLEAN],
                  age : {NEVER} \cup 0 .. STALE + 1]
    /\ temp_stale \in BOOLEAN
    /\ attr \in [Channels -> Numbers] /\ link \in {"none", "up", "down"}
    /\ command \in [{"setpoint", "mode"} -> Numbers]
    /\ command["setpoint"] \in {NOTHING} \cup SETPOINT_MIN .. SETPOINT_MAX
    /\ command["mode"] \in {NOTHING} \cup 0 .. 3
    /\ written \in Numbers /\ writes \in 0 .. MaxWrites

\* When the CS60 has been silent for the stale window, plus one bridge and one
\* publish period, clients see the temperature as unknown and never a frozen
\* last reading (flexit_bridge.c:64).
SilenceShown == fc10_age > STALE + 2 * POLL => attr["temp"] = UNKNOWN

\* The published link state follows the CS60 within one publish period.
LinkLossShown == fc10_age > LINK_STALE + POLL => link # "up"

\* A fresh temperature or plain reading is on its way to the attributes.
Coming(c) == dirty[c] \/ (tick = "publish" /\ taken.dirty[c])

\* What a setter latched is on its way or visible, or has gone stale since: no
\* reading gets lost between bridge_work and publish_tick, however they
\* interleave.
NoLostLatch ==
    \A c \in {"temp", "plain"} :
        latch[c] # 0 => Coming(c) \/ attr[c] = latch[c] \/ (c = "temp" /\ temp_stale)

\* What the CS60 broadcast last is what clients see once a bridge and a publish
\* period have passed without a newer one, although publish_tick clears the dirty
\* flags before it writes the attributes (zigbee_ep.c:690-700) and setters latch in
\* between; a temperature is shown or, after the stale window, unknown.
BroadcastShown ==
    fc10_age \in 2 * POLL + 1 .. AgeCap - 1 =>
        /\ attr["plain"] = mirror["plain"]
        /\ attr["temp"] \in {mirror["temp"], UNKNOWN}

\* Once clients and the CS60 stop changing it, the setpoint clients see becomes
\* the one the CS60 uses, whether a written value was adopted, clamped, lost
\* or written before the bridge was ready.
SetpointConverges == <>[](attr["setpoint"] = cs60["setpoint"])

\* So does the fan mode, which has no write hold: a value written, refused or
\* overwritten by an older latched reading comes back to the CS60's mode, unless
\* that is one FanMode cannot show (flexit_bridge.c:105).
FanModeConverges == <>[](attr["mode"] = cs60["mode"] \/ cs60["mode"] > 3)

\* zigbee_ep.c:83 says the hold keeps "the just-written value" from being
\* "transiently overwritten by the (still old) committed reading".
WriteNotOverwritten == hold > 0 => attr["setpoint"] = written
=============================================================================
