------------------------- MODULE ZigbeeBridgeProofs -------------------------
(***************************************************************************)
(* What holds of ZigbeeBridge for any values, periods and windows: types,  *)
(* no latched reading is lost, how late the attributes may show what the   *)
(* CS60 broadcast, or that it is silent, and what it takes for a client's  *)
(* setpoint to stand during the write hold.                                *)
(***************************************************************************)
EXTENDS ZigbeeBridge, TLAPS

NatValues ==
    /\ cs60 \in [Channels -> Nat] /\ mirror \in [Channels -> Nat]
    /\ snap \in [Channels -> Nat] /\ latch \in [Channels -> Nat]
    /\ \A c \in {"setpoint", "mode"} : command[c] # NOTHING => command[c] \in Nat

---------------------------------------------------------------------------
(* Types.                                                                  *)

LEMMA NumbersHold ==
    /\ Cs60States \subseteq [Channels -> Numbers]
    /\ SetpointWrites \subseteq Numbers /\ FanModeWrites \subseteq Numbers
    /\ {0, UNKNOWN, NOTHING, SETPOINT_MIN, SETPOINT_MAX} \subseteq Numbers
<1>1. ASSUME NEW s \in Cs60States PROVE s \in [Channels -> Numbers]
  BY ValuesAssumption DEF Numbers
<1> QED
  BY <1>1 DEF Numbers

LEMMA AgeCapIsNat == AgeCap \in Nat /\ AgeCap >= STALE /\ AgeCap >= LINK_STALE
BY TimesAssumption DEF AgeCap

\* What the CS60 and the panel mirror hold.
LEMMA WorldStep ==
    ASSUME TypeOK, NatValues, [Next]_vars
    PROVE  /\ cs60' \in [Channels -> Numbers] /\ cs60' \in [Channels -> Nat]
           /\ changes' \in 0 .. MaxChanges
           /\ mirror' \in [Channels -> Numbers] /\ mirror' \in [Channels -> Nat]
           /\ unpushed' \in BOOLEAN /\ fc10_age' \in 0 .. AgeCap
<1> USE AgeCapIsNat DEF TypeOK, NatValues
<1>1. CASE UNCHANGED <<world, mirrorVars>>
  BY <1>1 DEF world, mirrorVars
<1>2. CASE Cs60Changes
  BY <1>2, NumbersHold, ValuesAssumption, BoundsAssumption DEF Cs60Changes, mirrorVars
<1>3. CASE Broadcast
  BY <1>3 DEF Broadcast, world
<1>4. ASSUME NEW c \in {"setpoint", "mode"}, CommandEnds(c)
      PROVE  /\ cs60' \in [Channels -> Numbers] /\ cs60' \in [Channels -> Nat]
             /\ UNCHANGED <<changes, mirrorVars>>
  BY <1>4 DEF CommandEnds, Channels
<1>5. CASE BridgeRun
  BY <1>5 DEF BridgeRun, world
<1>6. CASE Time
  BY <1>6 DEF Time, world, Older, Lesser
<1>7. CASE \E c \in {"setpoint", "mode"} : CommandEnds(c)
  BY <1>4, <1>7 DEF mirrorVars
<1> QED
  BY <1>1, <1>2, <1>3, <1>5, <1>6, <1>7
  DEF Next, BridgeStep, BridgeInit, SetTemperature, SetPlain, SetSetpoint, SetMode, Setter,
      TickStep, TickTake, TickPublish, Publish, ClientStep, WriteFanMode, WriteSetpoint, vars

\* The bridge and the latches.
LEMMA BridgeKeepsTypes ==
    ASSUME TypeOK, NatValues, [Next]_vars
    PROVE  /\ bridge' \in Channels \cup {"idle"} /\ bridge_in' \in 0 .. POLL /\ bridged' \in BOOLEAN
           /\ snap' \in [Channels -> Numbers] /\ snap' \in [Channels -> Nat]
           /\ latch' \in [Channels -> Numbers] /\ latch' \in [Channels -> Nat]
           /\ latch'["mode"] \in 0 .. 3
           /\ dirty' \in [Channels -> BOOLEAN]
           /\ hold' \in 0 .. HOLD /\ temp_age' \in {NEVER} \cup 0 .. STALE + 1
<1> USE TimesAssumption DEF TypeOK, NatValues, NEVER
<1>1. CASE UNCHANGED <<bridgeVars, latchVars>>
  BY <1>1 DEF bridgeVars, latchVars
<1>2. CASE BridgeInit
  BY <1>2 DEF BridgeInit, latchVars
<1>3. CASE BridgeRun
  BY <1>3 DEF BridgeRun, Rearmed, latchVars, Channels
<1>4. ASSUME NEW c \in Channels, NEW b \in BOOLEAN, Setter(c, b), c = "mode" /\ b => snap[c] <= 3
      PROVE  /\ bridge' \in Channels \cup {"idle"} /\ bridge_in' \in 0 .. POLL
             /\ latch' \in [Channels -> Numbers] /\ latch' \in [Channels -> Nat]
             /\ latch'["mode"] \in 0 .. 3
             /\ dirty' \in [Channels -> BOOLEAN]
             /\ temp_age' \in {NEVER} \cup 0 .. STALE + 1
             /\ UNCHANGED <<bridged, snap, hold>>
  <2>1. bridge' \in Channels \cup {"idle"}
    BY <1>4 DEF Setter, After, Channels
  <2>2. bridge_in' \in 0 .. POLL
    BY <1>4 DEF Setter, Rearmed
  <2>3. CASE b
    <3>1. latch' = [latch EXCEPT ![c] = snap[c]] /\ dirty' = [dirty EXCEPT ![c] = TRUE]
      BY <1>4, <2>3 DEF Setter
    <3>2. latch' \in [Channels -> Numbers] /\ latch' \in [Channels -> Nat]
      BY <3>1
    <3>3. latch'["mode"] \in 0 .. 3
      BY <1>4, <2>3, <3>1 DEF Channels
    <3>4. dirty' \in [Channels -> BOOLEAN]
      BY <3>1
    <3> QED
      BY <1>4, <2>1, <2>2, <2>3, <3>2, <3>3, <3>4 DEF Setter
  <2>4. CASE ~b
    BY <1>4, <2>1, <2>2, <2>4 DEF Setter
  <2> QED
    BY <2>3, <2>4
<1>5. CASE SetTemperature \/ SetPlain \/ SetSetpoint \/ SetMode
  <2>1. (hold = 0) \in BOOLEAN /\ (snap["mode"] <= 3) \in BOOLEAN
    OBVIOUS
  <2>2. {"temp", "plain", "setpoint", "mode"} \subseteq Channels
    BY DEF Channels
  <2>3. CASE SetTemperature \/ SetPlain
    BY <1>4, <2>2, <2>3 DEF SetTemperature, SetPlain
  <2>4. CASE SetSetpoint
    BY <1>4, <2>1, <2>2, <2>4 DEF SetSetpoint
  <2>5. CASE SetMode
    <3>1. CASE snap["mode"] <= 3
      BY <1>4, <2>1, <2>2, <2>5, <3>1 DEF SetMode
    <3>2. CASE ~(snap["mode"] <= 3)
      <4>1. Setter("mode", FALSE)
        BY <2>5, <3>2 DEF SetMode, Setter
      <4> QED
        BY <1>4, <2>2, <4>1
    <3> QED
      BY <3>1, <3>2
  <2> QED
    BY <1>5, <2>3, <2>4, <2>5
<1>6. CASE \E v \in SetpointWrites : WriteSetpoint(v)
  BY <1>6 DEF WriteSetpoint, bridgeVars
<1>7. CASE TickTake
  BY <1>7 DEF TickTake, bridgeVars
<1>8. CASE TickPublish
  BY <1>8 DEF TickPublish, Publish, bridgeVars
<1>9. CASE Time
  BY <1>9 DEF Time, Older, Lesser, Sooner
<1> QED
  BY <1>1, <1>2, <1>3, <1>5, <1>6, <1>7, <1>8, <1>9
  DEF Next, BridgeStep, TickStep, ClientStep, WriteFanMode, Cs60Changes, Broadcast, CommandEnds, vars

\* The attributes, the tick and the commands.
LEMMA ClientsSeeTypes ==
    ASSUME TypeOK, NatValues, [Next]_vars
    PROVE  /\ tick' \in {"idle", "publish"} /\ tick_in' \in 0 .. POLL
           /\ taken' \in [val : [Channels -> Numbers], dirty : [Channels -> BOOLEAN],
                          age : {NEVER} \cup 0 .. STALE + 1]
           /\ temp_stale' \in BOOLEAN
           /\ attr' \in [Channels -> Numbers] /\ link' \in {"none", "up", "down"}
           /\ command' \in [{"setpoint", "mode"} -> Numbers]
           /\ command'["setpoint"] \in {NOTHING} \cup SETPOINT_MIN .. SETPOINT_MAX
           /\ command'["mode"] \in {NOTHING} \cup 0 .. 3
           /\ \A c \in {"setpoint", "mode"} : command'[c] # NOTHING => command'[c] \in Nat
           /\ written' \in Numbers /\ writes' \in 0 .. MaxWrites
<1> USE TimesAssumption, NumbersHold, ValuesAssumption, BoundsAssumption DEF TypeOK, NatValues
<1>1. CASE UNCHANGED <<tickVars, writeVars>>
  BY <1>1 DEF tickVars, writeVars
<1>2. CASE \E c \in {"setpoint", "mode"} : CommandEnds(c)
  BY <1>2 DEF CommandEnds, tickVars
<1>3. CASE \E v \in FanModeWrites : WriteFanMode(v)
  BY <1>3 DEF WriteFanMode, Channels
<1>4. ASSUME NEW v \in SetpointWrites
      PROVE  Clamp(v) \in Numbers /\ Clamp(v) \in Nat /\ Clamp(v) \in SETPOINT_MIN .. SETPOINT_MAX
  BY <1>4 DEF Clamp, Lesser
<1>5. CASE \E v \in SetpointWrites : WriteSetpoint(v)
  BY <1>4, <1>5 DEF WriteSetpoint, Channels
<1>6. CASE TickTake
  BY <1>6 DEF TickTake, writeVars
<1>7. CASE TickPublish
  <2>1. attr' \in [Channels -> Numbers]
    BY <1>7 DEF TickPublish, Publish
  <2>2. temp_stale' \in BOOLEAN /\ link' \in {"none", "up", "down"}
    BY <1>7 DEF TickPublish, Publish
  <2> QED
    BY <1>7, <2>1, <2>2 DEF TickPublish, Publish, writeVars
<1>8. CASE Time
  BY <1>8 DEF Time, writeVars, Sooner
<1> QED
  BY <1>1, <1>2, <1>3, <1>5, <1>6, <1>7, <1>8
  DEF Next, BridgeStep, BridgeInit, BridgeRun, SetTemperature, SetPlain, SetSetpoint, SetMode,
      Setter, TickStep, ClientStep, Cs60Changes, Broadcast, vars

\* Types, for any readings, writes and periods: a mode that FanMode cannot show
\* never reaches the latch.
LEMMA TypesHold == Spec => [](TypeOK /\ NatValues)
<1>1. Init => TypeOK /\ NatValues
  <2> SUFFICES ASSUME Init PROVE TypeOK /\ NatValues
    OBVIOUS
  <2> USE TimesAssumption, NumbersHold, ValuesAssumption, BoundsAssumption, AgeCapIsNat DEF Init
  <2>1. cs60 \in [Channels -> Nat] /\ cs60 \in [Channels -> Numbers]
    OBVIOUS
  <2>2. Zeroed \in [Channels -> Numbers] /\ Zeroed \in [Channels -> Nat] /\ Zeroed["mode"] = 0
    BY DEF Zeroed, Channels
  <2>3. attr \in [Channels -> Numbers]
    BY DEF Channels
  <2>4. dirty \in [Channels -> BOOLEAN]
    OBVIOUS
  <2>5. taken \in [val : [Channels -> Numbers], dirty : [Channels -> BOOLEAN],
                   age : {NEVER} \cup 0 .. STALE + 1]
    BY <2>2, <2>4
  <2>6. /\ command \in [{"setpoint", "mode"} -> Numbers]
        /\ command["setpoint"] = NOTHING /\ command["mode"] = NOTHING
    OBVIOUS
  <2>7. /\ changes \in 0 .. MaxChanges /\ fc10_age \in 0 .. AgeCap
        /\ bridge_in \in 0 .. POLL /\ tick_in \in 0 .. POLL
        /\ hold \in 0 .. HOLD /\ writes \in 0 .. MaxWrites
    OBVIOUS
  <2>8. NatValues
    BY <2>1, <2>2 DEF NatValues
  <2> QED
    <3>1. /\ cs60 \in [Channels -> Numbers] /\ mirror \in [Channels -> Numbers]
          /\ snap \in [Channels -> Numbers] /\ latch \in [Channels -> Numbers]
          /\ latch["mode"] \in 0 .. 3
      BY <2>1, <2>2
    <3>2. /\ bridge \in Channels \cup {"idle"} /\ tick \in {"idle", "publish"}
          /\ temp_age \in {NEVER} \cup 0 .. STALE + 1
          /\ link \in {"none", "up", "down"} /\ written \in Numbers
          /\ {unpushed, bridged, temp_stale} \subseteq BOOLEAN
      OBVIOUS
    <3> QED
      BY <2>3, <2>4, <2>5, <2>6, <2>7, <2>8, <3>1, <3>2 DEF TypeOK
<1>2. TypeOK /\ NatValues /\ [Next]_vars => TypeOK' /\ NatValues'
  BY WorldStep, BridgeKeepsTypes, ClientsSeeTypes DEF TypeOK, NatValues
<1> QED
  BY <1>1, <1>2, PTL DEF Spec

\* The state keeps its types for any readings, writes, periods and windows; a
\* mode that FanMode cannot show never reaches the latch, and no command out of
\* range the slave.
THEOREM TypeCorrect == Spec => []TypeOK
BY TypesHold, PTL
---------------------------------------------------------------------------
(* How late the attributes are.                                            *)

Known == fc10_age < AgeCap  \* a broadcast was decoded, and not too long ago
Read == {"temp", "plain"}

\* The bridge pushes a broadcast at most a period after it came.  While it pushes
\* no time passes and none is decoded.
Pushing ==
    /\ ~bridged => bridge = "idle" /\ bridge_in = POLL
    /\ bridge # "idle" => bridge_in = 0 /\ fc10_age <= POLL
    /\ bridge # "idle" => ~unpushed
    /\ unpushed => fc10_age + bridge_in <= POLL

\* The setter of c has not run on the snapshot yet.
Ahead(c) == bridge = "temp" \/ (c = "plain" /\ bridge = "plain")

\* What was broadcast is in the mirror, then in the snapshot, then latched.
Latched ==
    Known /\ ~unpushed =>
        /\ snap = mirror
        /\ \A c \in Read : Ahead(c) \/ latch[c] = mirror[c]

\* What is latched is marked, taken or shown.
Shown ==
    \A c \in Read :
        latch[c] # 0 \/ (Known /\ ~unpushed /\ ~Ahead(c)) =>
            Coming(c) \/ attr[c] = latch[c] \/ (c = "temp" /\ temp_stale)

\* The next tick takes what is marked; no time passes while it publishes, and
\* what was latched again meanwhile belongs to a broadcast of this very period.
Marked ==
    /\ tick = "publish" => tick_in = 0
    /\ \A c \in Read :
         /\ dirty[c] => fc10_age + tick_in <= 2 * POLL
         /\ tick = "publish" /\ dirty[c] => fc10_age <= POLL
         /\ tick = "publish" /\ taken.dirty[c] => fc10_age <= 2 * POLL
         /\ tick = "publish" /\ taken.dirty[c] /\ ~dirty[c] => taken.val[c] = latch[c]

\* The age of the temperature is the broadcast's, up to a period.
Aged ==
    /\ dirty["temp"] \/ ~temp_stale => temp_age # NEVER
    /\ tick = "publish" /\ (taken.dirty["temp"] \/ ~temp_stale) => taken.age # NEVER
    /\ temp_age # NEVER /\ temp_age <= STALE => fc10_age <= temp_age + POLL
    /\ tick = "publish" /\ taken.age # NEVER => temp_age # NEVER /\ temp_age <= taken.age

\* A temperature that is shown gets older only until the tick that finds it stale.
Fresh ==
    /\ temp_stale => attr["temp"] = UNKNOWN
    /\ attr["temp"] # UNKNOWN => fc10_age + tick_in <= STALE + 2 * POLL

LinkFollows == link = "up" => fc10_age + tick_in <= LINK_STALE + POLL

BridgeInv == Pushing /\ Latched /\ Shown /\ Marked /\ Aged /\ Fresh /\ LinkFollows

\* A client's write, the CS60 and the end of a command touch none of this.
Quiet ==
    UNCHANGED <<mirrorVars, bridgeVars, latch, dirty, temp_age, tick, taken, tick_in, temp_stale,
                link, attr["temp"], attr["plain"]>>

LEMMA OthersAreQuiet ==
    ASSUME TypeOK, Cs60Changes \/ (\E c \in {"setpoint", "mode"} : CommandEnds(c)) \/ ClientStep \/ UNCHANGED vars
    PROVE  Quiet
<1> USE DEF Quiet, TypeOK, Channels
<1>1. CASE Cs60Changes \/ \E c \in {"setpoint", "mode"} : CommandEnds(c)
  BY <1>1 DEF Cs60Changes, CommandEnds, bridgeVars, mirrorVars, latchVars, tickVars
<1>2. CASE ClientStep
  BY <1>2 DEF ClientStep, WriteFanMode, WriteSetpoint, bridgeVars, mirrorVars, latchVars
<1>3. CASE UNCHANGED vars
  BY <1>3 DEF vars, bridgeVars, mirrorVars, latchVars, tickVars
<1> QED
  BY <1>1, <1>2, <1>3

LEMMA QuietStep ==
    ASSUME BridgeInv, Quiet
    PROVE  BridgeInv'
BY DEF Quiet, BridgeInv, Pushing, Latched, Shown, Marked, Aged, Fresh, LinkFollows, Known, Ahead,
       Read, Coming, mirrorVars, bridgeVars

LEMMA BroadcastStep ==
    ASSUME TypeOK, BridgeInv, Broadcast
    PROVE  BridgeInv'
<1> USE AgeCapIsNat, TimesAssumption DEF TypeOK, Broadcast, bridgeVars, latchVars, tickVars
<1>1. Pushing' /\ Latched'
  BY DEF BridgeInv, Pushing, Latched
<1>2. Shown'
  BY DEF BridgeInv, Shown, Coming, Read
<1>3. Marked'
  BY DEF BridgeInv, Marked, Read
<1>4. Aged'
  BY DEF BridgeInv, Aged, NEVER
<1>5. Fresh' /\ LinkFollows'
  BY DEF BridgeInv, Fresh, LinkFollows
<1> QED
  BY <1>1, <1>2, <1>3, <1>4, <1>5 DEF BridgeInv

LEMMA RunStep ==
    ASSUME TypeOK, NatValues, BridgeInv, BridgeInit \/ BridgeRun
    PROVE  BridgeInv'
<1> USE AgeCapIsNat, TimesAssumption DEF TypeOK, mirrorVars, latchVars, tickVars
<1>1. CASE BridgeInit
  <2> USE <1>1 DEF BridgeInit
  <2>1. Pushing'
    BY DEF BridgeInv, Pushing
  <2>2. Latched' /\ Shown'
    BY DEF BridgeInv, Latched, Shown, Known, Ahead, Coming, Read
  <2>3. Marked' /\ Aged' /\ Fresh' /\ LinkFollows'
    BY DEF BridgeInv, Marked, Aged, Fresh, LinkFollows, Read
  <2> QED
    BY <2>1, <2>2, <2>3 DEF BridgeInv
<1>2. CASE BridgeRun
  <2> USE <1>2 DEF BridgeRun, Rearmed
  <2>1. Pushing'
    BY DEF BridgeInv, Pushing
  <2>2. Latched' /\ Shown'
    BY DEF BridgeInv, Latched, Shown, Known, Ahead, Coming, Read
  <2>3. Marked' /\ Aged' /\ Fresh' /\ LinkFollows'
    BY DEF BridgeInv, Marked, Aged, Fresh, LinkFollows, Read
  <2> QED
    BY <2>1, <2>2, <2>3 DEF BridgeInv
<1> QED
  BY <1>1, <1>2

LEMMA SetterStep ==
    ASSUME TypeOK, NatValues, BridgeInv, NEW c \in Channels, NEW b \in BOOLEAN,
           Setter(c, b), c \in Read => b
    PROVE  BridgeInv'
<1> USE AgeCapIsNat, TimesAssumption
    DEF TypeOK, Setter, Rearmed, mirrorVars, tickVars, writeVars, Channels
<1>1. Pushing'
  BY DEF BridgeInv, Pushing, After
<1>2. UNCHANGED <<latch, dirty, temp_age>> \/
      /\ latch' = [latch EXCEPT ![c] = snap[c]]
      /\ dirty' = [dirty EXCEPT ![c] = TRUE]
      /\ temp_age' = IF c = "temp" THEN 0 ELSE temp_age
  OBVIOUS
<1>3. \A d \in Read : d # c => latch'[d] = latch[d] /\ dirty'[d] = dirty[d]
  BY <1>2 DEF Read
<1>4. c \in Read => latch'[c] = snap[c] /\ dirty'[c] = TRUE
  BY DEF Read
<1>5. \A d \in Read : Ahead(d)' => Ahead(d)
  BY DEF Ahead, After, Read
<1>6. \A d \in Read : Ahead(d) /\ ~Ahead(d)' => d = c
  BY DEF Ahead, After, Read
<1>7. Latched'
  <2> SUFFICES ASSUME Known, ~unpushed PROVE snap = mirror /\ \A d \in Read : Ahead(d)' \/ latch'[d] = mirror[d]
    BY DEF Latched, Known
  <2> QED
    BY <1>3, <1>4, <1>5, <1>6 DEF BridgeInv, Latched
<1>8. Shown'
  <2> SUFFICES ASSUME NEW d \in Read, latch'[d] # 0 \/ (Known /\ ~unpushed /\ ~Ahead(d)')
               PROVE  Coming(d)' \/ attr[d] = latch'[d] \/ (d = "temp" /\ temp_stale)
    BY DEF Shown, Known
  <2>1. CASE d = c
    BY <2>1, <1>4 DEF Coming
  <2>2. CASE d # c
    BY <2>2, <1>3, <1>6 DEF BridgeInv, Shown, Coming
  <2> QED
    BY <2>1, <2>2
<1>9. c \in Read => fc10_age <= POLL
  BY DEF BridgeInv, Pushing, Read
<1>10. Marked'
  BY <1>3, <1>4, <1>9 DEF BridgeInv, Marked, Read
<1>11. Aged'
  <2>1. CASE c = "temp"
    BY <2>1, <1>2, <1>4, <1>9 DEF BridgeInv, Aged, NEVER, Read
  <2>2. CASE c # "temp"
    BY <2>2, <1>2, <1>3 DEF BridgeInv, Aged, NEVER, Read
  <2> QED
    BY <2>1, <2>2
<1>12. Fresh' /\ LinkFollows'
  BY DEF BridgeInv, Fresh, LinkFollows
<1> QED
  BY <1>1, <1>7, <1>8, <1>10, <1>11, <1>12 DEF BridgeInv

LEMMA TakeStep ==
    ASSUME TypeOK, BridgeInv, TickTake
    PROVE  BridgeInv'
<1> USE AgeCapIsNat, TimesAssumption DEF TypeOK, TickTake, Idle, mirrorVars, bridgeVars
<1>1. Pushing' /\ Latched'
  BY DEF BridgeInv, Pushing, Latched, Known, Ahead
<1>2. Shown'
  BY DEF BridgeInv, Shown, Coming, Known, Ahead, Read, Channels
<1>3. Marked'
  BY DEF BridgeInv, Marked, Read, Channels
<1>4. Aged'
  BY DEF BridgeInv, Aged, NEVER, Channels
<1>5. Fresh' /\ LinkFollows'
  BY DEF BridgeInv, Fresh, LinkFollows
<1> QED
  BY <1>1, <1>2, <1>3, <1>4, <1>5 DEF BridgeInv

LEMMA PublishStep ==
    ASSUME TypeOK, NatValues, BridgeInv, TickPublish
    PROVE  BridgeInv'
<1> USE AgeCapIsNat, TimesAssumption DEF TypeOK, TickPublish, Publish, mirrorVars, bridgeVars
<1>1. Pushing' /\ Latched'
  BY DEF BridgeInv, Pushing, Latched, Known, Ahead
<1>2. dirty' = dirty
  OBVIOUS
<1>3. \A c \in Read : attr'[c] = IF taken.dirty[c] THEN taken.val[c]
                                 ELSE IF c = "temp" /\ GoesStale THEN UNKNOWN ELSE attr[c]
  BY DEF Read, Channels
<1>4. temp_stale' = (GoesStale \/ (temp_stale /\ ~taken.dirty["temp"]))
  OBVIOUS
<1>5. Shown'
  <2> SUFFICES ASSUME NEW c \in Read, latch[c] # 0 \/ (Known /\ ~unpushed /\ ~Ahead(c))
               PROVE  dirty[c] \/ attr'[c] = latch[c] \/ (c = "temp" /\ temp_stale')
    BY <1>2 DEF Shown, Known, Ahead, Coming
  <2> QED
    BY <1>3, <1>4 DEF BridgeInv, Shown, Coming, Marked
<1>6. Marked'
  BY <1>2 DEF BridgeInv, Marked, Read
<1>7. Aged'
  BY <1>2, <1>4 DEF BridgeInv, Aged, GoesStale
<1>8. Fresh'
  <2>1. temp_stale' => attr'["temp"] = UNKNOWN
    BY <1>3, <1>4 DEF BridgeInv, Fresh, GoesStale, Read
  <2>2. ASSUME attr'["temp"] # UNKNOWN PROVE fc10_age <= STALE + POLL
    <3>1. CASE taken.dirty["temp"]
      BY <3>1 DEF BridgeInv, Marked, Read
    <3>2. CASE ~taken.dirty["temp"]
      <4>1. ~GoesStale /\ attr["temp"] # UNKNOWN
        BY <2>2, <3>2, <1>3 DEF Read
      <4>2. ~temp_stale /\ taken.age <= STALE
        BY <3>2, <4>1 DEF BridgeInv, Fresh, GoesStale, NEVER
      <4> QED
        BY <4>2 DEF BridgeInv, Aged, NEVER
    <3> QED
      BY <3>1, <3>2
  <2> QED
    BY <2>1, <2>2 DEF Fresh
<1>9. LinkFollows'
  BY DEF LinkFollows, LinkUp
<1> QED
  BY <1>1, <1>5, <1>6, <1>7, <1>8, <1>9 DEF BridgeInv

\* An age and a countdown together do not grow while time passes.
LEMMA SumFalls ==
    ASSUME NEW age \in Int, NEW older \in Int, NEW left \in Int, NEW sooner \in Int,
           sooner = left - 1, older <= age + 1
    PROVE  older + sooner <= age + left /\ older + sooner \in Int /\ age + left \in Int
OBVIOUS

LEMMA TimeStep ==
    ASSUME TypeOK, BridgeInv, Time
    PROVE  BridgeInv'
<1>0. /\ POLL \in Nat /\ STALE \in Nat /\ LINK_STALE \in Nat /\ AgeCap \in Nat
      /\ fc10_age \in Nat /\ bridge_in \in Nat /\ tick_in \in Nat
      /\ fc10_age' \in Nat /\ bridge_in' \in Nat /\ tick_in' \in Nat
      /\ (temp_age = NEVER \/ temp_age \in Nat) /\ fc10_age <= AgeCap
  BY AgeCapIsNat, TimesAssumption DEF TypeOK, Time, Due, Older, Lesser, Sooner
<1>1. /\ bridged /\ bridge_in > 0 /\ tick_in > 0
      /\ bridge_in' = bridge_in - 1 /\ tick_in' = tick_in - 1
      /\ fc10_age' <= fc10_age + 1 /\ (fc10_age' < AgeCap => fc10_age < AgeCap)
      /\ UNCHANGED <<mirror, unpushed, bridge, snap, bridged, latch, dirty, tick, taken,
                     temp_stale, attr, link>>
  BY <1>0 DEF Time, Due, Older, Lesser, Sooner, TypeOK
<1>a. ASSUME NEW limit \in Int
      PROVE  /\ fc10_age + tick_in <= limit => fc10_age' + tick_in' <= limit
             /\ fc10_age + bridge_in <= limit => fc10_age' + bridge_in' <= limit
  <2>1. /\ fc10_age \in Int /\ fc10_age' \in Int
        /\ tick_in \in Int /\ tick_in' \in Int /\ bridge_in \in Int /\ bridge_in' \in Int
    BY <1>0
  <2>2. fc10_age' <= fc10_age + 1 /\ tick_in' = tick_in - 1 /\ bridge_in' = bridge_in - 1
    BY <1>1
  <2>3. /\ fc10_age' + tick_in' <= fc10_age + tick_in
        /\ fc10_age' + tick_in' \in Int /\ fc10_age + tick_in \in Int
    BY <2>1, <2>2, SumFalls
  <2>4. /\ fc10_age' + bridge_in' <= fc10_age + bridge_in
        /\ fc10_age' + bridge_in' \in Int /\ fc10_age + bridge_in \in Int
    BY <2>1, <2>2, SumFalls
  <2>5. ASSUME NEW m \in Int, NEW n \in Int, m <= n PROVE n <= limit => m <= limit
    BY <2>5
  <2> QED
    BY <2>3, <2>4, <2>5
<1>b. {POLL, 2 * POLL, STALE + 2 * POLL, LINK_STALE + POLL} \subseteq Int
  BY TimesAssumption
<1>2. /\ temp_age' = NEVER <=> temp_age = NEVER
      /\ temp_age' # NEVER /\ temp_age' <= STALE => temp_age' = temp_age + 1
  BY <1>0 DEF Time, Older, Lesser, NEVER
<1>3. bridge = "idle" /\ tick # "publish"
  BY <1>0, <1>1 DEF BridgeInv, Pushing, Marked
<1>4. Pushing' /\ Latched'
  <2>1. unpushed => fc10_age + bridge_in <= POLL
    BY DEF BridgeInv, Pushing
  <2>2. Pushing'
    BY <1>1, <1>3, <1>a, <1>b, <2>1 DEF Pushing
  <2>3. Known' => Known
    BY <1>1 DEF Known
  <2>4. Latched'
    BY <1>1, <2>3 DEF BridgeInv, Latched, Ahead
  <2> QED
    BY <2>2, <2>4
<1>5. Shown'
  BY <1>0, <1>1, <1>3 DEF BridgeInv, Shown, Coming, Known, Ahead
<1>6. Marked'
  <2>1. \A c \in Read : dirty[c] => fc10_age + tick_in <= 2 * POLL
    BY DEF BridgeInv, Marked
  <2> QED
    BY <1>1, <1>3, <1>a, <1>b, <2>1 DEF Marked
<1>7. Aged'
  <2>1. temp_age # NEVER /\ temp_age <= STALE => fc10_age <= temp_age + POLL
    BY DEF BridgeInv, Aged
  <2>2. temp_age' # NEVER /\ temp_age' <= STALE => fc10_age' <= temp_age' + POLL
    BY <1>0, <1>1, <1>2, <2>1 DEF NEVER
  <2> QED
    BY <1>1, <1>2, <1>3, <2>2 DEF BridgeInv, Aged
<1>8. Fresh' /\ LinkFollows'
  BY <1>1, <1>a, <1>b DEF BridgeInv, Fresh, LinkFollows
<1> QED
  BY <1>4, <1>5, <1>6, <1>7, <1>8 DEF BridgeInv

LEMMA LatenessHolds == Spec => []BridgeInv
<1>1. Init => BridgeInv
  <2> SUFFICES ASSUME Init PROVE BridgeInv
    OBVIOUS
  <2> USE AgeCapIsNat, TimesAssumption DEF Init
  <2>1. Pushing /\ Latched /\ LinkFollows
    BY DEF Pushing, Latched, LinkFollows, Known
  <2>2. Shown
    BY DEF Shown, Known, Read, Zeroed, Channels
  <2>3. Marked /\ Aged /\ Fresh
    BY DEF Marked, Aged, Fresh, Read, Channels
  <2> QED
    BY <2>1, <2>2, <2>3 DEF BridgeInv
<1>2. TypeOK /\ NatValues /\ BridgeInv /\ [Next]_vars => BridgeInv'
  <2> SUFFICES ASSUME TypeOK, NatValues, BridgeInv, [Next]_vars PROVE BridgeInv'
    OBVIOUS
  <2>1. CASE Cs60Changes \/ (\E c \in {"setpoint", "mode"} : CommandEnds(c)) \/ ClientStep \/ UNCHANGED vars
    BY <2>1, OthersAreQuiet, QuietStep
  <2>2. CASE SetTemperature \/ SetPlain \/ SetSetpoint \/ SetMode
    <3>1. CASE Setter("temp", TRUE) \/ Setter("plain", TRUE)
      BY <3>1, SetterStep DEF Channels
    <3>2. ASSUME NEW c \in {"setpoint", "mode"}, NEW b \in BOOLEAN, Setter(c, b) PROVE BridgeInv'
      BY <3>2, SetterStep DEF Channels, Read
    <3>3. (hold = 0) \in BOOLEAN /\ (snap["mode"] <= 3) \in BOOLEAN
      OBVIOUS
    <3> QED
      BY <2>2, <3>1, <3>2, <3>3 DEF SetTemperature, SetPlain, SetSetpoint, SetMode
  <2> QED
    BY <2>1, <2>2, BroadcastStep, RunStep, TakeStep, PublishStep, TimeStep
    DEF Next, BridgeStep, TickStep
<1> QED
  BY <1>1, <1>2, TypesHold, PTL DEF Spec

\* A silent CS60 is shown as such within a bridge and a publish period after the
\* stale window, for any window no shorter than a period.
THEOREM SilenceShownHolds == Spec => []SilenceShown
<1>1. TypeOK /\ BridgeInv => SilenceShown
  BY TimesAssumption DEF TypeOK, BridgeInv, Fresh, SilenceShown
<1> QED
  BY <1>1, TypesHold, LatenessHolds, PTL

\* The link state never lags behind by more than a publish period.
THEOREM LinkLossShownHolds == Spec => []LinkLossShown
<1>1. TypeOK /\ BridgeInv => LinkLossShown
  BY TimesAssumption DEF TypeOK, BridgeInv, LinkFollows, LinkLossShown
<1> QED
  BY <1>1, TypesHold, LatenessHolds, PTL

\* No reading gets lost between its setter and publish_tick.
THEOREM NoLostLatchHolds == Spec => []NoLostLatch
<1>1. BridgeInv => NoLostLatch
  BY DEF BridgeInv, Shown, NoLostLatch, Read
<1> QED
  BY <1>1, LatenessHolds, PTL

\* Two periods after a broadcast clients see it, however setters and ticks interleave.
THEOREM BroadcastShownHolds == Spec => []BroadcastShown
<1>1. TypeOK /\ BridgeInv => BroadcastShown
  <2> SUFFICES ASSUME TypeOK, BridgeInv, fc10_age \in 2 * POLL + 1 .. AgeCap - 1
               PROVE  attr["plain"] = mirror["plain"] /\ attr["temp"] \in {mirror["temp"], UNKNOWN}
    BY DEF BroadcastShown
  <2> USE TimesAssumption, AgeCapIsNat DEF TypeOK
  <2>1. Known /\ ~unpushed /\ bridge = "idle"
    BY DEF BridgeInv, Pushing, Known
  <2>2. \A c \in Read : ~Ahead(c) /\ latch[c] = mirror[c]
    BY <2>1 DEF BridgeInv, Latched, Ahead
  <2>3. \A c \in Read : ~Coming(c)
    BY DEF BridgeInv, Marked, Coming, Read, Channels
  <2>4. \A c \in Read : attr[c] = mirror[c] \/ (c = "temp" /\ temp_stale)
    BY <2>1, <2>2, <2>3 DEF BridgeInv, Shown
  <2> QED
    BY <2>4 DEF BridgeInv, Fresh, Read
<1> QED
  BY <1>1, TypesHold, LatenessHolds, PTL
---------------------------------------------------------------------------
(* The write hold.                                                         *)

\* No reading is latched but unpublished when a client writes the setpoint.
WritesFindNoneLatched == \A v \in SetpointWrites : WriteSetpoint(v) => ~dirty["setpoint"]

\* During the hold the attribute is the client's, and no reading waits to
\* replace it.
Held ==
    hold > 0 =>
        /\ attr["setpoint"] = written
        /\ ~Coming("setpoint")

LEMMA HeldStep ==
    ASSUME TypeOK, Held, [Next]_vars, [WritesFindNoneLatched]_vars
    PROVE  Held'
<1> USE DEF TypeOK, Held, Coming, Channels
<1>1. CASE \E v \in SetpointWrites : WriteSetpoint(v)
  <2>1. PICK v \in SetpointWrites : WriteSetpoint(v)
    BY <1>1
  <2>2. ~dirty["setpoint"]
    <3>1. vars' # vars \/ dirty["setpoint"] = FALSE \/ (UNCHANGED vars /\ dirty["setpoint"])
      OBVIOUS
    <3>2. WritesFindNoneLatched
      <4>1. writes' = writes + 1 /\ writes \in Int
        BY <2>1, BoundsAssumption DEF WriteSetpoint
      <4>2. writes' # writes
        BY <4>1
      <4> QED
        BY <4>2 DEF vars, writeVars
    <3> QED
      BY <2>1, <3>2 DEF WritesFindNoneLatched
  <2> QED
    BY <2>1, <2>2 DEF WriteSetpoint, Idle
<1>2. CASE UNCHANGED <<hold, dirty, tick, taken, attr, written>>
  BY <1>2
<1>3. ASSUME NEW c \in Channels, NEW b \in BOOLEAN, Setter(c, b), c = "setpoint" => ~b \/ hold = 0
      PROVE  Held'
  <2>1. UNCHANGED <<hold, tick, taken, attr, written>>
    BY <1>3 DEF Setter, tickVars, writeVars
  <2>2. hold > 0 => dirty'["setpoint"] = dirty["setpoint"]
    BY <1>3 DEF Setter
  <2> QED
    BY <2>1, <2>2
<1>4. CASE SetTemperature \/ SetPlain \/ SetSetpoint \/ SetMode
  <2>1. (hold = 0) \in BOOLEAN /\ (snap["mode"] <= 3) \in BOOLEAN
    OBVIOUS
  <2> QED
    BY <1>3, <1>4, <2>1 DEF SetTemperature, SetPlain, SetSetpoint, SetMode
<1>5. CASE TickTake
  BY <1>5 DEF TickTake, Idle, writeVars
<1>6. CASE TickPublish
  BY <1>6 DEF TickPublish, Publish, writeVars
<1>7. CASE Time
  <2>1. hold' > 0 => hold > 0
    BY <1>7, TimesAssumption DEF Time, Sooner
  <2> QED
    BY <1>7, <2>1 DEF Time, writeVars
<1>8. CASE \E v \in FanModeWrites : WriteFanMode(v)
  BY <1>8 DEF WriteFanMode, latchVars
<1>9. CASE Cs60Changes \/ Broadcast \/ (\E c \in {"setpoint", "mode"} : CommandEnds(c))
           \/ BridgeInit \/ BridgeRun \/ UNCHANGED vars
  BY <1>2, <1>9
  DEF Cs60Changes, Broadcast, CommandEnds, BridgeInit, BridgeRun, vars, latchVars, tickVars, writeVars
<1> QED
  BY <1>1, <1>4, <1>5, <1>6, <1>7, <1>8, <1>9 DEF Next, BridgeStep, TickStep, ClientStep

\* What a client wrote does stand for the whole hold, if no reading was latched
\* and still unpublished when it was written: the only way to the violation of
\* WriteNotOverwritten is a reading latched before the write (zigbee_ep.c:83).
THEOREM WriteStandsUnlessLatched ==
    Spec /\ [][WritesFindNoneLatched]_vars => []WriteNotOverwritten
<1>1. Init => Held
  BY DEF Init, Held
<1>2. TypeOK /\ Held /\ [Next]_vars /\ [WritesFindNoneLatched]_vars => Held'
  BY HeldStep
<1>3. Held => WriteNotOverwritten
  BY DEF Held, WriteNotOverwritten
<1> QED
  BY <1>1, <1>2, <1>3, TypeCorrect, PTL DEF Spec
=============================================================================
