---------------------------- MODULE FlexitSlave ----------------------------
(***************************************************************************)
(* The Modbus slave of src/flexit_slave.c and the CS60 master it talks to. *)
(*                                                                         *)
(* Three actors interleave: the callers of flexit_slave_queue_mode and     *)
(* flexit_slave_queue_setpoint (ZBOSS and Bluetooth threads), the UART     *)
(* drain worker that decodes one request, updates the tables under         *)
(* state_mutex, sends the answer with the mutex released and counts a      *)
(* failed transmission under the mutex again, and the CS60 with its bus    *)
(* (external; flexit-cs60-communication.md sections 2 and 5).  A section   *)
(* under the mutex is one step.  Frames are records; bytes and CRC appear  *)
(* only as the choice between a frame that decodes and one that does not.  *)
(***************************************************************************)
EXTENDS Integers

CONSTANTS
    ModeArgs,      \* FanMode values a Zigbee client writes
    SetpointArgs,  \* setpoints a Zigbee client writes, clamped by zigbee_ep.c
    NusModes,      \* numbers in "mode" commands over Bluetooth
    NusSetpoints,  \* <<degrees, tenths>> in "setpoint" commands over Bluetooth
    Polls,         \* <<start, qty>> of the FC01 polls of the CS60
    Reads,         \* <<addr, qty>> of its FC03 reads
    Probes,        \* <<addr, qty>> of its FC04 enumeration probes
    ForeignAcks,   \* <<addr, value>> of FC65 broadcasts for other panels
    CounterMod,    \* the diagnostic counters wrap at 2^32 in the code
    MaxQueued      \* bound on the calls of the two queue functions

Word == 0 .. 65535
NONE == 65535                       \* SENTINEL_NONE
CMD_MODE == 0                       \* FLEXIT_SLAVE_CMD_MODE_ADDR
CMD_SETPOINT == 12                  \* FLEXIT_SLAVE_CMD_SETPOINT_ADDR
Slots == {CMD_MODE, CMD_SETPOINT}
Registers == 0 .. 15                \* FLEXIT_SLAVE_REG_COUNT, COIL_COUNT
RESP_BITS == (64 - 5) * 8           \* coils that fit in RESP_BUF_SIZE

ASSUME ArgsAssumption ==
    /\ ModeArgs \subseteq Word /\ SetpointArgs \subseteq Word
    /\ NusModes \subseteq Nat /\ NusSetpoints \subseteq Nat \X (0 .. 9)
    /\ Polls \subseteq Word \X Word /\ Reads \subseteq Word \X Word
    /\ Probes \subseteq Word \X Word /\ ForeignAcks \subseteq Word \X Word
ASSUME BoundsAssumption == CounterMod \in Nat \ {0} /\ MaxQueued \in Nat

VARIABLES
    coils,            \* the raised coils
    regs,             \* the holding registers
    pending,          \* pending_mode and pending_setpoint, by slot
    last_acked_mode,
    stats,            \* the diagnostic counters
    worker,           \* where the drain worker is in a request
    resp,             \* the answer it is about to send
    wire,             \* the frame on the bus
    mpc, toRead, cur, got, \* the CS60: its step, commands to fetch, the one
                           \* it fetches and the value it adopted
    calm,             \* no more losses: the bus and the CS60 behave from now on
    issued,           \* history: the values queued for each slot
    delivered,        \* history: the CS60 got the last value queued
    sent,             \* history: answers that left the UART, modulo CounterMod
    queued            \* history: calls of the queue functions

tables == <<coils, regs, pending, last_acked_mode, stats>>
master == <<mpc, toRead, cur, got>>
history == <<issued, delivered, sent, queued>>
vars == <<tables, worker, resp, wire, master, calm, history>>

Span(addr, qty) == addr .. (addr + qty - 1)
Bump(c) == (c + 1) % CounterMod
Count(names) == [c \in DOMAIN stats |-> IF c \in names THEN Bump(stats[c]) ELSE stats[c]]

NoFrame == [type |-> "none"]
Request(t, p) == [type |-> t, addr |-> p[1], qty |-> p[2]]
Ack(a, v) == [type |-> "fc65", addr |-> a, value |-> v]
IsRequest(f) == f.type \in {"fc01", "fc03", "fc04", "fc65"}

StatNames == {"fc01", "fc03", "fc04", "fc65_acks", "setpoint_reads", "tx_errors", "crc"}

Init ==
    /\ coils = {}
    /\ regs = [a \in Registers |-> 0]
    /\ pending = [s \in Slots |-> NONE]
    /\ last_acked_mode = NONE
    /\ stats = [c \in StatNames |-> 0]
    /\ worker = "idle"
    /\ resp = NoFrame
    /\ wire = NoFrame
    /\ mpc = "idle" /\ toRead = {} /\ cur = CMD_MODE /\ got = 0
    /\ calm = FALSE
    /\ issued = [s \in Slots |-> {}]
    /\ delivered = [s \in Slots |-> FALSE]
    /\ sent = 0
    /\ queued = 0

---------------------------------------------------------------------------
(* The queue functions, called from the ZBOSS and Bluetooth threads.       *)

Queue(s, v) ==
    /\ queued < MaxQueued
    /\ regs' = [regs EXCEPT ![s] = v]
    /\ coils' = coils \cup {s}
    /\ pending' = [pending EXCEPT ![s] = v]
    /\ issued' = [issued EXCEPT ![s] = @ \cup {v}]
    /\ delivered' = [delivered EXCEPT ![s] = FALSE]
    /\ queued' = queued + 1
    /\ UNCHANGED <<last_acked_mode, stats, worker, resp, wire, master, sent, calm>>

\* A mode above 3 is refused with -EINVAL and changes nothing.
QueueMode(v) == v <= 3 /\ Queue(CMD_MODE, v)

QueueSetpoint(v) == Queue(CMD_SETPOINT, v)

\* The "mode" command: the number is narrowed to 16 bits before it is checked.
NusMode(n) == QueueMode(n % 65536)

\* The "setpoint" command: tenths of a degree, clamped to 10.0 .. 30.0 C.
Clamp(dc) == IF dc < 100 THEN 100 ELSE IF dc > 300 THEN 300 ELSE dc
NusSetpoint(p) == QueueSetpoint(Clamp(p[1] * 10 + p[2]))

---------------------------------------------------------------------------
(* The drain worker: try_decode_at_front has matched the frame on the wire *)
(* and calls its handler.                                                  *)

\* The table update and counters of one request; a malformed one is dropped.
Answer(f, valid, response, counted) ==
    /\ worker = "idle"
    /\ wire = f
    /\ wire' = NoFrame
    /\ IF valid
       THEN /\ stats' = Count(counted)
            /\ resp' = response
            /\ worker' = "send"
       ELSE UNCHANGED <<stats, resp, worker>>
    /\ UNCHANGED <<regs, pending, last_acked_mode, master, history, calm>>

HandleFc01(f) ==
    /\ f.type = "fc01"
    /\ Answer(f, f.qty \in 1 .. RESP_BITS,
              [type |-> "coils", raised |-> coils \cap Span(f.addr, f.qty)],
              {"fc01"})
    /\ UNCHANGED coils

Fc03Valid(f) == f.qty \in 1 .. 8 /\ f.addr + f.qty <= 16
ReadsSetpoint(f) == CMD_SETPOINT \in Span(f.addr, f.qty) /\ CMD_SETPOINT \in coils

Fc03(f, vals, lowered) ==
    /\ f.type = "fc03"
    /\ Answer(f, Fc03Valid(f), [type |-> "regs", vals |-> vals],
              {"fc03"} \cup (IF ReadsSetpoint(f) THEN {"setpoint_reads"} ELSE {}))
    /\ coils' = IF Fc03Valid(f) THEN coils \ lowered ELSE coils

\* Variants: the setpoint coil stays up; the answer is taken from the other
\* command.
HandleFc03KeepsCoil(f) == Fc03(f, [a \in Span(f.addr, f.qty) |-> regs[a]], {})
HandleFc03WrongRegister(f) ==
    Fc03(f, [a \in Span(f.addr, f.qty) |-> regs[12 - a]], {CMD_SETPOINT} \cap Span(f.addr, f.qty))

\* Reading register 12 with coil 12 raised lowers the coil, before the
\* answer is sent.  Reading register 0 leaves coil 0 as it is, although
\* flexit_slave.h:31 promises the same "for both".
HandleFc03(f) ==
    Fc03(f, [a \in Span(f.addr, f.qty) |-> regs[a]], {CMD_SETPOINT} \cap Span(f.addr, f.qty))

HandleFc04(f) ==
    /\ f.type = "fc04"
    /\ Answer(f, f.qty \in 1 .. 4 /\ f.addr + f.qty <= 4, [type |-> "inputs"], {"fc04"})
    /\ UNCHANGED coils

\* A broadcast, never answered.
Fc65(f, stamped, lowered) ==
    /\ worker = "idle" /\ wire = f /\ f.type = "fc65"
    /\ wire' = NoFrame
    /\ stats' = Count({"fc65_acks"})
    /\ regs' = stamped
    /\ coils' = coils \ lowered
    /\ last_acked_mode' = IF f.addr = CMD_MODE THEN f.value ELSE last_acked_mode
    /\ UNCHANGED <<pending, worker, resp, master, history, calm>>

Stamp(f) == [a \in Registers |-> IF a = f.addr THEN f.value ELSE regs[a]]

\* Variants: the coil stays up; the value is not stored; the mode coil is
\* lowered whatever command is acknowledged; the address is not checked
\* against FLEXIT_SLAVE_REG_COUNT.
HandleFc65KeepsCoil(f) == Fc65(f, Stamp(f), {})
HandleFc65KeepsValue(f) == Fc65(f, regs, {f.addr} \cap Registers)
HandleFc65LowersMode(f) == Fc65(f, Stamp(f), ({f.addr} \cap Registers) \cup {CMD_MODE})
HandleFc65Unchecked(f) ==
    Fc65(f, [a \in Registers \cup {f.addr} |-> IF a = f.addr THEN f.value ELSE regs[a]],
         {f.addr})

\* The register is stamped and its coil lowered; an address past the tables
\* changes neither.
HandleFc65(f) == Fc65(f, Stamp(f), {f.addr} \cap Registers)

\* A frame for us fails its CRC: it is counted and skipped.
RejectFrame ==
    /\ ~calm /\ worker = "idle" /\ IsRequest(wire)
    /\ wire' = NoFrame
    /\ stats' = Count({"crc"})
    /\ UNCHANGED <<coils, regs, pending, last_acked_mode, worker, resp, master, history, calm>>

\* rs485_uart_send returned 0; an answer that meets another frame on the
\* bus is lost together with it.
SendDone ==
    /\ worker = "send"
    /\ worker' = "idle"
    /\ wire' = IF wire = NoFrame THEN resp ELSE NoFrame
    /\ resp' = NoFrame
    /\ sent' = Bump(sent)
    /\ UNCHANGED <<tables, master, issued, delivered, queued, calm>>

\* rs485_uart_send returned an error: nothing usable reached the bus.
SendFails ==
    /\ ~calm /\ worker = "send"
    /\ worker' = "failed"
    /\ resp' = NoFrame
    /\ UNCHANGED <<tables, wire, master, history, calm>>

\* Variant: the failure goes uncounted.
CountTxErrorForgotten ==
    /\ worker = "failed"
    /\ worker' = "idle"
    /\ UNCHANGED <<tables, resp, wire, master, history, calm>>

CountTxError ==
    /\ worker = "failed"
    /\ worker' = "idle"
    /\ stats' = Count({"tx_errors"})
    /\ UNCHANGED <<coils, regs, pending, last_acked_mode, resp, wire, master, history, calm>>

---------------------------------------------------------------------------
(* The CS60 and the bus (external).  The master speaks only on a quiet bus *)
(* and abandons a step that goes unanswered.  It may do both while our     *)
(* answer is still on its way, until it is calm.                           *)

Ask(from, to, frame) ==
    /\ mpc = from /\ mpc' = to
    /\ wire = NoFrame /\ wire' = frame
    /\ calm => worker # "send"
    /\ UNCHANGED <<tables, worker, resp, history, calm>>

MasterPoll(p) == Ask("idle", "poll", Request("fc01", p)) /\ UNCHANGED <<toRead, cur, got>>

MasterProbe(p) == Ask("idle", "idle", Request("fc04", p)) /\ UNCHANGED <<toRead, cur, got>>

MasterSeesCoils ==
    /\ mpc = "poll" /\ wire.type = "coils"
    /\ mpc' = "pick"
    /\ toRead' = wire.raised \cap Slots
    /\ wire' = NoFrame
    /\ UNCHANGED <<tables, worker, resp, cur, got, history, calm>>

MasterRead(s, p) ==
    /\ s \in toRead /\ s \in Span(p[1], p[2])
    /\ Ask("pick", "read", Request("fc03", p))
    /\ cur' = s
    /\ toRead' = toRead \ {s}
    /\ UNCHANGED got

\* The CS60 adopts the value it read.
MasterAdopts ==
    /\ mpc = "read" /\ wire.type = "regs"
    /\ mpc' = "ack"
    /\ got' = wire.vals[cur]
    /\ delivered' = [delivered EXCEPT ![cur] = @ \/ wire.vals[cur] = pending[cur]]
    /\ wire' = NoFrame
    /\ UNCHANGED <<tables, worker, resp, toRead, cur, issued, sent, queued, calm>>

\* It acknowledges a mode always, a setpoint sometimes.
MasterAck == Ask("ack", "pick", Ack(cur, got)) /\ UNCHANGED <<toRead, cur, got>>

MasterSkipsAck ==
    /\ mpc = "ack" /\ cur = CMD_SETPOINT
    /\ mpc' = "pick"
    /\ UNCHANGED <<tables, worker, resp, wire, toRead, cur, got, history, calm>>

MasterDone ==
    /\ mpc = "pick" /\ toRead = {}
    /\ mpc' = "idle"
    /\ UNCHANGED <<tables, worker, resp, wire, toRead, cur, got, history, calm>>

MasterTimeout ==
    /\ mpc \in {"poll", "read"}
    /\ ~calm \/ (wire = NoFrame /\ worker # "send")
    /\ mpc' = "idle"
    /\ toRead' = {}
    /\ UNCHANGED <<tables, worker, resp, wire, cur, got, history, calm>>

\* The CS60 broadcasts a command another panel gave it.
MasterForeignAck(p) == Ask("idle", "idle", Ack(p[1], p[2])) /\ UNCHANGED <<toRead, cur, got>>

\* An answer nobody waits for (any more) goes by.
StrayAnswer ==
    /\ wire # NoFrame /\ ~IsRequest(wire)
    /\ ~(mpc = "poll" /\ wire.type = "coils") /\ ~(mpc = "read" /\ wire.type = "regs")
    /\ wire' = NoFrame
    /\ UNCHANGED <<tables, worker, resp, master, history, calm>>

BusLoses ==
    /\ ~calm /\ wire # NoFrame
    /\ wire' = NoFrame
    /\ UNCHANGED <<tables, worker, resp, master, history, calm>>

Calm ==
    /\ ~calm /\ calm' = TRUE
    /\ UNCHANGED <<tables, worker, resp, wire, master, history>>

---------------------------------------------------------------------------
CallerStep == \/ \E v \in ModeArgs : QueueMode(v)
              \/ \E v \in SetpointArgs : QueueSetpoint(v)
              \/ \E n \in NusModes : NusMode(n)
              \/ \E p \in NusSetpoints : NusSetpoint(p)

HandlerStep == \/ HandleFc01(wire) \/ HandleFc03(wire)
               \/ HandleFc04(wire) \/ HandleFc65(wire)

WorkerStep == HandlerStep \/ RejectFrame \/ SendDone \/ SendFails \/ CountTxError

MasterStep ==
    \/ \E p \in Polls : MasterPoll(p)
    \/ \E p \in Probes : MasterProbe(p)
    \/ \E p \in Reads, s \in Slots : MasterRead(s, p)
    \/ \E p \in ForeignAcks : MasterForeignAck(p)
    \/ MasterSeesCoils \/ MasterAdopts \/ MasterAck \/ MasterSkipsAck
    \/ MasterDone \/ MasterTimeout

Next == CallerStep \/ WorkerStep \/ MasterStep \/ StrayAnswer \/ BusLoses \/ Calm

Spec == Init /\ [][Next]_vars

\* Losses end some day, and then the CS60 keeps polling every span and
\* fetching what it saw.  k_work_submit after every byte burst keeps the drain
\* worker running.
Fairness ==
    /\ WF_vars(Calm) /\ WF_vars(HandlerStep) /\ WF_vars(SendDone) /\ WF_vars(CountTxError)
    /\ \A p \in Polls : SF_vars(MasterPoll(p))
    /\ \A s \in Slots, p \in Reads : SF_vars(MasterRead(s, p))
    /\ WF_vars(MasterSeesCoils) /\ WF_vars(MasterAdopts) /\ WF_vars(MasterAck)
    /\ WF_vars(MasterDone) /\ WF_vars(MasterTimeout) /\ WF_vars(StrayAnswer)

FairSpec == Spec /\ Fairness

---------------------------------------------------------------------------
IsAnswer(f) ==  \* what build_fc01_response .. build_fc04_response produce
    \/ f \in [type : {"coils"}, raised : SUBSET Registers] \cup [type : {"inputs"}]
    \/ /\ f.type = "regs" /\ DOMAIN f = {"type", "vals"}
       /\ DOMAIN f.vals \subseteq Registers
       /\ \A a \in DOMAIN f.vals : f.vals[a] \in Word

IsFrame(f) ==
    \/ f = NoFrame
    \/ f \in [type : {"fc01", "fc03", "fc04"}, addr : Word, qty : Word]
    \/ f \in [type : {"fc65"}, addr : Word, value : Word]
    \/ IsAnswer(f)

TablesTypeOK ==
    /\ coils \subseteq Slots
    /\ regs \in [Registers -> Word]
    /\ pending \in [Slots -> Word]
    /\ last_acked_mode \in Word
    /\ stats \in [StatNames -> 0 .. CounterMod - 1]

WorkerTypeOK ==
    /\ worker \in {"idle", "send", "failed"}
    /\ IF worker = "send" THEN IsAnswer(resp) ELSE resp = NoFrame

MasterTypeOK ==
    /\ mpc \in {"idle", "poll", "pick", "read", "ack"}
    /\ toRead \subseteq Slots /\ cur \in Slots /\ got \in Word

HistoryTypeOK ==
    /\ calm \in BOOLEAN
    /\ issued \in [Slots -> SUBSET Word]
    /\ delivered \in [Slots -> BOOLEAN]
    /\ sent \in 0 .. CounterMod - 1
    /\ queued \in 0 .. MaxQueued

TypeOK == TablesTypeOK /\ WorkerTypeOK /\ IsFrame(wire) /\ MasterTypeOK /\ HistoryTypeOK

\* A raised coil always advertises the last value its queue function stored:
\* no FC65 stamp or read may leave a coil up over another value.
CoilMeansLatest == \A s \in coils : regs[s] = pending[s] /\ pending[s] \in issued[s]

\* The CS60 never adopts, from us, a value nobody queued for that command:
\* whatever is queued, stamped or read between its poll, our answer and the
\* register read, the value served belongs to the command.
AdoptedWasQueued == mpc = "ack" => got \in issued[cur]

\* Every request counted as serviced was either transmitted or is counted in
\* tx_errors, the one being sent apart (the counters wrap together).
AnsweredOrCounted ==
    (stats["fc01"] + stats["fc03"] + stats["fc04"]) % CounterMod
        = (sent + stats["tx_errors"] + (IF worker = "idle" THEN 0 ELSE 1)) % CounterMod

\* Losing answers costs no mode: once a mode is queued, its coil stays up
\* until an FC65 for register 0, and no other frame, has told us which mode the
\* CS60 took.  This is the code, flexit_slave.h:10-14 and :97-100; it is not
\* what flexit_slave.h:31-33 says of the mode as well ("For both we set the reg,
\* raise the coil, and self-clear the coil once the CS60's FC03 read has been
\* served"), nor flexit_slave.c:232-234 ("same shape as CMD_MODE"): a served
\* read of register 0 leaves coil 0 up.
ModeHeldUntilAcked ==
    pending[CMD_MODE] # NONE /\ CMD_MODE \notin coils => regs[CMD_MODE] = last_acked_mode

\* No raised coil is stuck: once frames get through, every command is
\* eventually taken or overruled.
CommandDrains == \A s \in Slots : s \in coils ~> s \notin coils

\* The tables, requests and broadcasts together are the mailbox of
\* CommandMailbox: what the CS60 is offered is what was queued last, and only a
\* broadcast, or for the setpoint (not, as flexit_slave.h:31-33 has it, for both)
\* a read, ends an offer.
mailbox == INSTANCE CommandMailbox
    WITH Mode <- CMD_MODE, Setpoint <- CMD_SETPOINT, Values <- Word,
         offered <- coils, value <- [s \in Slots |-> regs[s]],
         settled <- last_acked_mode, calls <- queued

IsMailbox == mailbox!Spec

\* flexit_slave.h:97 says of a queued mode that the FC03 read matching the
\* next poll "will return the value": a coil that is down means the CS60 got
\* the last mode queued.
QueuedModeIsDelivered ==
    pending[CMD_MODE] # NONE /\ CMD_MODE \notin coils => delivered[CMD_MODE]

\* flexit_slave.h:31-33 says of both commands that the coil is lowered "once the
\* CS60's FC03 read has been served (a single read delivers the value)".  Only
\* the setpoint's is lowered by reads; so much of the promise is left for it: a
\* setpoint whose answer could not be sent is still advertised.
UnservedSetpointStaysRaised ==
    /\ worker = "failed"
    /\ pending[CMD_SETPOINT] # NONE /\ ~delivered[CMD_SETPOINT]
    => CMD_SETPOINT \in coils
=============================================================================
