------------------------- MODULE FlexitSlaveProofs -------------------------
(***************************************************************************)
(* Theorems about FlexitSlave for every value of its constants.            *)
(*                                                                         *)
(* AdoptedWasQueued is not inductive: what the CS60 adopts was put into an *)
(* answer, by a read that followed a poll, by a coil that was up.  IInv    *)
(* follows the value along that way: a register the CS60 is entitled to    *)
(* read holds a value queued for it (Fresh), from the answer to the poll   *)
(* (CoilsInv) over the commands still to fetch (FetchInv) to the answer to *)
(* the read (ReadInv); the FC65 frames on the bus that could disturb it    *)
(* are the CS60's own, or it is idle (AckInv).                             *)
(*                                                                         *)
(* The last two theorems draw the border of the two findings: a command is *)
(* delivered unless it is queued while an earlier exchange is unfinished   *)
(* or, for a setpoint, while the bus still loses frames.                   *)
(***************************************************************************)
EXTENDS FlexitSlave, TLAPS

Fresh(s) == regs[s] \in issued[s]

\* An answer to a poll names only commands whose register is fresh.
CoilsInv ==
    /\ worker = "send" /\ resp.type = "coils" => \A s \in resp.raised \cap Slots : Fresh(s)
    /\ wire.type = "coils" => \A s \in wire.raised \cap Slots : Fresh(s)

\* So are the commands the CS60 still has to fetch.
FetchInv ==
    /\ mpc \in {"pick", "read", "ack"} => \A s \in toRead : Fresh(s)
    /\ mpc = "read" => Fresh(cur)

\* A frame that carries the value of the register the CS60 is reading.
Carries(f) == f.type = "regs" /\ cur \in DOMAIN f.vals /\ f.vals[cur] \in issued[cur]

\* While the CS60 waits for a register, only its request or our answer is
\* under way.
ReadInv ==
    mpc = "read" =>
        /\ wire.type \in {"none", "fc03", "regs"}
        /\ wire.type = "fc03" => cur \in Span(wire.addr, wire.qty)
        /\ wire.type = "regs" => Carries(wire)
        /\ worker = "send" => wire = NoFrame /\ Carries(resp)

\* An FC65 frame on the bus stamps a queued value, unless the CS60 is idle.
AckInv == wire.type = "fc65" /\ wire.addr \in Slots /\ mpc # "idle"
              => wire.value \in issued[wire.addr]

\* Between its steps the CS60 leaves us nothing to answer.
QuietInv ==
    /\ ~IsRequest(wire) /\ wire # NoFrame => worker = "idle"
    /\ mpc \in {"pick", "ack"} => worker = "idle" /\ wire.type \in {"none", "fc65"}
    /\ mpc = "read" /\ wire.type = "fc03" => worker = "idle"

IInv ==
    /\ TypeOK /\ CoilMeansLatest /\ ModeHeldUntilAcked /\ AdoptedWasQueued
    /\ CoilsInv /\ FetchInv /\ ReadInv /\ AckInv /\ QuietInv

\* What follows needs of 65535 only this.
LEMMA WordSize == \E w \in Nat : 300 <= w /\ w + 1 = 65536 /\ Word = 0 .. w /\ NONE = w
<1>1. NONE \in Nat /\ 300 <= NONE /\ NONE + 1 = 65536
    BY DEF NONE
<1>2. Word = 0 .. NONE
    BY DEF Word, NONE
<1>. QED BY <1>1, <1>2

LEMMA IntervalsNest == ASSUME NEW m \in Int, NEW n \in Int, m <= n PROVE 0 .. m \subseteq 0 .. n
OBVIOUS

LEMMA SlotFacts == Slots \subseteq Registers /\ Registers \subseteq Word /\ NONE \in Word
    /\ CMD_MODE \in Slots /\ CMD_SETPOINT \in Slots /\ CMD_MODE # CMD_SETPOINT
<1>1. PICK w \in Nat : 300 <= w /\ Word = 0 .. w /\ NONE = w
    BY WordSize
<1>2. Slots \subseteq Registers
    <2>1. PICK r \in Nat : r = 15
        OBVIOUS
    <2>2. 0 \in 0 .. r /\ 12 \in 0 .. r
        BY <2>1
    <2>. QED BY <2>1, <2>2 DEF Slots, Registers, CMD_MODE, CMD_SETPOINT
<1>3. Registers \subseteq Word
    <2>1. PICK r \in Nat : Registers = 0 .. r /\ r <= 15
        BY DEF Registers
    <2>2. r <= w /\ r \in Int /\ w \in Int
        BY <1>1, <2>1
    <2>. QED BY <1>1, <2>1, <2>2, IntervalsNest, Zenon
<1>4. NONE \in Word
    BY <1>1
<1>5. CMD_MODE \in Slots /\ CMD_SETPOINT \in Slots /\ CMD_MODE # CMD_SETPOINT
    BY DEF Slots, CMD_MODE, CMD_SETPOINT
<1>. QED BY <1>2, <1>3, <1>4, <1>5

LEMMA WordFacts == Word \subseteq Nat /\ 0 \in Word /\ \A v \in Word : v <= 3 => v # NONE
<1>1. PICK w \in Nat : 300 <= w /\ Word = 0 .. w /\ NONE = w
    BY WordSize
<1>. QED BY <1>1

LEMMA ClampType == ASSUME NEW dc \in Int PROVE Clamp(dc) \in Word
<1>1. Clamp(dc) \in Int /\ 0 <= Clamp(dc) /\ Clamp(dc) <= 300
    BY DEF Clamp
<1>2. PICK w \in Nat : 300 <= w /\ Word = 0 .. w
    BY WordSize
<1>. QED BY <1>1, <1>2

\* Every caller queues a 16-bit value, and never the sentinel as a mode: what
\* Bluetooth sends is narrowed or clamped first.
LEMMA CallerQueues ==
    ASSUME CallerStep
    PROVE  \E s \in Slots, v \in Word : (v # NONE \/ s # CMD_MODE) /\ Queue(s, v)
<1>1. ASSUME NEW v \in Word, QueueMode(v)
      PROVE  v # NONE /\ Queue(CMD_MODE, v)
    BY <1>1, WordFacts DEF QueueMode
<1>2. ASSUME NEW v \in ModeArgs, QueueMode(v)
      PROVE  \E w \in Word : w # NONE /\ Queue(CMD_MODE, w)
    BY <1>1, <1>2, ArgsAssumption
<1>3. ASSUME NEW n \in NusModes, NusMode(n)
      PROVE  \E w \in Word : w # NONE /\ Queue(CMD_MODE, w)
    <2>1. n \in Nat
        BY ArgsAssumption
    <2>2. n % 65536 \in Nat /\ n % 65536 < 65536
        BY <2>1
    <2>3. PICK w \in Nat : w + 1 = 65536 /\ Word = 0 .. w
        BY WordSize
    <2>4. n % 65536 \in Word
        BY <2>2, <2>3
    <2>. QED BY <1>1, <1>3, <2>4 DEF NusMode
<1>4. ASSUME NEW v \in SetpointArgs, QueueSetpoint(v)
      PROVE  \E w \in Word : Queue(CMD_SETPOINT, w)
    BY <1>4, ArgsAssumption DEF QueueSetpoint
<1>5. ASSUME NEW p \in NusSetpoints, NusSetpoint(p)
      PROVE  \E w \in Word : Queue(CMD_SETPOINT, w)
    <2>1. p[1] \in Nat /\ p[2] \in Nat
        BY ArgsAssumption
    <2>2. Clamp(p[1] * 10 + p[2]) \in Word
        BY <2>1, ClampType
    <2>. QED BY <1>5, <2>2 DEF NusSetpoint, QueueSetpoint
<1>. QED BY <1>2, <1>3, <1>4, <1>5, SlotFacts DEF CallerStep

\* A counter stays a counter.
LEMMA CounterType ==
    ASSUME NEW c \in 0 .. CounterMod - 1 PROVE Bump(c) \in 0 .. CounterMod - 1
BY BoundsAssumption DEF Bump

LEMMA CountType ==
    ASSUME stats \in [StatNames -> 0 .. CounterMod - 1], NEW names
    PROVE  Count(names) \in [StatNames -> 0 .. CounterMod - 1]
BY CounterType DEF Count

\* The CS60 and the bus never touch our state; we never touch that of the CS60.
LEMMA MasterFrame ==
    ASSUME MasterStep \/ StrayAnswer \/ BusLoses \/ Calm
    PROVE  UNCHANGED <<tables, worker, resp, sent, issued, queued>>
<1>1. ASSUME MasterStep PROVE UNCHANGED <<tables, worker, resp, sent, issued, queued>>
    BY <1>1 DEF MasterStep, MasterPoll, MasterProbe, MasterRead, MasterForeignAck, Ask,
                MasterSeesCoils, MasterAdopts, MasterAck, MasterSkipsAck, MasterDone,
                MasterTimeout, history
<1>. QED BY <1>1 DEF StrayAnswer, BusLoses, Calm, history

LEMMA WorkerFrame ==
    ASSUME WorkerStep PROVE UNCHANGED <<pending, master, issued, delivered, queued, calm>>
<1>1. ASSUME HandlerStep PROVE UNCHANGED <<pending, master, issued, delivered, queued, calm>>
    BY <1>1 DEF HandlerStep, HandleFc01, HandleFc03, Fc03, HandleFc04, HandleFc65, Fc65,
                Answer, history
<1>. QED BY <1>1 DEF WorkerStep, RejectFrame, SendDone, SendFails, CountTxError, history, tables

LEMMA RequestType ==
    ASSUME NEW f, IsFrame(f), f.type \in {"fc01", "fc03", "fc04"}
    PROVE  f \in [type : {"fc01", "fc03", "fc04"}, addr : Word, qty : Word]
<1>1. ~IsAnswer(f)
    BY DEF IsAnswer
<1>2. f # NoFrame
    BY DEF NoFrame
<1>3. f \notin [type : {"fc65"}, addr : Word, value : Word]
    OBVIOUS
<1>. QED BY <1>1, <1>2, <1>3 DEF IsFrame

LEMMA TablesStep == TablesTypeOK /\ MasterTypeOK /\ IsFrame(wire) /\ [Next]_vars => TablesTypeOK'
<1>. SUFFICES ASSUME TablesTypeOK, MasterTypeOK, IsFrame(wire), [Next]_vars PROVE TablesTypeOK'
    OBVIOUS
<1>. USE DEF TablesTypeOK
<1>0. CASE UNCHANGED tables
    BY <1>0 DEF tables
<1>1. ASSUME NEW s \in Slots, NEW v \in Word, Queue(s, v) PROVE TablesTypeOK'
    BY <1>1, SlotFacts DEF Queue
<1>2. CASE CallerStep
    BY <1>1, <1>2, CallerQueues
<1>4. CASE HandleFc01(wire)
    BY <1>4, CountType DEF HandleFc01, Answer
<1>5. CASE HandleFc03(wire)
    BY <1>5, CountType DEF HandleFc03, Fc03, Answer
<1>6. CASE HandleFc04(wire)
    BY <1>6, CountType DEF HandleFc04, Answer
<1>7. CASE HandleFc65(wire)
    <2>1. wire.value \in Word
        BY <1>7 DEF HandleFc65, Fc65, IsFrame, IsAnswer, NoFrame
    <2>. QED BY <1>7, <2>1, CountType DEF HandleFc65, Fc65, Stamp
<1>8. CASE RejectFrame \/ CountTxError
    BY <1>8, CountType DEF RejectFrame, CountTxError
<1>. QED
    BY <1>0, <1>2, <1>4, <1>5, <1>6, <1>7, <1>8, MasterFrame
    DEF Next, WorkerStep, HandlerStep, SendDone, SendFails, vars

LEMMA WorkerTypeStep ==
    TablesTypeOK /\ WorkerTypeOK /\ IsFrame(wire) /\ [Next]_vars => WorkerTypeOK'
<1>. SUFFICES ASSUME TablesTypeOK, WorkerTypeOK, IsFrame(wire), [Next]_vars PROVE WorkerTypeOK'
    OBVIOUS
<1>. USE DEF WorkerTypeOK
<1>0. CASE UNCHANGED <<worker, resp>>
    BY <1>0
<1>1. CASE HandleFc01(wire)
    <2>1. IsAnswer([type |-> "coils", raised |-> coils \cap Span(wire.addr, wire.qty)])
        BY SlotFacts DEF TablesTypeOK, IsAnswer
    <2>. QED BY <1>1, <2>1 DEF HandleFc01, Answer
<1>2. CASE HandleFc03(wire)
    <2>1. ASSUME Fc03Valid(wire)
          PROVE IsAnswer([type |-> "regs", vals |-> [a \in Span(wire.addr, wire.qty) |-> regs[a]]])
        <3>0. wire.type = "fc03"
            BY <1>2 DEF HandleFc03, Fc03
        <3>1. wire.addr \in Nat /\ wire.qty \in Nat
            <4>1. wire \in [type : {"fc01", "fc03", "fc04"}, addr : Word, qty : Word]
                BY <3>0, RequestType
            <4>2. wire.addr \in Word /\ wire.qty \in Word
                BY <4>1
            <4>. QED BY <4>2, WordFacts
        <3>2. Span(wire.addr, wire.qty) \subseteq Registers
            BY <2>1, <3>1 DEF Fc03Valid, Span, Registers
        <3>3. \A a \in Span(wire.addr, wire.qty) : regs[a] \in Word
            BY <3>2 DEF TablesTypeOK
        <3>. DEFINE f == [type |-> "regs", vals |-> [a \in Span(wire.addr, wire.qty) |-> regs[a]]]
        <3>4. f.type = "regs" /\ DOMAIN f = {"type", "vals"}
            OBVIOUS
        <3>5. f.vals = [a \in Span(wire.addr, wire.qty) |-> regs[a]]
            OBVIOUS
        <3>. QED BY <3>2, <3>3, <3>4, <3>5 DEF IsAnswer
    <2>. QED BY <1>2, <2>1 DEF HandleFc03, Fc03, Answer
<1>3. CASE HandleFc04(wire)
    <2>1. IsAnswer([type |-> "inputs"])
        BY DEF IsAnswer
    <2>. QED BY <1>3, <2>1 DEF HandleFc04, Answer
<1>4. CASE HandleFc65(wire) \/ RejectFrame \/ SendDone \/ SendFails \/ CountTxError
    BY <1>4 DEF HandleFc65, Fc65, RejectFrame, SendDone, SendFails, CountTxError
<1>. QED
    BY <1>0, <1>1, <1>2, <1>3, <1>4, MasterFrame, CallerQueues
    DEF Next, Queue, WorkerStep, HandlerStep, vars

LEMMA WireStep ==
    WorkerTypeOK /\ MasterTypeOK /\ IsFrame(wire) /\ [Next]_vars => IsFrame(wire)'
<1>. SUFFICES ASSUME WorkerTypeOK, MasterTypeOK, IsFrame(wire), [Next]_vars PROVE IsFrame(wire')
    OBVIOUS
<1>1. CASE UNCHANGED wire \/ wire' = NoFrame
    BY <1>1 DEF IsFrame
<1>2. CASE SendDone
    BY <1>2 DEF SendDone, WorkerTypeOK, IsFrame
<1>3. ASSUME NEW t \in {"fc01", "fc03", "fc04"}, NEW p \in Word \X Word, wire' = Request(t, p)
      PROVE  IsFrame(wire')
    BY <1>3 DEF Request, IsFrame
<1>4. ASSUME NEW a \in Word, NEW v \in Word, wire' = Ack(a, v)
      PROVE  IsFrame(wire')
    BY <1>4 DEF Ack, IsFrame
<1>5. CASE MasterStep
    <2>1. CASE MasterAck
        BY <1>4, <2>1, SlotFacts DEF MasterAck, Ask, MasterTypeOK
    <2>2. ASSUME NEW p \in ForeignAcks, MasterForeignAck(p) PROVE IsFrame(wire')
        <3>1. p[1] \in Word /\ p[2] \in Word
            BY ArgsAssumption
        <3>. QED BY <1>4, <2>2, <3>1 DEF MasterForeignAck, Ask
    <2>3. CASE MasterSeesCoils \/ MasterAdopts \/ MasterSkipsAck \/ MasterDone \/ MasterTimeout
        BY <1>1, <2>3 DEF MasterSeesCoils, MasterAdopts, MasterSkipsAck, MasterDone, MasterTimeout
    <2>4. ASSUME NEW p \in Polls, MasterPoll(p) PROVE IsFrame(wire')
        BY <1>3, <2>4, ArgsAssumption DEF MasterPoll, Ask
    <2>5. ASSUME NEW p \in Probes, MasterProbe(p) PROVE IsFrame(wire')
        BY <1>3, <2>5, ArgsAssumption DEF MasterProbe, Ask
    <2>6. ASSUME NEW p \in Reads, NEW s \in Slots, MasterRead(s, p) PROVE IsFrame(wire')
        BY <1>3, <2>6, ArgsAssumption DEF MasterRead, Ask
    <2>. QED BY <1>5, <2>1, <2>2, <2>3, <2>4, <2>5, <2>6 DEF MasterStep
<1>6. CASE HandlerStep
    BY <1>1, <1>6 DEF HandlerStep, HandleFc01, HandleFc03, Fc03, HandleFc04, HandleFc65, Fc65, Answer
<1>7. CASE CallerStep
    BY <1>1, <1>7, CallerQueues DEF Queue
<1>. QED
    BY <1>1, <1>2, <1>5, <1>6, <1>7
    DEF Next, WorkerStep, RejectFrame, SendFails, CountTxError, StrayAnswer, BusLoses, Calm, vars

LEMMA MasterTypeStep ==
    MasterTypeOK /\ IsFrame(wire) /\ ReadInv /\ [Next]_vars => MasterTypeOK'
<1>. SUFFICES ASSUME MasterTypeOK, IsFrame(wire), ReadInv, [Next]_vars PROVE MasterTypeOK'
    OBVIOUS
<1>. USE DEF MasterTypeOK
<1>1. CASE UNCHANGED master
    BY <1>1 DEF master
<1>2. CASE MasterAdopts
    <2>1. cur \in DOMAIN wire.vals
        BY <1>2 DEF MasterAdopts, ReadInv, Carries
    <2>2. wire.vals[cur] \in Word
        BY <1>2, <2>1 DEF MasterAdopts, IsFrame, IsAnswer, NoFrame
    <2>. QED BY <1>2, <2>2 DEF MasterAdopts
<1>3. CASE MasterStep /\ ~MasterAdopts
    BY <1>3 DEF MasterStep, MasterPoll, MasterProbe, MasterRead, MasterForeignAck, Ask,
                MasterSeesCoils, MasterAck, MasterSkipsAck, MasterDone, MasterTimeout
<1>. QED
    BY <1>1, <1>2, <1>3, WorkerFrame, CallerQueues
    DEF Next, Queue, StrayAnswer, BusLoses, Calm, vars

LEMMA HistoryStep == HistoryTypeOK /\ [Next]_vars => HistoryTypeOK'
<1>. SUFFICES ASSUME HistoryTypeOK, [Next]_vars PROVE HistoryTypeOK'
    OBVIOUS
<1>. USE DEF HistoryTypeOK
<1>1. CASE UNCHANGED <<history, calm>>
    BY <1>1 DEF history
<1>2. ASSUME NEW s \in Slots, NEW v \in Word, Queue(s, v) PROVE HistoryTypeOK'
    BY <1>2, BoundsAssumption DEF Queue
<1>3. CASE CallerStep
    BY <1>2, <1>3, CallerQueues
<1>4. CASE SendDone
    BY <1>4, CounterType DEF SendDone
<1>5. CASE MasterAdopts
    BY <1>5 DEF MasterAdopts
<1>6. CASE Calm
    BY <1>6 DEF Calm, history
<1>7. CASE WorkerStep /\ ~SendDone
    BY <1>1, <1>7
    DEF WorkerStep, HandlerStep, HandleFc01, HandleFc03, Fc03, HandleFc04, HandleFc65, Fc65,
        Answer, RejectFrame, SendFails, CountTxError
<1>8. CASE MasterStep /\ ~MasterAdopts
    BY <1>1, <1>8
    DEF MasterStep, MasterPoll, MasterProbe, MasterRead, MasterForeignAck, Ask,
        MasterSeesCoils, MasterAck, MasterSkipsAck, MasterDone, MasterTimeout
<1>. QED
    BY <1>1, <1>3, <1>4, <1>5, <1>6, <1>7, <1>8
    DEF Next, StrayAnswer, BusLoses, vars
---------------------------------------------------------------------------
(* The strengthened invariant, action by action.                           *)

\* Steps that move no command value: the value invariants follow when the
\* registers, the queued values and the CS60 stay as they are.
LEMMA QueueStep ==
    ASSUME IInv, TypeOK', NEW s \in Slots, NEW v \in Word, v # NONE \/ s # CMD_MODE, Queue(s, v)
    PROVE  IInv'
<1>. USE DEF IInv, Queue, Fresh
<1>1. issued'[s] = issued[s] \cup {v} /\ \A r \in Slots : issued[r] \subseteq issued'[r]
    BY DEF TypeOK, HistoryTypeOK
<1>2. regs'[s] = v /\ \A r \in Slots : r # s => regs'[r] = regs[r]
    BY SlotFacts DEF TypeOK, TablesTypeOK
<1>3. \A r \in Slots : Fresh(r) => Fresh(r)'
    BY <1>1, <1>2
<1>4. CoilMeansLatest'
    <2>1. pending'[s] = v /\ \A r \in Slots : r # s => pending'[r] = pending[r]
        BY DEF TypeOK, TablesTypeOK
    <2>. QED BY <1>1, <1>2, <2>1 DEF CoilMeansLatest, TypeOK, TablesTypeOK
<1>5. ModeHeldUntilAcked'
    BY <1>2, SlotFacts DEF ModeHeldUntilAcked, TypeOK, TablesTypeOK
<1>6. AdoptedWasQueued'
    BY <1>1 DEF AdoptedWasQueued, TypeOK, MasterTypeOK, master
<1>7. CoilsInv'
    BY <1>3 DEF CoilsInv
<1>8. FetchInv'
    BY <1>3 DEF FetchInv, TypeOK, MasterTypeOK, master
<1>9. ReadInv'
    BY <1>1 DEF ReadInv, Carries, TypeOK, MasterTypeOK, master
<1>10. AckInv'
    BY <1>1 DEF AckInv, master
<1>11. QuietInv'
    BY DEF QuietInv, master
<1>. QED BY <1>4, <1>5, <1>6, <1>7, <1>8, <1>9, <1>10, <1>11
LEMMA HandlerIInvStep ==
    ASSUME IInv, TypeOK', HandlerStep
    PROVE  IInv'
<1>1. UNCHANGED <<pending, master, issued>>
    BY WorkerFrame DEF WorkerStep
<1>2. worker = "idle" /\ wire' = NoFrame /\ IsRequest(wire)
    BY DEF HandlerStep, HandleFc01, HandleFc03, Fc03, HandleFc04, HandleFc65, Fc65, Answer,
           IsRequest
<1>3. mpc \in {"pick", "ack"} => wire.type = "fc65"
    BY <1>2 DEF IInv, QuietInv, IsRequest, NoFrame
<1>4. CoilMeansLatest'
    <2>1. CASE HandleFc65(wire)
        <3>1. coils' = coils \ ({wire.addr} \cap Registers) /\ regs' = Stamp(wire)
            BY <2>1 DEF HandleFc65, Fc65
        <3>2. coils \subseteq Registers
            BY SlotFacts DEF IInv, TypeOK, TablesTypeOK
        <3>3. \A s \in coils' : s \in coils /\ regs'[s] = regs[s]
            BY <3>1, <3>2 DEF Stamp
        <3>. QED BY <1>1, <3>3 DEF IInv, CoilMeansLatest
    <2>2. CASE ~HandleFc65(wire)
        <3>1. regs' = regs /\ coils' \subseteq coils
            BY <2>2 DEF HandlerStep, HandleFc01, HandleFc03, Fc03, HandleFc04, Answer
        <3>. QED BY <1>1, <3>1 DEF IInv, CoilMeansLatest
    <2>. QED BY <2>1, <2>2
<1>5. ModeHeldUntilAcked'
    <2>1. CASE HandleFc65(wire)
        BY <1>1, <2>1, SlotFacts
        DEF IInv, ModeHeldUntilAcked, HandleFc65, Fc65, Stamp, TypeOK, TablesTypeOK
    <2>2. CASE ~HandleFc65(wire)
        <3>1. UNCHANGED <<regs, last_acked_mode>> /\ coils \subseteq coils' \cup {CMD_SETPOINT}
            BY <2>2 DEF HandlerStep, HandleFc01, HandleFc03, Fc03, HandleFc04, Answer
        <3>. QED BY <1>1, <3>1, SlotFacts DEF IInv, ModeHeldUntilAcked
    <2>. QED BY <2>1, <2>2
<1>6. AdoptedWasQueued'
    BY <1>1 DEF IInv, AdoptedWasQueued, master
<1>7. CoilsInv'
    <2>1. CASE HandleFc01(wire)
        BY <1>1, <1>2, <2>1
        DEF IInv, CoilsInv, Fresh, CoilMeansLatest, HandleFc01, Answer, NoFrame
    <2>2. CASE ~HandleFc01(wire)
        BY <1>2, <2>2
        DEF CoilsInv, HandlerStep, HandleFc03, Fc03, HandleFc04, HandleFc65, Fc65, Answer, NoFrame
    <2>. QED BY <2>1, <2>2
<1>8. FetchInv'
    <2>1. CASE HandleFc65(wire)
        <3>1. \A s \in Slots : Fresh(s) /\ mpc \in {"pick", "read", "ack"} => Fresh(s)'
            BY <1>1, <2>1, SlotFacts
            DEF IInv, AckInv, Fresh, HandleFc65, Fc65, Stamp, TypeOK, TablesTypeOK
        <3>. QED BY <1>1, <3>1 DEF IInv, FetchInv, TypeOK, MasterTypeOK, master
    <2>2. CASE ~HandleFc65(wire)
        <3>1. regs' = regs
            BY <2>2 DEF HandlerStep, HandleFc01, HandleFc03, Fc03, HandleFc04, Answer
        <3>. QED BY <1>1, <3>1 DEF IInv, FetchInv, Fresh, master
    <2>. QED BY <2>1, <2>2
<1>9. ReadInv'
    <2>1. CASE mpc = "read"
        <3>1. wire.type = "fc03"
            BY <1>2, <2>1 DEF IInv, ReadInv, IsRequest, NoFrame
        <3>2. HandleFc03(wire)
            BY <3>1 DEF HandlerStep, HandleFc01, HandleFc04, HandleFc65, Fc65
        <3>3. cur \in Span(wire.addr, wire.qty) /\ Fresh(cur)
            BY <2>1, <3>1 DEF IInv, ReadInv, FetchInv
        <3>4. worker' = "send" => resp'.type = "regs" /\ cur \in DOMAIN resp'.vals
                                   /\ resp'.vals[cur] = regs[cur]
            BY <1>2, <3>2, <3>3 DEF HandleFc03, Fc03, Answer
        <3>. QED BY <1>1, <1>2, <3>3, <3>4 DEF ReadInv, Carries, Fresh, NoFrame, master
    <2>2. CASE mpc # "read"
        BY <1>1, <2>2 DEF ReadInv, master
    <2>. QED BY <2>1, <2>2
<1>10. AckInv'
    BY <1>2 DEF AckInv, NoFrame
<1>11. QuietInv'
    <2>1. wire.type = "fc65" => worker' = "idle"
        BY <1>2 DEF HandlerStep, HandleFc01, HandleFc03, Fc03, HandleFc04, HandleFc65, Fc65
    <2>. QED BY <1>1, <1>2, <1>3, <2>1 DEF QuietInv, NoFrame, master, IsRequest
<1>. QED BY <1>4, <1>5, <1>6, <1>7, <1>8, <1>9, <1>10, <1>11 DEF IInv

LEMMA SendIInvStep ==
    ASSUME IInv, TypeOK', RejectFrame \/ SendDone \/ SendFails \/ CountTxError
    PROVE  IInv'
<1>1. UNCHANGED <<pending, master, issued, coils, regs, last_acked_mode>>
    BY WorkerFrame DEF WorkerStep, RejectFrame, SendDone, SendFails, CountTxError, tables
<1>2. worker # "send" => worker' # "send"
    BY DEF RejectFrame, SendDone, SendFails, CountTxError
<1>3. wire' \in {wire, NoFrame} \/ (SendDone /\ wire = NoFrame /\ wire' = resp)
    BY DEF RejectFrame, SendDone, SendFails, CountTxError
<1>4. worker = "send" => IsAnswer(resp)
    BY DEF IInv, TypeOK, WorkerTypeOK
<1>5. \A f : IsAnswer(f) => f.type \in {"coils", "inputs", "regs"}
    BY DEF IsAnswer
<1>6. worker = "send" /\ worker' = "send" => FALSE
    BY DEF RejectFrame, SendDone, SendFails, CountTxError, IInv, TypeOK, WorkerTypeOK
<1>7. SendDone => worker = "send" /\ worker' = "idle"
    BY DEF SendDone
<1>8. CoilMeansLatest' /\ ModeHeldUntilAcked' /\ AdoptedWasQueued' /\ FetchInv'
    BY <1>1 DEF IInv, CoilMeansLatest, ModeHeldUntilAcked, AdoptedWasQueued, FetchInv, Fresh,
                master
<1>9. CoilsInv'
    BY <1>1, <1>2, <1>3, <1>6, <1>7 DEF IInv, CoilsInv, Fresh, NoFrame
<1>10. ReadInv'
    BY <1>1, <1>2, <1>3, <1>6, <1>7 DEF IInv, ReadInv, Carries, NoFrame, master
<1>11. AckInv'
    BY <1>1, <1>3, <1>4, <1>5, <1>7 DEF IInv, AckInv, NoFrame, master
<1>12. QuietInv'
    <2>1. SendFails => worker = "send" /\ wire' = wire
        BY DEF SendFails
    <2>2. RejectFrame => worker' = worker
        BY DEF RejectFrame
    <2>3. CountTxError => worker' = "idle" /\ wire' = wire
        BY DEF CountTxError
    <2>4. wire' = wire \/ wire' = NoFrame \/ worker' = "idle"
        BY <1>3, <1>7
    <2>5. worker = "idle" => worker' = "idle"
        BY <1>7, <2>1, <2>2, <2>3 DEF IInv, TypeOK, WorkerTypeOK
    <2>6. mpc' = mpc
        BY <1>1 DEF master
    <2>7. wire'.type \in {wire.type, "none"} \/ (SendDone /\ wire'.type \in {"coils", "inputs", "regs"})
        BY <1>3, <1>4, <1>5, <1>7 DEF NoFrame
    <2>8. ~IsRequest(wire') /\ wire' # NoFrame => worker' = "idle"
        BY <2>4, <2>5 DEF IInv, QuietInv
    <2>9. mpc' \in {"pick", "ack"} => worker' = "idle" /\ wire'.type \in {"none", "fc65"}
        BY <1>7, <2>5, <2>6, <2>7 DEF IInv, QuietInv
    <2>10. mpc' = "read" /\ wire'.type = "fc03" => worker' = "idle"
        BY <2>5, <2>6, <2>7 DEF IInv, QuietInv
    <2>. QED
        BY <2>8, <2>9, <2>10 DEF QuietInv, IsRequest
<1>. QED BY <1>8, <1>9, <1>10, <1>11, <1>12 DEF IInv
LEMMA MasterIInvStep ==
    ASSUME IInv, TypeOK', MasterStep \/ StrayAnswer \/ BusLoses \/ Calm
    PROVE  IInv'
<1>1. UNCHANGED <<coils, regs, pending, last_acked_mode, worker, resp, issued>>
    BY MasterFrame DEF tables
<1>2. CoilMeansLatest' /\ ModeHeldUntilAcked'
    BY <1>1 DEF IInv, CoilMeansLatest, ModeHeldUntilAcked
<1>3. CASE StrayAnswer \/ BusLoses \/ Calm
    <2>1. UNCHANGED master /\ wire' \in {wire, NoFrame}
        BY <1>3 DEF StrayAnswer, BusLoses, Calm
    <2>. QED
        BY <1>1, <1>2, <2>1
        DEF IInv, AdoptedWasQueued, CoilsInv, FetchInv, Fresh, ReadInv, Carries, AckInv,
            QuietInv, IsRequest, NoFrame, master
<1>4. ASSUME NEW t \in {"fc01", "fc04"}, NEW p, Ask("idle", mpc', Request(t, p)),
             mpc' \in {"idle", "poll"}
      PROVE  IInv'
    BY <1>1, <1>2, <1>4
    DEF IInv, AdoptedWasQueued, CoilsInv, FetchInv, ReadInv, AckInv, QuietInv, Ask, Request,
        IsRequest, NoFrame, Fresh
<1>5. ASSUME NEW p, MasterPoll(p) PROVE IInv'
    BY <1>4, <1>5 DEF MasterPoll, Ask
<1>6. ASSUME NEW p, MasterProbe(p) PROVE IInv'
    BY <1>4, <1>6 DEF MasterProbe, Ask
<1>7. ASSUME NEW p, MasterForeignAck(p) PROVE IInv'
    BY <1>1, <1>2, <1>7
    DEF IInv, AdoptedWasQueued, CoilsInv, FetchInv, ReadInv, AckInv, QuietInv, Ask, Ack,
        MasterForeignAck, IsRequest, NoFrame, Fresh
<1>8. CASE MasterSeesCoils
    BY <1>1, <1>2, <1>8
    DEF IInv, AdoptedWasQueued, CoilsInv, FetchInv, ReadInv, AckInv, QuietInv,
        MasterSeesCoils, IsRequest, NoFrame, Fresh
<1>9. ASSUME NEW p, NEW s \in Slots, MasterRead(s, p) PROVE IInv'
    <2>1. mpc = "pick" /\ mpc' = "read" /\ wire' = Request("fc03", p) /\ cur' = s
          /\ s \in toRead /\ toRead' \subseteq toRead /\ s \in Span(p[1], p[2])
        BY <1>9 DEF MasterRead, Ask
    <2>2. worker = "idle"
        BY <2>1 DEF IInv, QuietInv
    <2>. QED
        BY <1>1, <1>2, <2>1, <2>2
        DEF IInv, AdoptedWasQueued, CoilsInv, FetchInv, ReadInv, AckInv, QuietInv, Request,
            IsRequest, NoFrame, Fresh
<1>10. CASE MasterAdopts
    <2>1. worker = "idle" /\ Carries(wire)
        BY <1>10 DEF MasterAdopts, IInv, QuietInv, ReadInv, IsRequest, NoFrame
    <2>. QED
        BY <1>1, <1>2, <1>10, <2>1
        DEF IInv, AdoptedWasQueued, CoilsInv, FetchInv, ReadInv, Carries, AckInv, QuietInv,
            MasterAdopts, IsRequest, NoFrame, Fresh
<1>11. CASE MasterAck
    BY <1>1, <1>2, <1>11
    DEF IInv, AdoptedWasQueued, CoilsInv, FetchInv, ReadInv, AckInv, QuietInv, Ask, Ack,
        MasterAck, IsRequest, NoFrame, Fresh
<1>12. CASE MasterSkipsAck \/ MasterDone \/ MasterTimeout
    BY <1>1, <1>2, <1>12
    DEF IInv, AdoptedWasQueued, CoilsInv, FetchInv, ReadInv, AckInv, QuietInv, MasterSkipsAck,
        MasterDone, MasterTimeout, IsRequest, NoFrame, Fresh
<1>. QED
    BY <1>3, <1>5, <1>6, <1>7, <1>8, <1>9, <1>10, <1>11, <1>12 DEF MasterStep

LEMMA InitIInv == Init => IInv
<1>. SUFFICES ASSUME Init PROVE IInv
    OBVIOUS
<1>1. 0 \in 0 .. CounterMod - 1 /\ 0 \in 0 .. MaxQueued
    BY BoundsAssumption
<1>2. TablesTypeOK /\ MasterTypeOK
    BY <1>1, SlotFacts, WordFacts DEF Init, TablesTypeOK, MasterTypeOK
<1>3. WorkerTypeOK /\ HistoryTypeOK /\ IsFrame(wire)
    BY <1>1 DEF Init, WorkerTypeOK, HistoryTypeOK, IsFrame
<1>4. CoilMeansLatest /\ AdoptedWasQueued /\ FetchInv /\ ReadInv
    BY DEF Init, CoilMeansLatest, AdoptedWasQueued, FetchInv, ReadInv
<1>5. CoilsInv /\ AckInv /\ QuietInv
    BY DEF Init, CoilsInv, AckInv, QuietInv, NoFrame, IsRequest
<1>6. ModeHeldUntilAcked
    BY SlotFacts DEF Init, ModeHeldUntilAcked
<1>. QED
    BY <1>2, <1>3, <1>4, <1>5, <1>6 DEF IInv, TypeOK

LEMMA IInvStep == IInv /\ [Next]_vars => IInv'
<1>. SUFFICES ASSUME IInv, [Next]_vars PROVE IInv'
    OBVIOUS
<1>1. TypeOK'
    BY TablesStep, WorkerTypeStep, WireStep, MasterTypeStep, HistoryStep DEF IInv, TypeOK
<1>2. CASE CallerStep
    BY <1>1, <1>2, CallerQueues, QueueStep
<1>3. CASE WorkerStep
    BY <1>1, <1>3, HandlerIInvStep, SendIInvStep DEF WorkerStep
<1>4. CASE UNCHANGED vars
    BY <1>4
    DEF vars, tables, master, history, IInv, TypeOK, TablesTypeOK, WorkerTypeOK, MasterTypeOK,
        HistoryTypeOK, CoilMeansLatest, ModeHeldUntilAcked, AdoptedWasQueued, CoilsInv,
        FetchInv, ReadInv, Carries, AckInv, QuietInv, Fresh
<1>. QED BY <1>1, <1>2, <1>3, <1>4, MasterIInvStep DEF Next

LEMMA Invariance == Spec => []IInv
BY InitIInv, IInvStep, PTL DEF Spec

\* The slave's tables, the frames on the bus and the worker's answer keep
\* their types whatever the callers, the CS60 and the bus do.
THEOREM TypeCorrect == Spec => []TypeOK
BY Invariance, PTL DEF IInv

\* A raised coil always advertises the last value queued for it.
THEOREM CoilMeansLatestHolds == Spec => []CoilMeansLatest
BY Invariance, PTL DEF IInv

\* The CS60 adopts from us only values queued for the command it fetched.
THEOREM AdoptedWasQueuedHolds == Spec => []AdoptedWasQueued
BY Invariance, PTL DEF IInv

\* A queued mode stays advertised until an FC65 for register 0 is processed: reads
\* do not lower it, as flexit_slave.h:10-14 and :97-100 say and :31-33 denies.
THEOREM ModeHeldUntilAckedHolds == Spec => []ModeHeldUntilAcked
BY Invariance, PTL DEF IInv

---------------------------------------------------------------------------
(* The slave implements CommandMailbox.                                    *)

LEMMA MailboxInit == Init => mailbox!Init
BY SlotFacts DEF Init, mailbox!Init, mailbox!Commands, Slots

\* A stamp of a register seen through the two slots.
LEMMA SlotValues ==
    ASSUME TablesTypeOK, NEW s \in Slots, NEW v \in Word,
           regs' = [regs EXCEPT ![s] = v] \/ regs' = [a \in Registers |-> IF a = s THEN v ELSE regs[a]]
    PROVE  [r \in Slots |-> regs'[r]] = [[r \in Slots |-> regs[r]] EXCEPT ![s] = v]
BY SlotFacts DEF TablesTypeOK

\* What a broadcast does to the tables is a Settle of its command, or nothing
\* when it is for a register that is not a command.
LEMMA MailboxSettles ==
    ASSUME TablesTypeOK, IsFrame(wire), HandleFc65(wire)
    PROVE  [mailbox!Next]_(mailbox!mail)
<1>1. wire.value \in Word
    BY DEF HandleFc65, Fc65, IsFrame, IsAnswer, NoFrame
<1>2. /\ regs' = Stamp(wire) /\ coils' = coils \ ({wire.addr} \cap Registers)
      /\ last_acked_mode' = IF wire.addr = CMD_MODE THEN wire.value ELSE last_acked_mode
      /\ queued' = queued
    BY DEF HandleFc65, Fc65, history
<1>3. CASE wire.addr \in Slots
    <2>0. PICK c \in Slots : c = wire.addr
        BY <1>3
    <2>1. [r \in Slots |-> regs'[r]] = [[r \in Slots |-> regs[r]] EXCEPT ![c] = wire.value]
        BY <1>1, <1>2, <2>0, SlotValues DEF Stamp
    <2>2. [r \in Slots |-> regs'[r]][c] = wire.value
        BY <2>1
    <2>3. coils' = coils \ {c}
        BY <1>2, <2>0, SlotFacts
    <2>4. mailbox!Settle(c)
        BY <1>1, <1>2, <2>0, <2>1, <2>2, <2>3 DEF mailbox!Settle, mailbox!Overwrite
    <2>. QED BY <2>4 DEF mailbox!Next, mailbox!Commands, Slots
<1>4. CASE wire.addr \notin Slots
    <2>1. [r \in Slots |-> regs'[r]] = [r \in Slots |-> regs[r]]
        BY <1>2, <1>4, SlotFacts DEF Stamp
    <2>2. coils' = coils /\ last_acked_mode' = last_acked_mode
        BY <1>2, <1>4, SlotFacts DEF TablesTypeOK
    <2>. QED BY <1>2, <2>1, <2>2 DEF mailbox!mail
<1>. QED BY <1>3, <1>4

LEMMA MailboxStep == TypeOK /\ [Next]_vars => [mailbox!Next]_(mailbox!mail)
<1>. SUFFICES ASSUME TypeOK, [Next]_vars PROVE [mailbox!Next]_(mailbox!mail)
    OBVIOUS
<1>. USE DEF TypeOK
<1>1. CASE CallerStep
    <2>1. PICK s \in Slots, v \in Word : Queue(s, v)
        BY <1>1, CallerQueues
    <2>2. [r \in Slots |-> regs'[r]] = [[r \in Slots |-> regs[r]] EXCEPT ![s] = v]
        BY <2>1, SlotValues DEF Queue
    <2>3. [r \in Slots |-> regs'[r]][s] = v
        BY <2>2
    <2>4. mailbox!Offer(s)
        BY <2>1, <2>2, <2>3 DEF Queue, mailbox!Offer, mailbox!Overwrite
    <2>. QED BY <2>4 DEF mailbox!Next, mailbox!Commands, Slots
<1>2. CASE HandleFc03(wire)
    <2>1. regs' = regs /\ last_acked_mode' = last_acked_mode /\ queued' = queued
        BY <1>2 DEF HandleFc03, Fc03, Answer, history
    <2>2. coils' = coils \/ (CMD_SETPOINT \in coils /\ coils' = coils \ {CMD_SETPOINT})
        BY <1>2 DEF HandleFc03, Fc03
    <2>. QED BY <2>1, <2>2 DEF mailbox!Next, mailbox!Serve, mailbox!mail
<1>3. CASE HandleFc65(wire)
    BY <1>3, MailboxSettles
<1>4. CASE UNCHANGED <<coils, regs, last_acked_mode, queued>>
    BY <1>4 DEF mailbox!mail
<1>5. CASE HandleFc01(wire) \/ HandleFc04(wire)
    BY <1>4, <1>5 DEF HandleFc01, HandleFc04, Answer, history
<1>6. CASE RejectFrame \/ SendDone \/ SendFails \/ CountTxError
    BY <1>4, <1>6 DEF RejectFrame, SendDone, SendFails, CountTxError, tables, history
<1>7. CASE MasterStep \/ StrayAnswer \/ BusLoses \/ Calm
    BY <1>4, <1>7, MasterFrame DEF tables
<1>8. CASE UNCHANGED vars
    BY <1>4, <1>8 DEF vars, tables, history
<1>. QED BY <1>1, <1>2, <1>3, <1>5, <1>6, <1>7, <1>8 DEF Next, WorkerStep, HandlerStep

\* The detailed slave implements the mailbox: queued commands are offered as they
\* were queued last until the CS60 settles or takes them.
THEOREM ImplementsMailbox == Spec => IsMailbox
BY MailboxInit, MailboxStep, TypeCorrect, PTL DEF Spec, IsMailbox, mailbox!Spec

---------------------------------------------------------------------------
(* The counters wrap, so AnsweredOrCounted compares residues: each step    *)
(* that adds one on either side adds one modulo CounterMod on both.        *)

LEMMA Division ==
    \A x \in Nat : /\ x = CounterMod * (x \div CounterMod) + (x % CounterMod)
                   /\ x \div CounterMod \in Nat /\ x % CounterMod \in 0 .. CounterMod - 1
BY BoundsAssumption, SMTT(30)

LEMMA Multiples ==
    \A p \in Nat : CounterMod * p \in Nat /\ CounterMod * (p + 1) = CounterMod * p + CounterMod
BY BoundsAssumption, SMTT(30)

LEMMA SmallerQuotient ==
    ASSUME NEW p \in Nat, NEW q \in Nat, p < q
    PROVE  CounterMod * p + CounterMod <= CounterMod * q
<1>1. CounterMod * (q - p) >= CounterMod
    BY BoundsAssumption, SMTT(30)
<1>2. CounterMod * (q - p) = CounterMod * q - CounterMod * p
    BY BoundsAssumption, SMTT(30)
<1>. QED BY <1>1, <1>2, Multiples, BoundsAssumption

\* Quotient and remainder are unique.
LEMMA Residue ==
    ASSUME NEW q \in Nat, NEW r \in 0 .. CounterMod - 1
    PROVE  (CounterMod * q + r) % CounterMod = r
<1>. DEFINE x == CounterMod * q + r
<1>1. x \in Nat
    BY Multiples, BoundsAssumption
<1>. HIDE DEF x
<1>2. PICK p \in Nat, s \in 0 .. CounterMod - 1 : x = CounterMod * p + s /\ s = x % CounterMod
    BY <1>1, Division
<1>3. CounterMod * p + s = CounterMod * q + r
    BY <1>2 DEF x
<1>4. ~(p < q) /\ ~(q < p)
    BY <1>3, SmallerQuotient, Multiples, BoundsAssumption
<1>5. p = q
    BY <1>4
<1>6. s = r
    BY <1>3, <1>5, Multiples, BoundsAssumption
<1>. QED BY <1>2, <1>6 DEF x

LEMMA WrapOnce == \A x \in Nat : (x + CounterMod) % CounterMod = x % CounterMod
<1>. TAKE x \in Nat
<1>1. PICK q \in Nat, r \in 0 .. CounterMod - 1 : x = CounterMod * q + r /\ r = x % CounterMod
    BY Division
<1>2. x + CounterMod = CounterMod * (q + 1) + r
    BY <1>1, Multiples, BoundsAssumption
<1>. QED BY <1>1, <1>2, Residue

\* The residue of the successor depends on the residue only.
LEMMA NextResidue == \A x, y \in Nat : x % CounterMod = y % CounterMod
                                          => (x + 1) % CounterMod = (y + 1) % CounterMod
<1>1. ASSUME NEW x \in Nat PROVE (x + 1) % CounterMod = Bump(x % CounterMod)
    <2>1. PICK q \in Nat, r \in 0 .. CounterMod - 1 : x = CounterMod * q + r /\ r = x % CounterMod
        BY Division
    <2>2. CASE r = CounterMod - 1
        <3>0. r + 1 = CounterMod /\ r \in Nat
            BY <2>2, BoundsAssumption
        <3>1. CounterMod * q \in Nat /\ CounterMod * (q + 1) = CounterMod * q + CounterMod
            BY Multiples
        <3>2. x + 1 = CounterMod * (q + 1)
            <4>1. x = CounterMod * q + r
                BY <2>1
            <4>. QED BY <3>0, <3>1, <4>1
        <3>3. (CounterMod * (q + 1) + 0) % CounterMod = 0
            BY Residue, BoundsAssumption
        <3>4. CounterMod * (q + 1) \in Nat
            BY Multiples
        <3>5. (x + 1) % CounterMod = 0
            BY <3>2, <3>3, <3>4
        <3>6. r + 1 = CounterMod * 1 + 0
            BY <3>0, BoundsAssumption
        <3>7. (r + 1) % CounterMod = 0
            BY <3>6, Residue, BoundsAssumption
        <3>. QED BY <2>1, <3>5, <3>7 DEF Bump
    <2>3. CASE r # CounterMod - 1
        <3>1. r + 1 \in 0 .. CounterMod - 1
            BY <2>3, BoundsAssumption
        <3>2. x + 1 = CounterMod * q + (r + 1) /\ r + 1 = CounterMod * 0 + (r + 1)
            BY <2>1, BoundsAssumption
        <3>3. (x + 1) % CounterMod = r + 1 /\ (r + 1) % CounterMod = r + 1
            BY <3>1, <3>2, Residue
        <3>. QED BY <2>1, <3>3 DEF Bump
    <2>. QED BY <2>2, <2>3
<1>. QED BY <1>1

\* Counting once adds one to the residue of any sum the counter is part of.
LEMMA BumpAdds ==
    ASSUME NEW c \in 0 .. CounterMod - 1, NEW n \in Nat
    PROVE  (Bump(c) + n) % CounterMod = (c + n + 1) % CounterMod
<1>1. CASE c = CounterMod - 1
    <2>1. c + 1 = CounterMod * 1 + 0
        BY <1>1, BoundsAssumption
    <2>2. Bump(c) = 0
        BY <2>1, Residue, BoundsAssumption DEF Bump
    <2>3. Bump(c) + n = n /\ c + n + 1 = n + CounterMod
        BY <1>1, <2>2, BoundsAssumption
    <2>. QED BY <2>3, WrapOnce
<1>2. CASE c # CounterMod - 1
    <2>1. c + 1 \in 0 .. CounterMod - 1 /\ c + 1 = CounterMod * 0 + (c + 1)
        BY <1>2, BoundsAssumption
    <2>2. Bump(c) = c + 1
        BY <2>1, Residue DEF Bump
    <2>. QED BY <2>2, BoundsAssumption
<1>. QED BY <1>1, <1>2

Serviced == stats["fc01"] + stats["fc03"] + stats["fc04"]
Settled == sent + stats["tx_errors"] + (IF worker = "idle" THEN 0 ELSE 1)

LEMMA CountersAreNat == TypeOK => Serviced \in Nat /\ Settled \in Nat
BY BoundsAssumption DEF TypeOK, TablesTypeOK, HistoryTypeOK, StatNames, Serviced, Settled

\* An answered request adds one on both sides.
LEMMA CountsService ==
    ASSUME TypeOK, AnsweredOrCounted, worker = "idle", worker' = "send", sent' = sent,
           NEW k \in {"fc01", "fc03", "fc04"}, NEW names,
           k \in names, names \subseteq {k, "setpoint_reads"}, stats' = Count(names)
    PROVE  AnsweredOrCounted'
<1>1. \A c \in StatNames : stats[c] \in 0 .. CounterMod - 1 /\ stats[c] \in Nat
    BY BoundsAssumption DEF TypeOK, TablesTypeOK
<1>2. \A c \in {"fc01", "fc03", "fc04", "tx_errors"} :
          stats'[c] = IF c = k THEN Bump(stats[c]) ELSE stats[c]
    BY DEF Count, TypeOK, TablesTypeOK, StatNames
<1>3. Serviced' % CounterMod = (Serviced + 1) % CounterMod
    <2>1. CASE k = "fc01"
        <3>1. Serviced' = Bump(stats["fc01"]) + (stats["fc03"] + stats["fc04"])
            BY <1>1, <1>2, <2>1, CounterType DEF Serviced, StatNames
        <3>2. Serviced + 1 = stats["fc01"] + (stats["fc03"] + stats["fc04"]) + 1
            BY <1>1 DEF Serviced, StatNames
        <3>. QED BY <1>1, <3>1, <3>2, BumpAdds DEF StatNames
    <2>2. CASE k = "fc03"
        <3>1. Serviced' = Bump(stats["fc03"]) + (stats["fc01"] + stats["fc04"])
            BY <1>1, <1>2, <2>2, CounterType DEF Serviced, StatNames
        <3>2. Serviced + 1 = stats["fc03"] + (stats["fc01"] + stats["fc04"]) + 1
            BY <1>1 DEF Serviced, StatNames
        <3>. QED BY <1>1, <3>1, <3>2, BumpAdds DEF StatNames
    <2>3. CASE k = "fc04"
        <3>1. Serviced' = Bump(stats["fc04"]) + (stats["fc01"] + stats["fc03"])
            BY <1>1, <1>2, <2>3, CounterType DEF Serviced, StatNames
        <3>2. Serviced + 1 = stats["fc04"] + (stats["fc01"] + stats["fc03"]) + 1
            BY <1>1 DEF Serviced, StatNames
        <3>. QED BY <1>1, <3>1, <3>2, BumpAdds DEF StatNames
    <2>. QED BY <2>1, <2>2, <2>3
<1>4. Settled' = Settled + 1
    BY <1>1, <1>2 DEF Settled, StatNames, TypeOK, HistoryTypeOK
<1>5. (Serviced + 1) % CounterMod = (Settled + 1) % CounterMod
    BY CountersAreNat, NextResidue DEF AnsweredOrCounted, Serviced, Settled
<1>6. Serviced' % CounterMod = Settled' % CounterMod
    BY <1>3, <1>4, <1>5
<1>. QED BY <1>6 DEF AnsweredOrCounted, Serviced, Settled

\* An answer that was sent, or counted as failed, moves its one on the right.
LEMMA CountsEnd ==
    ASSUME TypeOK, AnsweredOrCounted, SendDone \/ CountTxError
    PROVE  AnsweredOrCounted'
<1>1. \A c \in StatNames : stats[c] \in 0 .. CounterMod - 1 /\ stats[c] \in Nat
    BY BoundsAssumption DEF TypeOK, TablesTypeOK
<1>2. sent \in 0 .. CounterMod - 1 /\ sent \in Nat
    BY BoundsAssumption DEF TypeOK, HistoryTypeOK
<1>3. worker # "idle" /\ worker' = "idle"
    BY DEF SendDone, CountTxError
<1>4. CASE SendDone
    <2>1. Settled' = Bump(sent) + stats["tx_errors"] /\ Settled = sent + stats["tx_errors"] + 1
        BY <1>1, <1>2, <1>3, <1>4, CounterType DEF SendDone, tables, Settled, StatNames
    <2>2. Settled' % CounterMod = Settled % CounterMod /\ Serviced' = Serviced
        BY <1>1, <1>2, <1>4, <2>1, BumpAdds DEF SendDone, tables, Serviced, StatNames
    <2>. QED BY <2>2 DEF AnsweredOrCounted, Serviced, Settled
<1>5. CASE CountTxError
    <2>1. \A c \in {"fc01", "fc03", "fc04", "tx_errors"} :
              stats'[c] = IF c = "tx_errors" THEN Bump(stats[c]) ELSE stats[c]
        BY <1>5 DEF CountTxError, Count, TypeOK, TablesTypeOK, StatNames
    <2>2. sent' = sent
        BY <1>5 DEF CountTxError, history
    <2>3. Settled' = Bump(stats["tx_errors"]) + sent /\ Settled = stats["tx_errors"] + sent + 1
        BY <1>1, <1>2, <1>3, <2>1, <2>2, CounterType DEF Settled, StatNames
    <2>4. Settled' % CounterMod = Settled % CounterMod
        BY <1>1, <1>2, <2>3, BumpAdds DEF StatNames
    <2>5. Serviced' = Serviced
        BY <2>1 DEF Serviced
    <2>. QED BY <2>4, <2>5 DEF AnsweredOrCounted, Serviced, Settled
<1>. QED BY <1>4, <1>5

LEMMA AnsweredStep == TypeOK /\ AnsweredOrCounted /\ [Next]_vars => AnsweredOrCounted'
<1>. SUFFICES ASSUME TypeOK, AnsweredOrCounted, [Next]_vars PROVE AnsweredOrCounted'
    OBVIOUS
<1>0. CASE UNCHANGED <<stats, sent, worker>>
    BY <1>0 DEF AnsweredOrCounted
<1>1. CASE CallerStep
    BY <1>0, <1>1, CallerQueues DEF Queue
<1>2. CASE HandleFc01(wire)
    BY <1>0, <1>2, CountsService DEF HandleFc01, Answer, history
<1>3. CASE HandleFc03(wire)
    BY <1>0, <1>3, CountsService DEF HandleFc03, Fc03, Answer, history
<1>4. CASE HandleFc04(wire)
    BY <1>0, <1>4, CountsService DEF HandleFc04, Answer, history
<1>5. ASSUME NEW k \in {"fc65_acks", "crc"}, stats' = Count({k}), UNCHANGED <<sent, worker>>
      PROVE  AnsweredOrCounted'
    <2>1. \A c \in {"fc01", "fc03", "fc04", "tx_errors"} : stats'[c] = stats[c]
        BY <1>5 DEF Count, TypeOK, TablesTypeOK, StatNames
    <2>. QED BY <1>5, <2>1 DEF AnsweredOrCounted
<1>6. CASE HandleFc65(wire) \/ RejectFrame
    BY <1>5, <1>6 DEF HandleFc65, Fc65, RejectFrame, history
<1>7. CASE SendDone \/ CountTxError
    BY <1>7, CountsEnd
<1>8. CASE SendFails
    BY <1>8 DEF SendFails, tables, history, AnsweredOrCounted
<1>9. CASE MasterStep \/ StrayAnswer \/ BusLoses \/ Calm
    BY <1>0, <1>9, MasterFrame DEF tables
<1>10. CASE UNCHANGED vars
    BY <1>0, <1>10 DEF vars, tables, history
<1>. QED
    BY <1>1, <1>2, <1>3, <1>4, <1>6, <1>7, <1>8, <1>9, <1>10 DEF Next, WorkerStep, HandlerStep

\* Every request counted as serviced was sent, is being sent or is counted as
\* failed, for counters of any width.
THEOREM AnsweredOrCountedHolds == Spec => []AnsweredOrCounted
<1>1. Init => AnsweredOrCounted
    BY DEF Init, AnsweredOrCounted, StatNames
<1>. QED BY <1>1, AnsweredStep, TypeCorrect, PTL DEF Spec

---------------------------------------------------------------------------
(* When a queued command does reach the CS60: the border of the two        *)
(* findings.  Both theorems leave out broadcasts for the command by other  *)
(* panels, which overrule it.                                              *)

\* The CS60 got the last value queued for s, or none was.
Got(s) == delivered[s] \/ pending[s] = NONE

Unopposed(s) == \A p \in ForeignAcks : p[1] # s

\* The exchange for s is past the point where its register was read.
Taken(s) ==
    \/ wire.type = "fc65" /\ wire.addr = s
    \/ cur = s /\ mpc = "ack"
    \/ cur = s /\ mpc = "read" /\ (worker = "send" \/ wire.type = "regs")

CallsWait(s) == \A v \in Word : Queue(s, v) => ~Taken(s)

\* While the CS60 still has to get the value, it acknowledges no other, and the
\* answers it reads carry this one.
Behind(s) ==
    ~Got(s) =>
        /\ ~(wire.type = "fc65" /\ wire.addr = s)
        /\ ~(mpc = "ack" /\ cur = s)
        /\ mpc = "read" /\ cur = s /\ wire.type = "regs" => wire.vals[s] = pending[s]
        /\ mpc = "read" /\ cur = s /\ worker = "send" => resp.vals[s] = pending[s]

\* Only a call and the CS60's adoption decide whether the value was got.
LEMMA GotStays ==
    ASSUME TypeOK, NEW s \in Slots, [Next]_vars, ~(\E v \in Word : Queue(s, v))
    PROVE  pending'[s] = pending[s] /\ (Got(s) => Got(s)')
<1>1. CASE UNCHANGED <<pending, delivered>>
    BY <1>1 DEF Got
<1>2. CASE CallerStep
    <2>1. PICK r \in Slots, v \in Word : Queue(r, v)
        BY <1>2, CallerQueues
    <2>2. r # s
        BY <2>1
    <2>. QED BY <2>1, <2>2 DEF Queue, Got, TypeOK, TablesTypeOK, HistoryTypeOK
<1>3. CASE WorkerStep
    BY <1>1, <1>3, WorkerFrame
<1>4. CASE MasterAdopts
    BY <1>4 DEF MasterAdopts, tables, Got, TypeOK, HistoryTypeOK
<1>5. CASE (MasterStep /\ ~MasterAdopts) \/ StrayAnswer \/ BusLoses \/ Calm
    BY <1>1, <1>5
    DEF MasterStep, MasterPoll, MasterProbe, MasterRead, MasterForeignAck, Ask, MasterSeesCoils,
        MasterAck, MasterSkipsAck, MasterDone, MasterTimeout, StrayAnswer, BusLoses, Calm,
        tables, history
<1>6. CASE UNCHANGED vars
    BY <1>1, <1>6 DEF vars, tables, history
<1>. QED BY <1>2, <1>3, <1>4, <1>5, <1>6 DEF Next

\* A value that is not yet got stays so unless this step queued it.
LEMMA BehindWhenQueued ==
    ASSUME TypeOK, NEW s \in Slots, NEW v \in Word, Queue(s, v), ~Taken(s)
    PROVE  Behind(s)'
BY DEF Queue, Behind, Taken, master

LEMMA BehindAtOtherCalls ==
    ASSUME TypeOK, NEW s \in Slots, Behind(s), NEW r \in Slots, r # s, NEW v \in Word, Queue(r, v)
    PROVE  Behind(s)'
BY DEF Queue, Behind, Got, master, TypeOK, TablesTypeOK, HistoryTypeOK

\* A read answers with the value queued last.
LEMMA BehindAtHandler ==
    ASSUME IInv, NEW s \in Slots, Behind(s), HandlerStep,
           ~Got(s) /\ HandleFc03(wire) => s \in coils
    PROVE  Behind(s)'
<1>1. UNCHANGED <<pending, delivered, mpc, cur>>
    BY WorkerFrame DEF WorkerStep, master
<1>2. wire' = NoFrame /\ worker = "idle" /\ IsRequest(wire)
    BY DEF HandlerStep, HandleFc01, HandleFc03, Fc03, HandleFc04, HandleFc65, Fc65, Answer,
           IsRequest
<1>3. ASSUME mpc = "read", cur = s, worker' = "send", ~Got(s)
      PROVE  resp'.vals[s] = pending[s]
    <2>1. wire.type = "fc03" /\ s \in Span(wire.addr, wire.qty)
        BY <1>2, <1>3 DEF IInv, ReadInv, IsRequest, NoFrame
    <2>2. HandleFc03(wire)
        BY <2>1 DEF HandlerStep, HandleFc01, HandleFc04, HandleFc65, Fc65
    <2>3. resp'.vals[s] = regs[s]
        BY <1>2, <1>3, <2>1, <2>2 DEF HandleFc03, Fc03, Answer
    <2>4. s \in coils
        BY <1>3, <2>2
    <2>. QED BY <2>3, <2>4 DEF IInv, CoilMeansLatest
<1>. QED BY <1>1, <1>2, <1>3 DEF Behind, Got, NoFrame

LEMMA BehindAtSend ==
    ASSUME IInv, NEW s \in Slots, Behind(s), RejectFrame \/ SendDone \/ SendFails \/ CountTxError
    PROVE  Behind(s)'
<1>1. UNCHANGED <<pending, delivered, mpc, cur>>
    BY WorkerFrame DEF WorkerStep, master
<1>2. \/ wire' \in {wire, NoFrame}
      \/ worker = "send" /\ wire' = resp
    BY DEF RejectFrame, SendDone, SendFails, CountTxError
<1>3. worker' = worker \/ worker' # "send"
    BY DEF RejectFrame, SendDone, SendFails, CountTxError
<1>4. worker' = "send" => resp' = resp
    BY <1>3 DEF RejectFrame, SendDone, SendFails, CountTxError
<1>5. worker = "send" => resp.type # "fc65"
    BY DEF IInv, TypeOK, WorkerTypeOK, IsAnswer
<1>. QED BY <1>1, <1>2, <1>3, <1>4, <1>5 DEF Behind, Got, NoFrame

\* When the CS60 adopts a value, it is the one it still had to get.
LEMMA BehindAtMaster ==
    ASSUME IInv, NEW s \in Slots, Unopposed(s), Behind(s),
           MasterStep \/ StrayAnswer \/ BusLoses \/ Calm
    PROVE  Behind(s)'
<1>1. UNCHANGED <<pending, worker, resp>>
    BY MasterFrame DEF tables
<1>2. CASE UNCHANGED <<delivered, mpc, cur>> /\ wire' \in {wire, NoFrame}
    BY <1>1, <1>2 DEF Behind, Got, NoFrame
<1>3. CASE StrayAnswer \/ BusLoses \/ Calm
    BY <1>2, <1>3 DEF StrayAnswer, BusLoses, Calm, history, master
<1>4. CASE UNCHANGED delivered /\ mpc' \in {"idle", "poll", "pick"} /\ wire'.type # "fc65"
    BY <1>1, <1>4 DEF Behind, Got
<1>5. ASSUME NEW p, MasterPoll(p) \/ MasterProbe(p) PROVE Behind(s)'
    BY <1>4, <1>5 DEF MasterPoll, MasterProbe, Ask, Request, history
<1>6. ASSUME NEW p, NEW r \in Slots, MasterRead(r, p) PROVE Behind(s)'
    <2>1. mpc = "pick" /\ mpc' = "read" /\ wire' = Request("fc03", p) /\ delivered' = delivered
        BY <1>6 DEF MasterRead, Ask, history
    <2>2. worker = "idle"
        BY <2>1 DEF IInv, QuietInv
    <2>. QED BY <1>1, <2>1, <2>2 DEF Behind, Got, Request
<1>7. ASSUME NEW p \in ForeignAcks, MasterForeignAck(p) PROVE Behind(s)'
    <2>1. mpc' = "idle" /\ wire' = Ack(p[1], p[2]) /\ delivered' = delivered
        BY <1>7 DEF MasterForeignAck, Ask, history
    <2>2. wire'.addr # s
        BY <2>1 DEF Ack, Unopposed
    <2>. QED BY <1>1, <2>1, <2>2 DEF Behind, Got, Ack
<1>8. CASE MasterSeesCoils
    BY <1>4, <1>8 DEF MasterSeesCoils, NoFrame, history
<1>9. CASE MasterAdopts
    <2>1. wire' = NoFrame /\ mpc' = "ack" /\ cur' = cur
        BY <1>9 DEF MasterAdopts
    <2>2. delivered'[s] = IF s = cur THEN delivered[s] \/ wire.vals[s] = pending[s] ELSE delivered[s]
        BY <1>9 DEF MasterAdopts, IInv, TypeOK, HistoryTypeOK, MasterTypeOK
    <2>3. CASE s = cur
        <3>1. Got(s) \/ wire.vals[s] = pending[s]
            BY <1>9, <2>3 DEF MasterAdopts, Behind
        <3>2. Got(s)'
            BY <1>1, <2>2, <2>3, <3>1 DEF Got
        <3>. QED BY <3>2 DEF Behind
    <2>4. CASE s # cur
        BY <1>1, <2>1, <2>2, <2>4 DEF Behind, Got, NoFrame
    <2>. QED BY <2>3, <2>4
<1>10. CASE MasterAck
    <2>1. mpc = "ack" /\ mpc' = "pick" /\ wire' = Ack(cur, got) /\ UNCHANGED <<delivered, cur>>
        BY <1>10 DEF MasterAck, Ask, history
    <2>. QED BY <1>1, <2>1 DEF Behind, Got, Ack
<1>11. CASE MasterSkipsAck \/ MasterDone
    <2>1. UNCHANGED <<delivered, wire>> /\ mpc' \in {"idle", "pick"}
        BY <1>11 DEF MasterSkipsAck, MasterDone, history
    <2>. QED BY <1>1, <2>1 DEF Behind, Got
<1>12. CASE MasterTimeout
    <2>1. UNCHANGED <<delivered, wire>> /\ mpc' = "idle"
        BY <1>12 DEF MasterTimeout, history
    <2>. QED BY <1>1, <2>1 DEF Behind, Got
<1>. QED
    BY <1>3, <1>5, <1>6, <1>7, <1>8, <1>9, <1>10, <1>11, <1>12 DEF MasterStep

LEMMA BehindStep ==
    ASSUME IInv, NEW s \in Slots, Unopposed(s), Behind(s), [Next]_vars, [CallsWait(s)]_vars,
           ~Got(s) /\ HandleFc03(wire) => s \in coils
    PROVE  Behind(s)'
<1>1. CASE UNCHANGED vars
    BY <1>1 DEF vars, tables, master, history, Behind, Got
<1>2. CASE CallerStep /\ CallsWait(s)
    <2>1. PICK r \in Slots, v \in Word : Queue(r, v)
        BY <1>2, CallerQueues
    <2>. QED
        BY <1>2, <2>1, BehindWhenQueued, BehindAtOtherCalls DEF CallsWait, IInv
<1>3. CASE WorkerStep
    BY <1>3, BehindAtHandler, BehindAtSend DEF WorkerStep
<1>. QED BY <1>1, <1>2, <1>3, BehindAtMaster DEF Next

\* A mode the CS60 still has to get keeps its coil up.
ModeUp == ~Got(CMD_MODE) => CMD_MODE \in coils

LEMMA ModeUpStep ==
    ASSUME IInv, Behind(CMD_MODE), ModeUp, [Next]_vars
    PROVE  ModeUp'
<1>. CMD_MODE \in Slots
    BY SlotFacts
<1>1. CASE \E v \in Word : Queue(CMD_MODE, v)
    BY <1>1 DEF Queue, ModeUp
<1>2. CASE ~(\E v \in Word : Queue(CMD_MODE, v))
    <2>1. Got(CMD_MODE) => Got(CMD_MODE)'
        BY <1>2, GotStays DEF IInv
    <2>2. ~Got(CMD_MODE) /\ CMD_MODE \in coils => CMD_MODE \in coils'
        <3>1. CASE CallerStep
            BY <3>1, CallerQueues DEF Queue
        <3>2. CASE HandleFc65(wire)
            BY <3>2 DEF HandleFc65, Fc65, Behind
        <3>3. CASE HandleFc01(wire) \/ HandleFc03(wire) \/ HandleFc04(wire)
            BY <3>3, SlotFacts DEF HandleFc01, HandleFc03, Fc03, HandleFc04
        <3>4. CASE RejectFrame \/ SendDone \/ SendFails \/ CountTxError
            BY <3>4 DEF RejectFrame, SendDone, SendFails, CountTxError, tables
        <3>5. CASE MasterStep \/ StrayAnswer \/ BusLoses \/ Calm
            BY <3>5, MasterFrame DEF tables
        <3>6. CASE UNCHANGED vars
            BY <3>6 DEF vars, tables
        <3>. QED
            BY <3>1, <3>2, <3>3, <3>4, <3>5, <3>6 DEF Next, WorkerStep, HandlerStep
    <2>. QED BY <2>1, <2>2 DEF ModeUp
<1>. QED BY <1>1, <1>2

\* A queued mode does reach the CS60, however many frames are lost, unless it is
\* queued while the answer or the acknowledgement of an earlier one is under way:
\* that race is the only way to the violation of QueuedModeIsDelivered.
THEOREM ModeDeliveredUnlessRaced ==
    Unopposed(CMD_MODE) => (Spec /\ [][CallsWait(CMD_MODE)]_vars => []QueuedModeIsDelivered)
<1>. SUFFICES ASSUME Unopposed(CMD_MODE)
              PROVE  Spec /\ [][CallsWait(CMD_MODE)]_vars => []QueuedModeIsDelivered
    OBVIOUS
<1>. CMD_MODE \in Slots
    BY SlotFacts
<1>1. Init => Behind(CMD_MODE) /\ ModeUp
    BY DEF Init, Behind, ModeUp, Got
<1>2. IInv /\ Behind(CMD_MODE) /\ ModeUp /\ [Next]_vars /\ [CallsWait(CMD_MODE)]_vars
          => Behind(CMD_MODE)' /\ ModeUp'
    BY BehindStep, ModeUpStep DEF ModeUp
<1>3. ModeUp => QueuedModeIsDelivered
    BY DEF ModeUp, Got, QueuedModeIsDelivered
<1>. QED BY <1>1, <1>2, <1>3, Invariance, PTL DEF Spec

---------------------------------------------------------------------------
\* The answer that carries the value queued last is on its way to the CS60.
UnderWay(s) ==
    /\ mpc = "read" /\ cur = s
    /\ \/ worker = "send" /\ resp.vals[s] = pending[s]
       \/ wire.type = "regs" /\ wire.vals[s] = pending[s]

\* The request of a read that the CS60 has given up is still on the bus.
Orphaned == wire.type = "fc03" /\ mpc # "read"

\* A setpoint is queued when losses are over and no earlier read is unfinished.
CallsInCalm ==
    \A v \in Word : Queue(CMD_SETPOINT, v) => calm /\ ~Orphaned /\ ~Taken(CMD_SETPOINT)

\* A setpoint the CS60 still has to get keeps its coil up until it is served.
SetpointUp ==
    ~Got(CMD_SETPOINT) =>
        calm /\ ~Orphaned /\ (CMD_SETPOINT \in coils \/ UnderWay(CMD_SETPOINT))

LEMMA ServedIsUnderWay ==
    ASSUME IInv, SetpointUp, ~Got(CMD_SETPOINT), HandleFc03(wire)
    PROVE  CMD_SETPOINT \in coils /\ (CMD_SETPOINT \in coils' \/ UnderWay(CMD_SETPOINT)')
<1>1. worker = "idle" /\ wire.type = "fc03" /\ wire' = NoFrame
    BY DEF HandleFc03, Fc03, Answer
<1>2. CMD_SETPOINT \in coils
    BY <1>1 DEF SetpointUp, UnderWay
<1>3. ASSUME CMD_SETPOINT \notin coils' PROVE UnderWay(CMD_SETPOINT)'
    <2>1. Fc03Valid(wire) /\ CMD_SETPOINT \in Span(wire.addr, wire.qty)
        BY <1>2, <1>3 DEF HandleFc03, Fc03
    <2>2. mpc = "read"
        BY <1>1 DEF SetpointUp, Orphaned
    <2>3. cur \in Span(wire.addr, wire.qty)
        BY <1>1, <2>2 DEF IInv, ReadInv
    <2>4. wire.addr \in Nat /\ wire.qty \in Nat
        <3>1. wire \in [type : {"fc01", "fc03", "fc04"}, addr : Word, qty : Word]
            <4>1. IsFrame(wire) /\ wire.type = "fc03"
                BY <1>1 DEF IInv, TypeOK
            <4>. QED BY <4>1, RequestType
        <3>2. wire.addr \in Word /\ wire.qty \in Word
            BY <3>1
        <3>. QED BY <3>2, WordFacts
    <2>5. cur = CMD_SETPOINT
        BY <2>1, <2>3, <2>4 DEF IInv, TypeOK, MasterTypeOK, Slots, CMD_MODE, CMD_SETPOINT, Span, Fc03Valid
    <2>6. worker' = "send" /\ resp'.vals[CMD_SETPOINT] = regs[CMD_SETPOINT]
        BY <2>1 DEF HandleFc03, Fc03, Answer
    <2>7. UNCHANGED <<mpc, cur, pending>>
        BY WorkerFrame DEF WorkerStep, HandlerStep, master
    <2>. QED BY <1>2, <2>2, <2>5, <2>6, <2>7 DEF UnderWay, IInv, CoilMeansLatest
<1>. QED BY <1>2, <1>3

\* In calm the CS60 waits for an answer that is under way.
LEMMA SetpointStaysUp ==
    ASSUME IInv, Behind(CMD_SETPOINT), SetpointUp, [Next]_vars,
           ~(\E v \in Word : Queue(CMD_SETPOINT, v)), ~Got(CMD_SETPOINT), ~Got(CMD_SETPOINT)'
    PROVE  calm' /\ ~Orphaned' /\ (CMD_SETPOINT \in coils' \/ UnderWay(CMD_SETPOINT)')
<1>. CMD_SETPOINT \in Slots
    BY SlotFacts
<1>1. pending'[CMD_SETPOINT] = pending[CMD_SETPOINT]
    BY GotStays DEF IInv
<1>2. calm /\ ~Orphaned /\ (CMD_SETPOINT \in coils \/ UnderWay(CMD_SETPOINT))
    BY DEF SetpointUp
<1>3. CASE UNCHANGED <<worker, resp, wire, mpc, cur, calm>> /\ coils \subseteq coils'
    BY <1>1, <1>2, <1>3 DEF UnderWay, Orphaned
<1>4. CASE CallerStep
    BY <1>3, <1>4, CallerQueues DEF Queue, master
<1>5. CASE HandlerStep
    <2>1. wire' = NoFrame /\ calm' = calm
        BY <1>5 DEF HandlerStep, HandleFc01, HandleFc03, Fc03, HandleFc04, HandleFc65, Fc65, Answer
    <2>2. wire.type \in {"fc01", "fc03", "fc04", "fc65"} /\ worker = "idle"
        BY <1>5 DEF HandlerStep, HandleFc01, HandleFc03, Fc03, HandleFc04, HandleFc65, Fc65, Answer
    <2>3. CMD_SETPOINT \in coils
        BY <1>2, <2>2 DEF UnderWay
    <2>4. CASE HandleFc65(wire)
        BY <1>2, <2>1, <2>3, <2>4 DEF HandleFc65, Fc65, Behind, Orphaned, NoFrame
    <2>5. CASE HandleFc01(wire) \/ HandleFc04(wire)
        BY <1>2, <2>1, <2>3, <2>5 DEF HandleFc01, HandleFc04, Orphaned, NoFrame
    <2>6. CASE HandleFc03(wire)
        BY <1>2, <2>1, <2>6, ServedIsUnderWay DEF Orphaned, NoFrame
    <2>. QED BY <1>5, <2>4, <2>5, <2>6 DEF HandlerStep
<1>6. CASE SendDone
    <2>1. UNCHANGED <<coils, mpc, cur, calm>> /\ worker = "send"
          /\ wire' = IF wire = NoFrame THEN resp ELSE NoFrame
        BY <1>6 DEF SendDone, tables, master
    <2>2. resp.type # "fc03"
        BY <2>1 DEF IInv, TypeOK, WorkerTypeOK, IsAnswer
    <2>3. ~Orphaned'
        BY <2>1, <2>2 DEF Orphaned, NoFrame
    <2>4. UnderWay(CMD_SETPOINT) => UnderWay(CMD_SETPOINT)'
        <3>1. mpc = "read" => wire = NoFrame /\ resp.type = "regs"
            BY <2>1 DEF IInv, ReadInv, Carries
        <3>. QED BY <1>1, <2>1, <3>1 DEF UnderWay, NoFrame
    <2>. QED BY <1>2, <2>1, <2>3, <2>4
<1>7. CASE CountTxError
    <2>1. UNCHANGED <<coils, mpc, cur, calm, wire, resp>> /\ worker = "failed"
        BY <1>7 DEF CountTxError, master
    <2>. QED BY <1>1, <1>2, <2>1 DEF UnderWay, Orphaned
<1>8. ~RejectFrame /\ ~SendFails /\ ~BusLoses /\ ~Calm
    BY <1>2 DEF RejectFrame, SendFails, BusLoses, Calm
<1>9. CASE StrayAnswer
    <2>1. UNCHANGED <<coils, worker, resp, mpc, cur, calm>> /\ wire' = NoFrame /\ wire # NoFrame
          /\ ~(mpc = "read" /\ wire.type = "regs")
        BY <1>9 DEF StrayAnswer, tables, master
    <2>2. ~UnderWay(CMD_SETPOINT)
        BY <2>1 DEF UnderWay, IInv, ReadInv
    <2>. QED BY <1>2, <2>1, <2>2 DEF Orphaned, NoFrame
<1>10. CASE MasterStep
    <2>1. UNCHANGED <<coils, calm, worker, resp>>
        BY <1>10, MasterFrame
        DEF tables, MasterStep, MasterPoll, MasterProbe, MasterRead, MasterForeignAck, Ask,
            MasterSeesCoils, MasterAdopts, MasterAck, MasterSkipsAck, MasterDone, MasterTimeout
    <2>2. CASE MasterAdopts
        <3>1. cur # CMD_SETPOINT
            <4>1. ASSUME cur = CMD_SETPOINT PROVE FALSE
                <5>1. wire.vals[CMD_SETPOINT] = pending[CMD_SETPOINT]
                    BY <2>2, <4>1 DEF MasterAdopts, Behind
                <5>2. delivered'[CMD_SETPOINT]
                    BY <2>2, <4>1, <5>1 DEF MasterAdopts, IInv, TypeOK, HistoryTypeOK
                <5>. QED BY <5>2 DEF Got
            <4>. QED BY <4>1
        <3>2. CMD_SETPOINT \in coils /\ wire' = NoFrame
            BY <1>2, <2>2, <3>1 DEF UnderWay, MasterAdopts
        <3>. QED BY <1>2, <2>1, <3>2 DEF Orphaned, NoFrame
    <2>3. CASE MasterTimeout
        <3>1. wire = NoFrame /\ worker # "send" /\ wire' = wire
            BY <1>2, <2>3 DEF MasterTimeout
        <3>2. ~UnderWay(CMD_SETPOINT)
            BY <3>1 DEF UnderWay, NoFrame
        <3>. QED BY <1>2, <2>1, <3>1, <3>2 DEF Orphaned, NoFrame
    <2>4. CASE \E p \in Reads, s \in Slots : MasterRead(s, p)
        <3>1. mpc = "pick" /\ mpc' = "read"
            BY <2>4 DEF MasterRead, Ask
        <3>. QED BY <1>2, <2>1, <3>1 DEF Orphaned, UnderWay
    <2>5. CASE MasterStep /\ ~MasterAdopts /\ ~MasterTimeout
               /\ ~(\E p \in Reads, s \in Slots : MasterRead(s, p))
        <3>1. mpc # "read" /\ (wire'.type = "fc03" => wire' = wire /\ mpc' # "read")
            BY <2>5
            DEF MasterStep, MasterPoll, MasterProbe, MasterForeignAck, Ask, Request, Ack,
                MasterSeesCoils, MasterAck, MasterSkipsAck, MasterDone, NoFrame
        <3>. QED BY <1>2, <2>1, <3>1 DEF Orphaned, UnderWay
    <2>. QED BY <1>10, <2>2, <2>3, <2>4, <2>5
<1>11. CASE UNCHANGED vars
    BY <1>3, <1>11 DEF vars, tables, master
<1>. QED
    BY <1>4, <1>5, <1>6, <1>7, <1>8, <1>9, <1>10, <1>11 DEF Next, WorkerStep

LEMMA SetpointUpStep ==
    ASSUME IInv, Behind(CMD_SETPOINT), SetpointUp, [Next]_vars, [CallsInCalm]_vars
    PROVE  SetpointUp'
<1>. CMD_SETPOINT \in Slots
    BY SlotFacts
<1>1. CASE (\E v \in Word : Queue(CMD_SETPOINT, v)) /\ CallsInCalm
    <2>1. calm /\ ~Orphaned
        BY <1>1 DEF CallsInCalm
    <2>2. coils' = coils \cup {CMD_SETPOINT} /\ UNCHANGED <<calm, wire, mpc>>
        BY <1>1 DEF Queue, master
    <2>3. calm' /\ ~Orphaned'
        BY <2>1, <2>2 DEF Orphaned
    <2>. QED BY <2>2, <2>3 DEF SetpointUp
<1>2. CASE ~(\E v \in Word : Queue(CMD_SETPOINT, v))
    <2>1. Got(CMD_SETPOINT) => Got(CMD_SETPOINT)'
        BY <1>2, GotStays DEF IInv
    <2>. QED BY <1>2, <2>1, SetpointStaysUp DEF SetpointUp
<1>3. CASE UNCHANGED vars
    BY <1>3 DEF vars, tables, master, history, SetpointUp, Got, Orphaned, UnderWay
<1>. QED BY <1>1, <1>2, <1>3

\* Once served, the CS60 has the setpoint or the answer is still on its way.
SetpointServed ==
    pending[CMD_SETPOINT] # NONE /\ CMD_SETPOINT \notin coils
        => delivered[CMD_SETPOINT] \/ UnderWay(CMD_SETPOINT)

\* "A single read delivers the value": that holds of every setpoint queued while
\* the bus loses nothing and no earlier read of it is unfinished.  A lost answer,
\* or one overtaken by the next call, is the only way to the violation of
\* UnservedSetpointStaysRaised.
THEOREM SetpointServedWhenCalm ==
    Unopposed(CMD_SETPOINT) =>
        (Spec /\ [][CallsInCalm]_vars => [](SetpointServed /\ UnservedSetpointStaysRaised))
<1>. SUFFICES ASSUME Unopposed(CMD_SETPOINT)
              PROVE  Spec /\ [][CallsInCalm]_vars => [](SetpointServed /\ UnservedSetpointStaysRaised)
    OBVIOUS
<1>. CMD_SETPOINT \in Slots
    BY SlotFacts
<1>1. Init => Behind(CMD_SETPOINT) /\ SetpointUp
    BY DEF Init, Behind, SetpointUp, Got
<1>2. IInv /\ Behind(CMD_SETPOINT) /\ SetpointUp /\ [Next]_vars /\ [CallsInCalm]_vars
          => Behind(CMD_SETPOINT)' /\ SetpointUp'
    <2>. SUFFICES ASSUME IInv, Behind(CMD_SETPOINT), SetpointUp, [Next]_vars, [CallsInCalm]_vars
                  PROVE  Behind(CMD_SETPOINT)' /\ SetpointUp'
        OBVIOUS
    <2>1. [CallsWait(CMD_SETPOINT)]_vars
        BY DEF CallsInCalm, CallsWait
    <2>2. ~Got(CMD_SETPOINT) /\ HandleFc03(wire) => CMD_SETPOINT \in coils
        BY ServedIsUnderWay
    <2>. QED BY <2>1, <2>2, BehindStep, SetpointUpStep
<1>3. IInv /\ SetpointUp => SetpointServed /\ UnservedSetpointStaysRaised
    <2>1. SetpointUp => SetpointServed
        BY DEF SetpointUp, Got, SetpointServed
    <2>2. IInv /\ worker = "failed" => ~UnderWay(CMD_SETPOINT)
        BY DEF IInv, QuietInv, UnderWay, IsRequest, NoFrame
    <2>. QED BY <2>1, <2>2 DEF SetpointServed, UnservedSetpointStaysRaised
<1>. QED BY <1>1, <1>2, <1>3, Invariance, PTL DEF Spec
=============================================================================
