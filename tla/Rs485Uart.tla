----------------------------- MODULE Rs485Uart -----------------------------
(***************************************************************************)
(* The half-duplex UART of src/rs485_uart.c: rs485_uart_send, the event    *)
(* callback that runs in interrupt context, the receive DMA buffers, the   *)
(* ring buffer and the drain work item.                                    *)
(*                                                                         *)
(* An interrupt may fall between any two steps of a sender.  The UARTE     *)
(* driver (external) owns at most one transfer, refuses a second one, and  *)
(* reports the end of an aborted transfer later, from its interrupt: as    *)
(* TX_ABORTED, or as TX_DONE when the last byte had already gone out.      *)
(* Bytes are counted, not carried.                                         *)
(***************************************************************************)
EXTENDS Integers

CONSTANTS
    Drain,      \* the drain worker, which answers requests from inside its loop
    Others,     \* other callers of rs485_uart_send
    NoOne,
    Capacity,   \* RING_BUF_CAPACITY
    Chunk,      \* sizeof(tmp) in drain_work_handler
    MaxBurst,   \* bound: bytes of one UART_RX_RDY
    MaxBytes,   \* bound: bytes received in all
    MaxFrames   \* bound: frames sent in all

Senders == {Drain} \cup Others

ASSUME SenderAssumption == Drain \notin Others /\ NoOne \notin Senders
ASSUME SizeAssumption ==
    {Capacity, Chunk, MaxBurst} \subseteq Nat \ {0} /\ {MaxBytes, MaxFrames} \subseteq Nat

VARIABLES
    \* transmit
    pc, frame, result,  \* by sender: its step in rs485_uart_send, its frame, what it read
    mutex,              \* holder of tx_mutex
    sem, giver,         \* tx_done_sem and (history) the frame whose end gave it
    tx_result,
    de,                 \* the driver-enable pin
    transfer, aborting, \* the UARTE's frame (0 for none) and whether it was told to stop
    frames,             \* history: frames handed to rs485_uart_send so far
    \* receive
    cur, nxt, next_buf, \* DMA buffer being filled, the one after it, index to hand out next
    ring,               \* bytes in rs485_ring
    queued, drain,      \* drain_work is queued; where its handler is
    received, dropped, drained   \* received and drained: history

done == <<sem, giver, tx_result>>
uarte == <<transfer, aborting>>
calls == <<frame, frames>>
txVars == <<pc, calls, result, mutex, done, de, uarte>>
dmaVars == <<cur, nxt, next_buf>>
rxVars == <<ring, queued, received, dropped, drained>>
vars == <<txVars, dmaVars, rxVars, drain>>

Lesser(m, n) == IF m < n THEN m ELSE n

\* Transfer outcomes, as tx_result holds them.
OK == "ok"
CANCELED == "ECANCELED"

\* After rs485_uart_init: receiving into buffer 0, DE low.
Init ==
    /\ pc = [s \in Senders |-> "idle"]
    /\ frame = [s \in Senders |-> 0]
    /\ result = [s \in Senders |-> OK]
    /\ mutex = NoOne /\ sem = 0 /\ giver = 0 /\ tx_result = OK /\ de = 0
    /\ transfer = 0 /\ aborting = FALSE /\ frames = 0
    /\ cur = 0 /\ nxt = -1 /\ next_buf = 1
    /\ ring = 0 /\ queued = FALSE /\ drain = "idle"
    /\ received = 0 /\ dropped = 0 /\ drained = 0

---------------------------------------------------------------------------
(* rs485_uart_send, step by step.                                          *)

Step(s, from, to) ==
    /\ pc[s] = from /\ pc' = [pc EXCEPT ![s] = to]
    /\ UNCHANGED <<dmaVars, rxVars, drain>>

Call(s) ==
    /\ frames < MaxFrames
    /\ s = Drain => drain = "feed"
    /\ Step(s, "idle", "lock")
    /\ frames' = frames + 1 /\ frame' = [frame EXCEPT ![s] = frames + 1]
    /\ UNCHANGED <<result, mutex, done, de, uarte>>

\* Variant: the lock is tried, and the outcome ignored.
LockIgnored(s) ==
    /\ Step(s, "lock", "reset")
    /\ mutex' = s
    /\ UNCHANGED <<calls, result, done, de, uarte>>

Lock(s) ==
    /\ Step(s, "lock", "reset")
    /\ mutex = NoOne /\ mutex' = s
    /\ UNCHANGED <<calls, result, done, de, uarte>>

ResetSem(s) ==
    /\ Step(s, "reset", "raise")
    /\ sem' = 0 /\ giver' = 0
    /\ UNCHANGED <<calls, result, mutex, tx_result, de, uarte>>

RaiseDe(s) ==
    /\ Step(s, "raise", "start")
    /\ tx_result' = OK /\ de' = 1
    /\ UNCHANGED <<calls, result, mutex, sem, giver, uarte>>

\* The driver accepts the frame, or is still busy with an aborted one.
StartTransfer(s) ==
    /\ IF transfer = 0
       THEN Step(s, "start", "wait") /\ transfer' = frame[s] /\ aborting' = FALSE
       ELSE Step(s, "start", "refused") /\ UNCHANGED uarte
    /\ UNCHANGED <<calls, result, mutex, done, de>>

TakeSem(s) ==
    /\ Step(s, "wait", "settle")
    /\ sem = 1 /\ sem' = 0
    /\ UNCHANGED <<calls, result, mutex, giver, tx_result, de, uarte>>

\* 100 ms without a completion.
TimeOut(s) ==
    /\ Step(s, "wait", "abort")
    /\ sem = 0
    /\ UNCHANGED <<calls, result, mutex, done, de, uarte>>

\* uart_tx_abort only asks the hardware to stop.
AbortTransfer(s) ==
    /\ Step(s, "abort", "refused")
    /\ aborting' = (transfer # 0)
    /\ UNCHANGED <<calls, result, mutex, done, de, transfer>>

Return(s, from) ==
    /\ Step(s, from, "idle")
    /\ mutex' = NoOne /\ giver' = 0
    /\ UNCHANGED <<calls, result, sem, tx_result, uarte>>

\* Variants of the error exit: DE stays high; the mutex stays locked.
FailKeepsDe(s) == Return(s, "refused") /\ UNCHANGED de
FailKeepsMutex(s) ==
    /\ Step(s, "refused", "idle")
    /\ de' = 0
    /\ UNCHANGED <<calls, result, mutex, done, uarte>>

\* Both error exits, -ETIMEDOUT and the error of uart_tx.
Fail(s) == Return(s, "refused") /\ de' = 0

LowerDe(s) ==
    /\ Step(s, "settle", "echo")
    /\ de' = 0
    /\ result' = [result EXCEPT ![s] = tx_result]
    /\ UNCHANGED <<calls, mutex, done, uarte>>

\* The frame is echoed to the Bluetooth stream when the result is OK.
EchoAndReturn(s) == Return(s, "echo") /\ UNCHANGED de

---------------------------------------------------------------------------
(* uart_async_cb, in interrupt context.                                    *)

TransferEnds(outcome) ==
    /\ transfer # 0
    /\ transfer' = 0 /\ aborting' = FALSE
    /\ tx_result' = outcome
    /\ sem' = 1 /\ giver' = transfer
    /\ UNCHANGED <<pc, calls, result, mutex, de, dmaVars, rxVars, drain>>

TxDone == TransferEnds(OK)
TxAborted == aborting /\ TransferEnds(CANCELED)

\* Bytes arrive only while DE is low: RE# is tied to it.
Receive(n, submit) ==
    LET put == Lesser(n, Capacity - ring)
    IN /\ de = 0 /\ cur # -1
       /\ received + n <= MaxBytes
       /\ received' = received + n
       /\ ring' = ring + put
       /\ dropped' = dropped + (n - put)
       /\ queued' = (queued \/ submit)
       /\ UNCHANGED <<txVars, dmaVars, drained, drain>>

\* Variants: the worker is woken only when it is not running; the bytes that do
\* not fit go uncounted, or into the ring all the same.
RxReadyWakesIdle(n) == Receive(n, drain = "idle")
RxReadyOverfills(n) ==
    /\ de = 0 /\ cur # -1
    /\ received + n <= MaxBytes
    /\ received' = received + n
    /\ ring' = ring + n
    /\ queued' = TRUE
    /\ UNCHANGED <<txVars, dmaVars, dropped, drained, drain>>
RxReadyUncounted(n) ==
    /\ de = 0 /\ cur # -1
    /\ received + n <= MaxBytes
    /\ received' = received + n
    /\ ring' = Lesser(ring + n, Capacity)
    /\ queued' = TRUE
    /\ UNCHANGED <<txVars, dmaVars, dropped, drained, drain>>

\* k_work_submit queues the item again even while its handler runs.
RxReady(n) == Receive(n, TRUE)

\* The driver asks for the buffer after the current one.
RxBufRequest ==
    /\ cur # -1 /\ nxt = -1
    /\ nxt' = next_buf
    /\ next_buf' = 1 - next_buf
    /\ UNCHANGED <<txVars, cur, rxVars, drain>>

\* The current buffer is full and released; without a next one, or on an
\* error, the driver releases both and disables reception.
RxBufReleased ==
    /\ cur # -1 /\ nxt # -1
    /\ cur' = nxt /\ nxt' = -1
    /\ UNCHANGED <<txVars, next_buf, rxVars, drain>>

RxStopped ==
    /\ cur # -1
    /\ cur' = -1 /\ nxt' = -1
    /\ UNCHANGED <<txVars, next_buf, rxVars, drain>>

\* Variant: reception restarts with whatever buffer index was due.
RxDisabledKeepsIndex ==
    /\ cur = -1 /\ cur' = 0
    /\ UNCHANGED <<txVars, nxt, next_buf, rxVars, drain>>

RxDisabled ==
    /\ cur = -1 /\ cur' = 0
    /\ next_buf' = 1
    /\ UNCHANGED <<txVars, nxt, rxVars, drain>>

---------------------------------------------------------------------------
(* drain_work_handler on the system workqueue.                             *)

StartDrain ==
    /\ queued /\ queued' = FALSE
    /\ drain = "idle" /\ drain' = "get"
    /\ UNCHANGED <<txVars, dmaVars, ring, received, dropped, drained>>

GetChunk ==
    /\ drain = "get"
    /\ LET n == Lesser(ring, Chunk)
       IN /\ ring' = ring - n
          /\ drained' = drained + n
          /\ drain' = IF n > 0 THEN "feed" ELSE "return"
    /\ UNCHANGED <<txVars, dmaVars, queued, received, dropped>>

\* ble_transport_forward_rs485, panel_mirror_feed and flexit_slave_feed have
\* returned; the last one called rs485_uart_send any number of times.
FeedDone ==
    /\ drain = "feed" /\ pc[Drain] = "idle"
    /\ drain' = "get"
    /\ UNCHANGED <<txVars, dmaVars, rxVars>>

\* The ring was empty.  Until the handler has returned its item still runs.
DrainReturns ==
    /\ drain = "return" /\ drain' = "idle"
    /\ UNCHANGED <<txVars, dmaVars, rxVars>>

---------------------------------------------------------------------------
SendStep(s) ==
    \/ Lock(s) \/ ResetSem(s) \/ RaiseDe(s) \/ StartTransfer(s) \/ TakeSem(s) \/ TimeOut(s)
    \/ AbortTransfer(s) \/ Fail(s) \/ LowerDe(s) \/ EchoAndReturn(s)

Isr ==
    \/ TxDone \/ TxAborted
    \/ \E n \in 1 .. MaxBurst : RxReady(n)
    \/ RxBufRequest \/ RxBufReleased \/ RxStopped \/ RxDisabled

DrainStep == StartDrain \/ GetChunk \/ FeedDone \/ DrainReturns

Next == Isr \/ DrainStep \/ \E s \in Senders : Call(s) \/ SendStep(s)

Spec == Init /\ [][Next]_vars

\* Threads run, k_sem_take wakes at the latest when its 100 ms are over, and
\* the workqueue runs queued items.  Nothing is assumed of the bus or the
\* UARTE: a transfer may never end.
Fairness ==
    /\ \A s \in Senders : WF_vars(SendStep(s))
    /\ WF_vars(DrainStep)

FairSpec == Spec /\ Fairness

---------------------------------------------------------------------------
TxTypeOK ==
    /\ pc \in [Senders -> {"idle", "lock", "reset", "raise", "start", "wait", "abort",
                           "refused", "settle", "echo"}]
    /\ frame \in [Senders -> 0 .. MaxFrames]
    /\ result \in [Senders -> {OK, CANCELED}]
    /\ mutex \in Senders \cup {NoOne}
    /\ sem \in {0, 1} /\ giver \in 0 .. MaxFrames
    /\ tx_result \in {OK, CANCELED} /\ de \in {0, 1}
    /\ transfer \in 0 .. MaxFrames /\ aborting \in BOOLEAN /\ frames \in 0 .. MaxFrames

RxTypeOK ==
    /\ cur \in {-1, 0, 1} /\ nxt \in {-1, 0, 1} /\ next_buf \in {0, 1}
    /\ ring \in 0 .. Capacity
    /\ queued \in BOOLEAN /\ drain \in {"idle", "get", "feed", "return"}
    /\ received \in Nat /\ dropped \in Nat /\ drained \in Nat

TypeOK == TxTypeOK /\ RxTypeOK

\* Whenever no send is in progress the transceiver listens: every exit of
\* rs485_uart_send, the failing ones included, lowers DE before it unlocks.
BusReleased == mutex = NoOne => de = 0

\* The UARTE is never given the buffer it is filling, across buffer swaps and
\* restarts after errors.
NoOverlappingDma == nxt # -1 => nxt # cur

\* Every byte received is in the ring, was handed to the consumers, or is
\* counted as dropped.
BytesConserved == received = ring + drained + dropped

\* No burst is left behind: bytes in the ring imply that the worker will look
\* again (no lost wakeup between its last ring_buf_get and its return).
DrainScheduled == ring > 0 => queued \/ drain \in {"get", "feed"}

\* Every send returns, whatever the UARTE does, so the workqueue is never
\* blocked for good.
SendReturns == \A s \in Senders : pc[s] # "idle" ~> pc[s] = "idle"

\* The senders, their mutex and the DE pin together are the line of
\* HalfDuplexLine: turns never overlap, and none ends with the line driven
\* (rs485_uart.c:165-216, every exit).
PlaceOf(step) ==
    CASE step = "idle" -> "away"
      [] step = "lock" -> "waiting"
      [] step \in {"reset", "raise"} -> "quiet"
      [] step \in {"start", "wait", "abort", "refused", "settle"} -> "driving"
      [] step = "echo" -> "released"

bus == INSTANCE HalfDuplexLine WITH place <- [s \in Senders |-> PlaceOf(pc[s])], driver <- de

IsHalfDuplex == bus!Spec

\* rs485_uart.c:174 says k_sem_reset drains "any stale completion left over
\* from a previous aborted TX": the completion a sender waits for is that of
\* its own frame.
CompletionIsOwn == \A s \in Senders : pc[s] = "settle" => giver = frame[s]
=============================================================================
