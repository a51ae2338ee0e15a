--------------------------- MODULE Rs485UartProofs ---------------------------
(***************************************************************************)
(* The safety invariants of Rs485Uart hold for every set of senders and    *)
(* every size.  They rest on one inductive invariant, IInv: who holds      *)
(* tx_mutex is known from the program counters, DE is down at the last     *)
(* step of a send, and the buffer handed out next is the one that is not   *)
(* being filled.  From it follow the refinement of HalfDuplexLine, what    *)
(* keeps completions and frames with their senders as long as no send      *)
(* times out, and the bound on the steps of a send.                        *)
(***************************************************************************)
EXTENDS Rs485Uart, TLAPS

\* A sender is past k_mutex_lock exactly when it holds the mutex.
MutexInv == \A s \in Senders : pc[s] \notin {"idle", "lock"} <=> mutex = s

\* DE is down again when a send reaches its echo.
EchoInv == \A s \in Senders : pc[s] = "echo" => de = 0

\* Of the two DMA buffers, one is filled and the other is next or due.
DmaInv ==
    /\ cur = -1 => nxt = -1
    /\ nxt # -1 => nxt = 1 - cur
    /\ cur # -1 => next_buf = IF nxt = -1 THEN 1 - cur ELSE cur

TxInv == MutexInv /\ EchoInv /\ BusReleased
RxInv == BytesConserved /\ DrainScheduled

IInv == TypeOK /\ TxInv /\ DmaInv /\ RxInv

---------------------------------------------------------------------------
\* The smaller of two numbers is one of them and at most each.
LEMMA LesserBounds ==
    ASSUME NEW m \in Nat, NEW n \in Nat
    PROVE  Lesser(m, n) \in Nat /\ Lesser(m, n) <= m /\ Lesser(m, n) <= n
           /\ (Lesser(m, n) = 0 => m = 0 \/ n = 0)
BY DEF Lesser

LEMMA Sizes ==
    /\ Capacity \in Nat /\ Chunk \in Nat /\ Chunk > 0 /\ MaxBurst \in Nat
    /\ MaxBytes \in Nat /\ MaxFrames \in Nat
BY SizeAssumption

LEMMA InitEstablishes == Init => IInv
<1> SUFFICES ASSUME Init PROVE IInv
  OBVIOUS
<1> USE SenderAssumption, Sizes
<1>1. TxTypeOK
  <2>1. pc \in [Senders -> {"idle", "lock", "reset", "raise", "start", "wait", "abort",
                            "refused", "settle", "echo"}]
    BY DEF Init
  <2>2. frame \in [Senders -> 0 .. MaxFrames] /\ result \in [Senders -> {OK, CANCELED}]
    BY DEF Init
  <2>3. aborting \in BOOLEAN
    BY DEF Init
  <2>4. /\ mutex \in Senders \cup {NoOne} /\ sem \in {0, 1} /\ giver \in 0 .. MaxFrames
        /\ tx_result \in {OK, CANCELED} /\ de \in {0, 1}
        /\ transfer \in 0 .. MaxFrames /\ frames \in 0 .. MaxFrames
    BY DEF Init
  <2> QED
    BY <2>1, <2>2, <2>3, <2>4 DEF TxTypeOK
<1>2. RxTypeOK
  <2>1. queued \in BOOLEAN
    BY DEF Init
  <2>2. /\ cur \in {-1, 0, 1} /\ nxt \in {-1, 0, 1} /\ next_buf \in {0, 1}
        /\ ring \in 0 .. Capacity /\ drain \in {"idle", "get", "feed", "return"}
        /\ received \in Nat /\ dropped \in Nat /\ drained \in Nat
    BY DEF Init
  <2> QED
    BY <2>1, <2>2 DEF RxTypeOK
<1>3. TxInv
  BY DEF Init, TxInv, MutexInv, EchoInv, BusReleased
<1>4. DmaInv
  BY DEF Init, DmaInv
<1>5. RxInv
  BY DEF Init, RxInv, BytesConserved, DrainScheduled
<1> QED
  BY <1>1, <1>2, <1>3, <1>4, <1>5 DEF IInv, TypeOK

\* A step of a sender leaves the receive side alone.
LEMMA SendFrame ==
    ASSUME NEW s \in Senders, Call(s) \/ SendStep(s)
    PROVE  UNCHANGED <<dmaVars, rxVars, drain>>
BY DEF Call, SendStep, Lock, ResetSem, RaiseDe, StartTransfer, TakeSem, TimeOut, AbortTransfer,
       Fail, LowerDe, EchoAndReturn, Return, Step

\* Every step of a sender keeps the transmit half: only the holder of the mutex
\* is past the lock, so nobody else can be at its echo when DE rises.
LEMMA SendKeepsTx ==
    ASSUME TxTypeOK, TxInv, NEW s \in Senders, Call(s) \/ SendStep(s)
    PROVE  TxTypeOK' /\ TxInv'
<1> USE DEF Step
<1>1. CASE Call(s)
  BY <1>1, Sizes, SenderAssumption DEF Call, TxTypeOK, TxInv, MutexInv, EchoInv, BusReleased, done, uarte
<1>2. CASE Lock(s)
  BY <1>2, SenderAssumption DEF Lock, TxTypeOK, TxInv, MutexInv, EchoInv, BusReleased, done, uarte, calls
<1>3. CASE ResetSem(s)
  BY <1>3, Sizes, SenderAssumption DEF ResetSem, TxTypeOK, TxInv, MutexInv, EchoInv, BusReleased, uarte, calls
<1>4. CASE RaiseDe(s)
  BY <1>4, SenderAssumption DEF RaiseDe, TxTypeOK, TxInv, MutexInv, EchoInv, BusReleased, uarte, calls
<1>5. CASE StartTransfer(s)
  <2>1. UNCHANGED <<calls, result, mutex, done, de>>
    BY <1>5 DEF StartTransfer
  <2>2. pc[s] = "start" /\ pc' \in {[pc EXCEPT ![s] = "wait"], [pc EXCEPT ![s] = "refused"]}
    BY <1>5 DEF StartTransfer
  <2>3. transfer' \in {transfer, frame[s]} /\ aborting' \in {aborting, FALSE}
    BY <1>5 DEF StartTransfer, uarte
  <2>4. aborting' \in BOOLEAN
    BY <2>3 DEF TxTypeOK
  <2>5. transfer' \in 0 .. MaxFrames
    BY <2>3 DEF TxTypeOK
  <2>6. pc' \in [Senders -> {"idle", "lock", "reset", "raise", "start", "wait", "abort",
                             "refused", "settle", "echo"}]
    BY <2>2 DEF TxTypeOK
  <2>7. TxTypeOK'
    BY <2>1, <2>4, <2>5, <2>6 DEF TxTypeOK, calls, done
  <2>8. TxInv'
    BY <2>1, <2>2 DEF TxTypeOK, TxInv, MutexInv, EchoInv, BusReleased
  <2> QED
    BY <2>7, <2>8
<1>6. CASE TakeSem(s)
  BY <1>6, SenderAssumption DEF TakeSem, TxTypeOK, TxInv, MutexInv, EchoInv, BusReleased, uarte, calls
<1>7. CASE TimeOut(s)
  BY <1>7, SenderAssumption DEF TimeOut, TxTypeOK, TxInv, MutexInv, EchoInv, BusReleased, done, uarte, calls
<1>8. CASE AbortTransfer(s)
  BY <1>8, SenderAssumption DEF AbortTransfer, TxTypeOK, TxInv, MutexInv, EchoInv, BusReleased, done, calls
<1>9. CASE Fail(s)
  BY <1>9, Sizes, SenderAssumption
     DEF Fail, Return, TxTypeOK, TxInv, MutexInv, EchoInv, BusReleased, uarte, calls
<1>10. CASE LowerDe(s)
  BY <1>10, SenderAssumption DEF LowerDe, TxTypeOK, TxInv, MutexInv, EchoInv, BusReleased, done, uarte, calls
<1>11. CASE EchoAndReturn(s)
  BY <1>11, Sizes, SenderAssumption
     DEF EchoAndReturn, Return, TxTypeOK, TxInv, MutexInv, EchoInv, BusReleased, uarte, calls
<1> QED
  BY <1>1, <1>2, <1>3, <1>4, <1>5, <1>6, <1>7, <1>8, <1>9, <1>10, <1>11 DEF SendStep

\* The end of a transfer gives the semaphore and changes no program counter.
LEMMA EndKeepsTx ==
    ASSUME TxTypeOK, TxInv, NEW outcome \in {OK, CANCELED}, TransferEnds(outcome)
    PROVE  TxTypeOK' /\ TxInv'
<1>1. TxTypeOK'
  <2>1. aborting' \in BOOLEAN
    BY DEF TransferEnds
  <2>2. sem' \in {0, 1} /\ transfer' \in 0 .. MaxFrames /\ giver' \in 0 .. MaxFrames
    BY Sizes DEF TransferEnds, TxTypeOK
  <2>3. tx_result' \in {OK, CANCELED} /\ UNCHANGED <<pc, frame, frames, result, mutex, de>>
    BY DEF TransferEnds, calls
  <2> QED
    BY <2>1, <2>2, <2>3 DEF TxTypeOK
<1>2. TxInv'
  BY DEF TransferEnds, TxInv, MutexInv, EchoInv, BusReleased
<1> QED
  BY <1>1, <1>2

\* A buffer event keeps the two buffers apart.
LEMMA DmaStep ==
    ASSUME RxTypeOK, DmaInv, RxBufRequest \/ RxBufReleased \/ RxStopped \/ RxDisabled
    PROVE  RxTypeOK' /\ DmaInv'
<1>1. CASE RxBufRequest
  BY <1>1 DEF RxBufRequest, RxTypeOK, DmaInv, rxVars
<1>2. CASE RxBufReleased
  BY <1>2 DEF RxBufReleased, RxTypeOK, DmaInv, rxVars
<1>3. CASE RxStopped
  BY <1>3 DEF RxStopped, RxTypeOK, DmaInv, rxVars
<1>4. CASE RxDisabled
  BY <1>4 DEF RxDisabled, RxTypeOK, DmaInv, rxVars
<1> QED
  BY <1>1, <1>2, <1>3, <1>4

\* What a burst adds is put into the ring or counted as dropped, and the worker
\* is queued.
LEMMA BurstStep ==
    ASSUME RxTypeOK, RxInv, NEW n \in 1 .. MaxBurst, RxReady(n)
    PROVE  RxTypeOK' /\ RxInv'
<1> DEFINE put == Lesser(n, Capacity - ring)
<1>1. put \in Nat /\ put <= n /\ put <= Capacity - ring
  <2>1. n \in Nat /\ Capacity - ring \in Nat
    BY Sizes DEF RxTypeOK
  <2> QED
    BY <2>1, LesserBounds
<1>2. ring' = ring + put /\ dropped' = dropped + (n - put) /\ received' = received + n
      /\ queued' = TRUE /\ UNCHANGED <<drained, drain, cur, nxt, next_buf>>
  BY DEF RxReady, Receive, dmaVars, RxTypeOK
<1> HIDE DEF put
<1>3. RxTypeOK'
  BY <1>1, <1>2, Sizes DEF RxTypeOK
<1>4. RxInv'
  BY <1>1, <1>2 DEF RxInv, BytesConserved, DrainScheduled, RxTypeOK
<1> QED
  BY <1>3, <1>4

\* The worker returns only from an empty ring, so no byte waits unseen.
LEMMA WorkerStep ==
    ASSUME RxTypeOK, RxInv, DrainStep
    PROVE  RxTypeOK' /\ RxInv'
<1>1. CASE StartDrain
  BY <1>1 DEF StartDrain, RxTypeOK, RxInv, BytesConserved, DrainScheduled, dmaVars
<1>2. CASE GetChunk
  <2> DEFINE n == Lesser(ring, Chunk)
  <2>1. n \in Nat /\ n <= ring /\ (n = 0 => ring = 0)
    BY LesserBounds, Sizes DEF RxTypeOK
  <2>2. ring' = ring - n /\ drained' = drained + n /\ drain' = IF n > 0 THEN "feed" ELSE "return"
    BY <1>2 DEF GetChunk
  <2>3. UNCHANGED <<cur, nxt, next_buf, queued, received, dropped>>
    BY <1>2 DEF GetChunk, dmaVars
  <2> HIDE DEF n
  <2>4. RxTypeOK'
    BY <2>1, <2>2, <2>3, Sizes DEF RxTypeOK
  <2>5. RxInv'
    BY <2>1, <2>2, <2>3 DEF RxInv, BytesConserved, DrainScheduled, RxTypeOK
  <2> QED
    BY <2>4, <2>5
<1>3. CASE FeedDone
  BY <1>3 DEF FeedDone, RxTypeOK, RxInv, BytesConserved, DrainScheduled, dmaVars, rxVars
<1>4. CASE DrainReturns
  BY <1>4 DEF DrainReturns, RxTypeOK, RxInv, BytesConserved, DrainScheduled, dmaVars, rxVars
<1> QED
  BY <1>1, <1>2, <1>3, <1>4 DEF DrainStep

\* The receive side as a whole, for steps that leave it alone.
LEMMA RxFrame ==
    ASSUME RxTypeOK, DmaInv, RxInv, UNCHANGED <<dmaVars, rxVars, drain>>
    PROVE  RxTypeOK' /\ DmaInv' /\ RxInv'
BY DEF RxTypeOK, DmaInv, RxInv, BytesConserved, DrainScheduled, dmaVars, rxVars

\* Likewise the transmit side.
LEMMA TxFrame ==
    ASSUME TxTypeOK, TxInv, UNCHANGED txVars
    PROVE  TxTypeOK' /\ TxInv'
BY DEF TxTypeOK, TxInv, MutexInv, EchoInv, BusReleased, txVars, done, uarte, calls

LEMMA Invariance == Spec => []IInv
<1>1. Init => IInv
  BY InitEstablishes
<1>2. ASSUME IInv, [Next]_vars
      PROVE  IInv'
  <2>1. TxTypeOK /\ TxInv /\ RxTypeOK /\ DmaInv /\ RxInv
    BY <1>2 DEF IInv, TypeOK
  <2>2. ASSUME NEW s \in Senders, Call(s) \/ SendStep(s)
        PROVE  IInv'
    BY <2>1, <2>2, SendKeepsTx, SendFrame, RxFrame DEF IInv, TypeOK
  <2>3. CASE TxDone \/ TxAborted
    <3>1. TxTypeOK' /\ TxInv'
      BY <2>1, <2>3, EndKeepsTx DEF TxDone, TxAborted
    <3>2. UNCHANGED <<dmaVars, rxVars, drain>>
      BY <2>3 DEF TxDone, TxAborted, TransferEnds
    <3> QED
      BY <2>1, <3>1, <3>2, RxFrame DEF IInv, TypeOK
  <2>4. ASSUME NEW n \in 1 .. MaxBurst, RxReady(n)
        PROVE  IInv'
    <3>1. UNCHANGED txVars /\ UNCHANGED dmaVars
      BY <2>4 DEF RxReady, Receive
    <3>2. DmaInv'
      BY <2>1, <3>1 DEF DmaInv, dmaVars
    <3> QED
      BY <2>1, <2>4, <3>1, <3>2, TxFrame, BurstStep DEF IInv, TypeOK
  <2>5. CASE RxBufRequest \/ RxBufReleased \/ RxStopped \/ RxDisabled
    <3>1. UNCHANGED txVars /\ UNCHANGED rxVars /\ UNCHANGED drain
      BY <2>5 DEF RxBufRequest, RxBufReleased, RxStopped, RxDisabled
    <3>2. RxInv'
      BY <2>1, <3>1 DEF RxInv, BytesConserved, DrainScheduled, rxVars
    <3> QED
      BY <2>1, <2>5, <3>1, <3>2, TxFrame, DmaStep DEF IInv, TypeOK
  <2>6. CASE DrainStep
    <3>1. UNCHANGED txVars /\ UNCHANGED dmaVars
      BY <2>6 DEF DrainStep, StartDrain, GetChunk, FeedDone, DrainReturns
    <3>2. DmaInv'
      BY <2>1, <3>1 DEF DmaInv, dmaVars
    <3> QED
      BY <2>1, <2>6, <3>1, <3>2, TxFrame, WorkerStep DEF IInv, TypeOK
  <2>7. CASE UNCHANGED vars
    BY <2>1, <2>7, TxFrame, RxFrame DEF IInv, TypeOK, vars
  <2> QED
    BY <1>2, <2>2, <2>3, <2>4, <2>5, <2>6, <2>7 DEF Next, Isr
<1> QED
  BY <1>1, <1>2, PTL DEF Spec

---------------------------------------------------------------------------
\* Every reachable state is well typed; in particular the ring never holds more
\* than its capacity, whatever the bursts.
THEOREM TypeCorrect == Spec => []TypeOK
BY Invariance, PTL DEF IInv

\* Whatever way a send ends, timeout and refusal included, the transceiver
\* listens again once tx_mutex is free.
THEOREM BusReleasedHolds == Spec => []BusReleased
<1>1. IInv => BusReleased
  BY DEF IInv, TxInv
<1> QED
  BY <1>1, Invariance, PTL

\* The UARTE is never handed the buffer it is filling, across swaps and
\* restarts of the reception.
THEOREM NoOverlappingDmaHolds == Spec => []NoOverlappingDma
<1>1. IInv => NoOverlappingDma
  BY DEF IInv, TypeOK, RxTypeOK, DmaInv, NoOverlappingDma
<1> QED
  BY <1>1, Invariance, PTL

\* Every received byte is waiting, delivered or counted as dropped.
THEOREM BytesConservedHolds == Spec => []BytesConserved
<1>1. IInv => BytesConserved
  BY DEF IInv, RxInv
<1> QED
  BY <1>1, Invariance, PTL

\* No wakeup of the drain worker is lost, for every ring and chunk size.
THEOREM DrainScheduledHolds == Spec => []DrainScheduled
<1>1. IInv => DrainScheduled
  BY DEF IInv, RxInv
<1> QED
  BY <1>1, Invariance, PTL

---------------------------------------------------------------------------
(* The senders, the mutex and the DE pin implement HalfDuplexLine.         *)

Steps == {"idle", "lock", "reset", "raise", "start", "wait", "abort", "refused", "settle", "echo"}

\* A sender that moves from one step to another moves from place to place.
LEMMA PlaceMoves ==
    ASSUME TxTypeOK, NEW s \in Senders, NEW to \in Steps, pc' = [pc EXCEPT ![s] = to]
    PROVE  [r \in Senders |-> PlaceOf(pc'[r])]
               = [[r \in Senders |-> PlaceOf(pc[r])] EXCEPT ![s] = PlaceOf(to)]
BY DEF TxTypeOK

\* Between two steps of the same place nothing moves.
LEMMA PlaceStays ==
    ASSUME TxTypeOK, NEW s \in Senders, NEW to \in Steps, pc' = [pc EXCEPT ![s] = to],
           PlaceOf(to) = PlaceOf(pc[s])
    PROVE  [r \in Senders |-> PlaceOf(pc'[r])] = [r \in Senders |-> PlaceOf(pc[r])]
BY DEF TxTypeOK

LEMMA LineStep ==
    ASSUME TxTypeOK, TxInv, NEW s \in Senders, Call(s) \/ SendStep(s)
    PROVE  [bus!Next]_(bus!line)
<1> DEFINE place == [r \in Senders |-> PlaceOf(pc[r])]
<1>1. place[s] = PlaceOf(pc[s])
  OBVIOUS
<1>2. ASSUME NEW to \in Steps, pc' = [pc EXCEPT ![s] = to]
      PROVE  place' = [place EXCEPT ![s] = PlaceOf(to)]
  BY <1>2, PlaceMoves
<1>3. ASSUME NEW to \in Steps, pc' = [pc EXCEPT ![s] = to], PlaceOf(to) = PlaceOf(pc[s]), de' = de
      PROVE  [bus!Next]_(bus!line)
  BY <1>3, PlaceStays DEF bus!line
<1> USE DEF Step, bus!Move
<1>4. CASE Call(s)
  <2>1. pc[s] = "idle" /\ pc' = [pc EXCEPT ![s] = "lock"] /\ de' = de
    BY <1>4 DEF Call
  <2>2. bus!Ask(s)
    BY <1>1, <1>2, <2>1 DEF bus!Ask, PlaceOf, Steps
  <2> QED
    BY <2>2 DEF bus!Next
<1>5. CASE Lock(s)
  <2>1. pc[s] = "lock" /\ pc' = [pc EXCEPT ![s] = "reset"] /\ de' = de /\ mutex = NoOne
    BY <1>5 DEF Lock
  <2>2. ASSUME NEW r \in Senders PROVE ~bus!InTurn(r)
    <3>1. pc[r] \in {"idle", "lock"}
      BY <2>1, SenderAssumption DEF TxInv, MutexInv
    <3> QED
      BY <3>1 DEF bus!InTurn, PlaceOf
  <2>3. bus!Enter(s)
    BY <1>1, <1>2, <2>1, <2>2 DEF bus!Enter, PlaceOf, Steps
  <2> QED
    BY <2>3 DEF bus!Next
<1>6. CASE ResetSem(s)
  <2>1. pc[s] = "reset" /\ pc' = [pc EXCEPT ![s] = "raise"] /\ de' = de
    BY <1>6 DEF ResetSem
  <2> QED
    BY <1>3, <2>1 DEF PlaceOf, Steps
<1>7. CASE RaiseDe(s)
  <2>1. pc[s] = "raise" /\ pc' = [pc EXCEPT ![s] = "start"] /\ de' = 1
    BY <1>7 DEF RaiseDe
  <2>2. bus!Drive(s)
    BY <1>1, <1>2, <2>1 DEF bus!Drive, PlaceOf, Steps
  <2> QED
    BY <2>2 DEF bus!Next
<1>8. CASE StartTransfer(s) \/ TakeSem(s) \/ TimeOut(s) \/ AbortTransfer(s)
  <2>1. pc[s] \in {"start", "wait", "abort"} /\ de' = de
    BY <1>8 DEF StartTransfer, TakeSem, TimeOut, AbortTransfer, done
  <2>2. PICK to \in {"wait", "refused", "settle", "abort"} : pc' = [pc EXCEPT ![s] = to]
    BY <1>8 DEF StartTransfer, TakeSem, TimeOut, AbortTransfer
  <2> QED
    BY <1>3, <2>1, <2>2 DEF PlaceOf, Steps
<1>9. CASE Fail(s)
  <2>1. pc[s] = "refused" /\ pc' = [pc EXCEPT ![s] = "idle"] /\ de' = 0
    BY <1>9 DEF Fail, Return
  <2>2. bus!Leave(s)
    BY <1>1, <1>2, <2>1 DEF bus!Leave, PlaceOf, Steps
  <2> QED
    BY <2>2 DEF bus!Next
<1>10. CASE LowerDe(s)
  <2>1. pc[s] = "settle" /\ pc' = [pc EXCEPT ![s] = "echo"] /\ de' = 0
    BY <1>10 DEF LowerDe
  <2>2. bus!Release(s)
    BY <1>1, <1>2, <2>1 DEF bus!Release, PlaceOf, Steps
  <2> QED
    BY <2>2 DEF bus!Next
<1>11. CASE EchoAndReturn(s)
  <2>1. pc[s] = "echo" /\ pc' = [pc EXCEPT ![s] = "idle"] /\ de' = de
    BY <1>11 DEF EchoAndReturn, Return
  <2>2. de' = 0
    BY <2>1 DEF TxInv, EchoInv
  <2>3. bus!Leave(s)
    BY <1>1, <1>2, <2>1, <2>2 DEF bus!Leave, PlaceOf, Steps
  <2> QED
    BY <2>3 DEF bus!Next
<1> QED
  BY <1>4, <1>5, <1>6, <1>7, <1>8, <1>9, <1>10, <1>11 DEF SendStep

\* The interrupts and the drain worker move no sender and no pin.
LEMMA OthersKeepLine ==
    ASSUME Isr \/ DrainStep \/ UNCHANGED vars
    PROVE  UNCHANGED <<pc, de>>
<1>1. CASE Isr
  BY <1>1 DEF Isr, TxDone, TxAborted, TransferEnds, RxReady, Receive, RxBufRequest, RxBufReleased,
              RxStopped, RxDisabled, txVars
<1>2. CASE DrainStep
  BY <1>2 DEF DrainStep, StartDrain, GetChunk, FeedDone, DrainReturns, txVars
<1>3. CASE UNCHANGED vars
  BY <1>3 DEF vars, txVars
<1> QED
  BY <1>1, <1>2, <1>3

\* Senders take turns, only the one in its turn drives the line, and every way
\* out of rs485_uart_send releases it, for any number of senders.
THEOREM ImplementsLine == Spec => IsHalfDuplex
<1>1. Init => bus!Init
  BY DEF Init, bus!Init, PlaceOf
<1>2. IInv /\ [Next]_vars => [bus!Next]_(bus!line)
  <2> SUFFICES ASSUME IInv, [Next]_vars PROVE [bus!Next]_(bus!line)
    OBVIOUS
  <2>1. ASSUME NEW s \in Senders, Call(s) \/ SendStep(s)
        PROVE  [bus!Next]_(bus!line)
    BY <2>1, LineStep DEF IInv, TypeOK
  <2>2. CASE Isr \/ DrainStep \/ UNCHANGED vars
    BY <2>2, OthersKeepLine DEF bus!line
  <2> QED
    BY <2>1, <2>2 DEF Next
<1> QED
  BY <1>1, <1>2, Invariance, PTL DEF Spec, IsHalfDuplex, bus!Spec

---------------------------------------------------------------------------
(* Whose completion a sender takes.                                        *)

\* The frame of a send is numbered.
FrameInv == \A s \in Senders : pc[s] # "idle" => frame[s] # 0

\* From k_sem_reset to uart_tx the UARTE and the semaphore are at rest; from then
\* on both are about this sender's frame, which ends once.
OwnInv ==
    \A s \in Senders :
        /\ pc[s] \in {"raise", "start"} => transfer = 0 /\ sem = 0
        /\ pc[s] = "wait" =>
              \/ transfer = frame[s] /\ sem = 0
              \/ transfer = 0 /\ sem = 1 /\ giver = frame[s]
        /\ pc[s] = "settle" => transfer = 0 /\ giver = frame[s]

\* k_sem_reset finds no transfer under way that could still give the semaphore.
Drained == \A s \in Senders : ResetSem(s) => transfer = 0

\* A sender past the lock is there alone.
LEMMA Alone ==
    ASSUME TxInv, NEW s \in Senders, pc[s] \notin {"idle", "lock"}
    PROVE  \A r \in Senders : r # s => pc[r] \in {"idle", "lock"}
BY DEF TxInv, MutexInv

LEMMA FrameStep ==
    ASSUME TxTypeOK, FrameInv, NEW s \in Senders, Call(s) \/ SendStep(s)
    PROVE  FrameInv'
<1>1. CASE Call(s)
  <2>1. frames + 1 # 0 /\ frame' = [frame EXCEPT ![s] = frames + 1]
    BY <1>1, Sizes DEF Call, TxTypeOK
  <2>2. pc' = [pc EXCEPT ![s] = "lock"]
    BY <1>1 DEF Call, Step
  <2> QED
    BY <2>1, <2>2 DEF FrameInv, TxTypeOK
<1>2. CASE SendStep(s)
  <2>1. frame' = frame /\ pc[s] # "idle"
    BY <1>2 DEF SendStep, Lock, ResetSem, RaiseDe, StartTransfer, TakeSem, TimeOut, AbortTransfer,
                Fail, LowerDe, EchoAndReturn, Return, Step, calls
  <2>2. PICK to : pc' = [pc EXCEPT ![s] = to]
    BY <1>2 DEF SendStep, Lock, ResetSem, RaiseDe, StartTransfer, TakeSem, TimeOut, AbortTransfer,
                Fail, LowerDe, EchoAndReturn, Return, Step
  <2> QED
    BY <2>1, <2>2 DEF FrameInv, TxTypeOK
<1> QED
  BY <1>1, <1>2

\* A sender's step keeps what concerns the sender in its turn.
LEMMA OwnStep ==
    ASSUME TxTypeOK, TxInv, FrameInv, OwnInv, Drained, NEW s \in Senders, Call(s) \/ SendStep(s)
    PROVE  OwnInv'
<1> USE DEF Step
<1>1. CASE Call(s)
  <2>1. pc' = [pc EXCEPT ![s] = "lock"] /\ UNCHANGED <<transfer, sem, giver>>
    BY <1>1 DEF Call, uarte, done
  <2>2. \A r \in Senders : r # s => frame'[r] = frame[r]
    BY <1>1 DEF Call, TxTypeOK
  <2> QED
    BY <2>1, <2>2 DEF OwnInv, TxTypeOK
<1>2. CASE Lock(s)
  BY <1>2 DEF Lock, OwnInv, TxTypeOK, uarte, done, calls
<1>3. CASE ResetSem(s)
  <2>1. transfer = 0 /\ sem' = 0 /\ UNCHANGED <<transfer, frame>>
    BY <1>3 DEF Drained, ResetSem, uarte, calls
  <2>2. pc[s] = "reset" /\ pc' = [pc EXCEPT ![s] = "raise"]
    BY <1>3 DEF ResetSem
  <2>3. \A r \in Senders : r # s => pc[r] \in {"idle", "lock"}
    BY <2>2, Alone
  <2> QED
    BY <2>1, <2>2, <2>3 DEF OwnInv, TxTypeOK
<1>4. CASE RaiseDe(s)
  BY <1>4 DEF RaiseDe, OwnInv, TxTypeOK, uarte, calls
<1>5. CASE StartTransfer(s)
  <2>1. pc[s] = "start" /\ transfer = 0 /\ sem = 0
    BY <1>5 DEF StartTransfer, OwnInv
  <2>2. pc' = [pc EXCEPT ![s] = "wait"] /\ transfer' = frame[s]
    BY <1>5, <2>1 DEF StartTransfer
  <2>3. UNCHANGED <<frame, sem, giver>>
    BY <1>5 DEF StartTransfer, calls, done
  <2>4. \A r \in Senders : r # s => pc[r] \in {"idle", "lock"}
    BY <2>1, Alone
  <2> QED
    BY <2>1, <2>2, <2>3, <2>4 DEF OwnInv, TxTypeOK
<1>6. CASE TakeSem(s)
  <2>1. pc[s] = "wait" /\ sem = 1 /\ pc' = [pc EXCEPT ![s] = "settle"]
    BY <1>6 DEF TakeSem
  <2>2. transfer = 0 /\ giver = frame[s]
    BY <2>1 DEF OwnInv
  <2>3. UNCHANGED <<frame, transfer, giver>>
    BY <1>6 DEF TakeSem, calls, uarte
  <2>4. \A r \in Senders : r # s => pc[r] \in {"idle", "lock"}
    BY <2>1, Alone
  <2> QED
    BY <2>1, <2>2, <2>3, <2>4 DEF OwnInv, TxTypeOK
<1>7. CASE TimeOut(s) \/ AbortTransfer(s)
  <2>1. PICK to \in {"abort", "refused"} : pc' = [pc EXCEPT ![s] = to]
    BY <1>7 DEF TimeOut, AbortTransfer
  <2>2. UNCHANGED <<frame, transfer, sem, giver>>
    BY <1>7 DEF TimeOut, AbortTransfer, calls, uarte, done
  <2> QED
    BY <2>1, <2>2 DEF OwnInv, TxTypeOK
<1>8. CASE LowerDe(s)
  BY <1>8 DEF LowerDe, OwnInv, TxTypeOK, uarte, calls, done
<1>9. CASE Fail(s) \/ EchoAndReturn(s)
  <2>1. pc[s] \in {"refused", "echo"} /\ pc' = [pc EXCEPT ![s] = "idle"]
    BY <1>9 DEF Fail, EchoAndReturn, Return
  <2>2. UNCHANGED <<frame, transfer, sem>>
    BY <1>9 DEF Fail, EchoAndReturn, Return, calls, uarte
  <2>3. \A r \in Senders : r # s => pc[r] \in {"idle", "lock"}
    BY <2>1, Alone
  <2> QED
    BY <2>1, <2>2, <2>3 DEF OwnInv, TxTypeOK
<1> QED
  BY <1>1, <1>2, <1>3, <1>4, <1>5, <1>6, <1>7, <1>8, <1>9 DEF SendStep

\* A transfer ends for the sender that waits for it.
LEMMA OwnEnds ==
    ASSUME OwnInv, NEW outcome, TransferEnds(outcome)
    PROVE  OwnInv'
BY DEF OwnInv, TransferEnds, calls

LEMMA OthersKeepOwn ==
    ASSUME FrameInv, OwnInv, UNCHANGED txVars
    PROVE  FrameInv' /\ OwnInv'
BY DEF FrameInv, OwnInv, txVars, calls, done, uarte

LEMMA ReceptionKeepsTx ==
    ASSUME Isr \/ DrainStep, ~TxDone, ~TxAborted
    PROVE  UNCHANGED txVars
<1>1. CASE Isr
  BY <1>1 DEF Isr, RxReady, Receive, RxBufRequest, RxBufReleased, RxStopped, RxDisabled
<1>2. CASE DrainStep
  BY <1>2 DEF DrainStep, StartDrain, GetChunk, FeedDone, DrainReturns
<1> QED
  BY <1>1, <1>2

LEMMA FramesNumbered == Spec => []FrameInv
<1>1. Init => FrameInv
  BY DEF Init, FrameInv
<1>2. IInv /\ FrameInv /\ [Next]_vars => FrameInv'
  <2> SUFFICES ASSUME IInv, FrameInv, [Next]_vars PROVE FrameInv'
    OBVIOUS
  <2>1. ASSUME NEW s \in Senders, Call(s) \/ SendStep(s) PROVE FrameInv'
    BY <2>1, FrameStep DEF IInv, TypeOK
  <2>2. CASE TxDone \/ TxAborted
    BY <2>2 DEF TxDone, TxAborted, TransferEnds, FrameInv, calls
  <2>3. CASE UNCHANGED txVars
    BY <2>3 DEF FrameInv, txVars, calls
  <2> QED
    BY <2>1, <2>2, <2>3, ReceptionKeepsTx DEF Next, vars
<1> QED
  BY <1>1, <1>2, Invariance, PTL DEF Spec

LEMMA OwnInvStep == IInv /\ FrameInv /\ OwnInv /\ [Next]_vars /\ [Drained]_vars => OwnInv'
<1> SUFFICES ASSUME IInv, FrameInv, OwnInv, [Next]_vars, [Drained]_vars PROVE OwnInv'
  OBVIOUS
<1>1. CASE UNCHANGED txVars
  BY <1>1, OthersKeepOwn
<1>2. ASSUME NEW s \in Senders, Call(s) \/ SendStep(s), Drained PROVE OwnInv'
  BY <1>2, OwnStep DEF IInv, TypeOK
<1>3. CASE TxDone \/ TxAborted
  BY <1>3, OwnEnds DEF TxDone, TxAborted
<1> QED
  BY <1>1, <1>2, <1>3, ReceptionKeepsTx DEF Next, vars

LEMMA InitOwn == Init => OwnInv
BY DEF Init, OwnInv

\* The stale completion of the finding has one cause only, an aborted transfer
\* that is still running at the next k_sem_reset: where none is, every sender
\* takes the completion of its own frame.
THEOREM CompletionIsOwnUnlessAborting ==
    Spec /\ [][Drained]_vars => []CompletionIsOwn
<1>1. OwnInv => CompletionIsOwn
  BY DEF OwnInv, CompletionIsOwn
<1> QED
  BY <1>1, InitOwn, OwnInvStep, FramesNumbered, Invariance, PTL DEF Spec

---------------------------------------------------------------------------
(* Sends that do not time out.                                             *)

NoTimeOut == \A s \in Senders : ~TimeOut(s)

\* DE is up from its raising to its lowering.
DriveInv ==
    \A s \in Senders : pc[s] \in {"start", "wait", "abort", "refused", "settle"} => de = 1

\* A transfer is that of the sender that waits for it.
AwaitedInv ==
    transfer # 0 => \E s \in Senders : pc[s] = "wait" /\ transfer = frame[s] /\ sem = 0

\* What the UARTE transmits is the buffer of a caller that is still inside
\* rs485_uart_send, and the line is driven.
SentWhole == transfer # 0 => de = 1 /\ \E s \in Senders : pc[s] = "wait" /\ transfer = frame[s]

LEMMA DriveStep ==
    ASSUME TxTypeOK, TxInv, DriveInv, NEW s \in Senders, Call(s) \/ SendStep(s)
    PROVE  DriveInv'
<1> USE DEF Step
<1>1. CASE Call(s) \/ Lock(s) \/ ResetSem(s)
  <2>1. PICK to \in {"lock", "reset", "raise"} : pc' = [pc EXCEPT ![s] = to]
    BY <1>1 DEF Call, Lock, ResetSem
  <2>2. de' = de
    BY <1>1 DEF Call, Lock, ResetSem
  <2> QED
    BY <2>1, <2>2 DEF DriveInv, TxTypeOK
<1>2. CASE RaiseDe(s)
  BY <1>2 DEF RaiseDe, DriveInv, TxTypeOK
<1>3. CASE StartTransfer(s) \/ TakeSem(s) \/ TimeOut(s) \/ AbortTransfer(s)
  <2>1. pc[s] \in {"start", "wait", "abort"} /\ de' = de
    BY <1>3 DEF StartTransfer, TakeSem, TimeOut, AbortTransfer, done
  <2>2. PICK to : pc' = [pc EXCEPT ![s] = to]
    BY <1>3 DEF StartTransfer, TakeSem, TimeOut, AbortTransfer
  <2> QED
    BY <2>1, <2>2 DEF DriveInv, TxTypeOK
<1>4. CASE Fail(s) \/ LowerDe(s) \/ EchoAndReturn(s)
  <2>1. pc[s] \notin {"idle", "lock"}
    BY <1>4 DEF Fail, LowerDe, EchoAndReturn, Return
  <2>2. PICK to \in {"idle", "echo"} : pc' = [pc EXCEPT ![s] = to]
    BY <1>4 DEF Fail, LowerDe, EchoAndReturn, Return
  <2>3. \A r \in Senders : r # s => pc[r] \in {"idle", "lock"}
    BY <2>1, Alone
  <2> QED
    BY <2>2, <2>3 DEF DriveInv, TxTypeOK
<1> QED
  BY <1>1, <1>2, <1>3, <1>4 DEF SendStep

LEMMA DrivenWhileSending == Spec => []DriveInv
<1>1. Init => DriveInv
  BY DEF Init, DriveInv
<1>2. IInv /\ DriveInv /\ [Next]_vars => DriveInv'
  <2> SUFFICES ASSUME IInv, DriveInv, [Next]_vars PROVE DriveInv'
    OBVIOUS
  <2>1. ASSUME NEW s \in Senders, Call(s) \/ SendStep(s) PROVE DriveInv'
    BY <2>1, DriveStep DEF IInv, TypeOK
  <2>2. CASE TxDone \/ TxAborted
    BY <2>2 DEF TxDone, TxAborted, TransferEnds, DriveInv
  <2>3. CASE UNCHANGED txVars
    BY <2>3 DEF DriveInv, txVars
  <2> QED
    BY <2>1, <2>2, <2>3, ReceptionKeepsTx DEF Next, vars
<1> QED
  BY <1>1, <1>2, Invariance, PTL DEF Spec

\* Without a timeout the sender that waits is the last to leave a transfer.
LEMMA AwaitedStep ==
    ASSUME TxTypeOK, TxInv, OwnInv, AwaitedInv, NoTimeOut, NEW s \in Senders, Call(s) \/ SendStep(s)
    PROVE  AwaitedInv'
<1> USE DEF Step
<1>1. CASE transfer = 0 /\ transfer' = 0
  BY <1>1 DEF AwaitedInv
<1>2. CASE StartTransfer(s)
  <2>1. pc[s] = "start" /\ transfer = 0 /\ sem = 0
    BY <1>2 DEF StartTransfer, OwnInv
  <2>2. /\ pc' = [pc EXCEPT ![s] = "wait"] /\ transfer' = frame[s]
        /\ UNCHANGED <<frame, sem>>
    BY <1>2, <2>1 DEF StartTransfer, calls, done
  <2> QED
    BY <2>1, <2>2 DEF AwaitedInv, TxTypeOK
<1>3. CASE transfer # 0 /\ ~StartTransfer(s)
  <2>1. PICK w \in Senders : pc[w] = "wait" /\ transfer = frame[w] /\ sem = 0
    BY <1>3 DEF AwaitedInv
  <2>2. ~TakeSem(s) /\ ~TimeOut(s)
    BY <2>1 DEF TakeSem, NoTimeOut
  <2>3. pc[s] \in {"idle", "lock"}
    <3>1. s # w => pc[s] \in {"idle", "lock"}
      BY <2>1, Alone
    <3>2. s # w
      BY <1>3, <2>1, <2>2
         DEF Call, SendStep, Lock, ResetSem, RaiseDe, AbortTransfer, Fail, LowerDe,
             EchoAndReturn, Return
    <3> QED
      BY <3>1, <3>2
  <2>4. Call(s) \/ Lock(s)
    BY <1>3, <2>2, <2>3
       DEF SendStep, ResetSem, RaiseDe, AbortTransfer, Fail, LowerDe, EchoAndReturn, Return
  <2>5. s # w
    BY <2>1, <2>4 DEF Call, Lock
  <2>6. pc'[w] = "wait" /\ frame'[w] = frame[w] /\ UNCHANGED <<transfer, sem>>
    BY <2>1, <2>4, <2>5 DEF Call, Lock, TxTypeOK, calls, done, uarte
  <2> QED
    BY <2>1, <2>6 DEF AwaitedInv
<1>4. transfer' = transfer \/ StartTransfer(s)
  BY DEF Call, SendStep, Lock, ResetSem, RaiseDe, TakeSem, TimeOut, AbortTransfer, Fail, LowerDe,
         EchoAndReturn, Return, uarte
<1> QED
  BY <1>1, <1>2, <1>3, <1>4

LEMMA AwaitedInvStep ==
    IInv /\ FrameInv /\ OwnInv /\ AwaitedInv /\ [Next]_vars /\ [NoTimeOut]_vars
        => OwnInv' /\ AwaitedInv'
<1> SUFFICES ASSUME IInv, FrameInv, OwnInv, AwaitedInv, [Next]_vars, [NoTimeOut]_vars
             PROVE  OwnInv' /\ AwaitedInv'
  OBVIOUS
<1>1. ASSUME NEW s \in Senders, ResetSem(s) PROVE transfer = 0
  <2>1. pc[s] = "reset"
    BY <1>1 DEF ResetSem, Step
  <2>2. \A r \in Senders : pc[r] # "wait"
    BY <2>1, Alone DEF IInv
  <2> QED
    BY <2>2 DEF AwaitedInv
<1>2. OwnInv'
  BY <1>1, OwnInvStep DEF Drained
<1>3. AwaitedInv'
  <2>1. CASE UNCHANGED txVars
    BY <2>1 DEF AwaitedInv, txVars, calls, done, uarte
  <2>2. ASSUME NEW s \in Senders, Call(s) \/ SendStep(s), NoTimeOut PROVE AwaitedInv'
    BY <2>2, AwaitedStep DEF IInv, TypeOK
  <2>3. CASE TxDone \/ TxAborted
    BY <2>3 DEF TxDone, TxAborted, TransferEnds, AwaitedInv
  <2> QED
    BY <2>1, <2>2, <2>3, ReceptionKeepsTx DEF Next, vars
<1> QED
  BY <1>2, <1>3

\* Only a send that times out can take the line or the frame from under the
\* UARTE: as long as none does, whatever it transmits is the frame of a caller
\* that still waits, with DE up to the last bit.
THEOREM SentWholeUnlessTimedOut == Spec /\ [][NoTimeOut]_vars => []SentWhole
<1>1. Init => AwaitedInv
  BY DEF Init, AwaitedInv
<1>2. AwaitedInv /\ DriveInv => SentWhole
  BY DEF AwaitedInv, DriveInv, SentWhole
<1> QED
  BY <1>1, <1>2, InitOwn, AwaitedInvStep, FramesNumbered, DrivenWhileSending, Invariance, PTL DEF Spec

---------------------------------------------------------------------------
(* Progress.                                                               *)

\* The steps a sender still takes once it has the mutex, at most.
StepsFrom(step) ==
    CASE step = "reset" -> 6 [] step = "raise" -> 5 [] step = "start" -> 4 [] step = "wait" -> 3
      [] step \in {"abort", "settle"} -> 2 [] step \in {"refused", "echo"} -> 1
      [] step \in {"idle", "lock"} -> 0

\* Whoever waits for the mutex waits for a sender that has steps left, and a
\* sender that waits for a completion may take the semaphore or give it up.
SomeoneCanStep ==
    /\ mutex # NoOne => mutex \in Senders /\ StepsFrom(pc[mutex]) > 0
    /\ sem \in {0, 1}

\* A sender that has the mutex only gets nearer to its return: it never goes
\* back to a step, whatever interrupts and other senders do.
SendAdvances ==
    \A s \in Senders :
        pc[s] \notin {"idle", "lock"} =>
            pc'[s] = pc[s] \/ StepsFrom(pc'[s]) < StepsFrom(pc[s])

\* Every send ends after at most six steps in its turn, on each of its paths,
\* and no turn is ever without a sender to end it.  SendReturns rests on this.
THEOREM SendsAdvance == Spec => []SomeoneCanStep /\ [][SendAdvances]_vars
<1>1. IInv => SomeoneCanStep
  <2> SUFFICES ASSUME IInv PROVE SomeoneCanStep
    OBVIOUS
  <2>1. ASSUME mutex # NoOne PROVE mutex \in Senders /\ StepsFrom(pc[mutex]) > 0
    <3>1. mutex \in Senders
      BY <2>1 DEF IInv, TypeOK, TxTypeOK
    <3>2. pc[mutex] \in Steps \ {"idle", "lock"}
      BY <3>1 DEF IInv, TypeOK, TxTypeOK, TxInv, MutexInv, Steps
    <3> QED
      BY <3>1, <3>2 DEF StepsFrom, Steps
  <2> QED
    BY <2>1 DEF SomeoneCanStep, IInv, TypeOK, TxTypeOK
<1>2. IInv /\ [Next]_vars => [SendAdvances]_vars
  <2> SUFFICES ASSUME IInv, Next, NEW s \in Senders, pc[s] \notin {"idle", "lock"}
               PROVE  pc'[s] = pc[s] \/ StepsFrom(pc'[s]) < StepsFrom(pc[s])
    BY DEF SendAdvances
  <2>1. CASE SendStep(s)
    <3>1. /\ pc[s] \in {"reset", "raise", "start", "wait", "abort", "settle", "refused", "echo"}
          /\ \E to \in CASE pc[s] = "reset" -> {"raise"} [] pc[s] = "raise" -> {"start"}
                         [] pc[s] = "start" -> {"wait", "refused"}
                         [] pc[s] = "wait" -> {"settle", "abort"}
                         [] pc[s] = "abort" -> {"refused"} [] pc[s] = "settle" -> {"echo"}
                         [] pc[s] \in {"refused", "echo"} -> {"idle"} :
                 pc' = [pc EXCEPT ![s] = to]
      BY <2>1 DEF SendStep, Lock, ResetSem, RaiseDe, StartTransfer, TakeSem, TimeOut, AbortTransfer,
                  Fail, LowerDe, EchoAndReturn, Return, Step
    <3>2. \A to : pc' = [pc EXCEPT ![s] = to] => pc'[s] = to
      BY DEF IInv, TypeOK, TxTypeOK
    <3> QED
      BY <3>1, <3>2 DEF StepsFrom
  <2>2. ASSUME NEW r \in Senders, r # s, Call(r) \/ SendStep(r) PROVE pc'[s] = pc[s]
    <3>1. \E to : pc' = [pc EXCEPT ![r] = to]
      BY <2>2 DEF Call, SendStep, Lock, ResetSem, RaiseDe, StartTransfer, TakeSem, TimeOut,
                  AbortTransfer, Fail, LowerDe, EchoAndReturn, Return, Step
    <3> QED
      BY <2>2, <3>1 DEF IInv, TypeOK, TxTypeOK
  <2>3. CASE TxDone \/ TxAborted
    BY <2>3 DEF TxDone, TxAborted, TransferEnds
  <2>4. ~Call(s)
    BY DEF Call, Step
  <2> QED
    BY <2>1, <2>2, <2>3, <2>4, ReceptionKeepsTx DEF Next, txVars
<1> QED
  BY <1>1, <1>2, Invariance, PTL DEF Spec
=============================================================================
