--------------------------- MODULE HalfDuplexLine ---------------------------
(***************************************************************************)
(* What rs485_uart_send promises the threads that call it and the panels   *)
(* on the bus: callers take turns, the transceiver is driven only by the   *)
(* one whose turn it is, it is raised once in a turn, and no turn ends,    *)
(* however the transfer went, before the line listens again.  Rs485Uart    *)
(* implements this specification.                                          *)
(***************************************************************************)
CONSTANT Senders

VARIABLES
    place,   \* by sender: "away", "waiting", or, in its turn, "quiet", "driving", "released"
    driver   \* the driver-enable pin: 1 while the line is driven

line == <<place, driver>>

Init == place = [s \in Senders |-> "away"] /\ driver = 0

Move(s, from, to) == place[s] = from /\ place' = [place EXCEPT ![s] = to]
InTurn(s) == place[s] \in {"quiet", "driving", "released"}

Ask(s) == Move(s, "away", "waiting") /\ UNCHANGED driver

\* A turn starts when nobody else has one.
Enter(s) ==
    /\ \A r \in Senders : ~InTurn(r)
    /\ Move(s, "waiting", "quiet") /\ UNCHANGED driver

Drive(s) == Move(s, "quiet", "driving") /\ driver' = 1
Release(s) == Move(s, "driving", "released") /\ driver' = 0

\* A turn ends from a released line, or releases it on the way out.
Leave(s) ==
    /\ Move(s, "released", "away") \/ Move(s, "driving", "away")
    /\ driver' = 0

Next == \E s \in Senders : Ask(s) \/ Enter(s) \/ Drive(s) \/ Release(s) \/ Leave(s)

Spec == Init /\ [][Next]_line
=============================================================================
