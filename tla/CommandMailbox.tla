--------------------------- MODULE CommandMailbox ---------------------------
(***************************************************************************)
(* What flexit_slave.c promises the callers of its two queue functions,    *)
(* whatever the CS60 reads, misses or repeats.  Each command has one slot: *)
(* the last call is offered until the CS60 settles the command with a      *)
(* broadcast, or, for the setpoint, until it is served once.  Nothing else *)
(* changes what is offered.  FlexitSlave implements this specification.    *)
(***************************************************************************)
EXTENDS Integers

CONSTANTS
    Mode, Setpoint,  \* the two commands
    Values           \* the values a command may have

VARIABLES
    offered,  \* the commands the CS60 is shown as waiting
    value,    \* what it would read for each
    settled,  \* the mode of its last broadcast
    calls     \* calls of the queue functions

Commands == {Mode, Setpoint}
mail == <<offered, value, settled, calls>>

Init == offered = {} /\ value = [c \in Commands |-> 0] /\ settled \in Values /\ calls = 0

\* The slot of c takes another value, that of the others stays.
Overwrite(c) ==
    /\ value'[c] \in Values
    /\ value' = [value EXCEPT ![c] = value'[c]]

\* A later call replaces an earlier one that was not taken yet.
Offer(c) ==
    /\ Overwrite(c)
    /\ offered' = offered \cup {c}
    /\ calls' = calls + 1 /\ UNCHANGED settled

\* The setpoint is withdrawn when it is read; a mode is not (flexit_slave.h:10-14
\* and :97-100 and the code, against flexit_slave.h:31-33).
Serve ==
    /\ Setpoint \in offered /\ offered' = offered \ {Setpoint}
    /\ UNCHANGED <<value, settled, calls>>

\* The CS60 broadcast the command's value: ours, a panel's or the user's.
Settle(c) ==
    /\ Overwrite(c)
    /\ offered' = offered \ {c}
    /\ settled' = IF c = Mode THEN value'[c] ELSE settled
    /\ UNCHANGED calls

Next == (\E c \in Commands : Offer(c) \/ Settle(c)) \/ Serve

Spec == Init /\ [][Next]_mail
=============================================================================
