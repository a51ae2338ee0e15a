--------------------------- MODULE MCZigbeeBridge ---------------------------
(* Small instances of ZigbeeBridge for TLC. *)
EXTENDS ZigbeeBridge

\* Two states of the CS60, one in a mode that FanMode cannot show.
MCCs60States ==
    {[temp |-> 1, plain |-> 1, setpoint |-> 200, mode |-> 1],
     [temp |-> 2, plain |-> 2, setpoint |-> 200, mode |-> 4]}
=============================================================================
