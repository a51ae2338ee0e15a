---------------------------- MODULE MCRs485Uart ----------------------------
(* Small instances of Rs485Uart for TLC. *)
EXTENDS Rs485Uart
=============================================================================
