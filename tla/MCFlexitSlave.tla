--------------------------- MODULE MCFlexitSlave ---------------------------
(* Small instances of FlexitSlave for TLC. *)
EXTENDS FlexitSlave

\* The two spans the CS60 polls (flexit-cs60-communication.md section 3).
MCPolls == {<<0, 332>>, <<332, 352>>}

\* One-register reads of both commands, a read that starts below register
\* 12, and one past the eight-register limit.
MCReads == {<<0, 1>>, <<12, 1>>, <<11, 2>>, <<12, 9>>}
MCProbes == {<<0, 4>>, <<1, 4>>}

\* Another panel changes the mode, the pot its setpoint, and a register we
\* do not have is reset.
MCForeignAcks == {<<0, 3>>, <<12, 195>>, <<16, 7>>}

\* 65537 is narrowed to mode 1, 4 is refused; 35.0 C is clamped to 30.0 C.
MCNusModes == {65537, 4}
MCNusSetpoints == {<<35, 0>>}

NoNusSetpoints == {}
NoForeignAcks == {}
NoProbes == {}
TwoReads == {<<0, 1>>, <<12, 1>>}
OnePoll == {<<0, 332>>}
=============================================================================
