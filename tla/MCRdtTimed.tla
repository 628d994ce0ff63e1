------------------------------ MODULE MCRdtTimed -----------------------------
(* The protocol of rdt/ under the simulated clock, for TLC.                 *)
EXTENDS RdtTimed

CommandLine(arrivals, outoforder, loss, corrupt) ==
    [arrivals |-> arrivals, outoforder |-> outoforder, loss |-> loss, corrupt |-> corrupt]

(* A perfect link with messages at any distance; one that loses and         *)
(* reorders; one that corrupts.                                             *)
MCCommandLines ==
    {CommandLine({0, 1, 2, 3}, FALSE, FALSE, FALSE),
     CommandLine({1}, TRUE, TRUE, FALSE),
     CommandLine({0}, FALSE, FALSE, TRUE)}
=============================================================================
