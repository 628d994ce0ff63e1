-------------------------------- MODULE MCRdt --------------------------------
(* The protocol of rdt/ for TLC; the configurations give the constants.     *)
EXTENDS RdtInv
=============================================================================
