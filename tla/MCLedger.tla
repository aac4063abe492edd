------------------------------ MODULE MCLedger ------------------------------
(* The instance of SerialRemediation for TLC, with the bodies and rows of    *)
(* MCRemediation.                                                            *)
EXTENDS MCRemediation, SerialRemediation
=============================================================================
