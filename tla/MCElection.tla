------------------------------ MODULE MCElection ------------------------------
(* Instances of Election for TLC.                                          *)
EXTENDS Election
Three == 1..3
=============================================================================
