----------------------------- MODULE MCControlApi -----------------------------
(* Instances of ControlApi for TLC.                                        *)
EXTENDS ControlApi

Three == 1..3

\* Operations and faults together are few: two operations with one fault, or
\* one operation with two.
FewEvents ==
  operations + faults["loss"] + faults["crash"] + faults["pgCrash"] <= 3
=============================================================================
