---------------------------- MODULE MCEquivocation -----------------------------
(* Instances of Equivocation for TLC.  Two vote types and three heights     *)
(* around a window of one block; the list of events is full after three.      *)
EXTENDS Equivocation
================================================================================
