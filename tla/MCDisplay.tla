------------------------------- MODULE MCDisplay -------------------------------
(* Three validators that a poll may cut to two.                            *)
EXTENDS Display
CONSTANTS a, b, c

MCValLists == {<<a, b, c>>, <<a, b>>}
================================================================================
