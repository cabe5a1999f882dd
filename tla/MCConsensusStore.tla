--------------------------- MODULE MCConsensusStore ----------------------------
(* Instances of ConsensusStore for TLC: two validators propose in turn, so   *)
(* that the second round of a height has another proposer than the first.    *)
EXTENDS ConsensusStore

CONSTANTS v0, v1

ThreeRounds == {<<1, 0>>, <<3, 0>>, <<3, 1>>}
TwoRounds   == {<<1, 0>>, <<3, 0>>}
FirstRound  == {<<1, 0>>}

TwoValidators == {v0, v1}

MCProposer == [hr \in Rounds |-> IF hr[2] % 2 = 0 THEN v0 ELSE v1]
================================================================================
