------------------------------- MODULE MCHealth --------------------------------
(* Two validators, one of which votes, two heights of two rounds; and the  *)
(* inputs of the pure functions.                                           *)
EXTENDS Health

CONSTANTS a, b

MCValidators == {a, b}
MCVoters == {a}
MCValidatorSets == {{a, b}}

\* Up to four validators, 8-bit integers.
MCPowerVectors == UNION {[1..n -> 0..4] : n \in 0..4}

\* Three validators, one or two linked RPCs each, and a dataset of three disjoint
\* ranges, one of them unrouted, with a gap, in every order, one line malformed or not.
MCRanges == <<[start |-> 1, end |-> 2, asn |-> 7],
              [start |-> 3, end |-> 3, asn |-> 0],
              [start |-> 5, end |-> 6, asn |-> 7]>>
MCOrders == {p \in [1..3 -> 1..3] : \A i, j \in 1..3 : i # j => p[i] # p[j]}
MCLines == {[i \in 1..3 |-> MCRanges[p[i]]] : p \in MCOrders}
           \cup {<<MCRanges[3], NULL, MCRanges[1]>>}
MCRpcs == {<<[validator |-> 1, ip |-> x], [validator |-> 2, ip |-> y],
             [validator |-> NULL, ip |-> 1], [validator |-> 1, ip |-> z]>> :
           x \in {NULL, 2}, y \in 2..5, z \in 0..6}
MCPowers == {<<1, 2, 3>>, <<2, 2, 1>>}
MCHostings == [power : MCPowers, rpcs : MCRpcs, lines : MCLines]
================================================================================
