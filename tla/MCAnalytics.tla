----------------------------- MODULE MCAnalytics -------------------------------
(* Two validators of different power, only one of which votes; a round     *)
(* either has a proposer and a prevote for the block with hash X and part  *)
(* set header P, or no proposer and nil votes of both types.  The window   *)
(* covers every block time.                                                *)
EXTENDS Analytics

CONSTANTS a, b, X, P, G

MCOneInfo == {(a :> [power |-> 2, operator |-> a]) @@ (b :> [power |-> 1, operator |-> b])}

MCRoundDatas == {[proposers |-> {a}, votes |-> (<<a, 1>> :> [hash |-> X, parts |-> P])],
                 [proposers |-> {}, votes |-> (<<a, 1>> :> ZeroBlockID) @@ (<<a, 2>> :> ZeroBlockID)]}

MCWindow == [start |-> 1, end |-> 9]
================================================================================
