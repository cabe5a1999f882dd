-------------------------------- MODULE MCFetch --------------------------------
(* Two nodes that make three blocks, each with another validator set.      *)
EXTENDS Fetch, TLC

CONSTANTS n1, n2, a, b, c, d

\* The set changes its members and shrinks; a page holds one, so a block between two
\* pages leads past the last one, and a switch to a node behind repeats a validator.
MCValSetAt == <<<<a, b>>, <<a, b, c>>, <<b, d>>>>
MCTimeOf == <<1, 3, 8>>
MCStaking == {a, b, d}
MCUnbonded == {d}
MCAssignedKey == a :> c
MCGenesis == [staking |-> {}, gentxs |-> <<a, b>>]

MCConfig(type, provider, consumer, halt, running) ==
  [chainType |-> type, provider |-> provider, consumer |-> consumer, haltHeight |-> halt,
   running |-> running]

\* The refreshers only share the selected RPC: each configuration runs a few.
MCConfigs == {MCConfig("tendermint", FALSE, FALSE, FALSE, {"status", "mempool"}),
              MCConfig("tendermint", FALSE, FALSE, FALSE, {"netinfo", "blocktime"}),
              MCConfig("tendermint", FALSE, FALSE, TRUE, {"upgrade"}),
              MCConfig("tendermint", FALSE, FALSE, FALSE, {"upgrade"}),
              MCConfig("cosmos-lcd", FALSE, FALSE, FALSE, {"upgrade"}),
              MCConfig("cosmos-rpc", FALSE, FALSE, FALSE, {"upgrade"}),
              MCConfig("tendermint", FALSE, FALSE, FALSE, {"consensus"}),
              MCConfig("cosmos-lcd", FALSE, FALSE, FALSE, {"consensus"}),
              MCConfig("cosmos-rpc", FALSE, FALSE, FALSE, {"consensus"}),
              MCConfig("cosmos-rpc", TRUE, TRUE, FALSE, {"consensus"})}
================================================================================
