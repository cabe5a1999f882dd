-------------------------------- MODULE Fetch ----------------------------------
(***************************************************************************)
(* pkg/fetcher and the Refresh* methods of pkg/app.go.                     *)
(* Every request goes to the RPC that is selected when it is made; the     *)
(* user may select another one, and the nodes make blocks, between any two *)
(* requests of one refresh.  Nodes follow one chain, some ahead of others: *)
(* a node that works on height h answers /consensus_state with h and       *)
(* /validators with the set of h, page by page, and refuses a page past    *)
(* the last; at the genesis height it serves /dump_consensus_state and     *)
(* /genesis_chunked instead, and refuses queries of the application's      *)
(* state, by RPC and by LCD.                                               *)
(* A refresher runs on a ticker in a goroutine of its own, one refresh     *)
(* after the other; RefreshConsensus makes its two requests in parallel.   *)
(***************************************************************************)
EXTENDS Integers, Sequences, FiniteSets, FiniteSetsExt, SequencesExt

CONSTANTS Nodes, FirstRPC,
          LCDHost,       \* the node behind Config.LCDHost
          MaxHeight,     \* last height a node works on (bound)
          ValSetAt,      \* the validators' keys at each height, in order of power
          TimeOf,        \* the time of each block
          PerPage,       \* per_page
          Configs,       \* [chainType, provider, consumer, haltHeight, running]
          Staking,       \* keys of the staking module (of the provider, if there is one)
          Unbonded,      \* those of them that are not bonded
          AssignedKey,   \* provider key -> key used on the consumer chain
          Genesis,       \* [staking, gentxs]: keys; a gentx is NULL when it is no MsgCreateValidator
          Chunks,        \* genesis chunks
          blocksBehind,
          MaxFailures, MaxSwitches, MaxPauses, \* in a behaviour (bounds)
          NULL

\* The time of a block is not before the time of the previous one (CometBFT).
ASSUME FetchAssumption ==
  /\ FirstRPC \in Nodes /\ LCDHost \in Nodes /\ MaxHeight \in Nat \ {0, 1} /\ PerPage \in Nat \ {0}
  /\ Chunks \in Nat \ {0} /\ blocksBehind \in Nat
  /\ MaxFailures \in Nat /\ MaxSwitches \in Nat /\ MaxPauses \in Nat
  /\ \A h \in 1..MaxHeight : ValSetAt[h] \in Seq(Range(ValSetAt[h]))
  /\ TimeOf \in [1..MaxHeight -> Nat]
  /\ \A i, j \in 1..MaxHeight : i <= j => TimeOf[i] <= TimeOf[j]

VARIABLES
  config,
  work,                 \* the height each node works on
  currentRPC, switches, \* State.currentRPC
  paused, pauses, failures,
  refresh,              \* RefreshConsensus: position
  consensus,            \* its first goroutine: NULL, Failed or the height
  fetch,                \* its second goroutine: GetValidators, position
  page, cometVals,      \* CometRPC.GetValidators
  chunk, cosmosVals,    \* CosmosRPCDataFetcher.GetValidators: provider key -> assigned key or NULL
  seen, moved,          \* heights whose sets were read; a block or a switch happened (history)
  tmValidators, height, consensusStateError, \* State
  shownSeen, shownMoved, \* seen and moved of the published validators (history)
  asked, info, infoErr, \* the other refreshers: node asked, node whose answer is in State
  latestBlock, blockTime \* GetBlockTime: first answer; State.BlockTime as <<time, blocks>>

netVars   == <<config, work, currentRPC, switches, paused, pauses>>
fetchVars == <<consensus, fetch, page, cometVals, chunk, cosmosVals, seen>>
consVars  == <<refresh, fetchVars, moved>>
stateVars == <<tmValidators, height, consensusStateError, shownSeen, shownMoved>>
infoVars  == <<asked, info, infoErr, latestBlock, blockTime>>
vars == <<netVars, failures, consVars, stateVars, infoVars>>

Kinds == {"status", "netinfo", "mempool", "upgrade"}
Failed == 0
NoVals == [k \in {} |-> NULL]

\* A whole number of intervals of the chain, and a sum between the shortest and the
\* longest of them.
BlockTimes ==
  {bt \in Nat \X (1..MaxHeight) :
     \E lo, hi \in 1..MaxHeight - 1 :
       /\ (TimeOf[lo + 1] - TimeOf[lo]) * bt[2] <= bt[1]
       /\ bt[1] <= (TimeOf[hi + 1] - TimeOf[hi]) * bt[2]}

\* The types of the variables: a chunk that is asked for exists, and an average block
\* time is one of the chain, although its two blocks may come from different nodes
\* (GetBlockTime).
TypeOK ==
  /\ config \in Configs /\ work \in [Nodes -> 1..MaxHeight] /\ currentRPC \in Nodes
  /\ switches \in 0..MaxSwitches /\ failures \in 0..MaxFailures
  /\ paused \in BOOLEAN /\ pauses \in 0..MaxPauses
  /\ refresh \in {"idle", "fetch", "height"}
  /\ consensus \in 1..MaxHeight \cup {NULL, Failed}
  /\ fetch \in {"page", "dump", "cosmos", "genesis", "assigned", "done", "error"}
  /\ page \in Nat \ {0} /\ chunk \in 0..Chunks - 1
  /\ seen \subseteq 1..MaxHeight /\ shownSeen \subseteq 1..MaxHeight
  /\ moved \in BOOLEAN /\ shownMoved \in BOOLEAN
  /\ height \in 0..MaxHeight /\ consensusStateError \in BOOLEAN
  /\ asked \in [Kinds -> Nodes \cup {NULL}]
  /\ info \in [Kinds -> Nodes \cup {NULL, "halt-height", "none"}]
  /\ infoErr \subseteq Kinds
  /\ latestBlock \in 0..MaxHeight
  /\ blockTime = NULL \/ blockTime \in BlockTimes

Init ==
  /\ config \in Configs /\ work \in [Nodes -> 1..2]
  /\ currentRPC = FirstRPC /\ switches = 0
  /\ paused = FALSE /\ pauses = 0 /\ failures = 0
  /\ refresh = "idle" /\ consensus = NULL /\ fetch = "done"
  /\ page = 1 /\ cometVals = <<>> /\ chunk = 0 /\ cosmosVals = NoVals
  /\ seen = {} /\ moved = FALSE
  /\ tmValidators = <<>> /\ height = 0 /\ consensusStateError = FALSE
  /\ shownSeen = {} /\ shownMoved = FALSE
  /\ asked = [k \in Kinds |-> NULL] /\ info = [k \in Kinds |-> NULL] /\ infoErr = {}
  /\ latestBlock = 0 /\ blockTime = NULL

--------------------------------------------------------------------------------
(* The nodes and the user.                                                 *)

Moves == moved' = (moved \/ refresh = "fetch")

NodeBlock(n) ==
  /\ work[n] < MaxHeight
  /\ work' = [work EXCEPT ![n] = work[n] + 1] /\ Moves
  /\ UNCHANGED <<config, currentRPC, switches, paused, pauses, failures, refresh, fetchVars,
                 stateVars, infoVars>>

SetCurrentRPCURL(n) ==
  /\ n # currentRPC /\ switches < MaxSwitches
  /\ currentRPC' = n /\ switches' = switches + 1 /\ Moves
  /\ UNCHANGED <<config, work, paused, pauses, failures, refresh, fetchVars, stateVars, infoVars>>

TogglePause ==
  /\ paused \/ pauses < MaxPauses
  /\ paused' = ~paused /\ pauses' = IF paused THEN pauses ELSE pauses + 1
  /\ UNCHANGED <<config, work, currentRPC, switches, failures, consVars, stateVars, infoVars>>

Fails == failures < MaxFailures /\ failures' = failures + 1

--------------------------------------------------------------------------------
(* RefreshConsensus.                                                       *)

RefreshConsensus ==
  /\ "consensus" \in config.running /\ refresh = "idle" /\ ~paused
  /\ refresh' = "fetch" /\ fetch' = "page"
  /\ UNCHANGED <<netVars, failures, consensus, page, cometVals, chunk, cosmosVals, seen, moved,
                 stateVars, infoVars>>

\* The locals of one refresh are gone when it returns.
Return ==
  /\ refresh' = "idle" /\ consensus' = NULL /\ fetch' = "done"
  /\ page' = 1 /\ cometVals' = <<>> /\ chunk' = 0 /\ cosmosVals' = NoVals
  /\ seen' = {} /\ moved' = FALSE

GetConsensusState ==
  /\ refresh = "fetch" /\ consensus = NULL
  /\ \/ consensus' = work[currentRPC] /\ UNCHANGED failures
     \/ consensus' = Failed /\ Fails
  /\ UNCHANGED <<netVars, refresh, fetch, page, cometVals, chunk, cosmosVals, seen, moved,
                 stateVars, infoVars>>

\* One request of GetValidators that fails ends it.
FetchFails ==
  /\ refresh = "fetch" /\ fetch \notin {"done", "error"}
  /\ fetch' = "error" /\ Fails
  /\ UNCHANGED <<netVars, refresh, consensus, page, cometVals, chunk, cosmosVals, seen, moved,
                 stateVars, infoVars>>

\* The node's answer to a page (rpc/core validators).
PagesOf(set) == Max({1, (Len(set) + PerPage - 1) \div PerPage})
PageOf(set, p) == SubSeq(set, (p - 1) * PerPage + 1, Min({p * PerPage, Len(set)}))

\* Mutant of GetValidatorsPage: the page number is not sent.
GetFirstPage ==
  LET set == ValSetAt[work[currentRPC]]
  IN  /\ refresh = "fetch" /\ fetch = "page"
      /\ IF work[currentRPC] = 1 THEN fetch' = "dump" /\ UNCHANGED <<page, cometVals, seen>>
         ELSE /\ cometVals' = cometVals \o PageOf(set, 1)
              /\ seen' = seen \cup {work[currentRPC]}
              /\ page' = page + 1
              /\ fetch' = IF Len(cometVals') >= Len(set) THEN "cosmos" ELSE "page"
      /\ UNCHANGED <<netVars, failures, refresh, consensus, chunk, cosmosVals, moved, stateVars,
                     infoVars>>

\* Until as many validators came as the last answer says there are.  The error of
\* a node at the genesis height leads to another request; any other error, a page
\* out of range included, is returned.
GetValidatorsPage ==
  LET set == ValSetAt[work[currentRPC]]
      outOfRange == page > PagesOf(set)
  IN  /\ refresh = "fetch" /\ fetch = "page"
      /\ \/ /\ work[currentRPC] = 1
            /\ fetch' = "dump" /\ UNCHANGED <<page, cometVals, seen>>
         \/ /\ work[currentRPC] > 1 /\ outOfRange
            /\ fetch' = "error" /\ UNCHANGED <<page, cometVals, seen>>
         \/ /\ work[currentRPC] > 1 /\ ~outOfRange
            /\ cometVals' = cometVals \o PageOf(set, page)
            /\ seen' = seen \cup {work[currentRPC]}
            /\ IF Len(cometVals') >= Len(set) THEN fetch' = "cosmos" /\ UNCHANGED page
               ELSE page' = page + 1 /\ UNCHANGED fetch
      /\ UNCHANGED <<netVars, failures, refresh, consensus, chunk, cosmosVals, moved, stateVars,
                     infoVars>>

\* Mutant of getValidatorsViaDumpConsensusState: no fallback, the error is returned.
NoGenesisFallback ==
  /\ refresh = "fetch" /\ fetch = "dump" /\ fetch' = "error"
  /\ UNCHANGED <<netVars, failures, refresh, consensus, page, cometVals, chunk, cosmosVals, seen,
                 moved, stateVars, infoVars>>

\* The pages read so far are dropped.
getValidatorsViaDumpConsensusState ==
  /\ refresh = "fetch" /\ fetch = "dump"
  /\ cometVals' = ValSetAt[work[currentRPC]] /\ seen' = {work[currentRPC]}
  /\ fetch' = "cosmos"
  /\ UNCHANGED <<netVars, failures, refresh, consensus, page, chunk, cosmosVals, moved, stateVars,
                 infoVars>>

Unassigned(keys) == [k \in keys |-> NULL]

\* The three implementations of cosmosRPCFetcher.GetValidators: none, the bonded
\* validators of the LCD host, which has no answer before the first block, and an
\* ABCI query to the provider or to the current RPC, which then refers to the genesis.
GetCosmosValidators ==
  /\ refresh = "fetch" /\ fetch = "cosmos"
  /\ \/ /\ config.chainType = "tendermint"
        /\ cosmosVals' = NoVals /\ fetch' = "done"
     \/ /\ config.chainType = "cosmos-lcd" /\ work[LCDHost] > 1
        /\ cosmosVals' = Unassigned(Staking \ Unbonded) /\ fetch' = "done"
     \/ /\ config.chainType = "cosmos-lcd" /\ work[LCDHost] = 1
        /\ fetch' = "error" /\ UNCHANGED cosmosVals
     \/ /\ config.chainType = "cosmos-rpc" /\ ~config.provider /\ work[currentRPC] = 1
        /\ fetch' = "genesis" /\ UNCHANGED cosmosVals
     \/ /\ config.chainType = "cosmos-rpc" /\ (config.provider \/ work[currentRPC] > 1)
        /\ cosmosVals' = Unassigned(Staking)
        /\ fetch' = IF config.consumer THEN "assigned" ELSE "done"
  /\ UNCHANGED <<netVars, failures, refresh, consensus, page, cometVals, chunk, seen, moved,
                 stateVars, infoVars>>

\* QueryAllPairsValConsAddrByConsumer notes the assigned keys.
GetAssignedKeys ==
  /\ refresh = "fetch" /\ fetch = "assigned" /\ fetch' = "done"
  /\ cosmosVals' = [k \in DOMAIN cosmosVals |->
                      IF k \in DOMAIN AssignedKey THEN AssignedKey[k] ELSE NULL]
  /\ UNCHANGED <<netVars, failures, refresh, consensus, page, cometVals, chunk, seen, moved,
                 stateVars, infoVars>>

\* The staking state if it has validators, else the gentxs; a gentx that is not one
\* MsgCreateValidator ends it with neither validators nor an error.
GenesisValidators ==
  IF Genesis.staking # {} THEN Genesis.staking
  ELSE IF NULL \in Range(Genesis.gentxs) THEN {} ELSE Range(Genesis.gentxs)

getGenesisValidators ==
  /\ refresh = "fetch" /\ fetch = "genesis"
  /\ IF chunk >= Chunks - 1
     THEN cosmosVals' = Unassigned(GenesisValidators) /\ fetch' = "done" /\ UNCHANGED chunk
     ELSE chunk' = chunk + 1 /\ UNCHANGED <<cosmosVals, fetch>>
  /\ UNCHANGED <<netVars, failures, refresh, consensus, page, cometVals, seen, moved, stateVars,
                 infoVars>>

\* DataFetcher.GetValidators matches by the validator's own key.
Merge == [i \in DOMAIN cometVals |->
            [key |-> cometVals[i],
             cosmos |-> IF cometVals[i] \in DOMAIN cosmosVals THEN cometVals[i] ELSE NULL]]

Joined == refresh = "fetch" /\ consensus # NULL /\ fetch \in {"done", "error"}

\* Either error: State keeps its height and validators.
SetConsensusStateError ==
  /\ Joined /\ (consensus = Failed \/ fetch = "error")
  /\ consensusStateError' = TRUE /\ Return
  /\ UNCHANGED <<netVars, failures, tmValidators, height, shownSeen, shownMoved, infoVars>>

\* Mutant of SetTMValidators: the second error is not checked.
PublishUnchecked ==
  /\ Joined /\ consensus # Failed
  /\ tmValidators' = Merge /\ consensusStateError' = FALSE
  /\ shownSeen' = seen /\ shownMoved' = moved
  /\ refresh' = "height"
  /\ UNCHANGED <<netVars, failures, fetchVars, moved, height, infoVars>>

SetTMValidators ==
  /\ Joined /\ consensus # Failed /\ fetch # "error"
  /\ tmValidators' = Merge /\ consensusStateError' = FALSE
  /\ shownSeen' = seen /\ shownMoved' = moved
  /\ refresh' = "height"
  /\ UNCHANGED <<netVars, failures, fetchVars, moved, height, infoVars>>

SetConsensusHeight ==
  /\ refresh = "height" /\ height' = consensus /\ Return
  /\ UNCHANGED <<netVars, failures, tmValidators, consensusStateError, shownSeen, shownMoved,
                 infoVars>>

--------------------------------------------------------------------------------
(* The other refreshers.                                                   *)

Ask(k, n) ==
  /\ k \in config.running /\ asked[k] = NULL /\ ~paused
  /\ asked' = [asked EXCEPT ![k] = n]
  /\ UNCHANGED <<netVars, failures, consVars, stateVars, info, infoErr, latestBlock, blockTime>>

\* What RefreshUpgrade writes without asking anybody.
SetUpgrade(plan) ==
  /\ "upgrade" \in config.running /\ ~paused /\ info["upgrade"] # plan
  /\ info' = [info EXCEPT !["upgrade"] = plan]
  /\ UNCHANGED <<netVars, failures, consVars, stateVars, asked, latestBlock, blockTime>>

\* A configured halt height replaces the query; without one, the three
\* implementations of cosmosRPCFetcher.GetUpgradePlan.
RefreshUpgrade ==
  \/ config.haltHeight /\ SetUpgrade("halt-height") /\ UNCHANGED infoErr
  \/ /\ ~config.haltHeight
     /\ \/ /\ config.chainType = "tendermint"
           /\ SetUpgrade("none") /\ infoErr' = infoErr \ {"upgrade"}
        \/ config.chainType = "cosmos-lcd" /\ Ask("upgrade", LCDHost)
        \/ config.chainType = "cosmos-rpc" /\ Ask("upgrade", currentRPC)


RefreshCometNodeInfo == Ask("status", currentRPC)
RefreshNetInfo == Ask("netinfo", currentRPC)
RefreshMempool == Ask("mempool", currentRPC)

\* The plan is state of the application, which a node at the genesis height refuses
\* to query.
Refuses(k, n) == k = "upgrade" /\ work[n] = 1

\* The answer is written whatever RPC is selected by now.
Answer(k) ==
  /\ asked[k] # NULL /\ ~Refuses(k, asked[k])
  /\ info' = [info EXCEPT ![k] = asked[k]]
  /\ asked' = [asked EXCEPT ![k] = NULL]
  /\ infoErr' = infoErr \ {k}
  /\ UNCHANGED <<netVars, failures, consVars, stateVars, latestBlock, blockTime>>

\* Two of the refreshers show the error, two only log it.
AnswerFails(k) ==
  /\ asked[k] # NULL
  /\ Fails \/ (Refuses(k, asked[k]) /\ UNCHANGED failures)
  /\ asked' = [asked EXCEPT ![k] = NULL]
  /\ infoErr' = IF k \in {"status", "upgrade"} THEN infoErr \cup {k} ELSE infoErr
  /\ UNCHANGED <<netVars, consVars, stateVars, info, latestBlock, blockTime>>

\* GetBlockTime: /block, then /block?height= of blocksBehind blocks before, each of
\* the RPC that is current; any error is logged.
OlderHeight(latest) == IF latest - blocksBehind <= 0 THEN 1 ELSE latest - blocksBehind

\* Mutant of GetLatestBlock: the difference is not checked.
GetLatestUnchecked ==
  /\ "blocktime" \in config.running /\ latestBlock = 0 /\ ~paused
  /\ work[currentRPC] > 1
  /\ latestBlock' = work[currentRPC] - 1
  /\ UNCHANGED <<netVars, failures, consVars, stateVars, asked, info, infoErr, blockTime>>

GetLatestBlock ==
  /\ "blocktime" \in config.running /\ latestBlock = 0 /\ ~paused
  /\ work[currentRPC] > 1
  /\ work[currentRPC] - 1 - OlderHeight(work[currentRPC] - 1) > 0
  /\ latestBlock' = work[currentRPC] - 1
  /\ UNCHANGED <<netVars, failures, consVars, stateVars, asked, info, infoErr, blockTime>>

GetOlderBlock ==
  LET older == OlderHeight(latestBlock)
  IN  /\ latestBlock # 0 /\ latestBlock' = 0
      /\ \/ /\ older < work[currentRPC]
            /\ blockTime' = <<TimeOf[latestBlock] - TimeOf[older], latestBlock - older>>
            /\ UNCHANGED failures
         \/ older >= work[currentRPC] /\ UNCHANGED <<blockTime, failures>>
         \/ Fails /\ UNCHANGED blockTime
      /\ UNCHANGED <<netVars, consVars, stateVars, asked, info, infoErr>>

--------------------------------------------------------------------------------
GetValidators == GetValidatorsPage \/ getValidatorsViaDumpConsensusState \/ GetCosmosValidators
                 \/ GetAssignedKeys \/ getGenesisValidators
Publish == SetConsensusStateError \/ SetTMValidators \/ SetConsensusHeight
Infos == RefreshCometNodeInfo \/ RefreshNetInfo \/ RefreshMempool \/ RefreshUpgrade

Next ==
  \/ \E n \in Nodes : NodeBlock(n) \/ SetCurrentRPCURL(n)
  \/ TogglePause
  \/ RefreshConsensus \/ GetConsensusState \/ FetchFails \/ GetValidators \/ Publish
  \/ Infos \/ \E k \in Kinds : Answer(k) \/ AnswerFails(k)
  \/ GetLatestBlock \/ GetOlderBlock

Spec == Init /\ [][Next]_vars

\* The tickers keep ticking, and every request is answered or times out.
FairSpec ==
  /\ Spec
  /\ WF_vars(RefreshConsensus) /\ WF_vars(GetConsensusState) /\ WF_vars(GetValidators \/ FetchFails)
  /\ WF_vars(Publish)
  /\ WF_vars(RefreshCometNodeInfo) /\ WF_vars(RefreshNetInfo) /\ WF_vars(RefreshMempool)
  /\ WF_vars(RefreshUpgrade)
  /\ \A k \in Kinds : WF_vars(Answer(k) \/ AnswerFails(k))
  /\ WF_vars(GetLatestBlock) /\ WF_vars(GetOlderBlock)

--------------------------------------------------------------------------------
(* Properties.                                                             *)

ShownKeys == [i \in DOMAIN tmValidators |-> tmValidators[i].key]

\* When the pages of a validator list all came from nodes at one height, the list
\* shown is the validator set of that height, each validator once and in order, also
\* when the RPC was switched between two pages (CometRPC.GetValidators).
ValidatorsExact ==
  \A h \in 1..MaxHeight : shownSeen = {h} => ShownKeys = ValSetAt[h]

\* Height and validators are fetched in parallel and published by two writes: when no
\* block and no switch fell into the refresh, they belong together afterwards, and
\* after a failed refresh they still do (RefreshConsensus).
PublishedTogether ==
  refresh # "height" /\ height # 0 /\ ~shownMoved => ShownKeys = ValSetAt[height]

\* Requests fail, nodes make blocks and the user pauses and switches only so often:
\* then what is shown becomes the height and the validators of the selected node,
\* without an error, also while that node is still at the genesis height.  Only an
\* LCD host at the genesis height makes every refresh fail, and that is shown.
EventuallyCurrent ==
  <>[]~paused => <>[]("consensus" \in config.running =>
     IF config.chainType = "cosmos-lcd" /\ work[LCDHost] = 1 THEN consensusStateError
     ELSE /\ ~consensusStateError /\ height = work[currentRPC]
          /\ ShownKeys = ValSetAt[work[currentRPC]])

\* Where the answer to a panel should come from.
SourceOf(k) ==
  IF k # "upgrade" THEN currentRPC
  ELSE IF config.haltHeight THEN "halt-height"
  ELSE CASE config.chainType = "tendermint" -> "none"
         [] config.chainType = "cosmos-lcd" -> LCDHost
         [] config.chainType = "cosmos-rpc" -> currentRPC

================================================================================
