-------------------------------- MODULE Health ---------------------------------
(***************************************************************************)
(* pkg/metrics: the Builder and the goroutines around it.                  *)
(*   poller  RefreshConsensus: fetches, then writes the validators and the *)
(*           height to State by two separate calls;                        *)
(*   events  votes reach State.VotesByRound;                               *)
(*   health  RefreshHealthMetrics: Build reads State several times while   *)
(*           the others write it, then publishes metrics and rows by two   *)
(*           separate calls;                                               *)
(*   the user pauses both refreshers.                                      *)
(* The node may be any of several, so what is fetched may lag the chain by *)
(* a height (another RPC was selected).  Time is the age of the builder's  *)
(* last height change, in ticks, saturated just above the halt threshold.  *)
(***************************************************************************)
EXTENDS Concentration

CONSTANTS Validators,
          Voters,        \* those whose votes may arrive (bound)
          MaxVotes,      \* votes that arrive in a behaviour (bound)
          MaxHeight, MaxRound, \* the chain's last height and round (bounds)
          haltThreshold, \* in ticks
          ringCapacity,
          MaxPauses,     \* pauses in a behaviour (bound)
          ValidatorSets, \* the validator sets a poll may bring
          PowerVectors,  \* the powers of larger ones
          Hostings,      \* [power, rpcs, lines]: powers, known RPCs and ASN datasets
          topN, topASNCount

ASSUME HealthAssumption ==
  /\ Voters \subseteq Validators /\ IsFiniteSet(Validators)
  /\ ValidatorSets \subseteq SUBSET Validators
  /\ MaxHeight \in Nat \ {0} /\ MaxRound \in Nat /\ MaxPauses \in Nat /\ MaxVotes \in Nat
  /\ haltThreshold \in Nat /\ ringCapacity \in Nat \ {0}
  /\ MaxInt \in Nat /\ topASNCount \in Nat

\* The ranges of a dataset do not overlap; some lines of it are malformed.
ASSUME HostingAssumption ==
  \A h \in Hostings :
    /\ IsFiniteSet(DOMAIN h.power) /\ \A v \in DOMAIN h.power : h.power[v] \in Nat
    /\ DOMAIN h.rpcs = 1..Len(h.rpcs) /\ Len(h.rpcs) \in Nat
    /\ \A i \in DOMAIN h.rpcs : h.rpcs[i].ip \in Nat \cup {NULL}
    /\ IsFiniteSet(DOMAIN h.lines) /\ DOMAIN h.lines \subseteq Nat
    /\ \A i \in DOMAIN h.lines : h.lines[i] # NULL =>
         /\ h.lines[i].start \in Nat /\ h.lines[i].end \in Nat /\ h.lines[i].asn \in Nat
         /\ h.lines[i].start <= h.lines[i].end
    /\ \A i, j \in DOMAIN h.lines :
         (h.lines[i] # NULL /\ h.lines[j] # NULL /\ i # j) =>
           h.lines[i].end < h.lines[j].start \/ h.lines[j].end < h.lines[i].start

ASSUME PowerAssumption == PowerVectors \subseteq Seq(Nat) /\ topN \in Nat

ASSUME NullAssumption == NULL \notin Nat

VARIABLES
  chain, reached,  \* the chain's round <<height, round>>, the rounds it went through
  poller, fetched, \* RefreshConsensus: position, the fetched round
  current,         \* State: ConsensusHeight, <<0, 0>> before the first refresh
  vals,            \* State: TMValidators
  votes,           \* State.VotesByRound: <<round, validator>>
  paused, pauses,
  lastHeight, curHeightMaxRound, maxRoundPerHeight, \* Builder
  heightOf,        \* the height of each entry of the ring (history)
  age,             \* ticks since lastHeightChangeAt, -1 when it is zero
  health,          \* RefreshHealthMetrics: position
  nh, rows,        \* the snapshot being built: metrics; validator -> online
  moved,           \* State changed between two reads of this snapshot (history)
  shown            \* State: the published metrics and rows

chainVars == <<chain, reached>>
pollVars  == <<poller, fetched>>
stateVars == <<current, vals, votes>>
pauseVars == <<paused, pauses>>
buildVars == <<lastHeight, curHeightMaxRound, maxRoundPerHeight, heightOf, age>>
vars == <<chainVars, pollVars, stateVars, pauseVars, buildVars, health, nh, rows, moved, shown>>

Rounds == (1..MaxHeight) \X (0..MaxRound)
NoHeight == <<0, 0>>
Metrics == [halted : BOOLEAN, offline : 0..Cardinality(Validators)]
Rows == UNION {[S -> BOOLEAN] : S \in SUBSET Validators}

\* The types of the variables: the builder's rings stay within their capacity.
TypeOK ==
  /\ chain \in Rounds /\ reached \subseteq Rounds
  /\ poller \in {"idle", "height"} /\ fetched \in Rounds \cup {NoHeight}
  /\ current \in Rounds \cup {NoHeight} /\ vals \subseteq Validators
  /\ votes \subseteq Rounds \X Validators
  /\ paused \in BOOLEAN /\ pauses \in 0..MaxPauses
  /\ lastHeight \in 0..MaxHeight /\ curHeightMaxRound \in 0..MaxRound
  /\ maxRoundPerHeight \in Seq(0..MaxRound) /\ heightOf \in Seq(1..MaxHeight)
  /\ Len(maxRoundPerHeight) <= ringCapacity /\ Len(heightOf) = Len(maxRoundPerHeight)
  /\ age \in -1..haltThreshold + 1
  /\ health \in {"idle", "liveness", "rows", "publish", "publishRows"}
  /\ nh \in Metrics /\ rows \in Rows /\ moved \in BOOLEAN
  /\ shown \in [nh : Metrics, rows : Rows]

NoMetrics == [halted |-> FALSE, offline |-> 0]
NoRows == [v \in {} |-> FALSE]

Init ==
  /\ chain = <<1, 0>> /\ reached = {<<1, 0>>}
  /\ poller = "idle" /\ fetched = NoHeight
  /\ current = NoHeight /\ vals = {} /\ votes = {}
  /\ paused = FALSE /\ pauses = 0
  /\ lastHeight = 0 /\ curHeightMaxRound = 0 /\ maxRoundPerHeight = <<>> /\ heightOf = <<>>
  /\ age = -1
  /\ health = "idle" /\ nh = NoMetrics /\ rows = NoRows /\ moved = FALSE
  /\ shown = [nh |-> NoMetrics, rows |-> NoRows]

--------------------------------------------------------------------------------
(* The chain, the clock and the user.                                      *)

NodeRound ==
  /\ \/ chain[2] < MaxRound /\ chain' = <<chain[1], chain[2] + 1>>
     \/ chain[1] < MaxHeight /\ chain' = <<chain[1] + 1, 0>>
  /\ reached' = reached \cup {chain'}
  /\ UNCHANGED <<pollVars, stateVars, pauseVars, buildVars, health, nh, rows, moved, shown>>

Tick ==
  /\ age # -1 /\ age <= haltThreshold /\ age' = age + 1
  /\ UNCHANGED <<chainVars, pollVars, stateVars, pauseVars, lastHeight, curHeightMaxRound,
                 maxRoundPerHeight, heightOf, health, nh, rows, moved, shown>>

TogglePause ==
  /\ paused \/ pauses < MaxPauses
  /\ paused' = ~paused /\ pauses' = IF paused THEN pauses ELSE pauses + 1
  /\ UNCHANGED <<chainVars, pollVars, stateVars, buildVars, health, nh, rows, moved, shown>>

\* A write to State between two reads of the builder.
Moves == moved' = (moved \/ health \in {"liveness", "rows"})

\* AddCometBFTEvents, not stopped by a pause.
AddVote(v) ==
  /\ <<chain, v>> \notin votes /\ Cardinality(votes) < MaxVotes
  /\ votes' = votes \cup {<<chain, v>>} /\ Moves
  /\ UNCHANGED <<chainVars, pollVars, current, vals, pauseVars, buildVars, health, nh, rows,
                 shown>>

--------------------------------------------------------------------------------
(* RefreshConsensus.                                                       *)

\* The flag is read once, before the requests; the answers may be a height old.  A
\* failed request writes neither.
SetTMValidators ==
  /\ poller = "idle" /\ ~paused /\ poller' = "height"
  /\ fetched' \in {hr \in reached : hr[1] >= chain[1] - 1}
  /\ vals' \in ValidatorSets /\ Moves
  /\ UNCHANGED <<chainVars, current, votes, pauseVars, buildVars, health, nh, rows, shown>>

SetConsensusHeight ==
  /\ poller = "height" /\ poller' = "idle"
  /\ current' = fetched /\ fetched' = NoHeight /\ Moves
  /\ UNCHANGED <<chainVars, vals, votes, pauseVars, buildVars, health, nh, rows, shown>>

--------------------------------------------------------------------------------
(* RefreshHealthMetrics.                                                   *)

\* appendRing and appendRing32 keep the last entries.
AppendRing(s, x) ==
  LET t == Append(s, x)
  IN  IF Len(t) > ringCapacity THEN SubSeq(t, Len(t) - ringCapacity + 1, Len(t)) ELSE t

\* The running maximum of the height that is left goes to the ring.
RecordRound ==
  IF lastHeight # 0 /\ current[1] > lastHeight
  THEN /\ maxRoundPerHeight' = AppendRing(maxRoundPerHeight, curHeightMaxRound)
       /\ heightOf' = AppendRing(heightOf, lastHeight)
  ELSE UNCHANGED <<maxRoundPerHeight, heightOf>>

\* Mutant of Observe: the running maximum is kept across heights.
ObserveNoReset ==
  /\ curHeightMaxRound' = Max({curHeightMaxRound, current[2]})
  /\ IF current[1] = lastHeight
     THEN UNCHANGED <<lastHeight, maxRoundPerHeight, heightOf, age>>
     ELSE RecordRound /\ lastHeight' = current[1] /\ age' = 0

\* observe: the same height raises the running maximum; a higher one records it;
\* any other height, also a lower one, restarts the timer.
Observe ==
  \/ /\ current[1] = lastHeight
     /\ curHeightMaxRound' = Max({curHeightMaxRound, current[2]})
     /\ UNCHANGED <<lastHeight, maxRoundPerHeight, heightOf, age>>
  \/ /\ current[1] # lastHeight
     /\ RecordRound
     /\ lastHeight' = current[1] /\ age' = 0 /\ curHeightMaxRound' = current[2]

\* votedThisHeight: any vote of the validator in the round.
VotedThisHeight(hr, v) == <<hr, v>> \in votes

\* buildBaseRows: a row for each of the validators Build has read.
BuildBaseRows(validators) == [v \in validators |-> FALSE]

\* Build begins: it observes, and reads the validators the rows are made of.
BuildObserve ==
  /\ health = "idle" /\ ~paused
  /\ Observe
  /\ rows' = BuildBaseRows(vals)
  /\ health' = "liveness" /\ moved' = FALSE
  /\ UNCHANGED <<chainVars, pollVars, stateVars, pauseVars, nh, shown>>

\* Mutant of EnrichLiveness: a halt is never flagged.
NeverHalted ==
  /\ health = "liveness" /\ health' = "rows"
  /\ nh' = [halted |-> FALSE,
            offline |-> Cardinality({v \in vals : ~VotedThisHeight(current, v)})]
  /\ UNCHANGED <<chainVars, pollVars, stateVars, pauseVars, buildVars, rows, moved, shown>>

\* setHaltFields, and the validators without a vote; it reads State again.
EnrichLiveness ==
  /\ health = "liveness" /\ health' = "rows"
  /\ nh' = [halted |-> age > haltThreshold,
            offline |-> Cardinality({v \in vals : ~VotedThisHeight(current, v)})]
  /\ UNCHANGED <<chainVars, pollVars, stateVars, pauseVars, buildVars, rows, moved, shown>>

\* Mutant of EnrichLivenessRows: the first round's votes are read.
RowsOfFirstRound ==
  /\ health = "rows" /\ health' = "publish"
  /\ rows' = [v \in DOMAIN rows |-> VotedThisHeight(<<current[1], 0>>, v)]
  /\ UNCHANGED <<chainVars, pollVars, stateVars, pauseVars, buildVars, nh, moved, shown>>

\* And once more for the rows.
EnrichLivenessRows ==
  /\ health = "rows" /\ health' = "publish"
  /\ rows' = [v \in DOMAIN rows |-> VotedThisHeight(current, v)]
  /\ UNCHANGED <<chainVars, pollVars, stateVars, pauseVars, buildVars, nh, moved, shown>>

SetNetworkHealth ==
  /\ health = "publish" /\ health' = "publishRows"
  /\ shown' = [nh |-> nh, rows |-> shown.rows]
  /\ UNCHANGED <<chainVars, pollVars, stateVars, pauseVars, buildVars, nh, rows, moved>>

SetValidatorHealth ==
  /\ health = "publishRows" /\ health' = "idle"
  /\ shown' = [nh |-> shown.nh, rows |-> rows]
  /\ nh' = NoMetrics /\ rows' = NoRows
  /\ UNCHANGED <<chainVars, pollVars, stateVars, pauseVars, buildVars, moved>>

--------------------------------------------------------------------------------
RefreshConsensus == SetTMValidators \/ SetConsensusHeight
RefreshHealthMetrics == BuildObserve \/ EnrichLiveness \/ EnrichLivenessRows
                        \/ SetNetworkHealth \/ SetValidatorHealth

Next == NodeRound \/ Tick \/ TogglePause \/ RefreshConsensus \/ RefreshHealthMetrics
        \/ \E v \in Voters : AddVote(v)

Spec == Init /\ [][Next]_vars

\* Time passes, and both refreshers run on their tickers; requests may fail for
\* ever, and neither the chain nor the user owes anything.
FairSpec == Spec /\ WF_vars(Tick) /\ WF_vars(RefreshConsensus) /\ WF_vars(RefreshHealthMetrics)

--------------------------------------------------------------------------------
(* Properties.                                                             *)

\* Every entry of the rounds-per-block ring is a round its height really went
\* through (builder.go observe), also when the polled height goes back and forth
\* between two nodes, when rounds are missed between polls, and when the ring
\* drops its oldest entries.
MaxRoundGenuine ==
  \A i \in DOMAIN maxRoundPerHeight : <<heightOf[i], maxRoundPerHeight[i]>> \in reached

\* When State stood still between the reads of one Build, the offline count of the
\* network panel is the number of offline rows of the validator panel, whatever
\* round the chain is in; a draw between the two publications is exempt
\* (RefreshHealthMetrics, enrichLiveness and enrichLivenessRows).
SnapshotConsistent ==
  health = "idle" /\ ~moved =>
    shown.nh.offline = Cardinality({v \in DOMAIN shown.rows : ~shown.rows[v]})

\* A chain that stays in one round, polled at that round and not paused, is reported
\* as halted in the end, and stays so (setHaltFields).
HaltReported ==
  <>[](current = chain /\ ~paused) => <>[](shown.nh.halted)

\* The next two are about pure functions of the inputs: the antecedent Init has TLC
\* evaluate them once.

Abs(x) == IF x < 0 THEN -x ELSE x

\* n33 and n66 are the sizes of the smallest coalitions with more than a third and
\* more than two thirds of the power, 0 when there is none, and the top share is that
\* of the strongest coalition of topN, for every total up to an eighth of the
\* integers, CometBFT's limit.  The Gini coefficient is half the relative mean
\* difference; its weighted sum may overflow below that limit, but not while the
\* total times the number of validators is an integer (enrich_decentralization.go).
NakamotoMinimal ==
  Init => \A p \in PowerVectors :
    LET total == SumOf(p, DOMAIN p)
        Least(k) == LET sizes == {Cardinality(S) : S \in {T \in SUBSET DOMAIN p :
                                                       3 * SumOf(p, T) > k * total}}
                    IN  IF sizes = {} THEN 0 ELSE Min(sizes)
        diff == SumOf([ij \in (DOMAIN p) \X (DOMAIN p) |-> Abs(p[ij[1]] - p[ij[2]])],
                      (DOMAIN p) \X (DOMAIN p))
        top == Max({SumOf(p, S) : S \in {T \in SUBSET DOMAIN p : Cardinality(T) <= topN}})
        g == gini(p)
        t == topNShare(p, topN)
    IN  /\ 8 * total <= MaxInt =>
             /\ nakamoto(p) = <<Least(1), Least(2)>>
             /\ total # 0 => t[1] * total = 100 * top * t[2]
        /\ Len(p) * total <= MaxInt => g[1] * 2 * Len(p) * total = g[2] * diff

\* Over a dataset of disjoint ranges, in any order and with malformed lines, the
\* bisection finds the range that holds an address or none; the hosting panel shows
\* the largest shares, each with the validators that the dataset puts there; and its
\* join and that of the rows agree, except on AS number 0, which is also what a row
\* without a range has (asn.go Lookup, enrich_asn.go).
AsnExact ==
  Init => \A h \in Hostings :
    LET lines  == {h.lines[i] : i \in DOMAIN h.lines} \ {NULL}
        ip     == buildAddrToIPMap(h.rpcs)
        Holding(v) == {l \in lines : v \in DOMAIN ip /\ l.start <= ip[v] /\ ip[v] <= l.end}
        In(n)  == {v \in DOMAIN h.power : \E l \in Holding(v) : l.asn = n}
        hosts  == {n \in {l.asn : l \in lines} : In(n) # {}}
        ranges == Load(h.lines)
        row    == enrichASNRows(DOMAIN h.power, h.rpcs, ranges)
        top    == enrichASN(h.power, h.rpcs, ranges, topASNCount)
    IN  /\ \A v \in DOMAIN row : /\ Holding(v) = {} => row[v] = 0
                                  /\ \A l \in Holding(v) : row[v] = l.asn
        /\ \A i \in DOMAIN top :
             /\ top[i].validators = Cardinality(In(top[i].asn))
             /\ top[i].asn # 0 =>
                  top[i].validators = Cardinality({v \in DOMAIN row : row[v] = top[i].asn})
             /\ \A n \in hosts \ {top[k].asn : k \in DOMAIN top} :
                  top[i].power >= SumOf(h.power, In(n))
        /\ Len(top) = Min({topASNCount, Cardinality(hosts)})
================================================================================
