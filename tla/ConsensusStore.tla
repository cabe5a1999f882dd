---------------------------- MODULE ConsensusStore -----------------------------
(***************************************************************************)
(* pkg/db and its users in pkg/app.go: the SQLite tables, and the three    *)
(* goroutines that write them with no order between them.                  *)
(*   poller   RefreshConsensus: StoreValidators, then StoreRoundData for   *)
(*            every round of the in-memory RoundDataMap;                   *)
(*   consumer SubscribeCometBFT: AddCometBFTEvents, StoreCometBFTEvents;   *)
(*   cleaner  databaseCleanupRoutine: CleanupOldData.                      *)
(* A transaction is one step, as SQLite serialises writers; a statement    *)
(* outside a transaction is a step of its own.  Each runs on some          *)
(* connection of the database/sql pool, and "PRAGMA foreign_keys=ON" was   *)
(* executed on one of them only, so each step chooses whether foreign keys *)
(* are enforced for it.  A round is a pair <<height, round number>>; one   *)
(* vote, by the round's proposer, stands for its votes.                    *)
(***************************************************************************)
EXTENDS Integers, Sequences, FiniteSets, FiniteSetsExt, SequencesExt

CONSTANTS Validators,
          Rounds,           \* the rounds of the chain that are observed (bound)
          VoteRounds,       \* those in which the modelled vote may be cast
          Proposer,         \* the chain's proposer of each round
          MaxRetainBlocks,  \* Config.MaxRetainBlocks, 0 = off
          RetainDays,       \* Config.MaxRetainDays > 0
          Interruptions,    \* which of "pause" and "outage" happen (bound)
          MaxErrors         \* failing SQL statements in a behaviour (bound)

Heights == {hr[1] : hr \in Rounds}

ASSUME StoreAssumption ==
  /\ IsFiniteSet(Rounds) /\ Rounds \subseteq (Nat \ {0}) \X Nat
  /\ <<1, 0>> \in Rounds /\ VoteRounds \subseteq Rounds
  /\ MaxErrors \in Nat /\ Interruptions \subseteq {"pause", "outage"}
  /\ MaxRetainBlocks \in Nat /\ RetainDays \in BOOLEAN
  /\ IsFiniteSet(Validators)
  /\ Proposer \in [Rounds -> Validators]

VARIABLES
  tip,        \* the chain's current round
  pending,    \* events in the mailbox
  interrupted, \* why a refresh returns at once now
  proposers,  \* RoundDataMap: rounds whose proposer is known
  roundVotes, \* RoundDataMap: rounds with a vote
  poller, polled, todo,   \* position, fetched height, rounds still to store
  consumer, batch,        \* position, events being stored
  cleaner, cutoff,        \* position, cutoff of this pass
  late,       \* heights first stored since a MaxRetainDays pass computed its cutoff
  validators, heights, rounds, votes, events, \* the tables
  snapshots,  \* validator_snapshots.is_proposer: "none" is "no row"
  fresh,      \* heights whose created_at lies within MaxRetainDays
  errors      \* SQL errors so far

chain   == <<tip, pending, interrupted>>
memory  == <<proposers, roundVotes>>
pollVars  == <<poller, polled, todo>>
consVars  == <<consumer, batch>>
cleanVars == <<cleaner, cutoff, late>>
tables  == <<validators, heights, rounds, votes, events, snapshots, fresh>>
vars    == <<chain, memory, pollVars, consVars, cleanVars, tables, errors>>

Event == [kind : {"new_round", "vote"}, at : Rounds]

\* The types of the variables; a pass never runs with a cutoff below 0, although
\* computeCutoffHeight answers one while the chain is shorter than the window.
TypeOK ==
  /\ tip \in Rounds /\ pending \in Seq(Event) /\ interrupted \subseteq Interruptions
  /\ proposers \subseteq Rounds /\ roundVotes \subseteq Rounds
  /\ poller \in {"idle", "validators", "rounds"}
  /\ polled \in Rounds /\ todo \subseteq Rounds
  /\ consumer \in {"idle", "insert", "clear", "set"} /\ batch \in Seq(Event)
  /\ cleaner \in {"idle", "events", "votes", "snapshots", "rounds", "heights"}
  /\ cutoff \in Nat /\ late \subseteq Heights
  /\ validators \subseteq Validators /\ heights \subseteq Heights
  /\ rounds \subseteq Rounds /\ votes \subseteq Rounds /\ events \subseteq Rounds
  /\ snapshots \in [Heights \X Validators -> {"none", "null", "false", "true"}]
  /\ fresh \subseteq Heights
  /\ errors \in 0..MaxErrors

\* An empty database with both migrations recorded (the file of an earlier
\* release); the chain has just started its first round.
Init ==
  /\ tip = <<1, 0>> /\ pending = <<>> /\ interrupted = {}
  /\ proposers = {} /\ roundVotes = {}
  /\ poller = "idle" /\ polled = <<1, 0>> /\ todo = {}
  /\ consumer = "idle" /\ batch = <<>>
  /\ cleaner = "idle" /\ cutoff = 0 /\ late = {}
  /\ validators = {} /\ heights = {} /\ rounds = {} /\ votes = {} /\ events = {}
  /\ snapshots = [x \in Heights \X Validators |-> "none"]
  /\ fresh = {} /\ errors = 0

\* Any statement may fail (disk full, database busy).
SqlError == errors < MaxErrors /\ errors' = errors + 1

\* A child row is accepted by a connection that enforces foreign keys only if
\* its parents exist.
HeightKey(fk, h)  == fk => h \in heights
ValidatorKey(fk, v) == fk => v \in validators

--------------------------------------------------------------------------------
(* The node (external): it starts the next round or height and pushes the  *)
(* NewRound event, casts a vote, or loses the push while the websocket is  *)
(* down.                                                                   *)

Before(a, b) == a[1] < b[1] \/ (a[1] = b[1] /\ a[2] < b[2])
NextRounds(hr) == {x \in Rounds : /\ Before(hr, x)
                                  /\ \A y \in Rounds : Before(hr, y) => ~Before(y, x)}

NodeRound ==
  /\ tip' \in NextRounds(tip)
  /\ \/ pending' = Append(pending, [kind |-> "new_round", at |-> tip'])
     \/ pending' = pending
  /\ UNCHANGED <<interrupted, memory, pollVars, consVars, cleanVars, tables, errors>>

NodeVote ==
  /\ tip \in VoteRounds
  /\ \A e \in Range(pending \o batch) : e.at # tip \/ e.kind # "vote"
  /\ tip \notin roundVotes
  /\ pending' = Append(pending, [kind |-> "vote", at |-> tip])
  /\ UNCHANGED <<tip, interrupted, memory, pollVars, consVars, cleanVars, tables, errors>>

\* The user pauses or resumes; the selected RPC stops answering or answers again.
Interrupt(i) ==
  /\ interrupted' = IF i \in interrupted THEN interrupted \ {i} ELSE interrupted \cup {i}
  /\ UNCHANGED <<tip, pending, memory, pollVars, consVars, cleanVars, tables, errors>>

--------------------------------------------------------------------------------
(* RefreshConsensus.                                                       *)

\* The fetch, SetConsensusHeight and AddProposer for the polled round.  A refresh
\* that is paused, or whose fetch fails, returns and stores nothing.  The RPC that is
\* selected may lag, and another may be selected next: heights may go back.
PollFetch ==
  /\ poller = "idle" /\ interrupted = {}
  /\ poller' = "validators"
  /\ polled' \in {hr \in Rounds : ~Before(tip, hr)}
  /\ proposers' = proposers \cup {polled'}
  /\ UNCHANGED <<chain, roundVotes, todo, consVars, cleanVars, tables, errors>>

\* Mutant of StartRounds: only the polled round is stored.
StartPolledRound == /\ poller' = "rounds" /\ todo' = {polled}
                    /\ polled' = <<1, 0>>

\* VotesByRound.Iter() starts: it walks every round seen since start-up, in
\* ascending order.
IsNext(hr) == hr \in todo /\ \A x \in todo : ~Before(x, hr)
StartRounds == /\ poller' = "rounds" /\ todo' = proposers \cup roundVotes
               /\ polled' = <<1, 0>>   \* not read again

\* One transaction: the height row, then each validator and its snapshot, whose
\* is_proposer is NULL whatever it was.  A validator that fails is skipped with its
\* snapshot; a snapshot that fails leaves the validator's row.
StoreValidators ==
  /\ poller = "validators"
  /\ \E bad \in {{}} \cup {{v} : v \in Validators}, snapshotOnly \in BOOLEAN :
       /\ IF bad = {} THEN UNCHANGED errors ELSE SqlError
       /\ validators' = validators \cup (IF snapshotOnly THEN Validators ELSE Validators \ bad)
       /\ snapshots' = [x \in DOMAIN snapshots |->
            IF x[1] = polled[1] /\ x[2] \notin bad THEN "null" ELSE snapshots[x]]
  /\ heights' = heights \cup {polled[1]}
  /\ fresh' = IF polled[1] \in heights THEN fresh ELSE fresh \cup {polled[1]}
  /\ late' = IF RetainDays /\ cleaner # "idle" THEN late \cup ({polled[1]} \ heights) ELSE late
  /\ StartRounds
  /\ UNCHANGED <<chain, memory, consVars, cleaner, cutoff, rounds, votes, events>>

\* The height upsert or the commit fails: rolled back, logged, and on to the rounds.
StoreValidatorsFails ==
  /\ poller = "validators" /\ SqlError
  /\ StartRounds
  /\ UNCHANGED <<chain, memory, consVars, cleanVars, tables>>

\* One transaction: the round, then its votes.  A round that violates a key
\* rolls everything back; a vote that does is logged and left out.
StoreRoundData(hr) ==
  /\ poller = "rounds" /\ IsNext(hr)
  /\ todo' = todo \ {hr}
  /\ \E fk \in BOOLEAN :
       LET ok == HeightKey(fk, hr[1])
                 /\ (hr \in proposers => ValidatorKey(fk, Proposer[hr]))
       IN  /\ rounds' = IF ok THEN rounds \cup {hr} ELSE rounds
           /\ votes' = IF ok /\ hr \in roundVotes /\ ValidatorKey(fk, Proposer[hr])
                       THEN votes \cup {hr} ELSE votes
  /\ UNCHANGED <<chain, memory, poller, polled, consVars, cleanVars, validators,
                 heights, events, snapshots, fresh, errors>>

StoreRoundDataFails(hr) ==
  /\ poller = "rounds" /\ IsNext(hr) /\ SqlError
  /\ todo' = todo \ {hr}
  /\ UNCHANGED <<chain, memory, poller, polled, consVars, cleanVars, tables>>

PollDone ==
  /\ poller = "rounds" /\ todo = {}
  /\ poller' = "idle"
  /\ UNCHANGED <<chain, memory, polled, todo, consVars, cleanVars, tables, errors>>

--------------------------------------------------------------------------------
(* SubscribeCometBFT.                                                      *)

\* RetrieveAll and AddCometBFTEvents.  Iter() holds the map's read lock while
\* the poller stores rounds, so the consumer waits for it.
ConsumeEvents ==
  LET at(kind) == {e.at : e \in {x \in Range(pending) : x.kind = kind}}
  IN  /\ consumer = "idle" /\ pending # <<>> /\ poller # "rounds"
      /\ pending' = <<>> /\ batch' = pending
      /\ proposers' = proposers \cup at("new_round")
      /\ roundVotes' = roundVotes \cup at("vote")
      /\ consumer' = "insert"
      /\ UNCHANGED <<tip, interrupted, pollVars, cleanVars, tables, errors>>

\* The next event of the batch, or the end of StoreCometBFTEvents.
NextEvent ==
  /\ batch' = Tail(batch)
  /\ consumer' = IF Len(batch) = 1 THEN "idle" ELSE "insert"

\* StoreConsensusEvent: an event of a height that has no row yet is refused
\* under foreign keys and never tried again.
StoreConsensusEvent ==
  /\ consumer = "insert"
  /\ \/ /\ \E fk \in BOOLEAN :
             events' = IF HeightKey(fk, Head(batch).at[1])
                       THEN events \cup {Head(batch).at} ELSE events
        /\ UNCHANGED errors
     \/ SqlError /\ UNCHANGED events
  /\ IF Head(batch).kind = "new_round" THEN consumer' = "clear" /\ UNCHANGED batch
                                       ELSE NextEvent
  /\ UNCHANGED <<chain, memory, pollVars, cleanVars, validators, heights, rounds,
                 votes, snapshots, fresh>>

\* Mutant of ClearProposerFlags: the old proposer keeps its flag.
KeepProposerFlags ==
  /\ consumer = "clear"
  /\ consumer' = "set"
  /\ UNCHANGED <<chain, memory, pollVars, batch, cleanVars, tables, errors>>

\* updateProposerInSnapshots, first UPDATE: it touches existing rows only.
ClearProposerFlags ==
  LET h == Head(batch).at[1]
  IN  /\ consumer = "clear"
      /\ snapshots' = [x \in DOMAIN snapshots |->
           IF x[1] = h /\ snapshots[x] # "none" THEN "false" ELSE snapshots[x]]
      /\ consumer' = "set"
      /\ UNCHANGED <<chain, memory, pollVars, batch, cleanVars, validators, heights,
                     rounds, votes, events, fresh, errors>>

\* Second UPDATE.
SetProposerFlag ==
  LET x == <<Head(batch).at[1], Proposer[Head(batch).at]>>
  IN  /\ consumer = "set"
      /\ snapshots' = IF snapshots[x] = "none" THEN snapshots
                      ELSE [snapshots EXCEPT ![x] = "true"]
      /\ NextEvent
      /\ UNCHANGED <<chain, memory, pollVars, cleanVars, validators, heights, rounds,
                     votes, events, fresh, errors>>

\* An error in either UPDATE ends the work on this event.
UpdateProposerFails ==
  /\ consumer \in {"clear", "set"} /\ SqlError
  /\ NextEvent
  /\ UNCHANGED <<chain, memory, pollVars, cleanVars, tables>>

--------------------------------------------------------------------------------
(* CleanupOldData.                                                         *)

\* The cutoffs of the two retention settings; the higher one wins.
BlockCutoff == Max(heights) - MaxRetainBlocks
DayCutoffs  == IF RetainDays /\ fresh # {} THEN {Min(fresh) - 1} ELSE {}

\* Mutant of computeCutoffHeight: the block window is not subtracted.
CutoffAtLatest == IF heights = {} THEN 0 ELSE Max(DayCutoffs \cup {Max(heights)})

computeCutoffHeight ==
  IF heights = {} THEN 0
  ELSE IF MaxRetainBlocks > 0 THEN Max(DayCutoffs \cup {BlockCutoff})
  ELSE IF DayCutoffs # {} THEN Max(DayCutoffs) ELSE 0

\* Mutant of CleanupStart: a negative cutoff is not taken for "nothing to delete".
CleanupUnchecked ==
  /\ cleaner = "idle" /\ computeCutoffHeight # 0
  /\ cutoff' = computeCutoffHeight
  /\ cleaner' = "events"
  /\ UNCHANGED <<chain, memory, pollVars, consVars, late, tables, errors>>

CleanupStart ==
  /\ cleaner = "idle" /\ computeCutoffHeight > 0
  /\ cutoff' = computeCutoffHeight
  /\ cleaner' = "events"
  /\ UNCHANGED <<chain, memory, pollVars, consVars, late, tables, errors>>

Young(S) == {hr \in S : hr[1] >= cutoff}

\* Five statements, each committed by itself.
DeleteEvents ==
  /\ cleaner = "events" /\ cleaner' = "votes"
  /\ events' = Young(events)
  /\ UNCHANGED <<chain, memory, pollVars, consVars, cutoff, late, validators,
                 heights, rounds, votes, snapshots, fresh, errors>>

DeleteVotes ==
  /\ cleaner = "votes" /\ cleaner' = "snapshots"
  /\ votes' = Young(votes)
  /\ UNCHANGED <<chain, memory, pollVars, consVars, cutoff, late, validators,
                 heights, rounds, events, snapshots, fresh, errors>>

DeleteSnapshots ==
  /\ cleaner = "snapshots" /\ cleaner' = "rounds"
  /\ snapshots' = [x \in DOMAIN snapshots |->
                     IF x[1] < cutoff THEN "none" ELSE snapshots[x]]
  /\ UNCHANGED <<chain, memory, pollVars, consVars, cutoff, late, validators,
                 heights, rounds, votes, events, fresh, errors>>

DeleteRounds ==
  /\ cleaner = "rounds" /\ cleaner' = "heights"
  /\ rounds' = Young(rounds)
  /\ UNCHANGED <<chain, memory, pollVars, consVars, cutoff, late, validators,
                 heights, votes, events, snapshots, fresh, errors>>

\* Heights that rows still refer to.
Referenced == {hr[1] : hr \in rounds \cup votes \cup events}
              \cup {x[1] : x \in {y \in DOMAIN snapshots : snapshots[y] # "none"}}

\* Where foreign keys hold, a row that came back since stops the delete.
DeleteHeights ==
  LET old == {h \in heights : h < cutoff}
  IN  /\ cleaner = "heights" /\ cleaner' = "idle"
      /\ \E fk \in BOOLEAN :
           IF fk /\ old \cap Referenced # {}
           THEN UNCHANGED <<heights, fresh>>
           ELSE heights' = heights \ old /\ fresh' = fresh \ old
      /\ cutoff' = 0 /\ late' = {}
      /\ UNCHANGED <<chain, memory, pollVars, consVars, validators, rounds,
                     votes, events, snapshots, errors>>

\* A failing statement ends the pass; the next one starts an hour later.
CleanupFails ==
  /\ cleaner # "idle" /\ SqlError
  /\ cleaner' = "idle" /\ cutoff' = 0 /\ late' = {}
  /\ UNCHANGED <<chain, memory, pollVars, consVars, tables>>

\* MaxRetainDays pass for the oldest height.
AgeOut ==
  /\ RetainDays /\ fresh # {}
  /\ fresh' = fresh \ {Min(fresh)}
  /\ UNCHANGED <<chain, memory, pollVars, consVars, cleanVars, validators, heights,
                 rounds, votes, events, snapshots, errors>>

--------------------------------------------------------------------------------
Poller   == \/ PollFetch \/ StoreValidators \/ StoreValidatorsFails \/ PollDone
            \/ \E hr \in Rounds : StoreRoundData(hr) \/ StoreRoundDataFails(hr)
Consumer == ConsumeEvents \/ StoreConsensusEvent \/ ClearProposerFlags
            \/ SetProposerFlag \/ UpdateProposerFails
Cleaner  == CleanupStart \/ DeleteEvents \/ DeleteVotes \/ DeleteSnapshots
            \/ DeleteRounds \/ DeleteHeights \/ CleanupFails

Node == NodeRound \/ NodeVote \/ \E i \in Interruptions : Interrupt(i)

Next == Node \/ Poller \/ Consumer \/ Cleaner \/ AgeOut

Spec == Init /\ [][Next]_vars

\* The refresh ticker and the mailbox keep the first two goroutines running; the
\* cleaner, the clock, the chain, the user and the RPC owe nothing: a refresh is due
\* only while nothing interrupts it.
FairSpec == Spec /\ WF_vars(Poller) /\ SF_vars(Consumer)

--------------------------------------------------------------------------------
(* Properties.                                                             *)

\* No height shows two proposers at any moment, although its flags are cleared
\* and set by two statements, its rounds have different proposers and the
\* poller rewrites the rows in between (updateProposerInSnapshots).
AtMostOneProposer ==
  \A h \in Heights :
    Cardinality({v \in Validators : snapshots[<<h, v>>] = "true"}) <= 1

Rows(h) == {row \in {"rounds"} \X rounds \cup {"votes"} \X votes
                     \cup {"events"} \X events : row[2][1] = h}
           \cup {<<"snapshots", x>> : x \in {y \in DOMAIN snapshots :
                                      y[1] = h /\ snapshots[y] # "none"}}

KeepsRows(h) == h \in heights' /\ Rows(h) \subseteq Rows(h)'
InWindows(h) == /\ MaxRetainBlocks > 0 => h >= BlockCutoff
                /\ RetainDays => h \in fresh

\* No step deletes a row of a height that lies within every retention window that is
\* set, although the cutoff is computed once and used by five later statements while
\* heights are stored, in no order (CleanupOldData).  Under MaxRetainDays it is said
\* of the heights that were stored before the cutoff was computed: FreshNeverDeleted.
RetainedNeverDeleted ==
  [][\A h \in heights :
       InWindows(h) /\ (RetainDays => h \notin late) => KeepsRows(h)]_vars

\* CleanupOldData "removes data older than the configured retention period".  Of a
\* lower height that another RPC makes the poller store during the pass it removes
\* data that is new.
FreshNeverDeleted == [][\A h \in heights : InWindows(h) => KeepsRows(h)]_vars

Undisturbed == <>[](interrupted = {})

\* A round held in memory whose height is stored gets its row, in spite of failing
\* statements, of rounds that arrived before their height and of polls that go back,
\* if pauses and outages come to an end: every refresh stores every round again,
\* whichever it polled (RefreshConsensus).
RoundsReachStore ==
  Undisturbed =>
    \A hr \in Rounds : (hr \in proposers \cup roundVotes /\ hr[1] \in heights)
                          ~> (hr \in rounds \/ hr[1] \notin heights)

\* StoreValidators on is_proposer: "Will be set when we know the proposer".
ProposerFlagSet ==
  Undisturbed =>
    \A hr \in Rounds : (hr \in proposers /\ snapshots[<<hr[1], Proposer[hr]>>] # "none")
       ~> (\/ \E v \in Validators : snapshots[<<hr[1], v>>] = "true"
           \/ hr[1] \notin heights)

\* The schema's FOREIGN KEY (height) REFERENCES heights(height): a round or a
\* vote never outlives its height.
RoundsHaveHeight == \A hr \in rounds \cup votes : hr[1] \in heights
================================================================================
