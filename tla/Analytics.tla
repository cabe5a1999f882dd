------------------------------ MODULE Analytics --------------------------------
(***************************************************************************)
(* pkg/analytics on the database that a running tmtop keeps writing.       *)
(* The monitor calls StoreValidators and StoreRoundData at every refresh   *)
(* (with what it holds in memory, so a row is written again and again) and *)
(* CleanupOldData now and then.  "tmtop --analytics" is another process on *)
(* the same file: a command runs its queries one after the other, outside  *)
(* any transaction, so the monitor may write between two of them.          *)
(***************************************************************************)
EXTENDS Queries, TLC

CONSTANTS Validators, \* hex addresses
          Heights,    \* heights the monitor stores (bound)
          BlockTimes, \* the block_time values UpsertHeight is given
          Infos,      \* what a validator fetch may return: [Validators -> [power, operator]]
          RoundDatas, \* what memory may hold of a round: [proposers, votes]
          Garbled,    \* stored block hashes that hex.DecodeString refuses
          Numbers,    \* round numbers (bound)
          MaxRetainBlocks, \* Config.MaxRetainBlocks, 0 = off
          Subject,    \* the validator a command is about
          Window,     \* the command's time window [start, end]
          MaxRaces    \* monitor writes during one command (bound)

\* A BlockID is a hash and a part set header; that of a nil vote is the zero value.
ZeroBlockID == [hash |-> NULL, parts |-> NULL]

ASSUME AnalyticsAssumption ==
  /\ Heights \subseteq Nat \ {0} /\ IsFiniteSet(Heights)
  /\ Numbers \subseteq Nat /\ IsFiniteSet(Numbers) /\ IsFiniteSet(Validators)
  /\ MaxRetainBlocks \in Nat /\ MaxRaces \in Nat
  /\ BlockTimes \subseteq Nat \cup {NULL} /\ NULL \notin Validators
  /\ \A x \in Heights \X Numbers \X Validators \X {Prevote, Precommit} : x # NULL
  /\ \A i \in Infos : DOMAIN i = Validators /\ \A v \in Validators : i[v].power \in Nat
  /\ \A rd \in RoundDatas : rd.proposers \subseteq Validators
                            /\ DOMAIN rd.votes \subseteq Validators \X {Prevote, Precommit}
                            /\ \A y \in DOMAIN rd.votes :
                                 \/ rd.votes[y] = ZeroBlockID
                                 \/ rd.votes[y].hash \notin Garbled \cup {NULL}

VARIABLES heights, rounds, votes, validators, snapshots, \* the tables
          cleaner, cutoff,  \* CleanupOldData: next statement, its argument
          cli, report,      \* the command: next query, what it found so far
          races             \* monitor writes since the command began

tables == <<heights, rounds, votes, validators, snapshots>>
vars   == <<tables, cleaner, cutoff, cli, report, races>>

db == [heights |-> heights, rounds |-> rounds, votes |-> votes,
       validators |-> validators, snapshots |-> snapshots]

Commands == {"performance", "rankings", "timeseries", "debug", "diagnose"}

\* The types of the variables; every table is a function from its UNIQUE key.
TypeOK ==
  /\ DOMAIN heights \subseteq Heights /\ \A h \in DOMAIN heights : heights[h] \in BlockTimes
  /\ DOMAIN rounds \subseteq Heights \X Numbers
  /\ \A hr \in DOMAIN rounds : rounds[hr] \in Validators \cup {NULL}
  /\ DOMAIN votes \subseteq Heights \X Numbers \X Validators \X {Prevote, Precommit}
  /\ DOMAIN validators \subseteq Validators
  /\ DOMAIN snapshots \subseteq Heights \X Validators
  /\ cleaner \in {"idle", "votes", "snapshots", "rounds", "heights"} /\ cutoff \in Nat
  /\ cli \in {"idle", "efficiency", "participation", "streaks", "detail", "uptime",
              "rankings", "timeseries", "debug", "diagnose", "exit"}
  /\ races \in 0..MaxRaces

Empty == [x \in {} |-> NULL]
Blank == [cmd |-> "none", arg |-> NULL, result |-> "none"]

Init == /\ heights = Empty /\ rounds = Empty /\ votes = Empty
        /\ validators = Empty /\ snapshots = Empty
        /\ cleaner = "idle" /\ cutoff = 0
        /\ cli = "idle" /\ report = Blank /\ races = 0

--------------------------------------------------------------------------------
(* The monitor.                                                            *)

\* A write; its number is bounded while a command runs, and the behaviour ends
\* when the command has printed its report.
Write == /\ cli # "exit"
         /\ IF cli = "idle" THEN UNCHANGED races
            ELSE races < MaxRaces /\ races' = races + 1
         /\ UNCHANGED <<cli, report>>

UpsertRound(h, r, p) == rounds' = Over([x \in {<<h, r>>} |-> p], rounds)
UpsertHeight(h, t) == heights' = Over([x \in {h} |-> t], heights)
UpsertValidator(info) == validators' = Over(info, validators)
UpsertValidatorSnapshot(h, info) ==
  snapshots' = Over([x \in {h} \X Validators |-> info[x[2]].power], snapshots)

\* One transaction.
StoreValidators(h, t, info) ==
  /\ Write
  /\ UpsertHeight(h, t) /\ UpsertValidator(info) /\ UpsertValidatorSnapshot(h, info)
  /\ UNCHANGED <<rounds, votes, cleaner, cutoff>>

\* The rows of the votes vs of a round: of a BlockID only the hash is stored, of a
\* nil vote NULL.
VoteRows(h, r, vs) ==
  [x \in {<<h, r, y[1], y[2]>> : y \in DOMAIN vs} |->
     LET id == vs[<<x[3], x[4]>>] IN IF id = ZeroBlockID THEN NULL ELSE id.hash]

\* Mutant of UpsertVote: ON CONFLICT DO NOTHING.
InsertVote(h, r, vs) == votes' = Over(votes, VoteRows(h, r, vs))

\* ON CONFLICT DO UPDATE: the block hash in memory replaces the stored one.
UpsertVote(h, r, vs) == votes' = Over(VoteRows(h, r, vs), votes)

\* One transaction: the round with one proposer of the set, or NULL, and its
\* votes.  On a connection that enforces foreign keys (fk) a round without its
\* height or proposer row is rolled back and a vote without its validator is
\* left out.
StoreRoundData(h, r, rd) ==
  /\ Write
  /\ \E fk \in BOOLEAN, p \in IF rd.proposers = {} THEN {NULL} ELSE rd.proposers :
       /\ fk => h \in DOMAIN heights /\ (p = NULL \/ p \in DOMAIN validators)
       /\ UpsertRound(h, r, p)
       /\ UpsertVote(h, r, [y \in {x \in DOMAIN rd.votes :
                                     fk => x[1] \in DOMAIN validators} |-> rd.votes[y]])
  /\ UNCHANGED <<heights, validators, snapshots, cleaner, cutoff>>

GetLatestHeight == Max(DOMAIN heights)

\* 0 when retention is off; MaxRetainDays is off here.
computeCutoffHeight ==
  IF MaxRetainBlocks > 0 /\ heights # Empty THEN GetLatestHeight - MaxRetainBlocks ELSE 0

\* Mutant of CleanupStart: a chain shorter than the window is cleaned up too.
CleanupUnchecked ==
  /\ cleaner = "idle" /\ computeCutoffHeight # 0 /\ Write
  /\ cutoff' = computeCutoffHeight /\ cleaner' = "votes"
  /\ UNCHANGED tables

\* CleanupOldData: the cutoff, then one DELETE per table.
CleanupStart ==
  /\ cleaner = "idle" /\ computeCutoffHeight > 0 /\ Write
  /\ cutoff' = computeCutoffHeight /\ cleaner' = "votes"
  /\ UNCHANGED tables

Young(t) == [x \in {k \in DOMAIN t : k[1] >= cutoff} |-> t[x]]

DeleteVotesOlderThan ==
  /\ cleaner = "votes" /\ cleaner' = "snapshots" /\ Write
  /\ votes' = Young(votes)
  /\ UNCHANGED <<heights, rounds, validators, snapshots, cutoff>>

DeleteValidatorSnapshotsOlderThan ==
  /\ cleaner = "snapshots" /\ cleaner' = "rounds" /\ Write
  /\ snapshots' = Young(snapshots)
  /\ UNCHANGED <<heights, rounds, votes, validators, cutoff>>

DeleteRoundsOlderThan ==
  /\ cleaner = "rounds" /\ cleaner' = "heights" /\ Write
  /\ rounds' = Young(rounds)
  /\ UNCHANGED <<heights, votes, validators, snapshots, cutoff>>

\* Under foreign keys the statement fails while a row still refers to one of
\* the heights.
DeleteHeightsOlderThan ==
  LET old == {h \in DOMAIN heights : h < cutoff}
      used == {k[1] : k \in DOMAIN rounds \cup DOMAIN votes \cup DOMAIN snapshots}
  IN  /\ cleaner = "heights" /\ cleaner' = "idle" /\ cutoff' = 0 /\ Write
      /\ \/ heights' = [h \in DOMAIN heights \ old |-> heights[h]]
         \/ old \cap used # {} /\ UNCHANGED heights
      /\ UNCHANGED <<rounds, votes, validators, snapshots>>

Monitor ==
  \/ \E h \in Heights, t \in BlockTimes, i \in Infos : StoreValidators(h, t, i)
  \/ \E h \in Heights, r \in Numbers, rd \in RoundDatas : StoreRoundData(h, r, rd)
  \/ CleanupStart \/ DeleteVotesOlderThan \/ DeleteValidatorSnapshotsOlderThan
  \/ DeleteRoundsOlderThan \/ DeleteHeightsOlderThan

--------------------------------------------------------------------------------
(* The commands (analytics.Run).                                           *)

\* Query q answered: note its fields and go on with the next one.
Found(fields, next) == report' = Over(fields, report) /\ cli' = next
Finish(result) == report' = [report EXCEPT !.result = result] /\ cli' = "exit"
Reading == UNCHANGED <<tables, cleaner, cutoff, races>>

\* A command without its argument, or with a window that ParseTimeWindow
\* refuses, ends the process with status 1; so does a failing query, except
\* where the command leaves the section out.
Run(cmd, arg) ==
  /\ cli = "idle" /\ Reading
  /\ \/ /\ report' = [cmd |-> cmd, arg |-> arg, result |-> "error"]
        /\ cli' = "exit"
     \/ /\ report' = [cmd |-> cmd, arg |-> arg, result |-> "none"]
        /\ cli' = IF cmd = "performance" THEN "efficiency" ELSE cmd

QueryFails == /\ cli \in {"efficiency", "participation", "streaks", "rankings", "timeseries",
                          "diagnose"}
              /\ Reading /\ Finish("error")

\* PrintValidatorPerformance: the three queries of GetSigningEfficiency ...
QueryEfficiency ==
  /\ cli = "efficiency" /\ Reading
  /\ Found(GetValidatorSigningEfficiency(db, report.arg, Window), "participation")

QueryParticipation ==
  /\ cli = "participation" /\ Reading
  /\ LET p == GetValidatorConsensusParticipation(db, report.arg, Window)
     IN  Found([part |-> p], "streaks")

Longest(streaks) == IF streaks = {} THEN 0 ELSE Max({s.misses : s \in streaks})

\* ... and its early return when no block was found ...
GetSigningEfficiency ==
  /\ cli = "streaks" /\ Reading
  /\ LET longest == Longest(GetValidatorMissedBlockStreaks(db, report.arg, Window))
     IN  /\ report' = Over([longest |-> longest,
                            result |-> IF report.total = 0 THEN "no data" ELSE report.result],
                           report)
         /\ cli' = IF report.total = 0 THEN "exit"
                   ELSE IF longest > 0 THEN "detail" ELSE "uptime"

\* Mutant of GetMissedBlockStreaks: a streak that has not ended is left out.
EndedStreaksOnly ==
  /\ cli = "detail" /\ Reading
  /\ Found([detail |-> {s \in GetValidatorMissedBlockStreaks(db, report.arg, Window) :
                        s.end < GetMaxStoredHeight(db)}], "uptime")

\* ... the streaks again, in detail ...
GetMissedBlockStreaks ==
  /\ cli = "detail" /\ Reading
  /\ \/ Found([detail |-> GetValidatorMissedBlockStreaks(db, report.arg, Window)], "uptime")
     \/ Found([detail |-> {}], "uptime")

\* ... and the uptime.
GetUptime ==
  /\ cli = "uptime" /\ Reading
  /\ \/ report' = Over([result |-> "printed",
                         up |-> GetValidatorUptime(db, report.arg, Window)], report)
     \/ report' = [report EXCEPT !.result = "printed"]
  /\ cli' = "exit"

PrintValidatorRankings ==
  /\ cli = "rankings" /\ Reading
  /\ LET m == GetValidatorRanking(db, Window)
     IN  Finish(IF DOMAIN m = {} THEN "no data" ELSE "printed")

PrintPerformanceTimeSeries ==
  /\ cli = "timeseries" /\ Reading
  /\ Finish(IF GetValidatorPerformanceTimeSeries(db, report.arg, Window) = {}
           THEN "no data" ELSE "printed")

\* PrintDatabaseSummary counts every table.
PrintDatabaseSummary ==
  /\ cli = "debug" /\ Reading
  /\ report' = Over([result |-> "printed", heights |-> CountHeights(db),
                     rounds |-> CountRounds(db), votes |-> CountVotes(db),
                     validators |-> CountValidators(db),
                     snapshots |-> CountValidatorSnapshots(db)], report)
  /\ cli' = "exit"

\* DiagnoseValidatorData, by operator address.  Nothing relates its figures, so
\* its four queries are taken together.
DiagnoseValidatorData ==
  /\ cli = "diagnose" /\ Reading
  /\ report' = Over([exists |-> ValidatorExistsByOperator(db, report.arg),
                     blocks |-> CountHeightsInTimeWindow(db, Window),
                     cast |-> CountVotesForValidatorInTimeWindow(db, report.arg, Window),
                     result |-> IF SampleVotesForValidator(db, report.arg, 5) = <<>>
                                THEN "no votes" ELSE "printed"], report)
  /\ cli' = "exit"

Cli ==
  \/ \E cmd \in Commands : Run(cmd, Subject)
  \/ QueryFails \/ QueryEfficiency \/ QueryParticipation \/ GetSigningEfficiency
  \/ GetMissedBlockStreaks \/ GetUptime \/ PrintValidatorRankings
  \/ PrintPerformanceTimeSeries \/ PrintDatabaseSummary \/ DiagnoseValidatorData

Next == Monitor \/ Cli

Spec == Init /\ [][Next]_vars

--------------------------------------------------------------------------------
(* Reading rounds back (ConsensusStore.LoadRoundDataMap).                  *)

GetRoundsInRange(d, lo, hi) == {hr \in DOMAIN d.rounds : lo <= hr[1] /\ hr[1] <= hi}

GetVotesForRound(d, hr) == {k \in DOMAIN d.votes : k[1] = hr[1] /\ k[2] = hr[2]}

\* The BlockID of a stored hash: one that does not decode is logged and becomes a
\* nil vote, and the part set header is gone.
BlockIDOf(text) == IF text \in Garbled \cup {NULL} THEN ZeroBlockID
                   ELSE [hash |-> text, parts |-> NULL]

\* A round that was stored without a proposer has none, not an empty one; a round
\* whose vote query fails is left out, and one with neither proposer nor votes never
\* enters the map.
LoadRoundDataMap(d, lo, hi, failing) ==
  LET back(hr) == [proposers |-> {d.rounds[hr]} \ {NULL},
                   votes |-> [y \in {<<k[3], k[4]>> : k \in GetVotesForRound(d, hr)} |->
                                BlockIDOf(d.votes[<<hr[1], hr[2], y[1], y[2]>>])]]
  IN  [hr \in {x \in GetRoundsInRange(d, lo, hi) \ failing :
                d.rounds[x] # NULL \/ GetVotesForRound(d, x) # {}} |-> back(hr)]

\* GetProposerShareByHeight: each proposer's part of the rounds that have one, an
\* unrounded quotient <<its rounds, all of them>>.
GetProposerShareByHeight(d, lo, hi) ==
  LET n == GetProposerPerformanceByHeight(d, lo, hi)
  IN  [a \in DOMAIN n |-> <<n[a], SumOf(n)>>]

--------------------------------------------------------------------------------
(* Properties.                                                             *)

\* The miss streaks are the maximal runs of missed blocks among the selected
\* heights, although signed heights enter the join once per vote and are then
\* filtered out (GetValidatorMissedBlockStreaks).  Commands do not change the
\* tables, so it is enough to look before one starts.
StreaksAreMaximalRuns ==
  cli = "idle" => \A a \in Validators :
    LET hs == InWindow(db, Window)
        missed == {h \in hs : VotesAt(db, h, a) = {}}
        between(S) == {h \in hs : Min(S) <= h /\ h <= Max(S)}
        runs == {S \in (SUBSET missed) \ {{}} : between(S) = S}
    IN  GetValidatorMissedBlockStreaks(db, a, Window)
          = {Streak(S) : S \in {R \in runs : \A Q \in runs : R \subseteq Q => R = Q}}

\* Five queries count a validator's blocks in five ways (GROUP BY, DISTINCT,
\* EXISTS, by height, a plain count) over tables with several votes per height,
\* and report the same figures; a better rank means a better rate, or an equal
\* one and more power; rounds and votes counted by different joins agree, and a
\* proposer's share of the known rounds, rounded as SQL rounds the rate, is not below
\* its rate over all rounds.
ReportsAgree ==
  cli = "idle" =>
  LET w == Window
      all == GetAllValidatorsSigningEfficiency(db, w)
      ranking == GetValidatorRanking(db, w)
      byHeight == GetValidatorRankingByHeight(db, 1, GetMaxStoredHeight(db))
      shares == GetProposerShareByHeight(db, 1, GetMaxStoredHeight(db))
      hasHeight == {hr[1] : hr \in DOMAIN rounds} \subseteq DOMAIN heights
  IN  /\ DOMAIN all = DOMAIN ranking
      /\ \A a \in DOMAIN all :
           LET e == GetValidatorSigningEfficiency(db, a, w)
               part == GetValidatorConsensusParticipation(db, a, w)
           IN  /\ all[a] = e /\ GetValidatorUptime(db, a, w) = e
               /\ \A f \in DOMAIN e : ranking[a][f] = e[f]
               /\ e.total = CountHeightsInTimeWindow(db, w)
               /\ \A b \in DOMAIN all : ranking[b].rank < ranking[a].rank <=>
                    \/ ranking[b].rate > ranking[a].rate
                    \/ ranking[b].rate = ranking[a].rate /\ ranking[b].power > ranking[a].power
               /\ part.rounds = GetProposerPerformance(db, a, w).total
               /\ {<<x[1], x[2]>> : x \in DOMAIN votes} \subseteq DOMAIN rounds =>
                    /\ ranking[a].prevotes = part.prevotes
                    /\ ranking[a].precommits = part.precommits
      /\ (InWindow(db, w) = DOMAIN heights) =>
           /\ \A a \in DOMAIN all : \A f \in DOMAIN byHeight[a] : byHeight[a][f] = ranking[a][f]
           /\ \A a \in DOMAIN shares :
                LET p == GetProposerPerformance(db, a, w)
                IN  hasHeight => p.proposed > 0 /\ p.rate <= Percent(shares[a][1], shares[a][2])

\* A performance report printed while nobody wrote is consistent in itself,
\* although its figures come from five separate queries.
PerformanceCoherent ==
  (cli = "exit" /\ report.cmd = "performance" /\ report.result = "printed" /\ races = 0) =>
    /\ report.longest <= report.missed /\ (report.longest = 0 <=> report.missed = 0)
    /\ (report.missed = 0 => report.rate = 10000)
    /\ (report.part.prevotes + report.part.precommits > 0 => report.signed > 0)
    /\ ("detail" \in DOMAIN report /\ report.detail # {}) =>
          /\ report.longest = Longest(report.detail)
          /\ report.missed = SumOf([s \in report.detail |-> s.misses])
    /\ "up" \in DOMAIN report => /\ report.up.total = report.total
                                 /\ report.up.signed = report.signed

Full(rd) == rd.proposers # {} \/ DOMAIN rd.votes # {}
Accepted(rd) == {y[1] : y \in DOMAIN rd.votes} \subseteq DOMAIN validators

\* What StoreRoundData wrote of a round is what LoadRoundDataMap returns, whatever the
\* tables held of it before and whichever other rounds of its height cannot be read: a
\* round with a proposer or a vote is there, with its proposer, and each vote is for
\* the block of the same hash, or nil as it was.
LoadReturnsStored ==
  [][\A h \in Heights, r \in Numbers, rd \in RoundDatas :
       StoreRoundData(h, r, rd) /\ Full(rd) /\ Accepted(rd) =>
         \A failing \in SUBSET (({h} \X Numbers) \ {<<h, r>>}) :
           LET m == LoadRoundDataMap(db', h, h, failing)
               back == m[<<h, r>>]
           IN  /\ <<h, r>> \in DOMAIN m
               /\ back.proposers \subseteq rd.proposers
               /\ rd.proposers # {} => back.proposers # {}
               /\ \A y \in DOMAIN rd.votes : y \in DOMAIN back.votes
                                            /\ back.votes[y].hash = rd.votes[y].hash]_vars

\* LoadRoundDataMap decodes the hash "so the reconstructed BlockID matches what was
\* originally observed": it comes back without its part set header.
BlockIDRestored ==
  [][\A h \in Heights, r \in Numbers, rd \in RoundDatas :
       StoreRoundData(h, r, rd) /\ Accepted(rd) =>
         \A y \in DOMAIN rd.votes :
           LoadRoundDataMap(db', h, h, {})[<<h, r>>].votes[y] = rd.votes[y]]_vars

\* PrintValidatorPerformance on "No data found": "The database is empty (tmtop
\* hasn't been running long enough)", the address is wrong, or the window holds
\* no block.  The window of Analytics.cfg covers every known time, so a
\* validator with stored votes is never told so.
NoDataMeansEmpty ==
  (cli = "exit" /\ report.cmd = "performance" /\ report.result = "no data") =>
    \A h \in DOMAIN heights : VotesAt(db, h, report.arg) = {}
================================================================================
