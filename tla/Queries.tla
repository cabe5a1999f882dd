------------------------------- MODULE Queries ---------------------------------
(***************************************************************************)
(* The SQL of pkg/db/sqlc that the analytics commands read, as operators   *)
(* over a database d:                                                      *)
(*   d.heights    : height -> block_time (NULL when unknown)               *)
(*   d.rounds     : <<height, round>> -> proposer_address or NULL          *)
(*   d.votes      : <<height, round, validator, vote type>> -> block_hash, *)
(*                  the table's UNIQUE key; NULL is a nil vote             *)
(*   d.validators : hex address -> [power, operator]                       *)
(*   d.snapshots  : <<height, validator>> -> voting power                  *)
(* A row set of a join is the set of its rows, each named by its keys, so  *)
(* COUNT( * ) is its cardinality and COUNT(DISTINCT c) the cardinality of   *)
(* the values of c.  A rate is in hundredths of a percent.                 *)
(***************************************************************************)
EXTENDS Integers, FiniteSets, FiniteSetsExt, Sequences, SequencesExt

CONSTANT NULL

\* f where it is defined and g elsewhere: ON CONFLICT DO UPDATE, or a row with more
\* columns.
Over(f, g) == [x \in DOMAIN f \cup DOMAIN g |-> IF x \in DOMAIN f THEN f[x] ELSE g[x]]

\* SUM of the column f.
SumOf(f) == MapThenSumSet(LAMBDA x : f[x], DOMAIN f)

Prevote   == 1
Precommit == 2

--------------------------------------------------------------------------------
(* Joins.                                                                  *)

\* WHERE h.block_time >= ? AND h.block_time <= ?: NULL satisfies neither.
InWindow(d, w) ==
  {h \in DOMAIN d.heights : d.heights[h] # NULL
                            /\ w.start <= d.heights[h] /\ d.heights[h] <= w.end}

InRange(d, lo, hi) == {h \in DOMAIN d.heights : lo <= h /\ h <= hi}

VotesAt(d, h, a) == {x \in DOMAIN d.votes : x[1] = h /\ x[3] = a}

\* heights h LEFT JOIN votes v ON h.height = v.height AND the validator is a: a
\* row per vote, and a row with a NULL vote for a height without one.
LeftJoin(d, hs, a) ==
  UNION {{h} \X (IF VotesAt(d, h, a) = {} THEN {NULL} ELSE VotesAt(d, h, a)) : h \in hs}

Voted(rows) == {r \in rows : r[2] # NULL}
OfType(rows, t) == {r \in Voted(rows) : r[2][4] = t}
HeightsOf(rows) == {r[1] : r \in rows}

\* COALESCE(ROUND(100.0 * x / NULLIF(y, 0), 2), 0.0)
Percent(x, y) == IF y = 0 THEN 0 ELSE (20000 * x + y) \div (2 * y)

Signing(total, signed) == [total |-> total, signed |-> signed, missed |-> total - signed,
                           rate |-> Percent(signed, total)]

--------------------------------------------------------------------------------
(* Per-validator queries over a time window.                               *)

\* Mutant of GetValidatorSigningEfficiency: a row per vote, not per height.
SigningPerVote(d, a, w) ==
  LET rows == LeftJoin(d, InWindow(d, w), a)
  IN  Signing(Cardinality(rows), Cardinality(Voted(rows)))

\* GROUP BY height, then the groups with a vote.
GetValidatorSigningEfficiency(d, a, w) ==
  LET votes_cast == [h \in InWindow(d, w) |-> Cardinality(VotesAt(d, h, a))]
  IN  Signing(Cardinality(DOMAIN votes_cast),
              Cardinality({h \in DOMAIN votes_cast : votes_cast[h] > 0}))

\* COUNT(DISTINCT h.height) over the join.
GetValidatorUptime(d, a, w) ==
  LET rows == LeftJoin(d, InWindow(d, w), a)
  IN  Signing(Cardinality(HeightsOf(rows)), Cardinality(HeightsOf(Voted(rows))))

\* Every validator at once, with EXISTS.
GetAllValidatorsSigningEfficiency(d, w) ==
  LET hs == InWindow(d, w)
  IN  [a \in (IF hs = {} THEN {} ELSE DOMAIN d.validators) |->
         Signing(Cardinality(hs), Cardinality({h \in hs : VotesAt(d, h, a) # {}}))]

\* One group per round whose height lies in the window.
GetValidatorConsensusParticipation(d, a, w) ==
  LET groups == {hr \in DOMAIN d.rounds : hr[1] \in InWindow(d, w)}
      with(t) == {hr \in groups : <<hr[1], hr[2], a, t>> \in DOMAIN d.votes}
  IN  [rounds |-> Cardinality(groups),
       prevotes |-> Cardinality(with(Prevote)), precommits |-> Cardinality(with(Precommit)),
       prevoteRate |-> Percent(Cardinality(with(Prevote)), Cardinality(groups)),
       precommitRate |-> Percent(Cardinality(with(Precommit)), Cardinality(groups))]

\* The figures of one island of missed rows.
Streak(hs) == [misses |-> Cardinality(hs), start |-> Min(hs), end |-> Max(hs)]

\* Mutant of GetValidatorMissedBlockStreaks: rows are numbered after the
\* filter, so the number says nothing of the signed blocks in between.
StreaksOfMissedRows(d, a, w) ==
  LET missed == LeftJoin(d, InWindow(d, w), a) \ Voted(LeftJoin(d, InWindow(d, w), a))
  IN  IF missed = {} THEN {} ELSE {Streak(HeightsOf(missed))}

\* Gaps and islands: rn numbers all rows of the join by height, the inner
\* number the missed ones, and missed rows of equal difference are a streak.
GetValidatorMissedBlockStreaks(d, a, w) ==
  LET rows   == LeftJoin(d, InWindow(d, w), a)
      missed == rows \ Voted(rows)
      number(R, r) == 1 + Cardinality({x \in R : x[1] < r[1]})
      grp(r) == number(rows, r) - number(missed, r)
  IN  {Streak(HeightsOf({r \in missed : grp(r) = g})) : g \in {grp(r) : r \in missed}}

\* datetime(block_time, 'start of hour'): SQLite has no such modifier and
\* answers NULL for every time.
TimeBucket(t) == NULL

\* A set of buckets; blocks and signed count the rows of the join.
GetValidatorPerformanceTimeSeries(d, a, w) ==
  LET rows == LeftJoin(d, InWindow(d, w), a)
      in(b) == {r \in rows : TimeBucket(d.heights[r[1]]) = b}
  IN  {Over([bucket |-> b], Signing(Cardinality(in(b)), Cardinality(Voted(in(b)))))
         : b \in {TimeBucket(d.heights[h]) : h \in HeightsOf(rows)}}

--------------------------------------------------------------------------------
(* Rankings of all validators.                                             *)

\* The aggregate of one validator's group; a snapshot is unique per height.
ValidatorMetrics(d, hs, a) ==
  LET rows == LeftJoin(d, hs, a)
      powers == {d.snapshots[<<h, a>>] : h \in {x \in hs : <<x, a>> \in DOMAIN d.snapshots}}
  IN  Over([prevotes |-> Cardinality(OfType(rows, Prevote)),
            precommits |-> Cardinality(OfType(rows, Precommit)),
            power |-> IF powers = {} THEN 0 ELSE Max(powers)],
           Signing(Cardinality(HeightsOf(rows)), Cardinality(HeightsOf(Voted(rows)))))

\* CROSS JOIN heights: no group where no height is selected.
RankingOver(d, hs) ==
  [a \in (IF hs = {} THEN {} ELSE DOMAIN d.validators) |-> ValidatorMetrics(d, hs, a)]

\* RANK() OVER (ORDER BY signing_efficiency DESC, voting_power DESC)
EfficiencyRank(m, a) ==
  1 + Cardinality({x \in DOMAIN m : \/ m[x].rate > m[a].rate
                                    \/ m[x].rate = m[a].rate /\ m[x].power > m[a].power})

GetValidatorRanking(d, w) ==
  LET m == RankingOver(d, InWindow(d, w))
  IN  [a \in DOMAIN m |-> Over([rank |-> EfficiencyRank(m, a)], m[a])]

GetValidatorRankingByHeight(d, lo, hi) == RankingOver(d, InRange(d, lo, hi))

GetMaxStoredHeight(d) == IF DOMAIN d.heights = {} THEN 0 ELSE Max(DOMAIN d.heights)

--------------------------------------------------------------------------------
(* Proposers.                                                              *)

GetProposerPerformance(d, a, w) ==
  LET all == {hr \in DOMAIN d.rounds : hr[1] \in InWindow(d, w)}
      own == {hr \in all : d.rounds[hr] = a}
  IN  [total |-> Cardinality(all), proposed |-> Cardinality(own),
       rate |-> Percent(Cardinality(own), Cardinality(all))]

\* Grouped by proposer; rounds without a known one are left out.
GetProposerPerformanceByHeight(d, lo, hi) ==
  LET known == {hr \in DOMAIN d.rounds : lo <= hr[1] /\ hr[1] <= hi /\ d.rounds[hr] # NULL}
  IN  [a \in {d.rounds[hr] : hr \in known} |->
         Cardinality({hr \in known : d.rounds[hr] = a})]

--------------------------------------------------------------------------------
(* The debugger's queries.                                                 *)

CountHeights(d) == Cardinality(DOMAIN d.heights)
CountRounds(d)  == Cardinality(DOMAIN d.rounds)
CountVotes(d)   == Cardinality(DOMAIN d.votes)
CountValidators(d) == Cardinality(DOMAIN d.validators)
CountValidatorSnapshots(d) == Cardinality(DOMAIN d.snapshots)
CountHeightsInTimeWindow(d, w) == Cardinality(InWindow(d, w))

OfOperator(d, op) == {a \in DOMAIN d.validators : d.validators[a].operator = op}
ValidatorExistsByOperator(d, op) == Cardinality(OfOperator(d, op))

\* Inner joins with heights and validators: a vote whose height or validator
\* row is gone does not appear.
JoinedVotes(d, op) ==
  {x \in DOMAIN d.votes : x[1] \in DOMAIN d.heights /\ x[3] \in OfOperator(d, op)}
CountVotesForValidatorInTimeWindow(d, op, w) ==
  Cardinality({x \in JoinedVotes(d, op) : x[1] \in InWindow(d, w)})

\* ORDER BY height DESC LIMIT n; a tie within a height may go either way.
SampleVotesForValidator(d, op, n) ==
  LET s == SetToSortSeq(JoinedVotes(d, op), LAMBDA x, y : x[1] > y[1])
  IN  SubSeq(s, 1, Min({n, Len(s)}))
================================================================================
