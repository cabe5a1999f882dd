------------------------------ MODULE HealthProofs -----------------------------
(***************************************************************************)
(* The rounds the builder records are rounds the chain went through, and   *)
(* the two panels agree when State stood still, for every chain length,    *)
(* ring capacity, halt threshold and family of validator sets.  The ASN of *)
(* a row and the hosting panel are exact, for every dataset of disjoint    *)
(* ranges and every distribution of power, and so are the concentration    *)
(* figures, for every power vector that the integers can hold.             *)
(***************************************************************************)
EXTENDS Health, FiniteSetTheorems, SequenceTheorems, WellFoundedInduction, TLAPS

\* Rounds the builder and State hold are rounds of the chain.
Genuine ==
  /\ chain \in reached
  /\ current = NoHeight \/ current \in reached
  /\ poller = "height" => fetched \in reached
  /\ lastHeight # 0 => current # NoHeight /\ <<lastHeight, curHeightMaxRound>> \in reached

Offline(S, hr) == Cardinality({v \in S : ~VotedThisHeight(hr, v)})
OfflineRows(r) == Cardinality({v \in DOMAIN r : ~r[v]})

\* What a snapshot holds while State stands still.
Snapshot ==
  /\ health = "liveness" /\ ~moved => DOMAIN rows = vals
  /\ health = "rows" /\ ~moved => DOMAIN rows = vals /\ nh.offline = Offline(vals, current)
  /\ health \in {"publish", "publishRows"} /\ ~moved => nh.offline = OfflineRows(rows)
  /\ health = "publishRows" => shown.nh = nh

IInv == TypeOK /\ Genuine /\ Snapshot /\ MaxRoundGenuine /\ SnapshotConsistent

--------------------------------------------------------------------------------
(* Lemmas about the operators.                                             *)

\* A round is the pair of its height and its number within it.
LEMMA RoundPair ==
  ASSUME NEW hr \in Rounds
  PROVE  hr = <<hr[1], hr[2]>> /\ hr[1] \in 1..MaxHeight /\ hr[2] \in 0..MaxRound
  BY DEF Rounds

LEMMA MaxOfTwo ==
  ASSUME NEW x \in Nat, NEW y \in Nat
  PROVE  Max({x, y}) = x \/ Max({x, y}) = y
<1>1. \E z \in {x, y} : \A w \in {x, y} : z >= w
  <2>1. CASE x >= y
    BY <2>1
  <2>2. CASE y >= x
    BY <2>2
  <2> QED
    BY <2>1, <2>2
<1>2. Max({x, y}) \in {x, y}
  BY <1>1, Zenon DEF Max
<1> QED
  BY <1>2

\* The ring keeps the last entries of the appended sequence.
LEMMA RingStep ==
  ASSUME NEW S, NEW s \in Seq(S), NEW x \in S, Len(s) <= ringCapacity
  PROVE  LET r == AppendRing(s, x)
             k == IF Len(s) = ringCapacity THEN 1 ELSE 0
         IN  /\ r \in Seq(S) /\ Len(r) = Len(s) + 1 - k /\ Len(r) <= ringCapacity
             /\ \A i \in 1..Len(r) : r[i] = IF i + k <= Len(s) THEN s[i + k] ELSE x
<1>0. ringCapacity \in Nat /\ ringCapacity > 0
  BY HealthAssumption
<1> DEFINE t == Append(s, x)
<1>1. t \in Seq(S) /\ Len(t) = Len(s) + 1 /\ \A i \in 1..Len(t) : t[i] = IF i <= Len(s) THEN s[i] ELSE x
  OBVIOUS
<1>2. CASE Len(s) = ringCapacity
  <2>1. AppendRing(s, x) = SubSeq(t, 2, Len(t))
    BY <1>0, <1>1, <1>2 DEF AppendRing
  <2> HIDE DEF t
  <2> DEFINE r == SubSeq(t, 2, Len(t))
  <2>2. r \in Seq(S) /\ Len(r) = Len(t) - 1 /\ \A i \in 1..Len(r) : r[i] = t[i + 1]
    BY <1>0, <1>1, <1>2
  <2> HIDE DEF r
  <2>3. AppendRing(s, x) = r
    BY <2>1 DEF r
  <2>4. \A i \in 1..Len(r) : i \in Nat /\ i + 1 \in 1..Len(t)
    BY <1>0, <1>1, <1>2, <2>2
  <2> QED
    BY <1>0, <1>1, <1>2, <2>2, <2>3, <2>4
<1>3. CASE Len(s) < ringCapacity
  <2>1. AppendRing(s, x) = t
    BY <1>0, <1>1, <1>3 DEF AppendRing
  <2> HIDE DEF t
  <2> QED
    BY <1>0, <1>1, <1>3, <2>1
<1> QED
  BY <1>0, <1>2, <1>3

\* A part of the validators has at most as many as there are.
LEMMA CountInRange ==
  ASSUME NEW S, S \subseteq Validators
  PROVE  Cardinality(S) \in 0..Cardinality(Validators)
<1>1. IsFiniteSet(Validators)
  BY HealthAssumption
<1>2. IsFiniteSet(S) /\ Cardinality(S) <= Cardinality(Validators)
  BY <1>1, FS_Subset
<1>3. Cardinality(S) \in Nat /\ Cardinality(Validators) \in Nat
  BY <1>1, <1>2, FS_CardinalityType
<1> QED
  BY <1>2, <1>3

LEMMA RowsType ==
  ASSUME NEW r
  PROVE  r \in Rows <=> DOMAIN r \subseteq Validators /\ r \in [DOMAIN r -> BOOLEAN]
<1>1. ASSUME r \in Rows PROVE DOMAIN r \subseteq Validators /\ r \in [DOMAIN r -> BOOLEAN]
  <2>1. PICK S \in SUBSET Validators : r \in [S -> BOOLEAN]
    BY <1>1 DEF Rows
  <2> QED
    BY <2>1
<1>2. ASSUME DOMAIN r \subseteq Validators, r \in [DOMAIN r -> BOOLEAN] PROVE r \in Rows
  BY <1>2 DEF Rows
<1> QED
  BY <1>1, <1>2

--------------------------------------------------------------------------------
LEMMA InitIInv == Init => IInv
<1> SUFFICES ASSUME Init PROVE IInv
  OBVIOUS
<1>0. /\ MaxHeight \in Nat \ {0} /\ MaxRound \in Nat /\ MaxPauses \in Nat
      /\ haltThreshold \in Nat /\ ringCapacity \in Nat
  BY HealthAssumption
<1>1. NoRows \in Rows
  <2>1. DOMAIN NoRows = {} /\ NoRows \in [DOMAIN NoRows -> BOOLEAN]
    BY DEF NoRows
  <2> QED
    BY <2>1, RowsType
<1>2. Cardinality({}) = 0 /\ 0 \in 0..Cardinality(Validators)
  BY FS_EmptySet, CountInRange
<1>3. NoMetrics \in Metrics /\ NoMetrics.offline = 0
  BY <1>2 DEF NoMetrics, Metrics
<1>4. TypeOK
  <2>1. <<1, 0>> \in Rounds
    BY <1>0 DEF Rounds
  <2>2. /\ chain \in Rounds /\ reached \subseteq Rounds
        /\ fetched \in Rounds \cup {NoHeight} /\ current \in Rounds \cup {NoHeight}
        /\ vals \subseteq Validators /\ votes \subseteq Rounds \X Validators
    BY <2>1, Zenon DEF Init
  <2>3. /\ pauses \in 0..MaxPauses /\ lastHeight \in 0..MaxHeight
        /\ curHeightMaxRound \in 0..MaxRound /\ age \in -1..haltThreshold + 1
        /\ maxRoundPerHeight \in Seq(0..MaxRound) /\ heightOf \in Seq(1..MaxHeight)
        /\ Len(maxRoundPerHeight) <= ringCapacity /\ Len(heightOf) = Len(maxRoundPerHeight)
    BY <1>0 DEF Init
  <2>4. /\ nh \in Metrics /\ rows \in Rows /\ shown \in [nh : Metrics, rows : Rows]
        /\ poller \in {"idle", "height"} /\ paused \in BOOLEAN /\ moved \in BOOLEAN
        /\ health \in {"idle", "liveness", "rows", "publish", "publishRows"}
    BY <1>1, <1>3, Zenon DEF Init
  <2> QED
    BY <2>2, <2>3, <2>4 DEF TypeOK
<1>5. Genuine /\ Snapshot /\ MaxRoundGenuine
  BY DEF Init, Genuine, Snapshot, MaxRoundGenuine
<1>6. SnapshotConsistent
  <2>1. {v \in DOMAIN shown.rows : ~shown.rows[v]} = {}
    BY DEF Init, NoRows
  <2> QED
    BY <2>1, <1>2, <1>3 DEF Init, SnapshotConsistent
<1> QED
  BY <1>4, <1>5, <1>6 DEF IInv

--------------------------------------------------------------------------------
\* Observe keeps the recorded and the running rounds genuine.
LEMMA ObserveStep ==
  ASSUME TypeOK, Genuine, MaxRoundGenuine, Observe, UNCHANGED <<chainVars, pollVars, stateVars>>
  PROVE  /\ Genuine' /\ MaxRoundGenuine'
         /\ lastHeight' \in 0..MaxHeight /\ curHeightMaxRound' \in 0..MaxRound
         /\ maxRoundPerHeight' \in Seq(0..MaxRound) /\ heightOf' \in Seq(1..MaxHeight)
         /\ Len(maxRoundPerHeight') <= ringCapacity
         /\ Len(heightOf') = Len(maxRoundPerHeight')
         /\ age' \in -1..haltThreshold + 1
<1> USE DEF chainVars, pollVars, stateVars
<1>0. /\ MaxHeight \in Nat \ {0} /\ MaxRound \in Nat
      /\ haltThreshold \in Nat /\ ringCapacity \in Nat
  BY HealthAssumption
<1>1. /\ current[1] \in 0..MaxHeight /\ current[2] \in 0..MaxRound
      /\ current = <<current[1], current[2]>>
      /\ current # NoHeight => current[1] # 0 /\ current \in reached
  BY <1>0, RoundPair DEF TypeOK, Genuine, NoHeight
<1>2. CASE current[1] = lastHeight
  <2>1. /\ curHeightMaxRound' = Max({curHeightMaxRound, current[2]})
        /\ UNCHANGED <<lastHeight, maxRoundPerHeight, heightOf, age>>
    BY <1>2 DEF Observe
  <2>2. curHeightMaxRound' = curHeightMaxRound \/ curHeightMaxRound' = current[2]
    <3>1. curHeightMaxRound \in Nat /\ current[2] \in Nat
      BY <1>0, <1>1 DEF TypeOK
    <3> QED
      BY <3>1, <2>1, MaxOfTwo, Zenon
  <2>3. Genuine'
    BY <1>1, <1>2, <2>1, <2>2 DEF Genuine
  <2> QED
    BY <1>1, <2>1, <2>2, <2>3 DEF TypeOK, MaxRoundGenuine
<1>3. CASE current[1] # lastHeight
  <2>1. RecordRound /\ lastHeight' = current[1] /\ age' = 0 /\ curHeightMaxRound' = current[2]
    BY <1>3 DEF Observe
  <2>2. current # NoHeight
    BY <1>0, <1>3 DEF Genuine, NoHeight, TypeOK
  <2>3. Genuine'
    BY <1>1, <2>1, <2>2 DEF Genuine
  <2>4. /\ lastHeight' \in 0..MaxHeight /\ curHeightMaxRound' \in 0..MaxRound
        /\ age' \in -1..haltThreshold + 1
    BY <1>0, <1>1, <2>1
  <2>5. CASE lastHeight # 0 /\ current[1] > lastHeight
    <3> DEFINE q == maxRoundPerHeight
               h == heightOf
               k == IF Len(q) = ringCapacity THEN 1 ELSE 0
    <3>1. /\ q' = AppendRing(q, curHeightMaxRound) /\ h' = AppendRing(h, lastHeight)
      BY <2>1, <2>5 DEF RecordRound
    <3>2. /\ q \in Seq(0..MaxRound) /\ h \in Seq(1..MaxHeight) /\ Len(h) = Len(q)
          /\ Len(q) <= ringCapacity /\ curHeightMaxRound \in 0..MaxRound
          /\ lastHeight \in 1..MaxHeight
      BY <1>0, <2>5 DEF TypeOK
    <3>3. /\ q' \in Seq(0..MaxRound) /\ Len(q') = Len(q) + 1 - k /\ Len(q') <= ringCapacity
          /\ \A i \in 1..Len(q') : q'[i] = IF i + k <= Len(q) THEN q[i + k] ELSE curHeightMaxRound
      <4> DEFINE S == 0..MaxRound
                 r == AppendRing(q, curHeightMaxRound)
      <4>1. q \in Seq(S) /\ curHeightMaxRound \in S /\ Len(q) <= ringCapacity
        BY <3>2
      <4>2. /\ r \in Seq(S) /\ Len(r) = Len(q) + 1 - k /\ Len(r) <= ringCapacity
            /\ \A i \in 1..Len(r) : r[i] = IF i + k <= Len(q) THEN q[i + k] ELSE curHeightMaxRound
        <5> HIDE DEF S
        <5> QED
          BY ONLY <4>1, RingStep, Zenon
      <4> HIDE DEF r
      <4> QED
        BY <3>1, <4>2 DEF r
    <3>4. /\ h' \in Seq(1..MaxHeight) /\ Len(h') = Len(q) + 1 - k
          /\ \A i \in 1..Len(h') : h'[i] = IF i + k <= Len(q) THEN h[i + k] ELSE lastHeight
      <4> DEFINE kh == IF Len(h) = ringCapacity THEN 1 ELSE 0
      <4>1. /\ h' \in Seq(1..MaxHeight) /\ Len(h') = Len(h) + 1 - kh
            /\ \A i \in 1..Len(h') : h'[i] = IF i + kh <= Len(h) THEN h[i + kh] ELSE lastHeight
        <5>1. h \in Seq(1..MaxHeight) /\ Len(h) <= ringCapacity /\ lastHeight \in 1..MaxHeight
          BY <3>2
        <5>2. h' = AppendRing(h, lastHeight)
          BY <3>1
        <5> DEFINE r == AppendRing(h, lastHeight)
        <5>3. /\ r \in Seq(1..MaxHeight) /\ Len(r) = Len(h) + 1 - kh
              /\ \A i \in 1..Len(r) : r[i] = IF i + kh <= Len(h) THEN h[i + kh] ELSE lastHeight
          <6> DEFINE S == 1..MaxHeight
          <6>1. h \in Seq(S) /\ Len(h) <= ringCapacity /\ lastHeight \in S
            BY <5>1
          <6> HIDE DEF S, h
          <6>2. /\ r \in Seq(S) /\ Len(r) = Len(h) + 1 - kh
                /\ \A i \in 1..Len(r) : r[i] = IF i + kh <= Len(h) THEN h[i + kh] ELSE lastHeight
            BY <6>1, RingStep
          <6> QED
            BY <6>2 DEF S
        <5>4. h' = r
          BY <5>2
        <5> HIDE DEF r, h, kh
        <5> QED
          BY <5>3, <5>4
      <4>2. kh = k /\ Len(h) = Len(q)
        BY <3>2
      <4> HIDE DEF kh, k
      <4> QED
        BY <4>1, <4>2
    <3>k. k \in 0..1 /\ Len(q) \in Nat /\ Len(q') \in Nat /\ Len(h') = Len(q')
      BY <3>2, <3>3, <3>4
    <3> HIDE DEF k
    <3>5. MaxRoundGenuine'
      <4>0. DOMAIN q' = 1..Len(q') /\ reached' = reached
        BY <3>3
      <4> SUFFICES ASSUME NEW i \in 1..Len(q') PROVE <<h'[i], q'[i]>> \in reached
        BY <4>0 DEF MaxRoundGenuine
      <4>1. CASE i + k <= Len(q)
        <5>1. i + k \in 1..Len(q) /\ q'[i] = q[i + k] /\ h'[i] = h[i + k]
          BY <3>k, <3>3, <3>4, <4>1
        <5> QED
          BY <5>1, <3>2, <3>k DEF MaxRoundGenuine
      <4>2. CASE ~(i + k <= Len(q))
        <5>1. q'[i] = curHeightMaxRound /\ h'[i] = lastHeight
          BY <3>k, <3>3, <3>4, <4>2
        <5> QED
          BY <5>1, <2>5 DEF Genuine
      <4> QED
        BY <4>1, <4>2
    <3> QED
      BY <2>3, <2>4, <3>3, <3>4, <3>5
  <2>6. CASE ~(lastHeight # 0 /\ current[1] > lastHeight)
    <3>1. UNCHANGED <<maxRoundPerHeight, heightOf>>
      BY <2>1, <2>6 DEF RecordRound
    <3> QED
      BY <2>3, <2>4, <3>1 DEF MaxRoundGenuine, TypeOK
  <2> QED
    BY <2>5, <2>6
<1> QED
  BY <1>2, <1>3

LEMMA IInvStep == IInv /\ [Next]_vars => IInv'
<1> SUFFICES ASSUME IInv, [Next]_vars PROVE IInv'
  OBVIOUS
<1> USE DEF IInv
<1>0. /\ MaxHeight \in Nat \ {0} /\ MaxRound \in Nat /\ MaxPauses \in Nat
      /\ haltThreshold \in Nat /\ ringCapacity \in Nat
      /\ Voters \subseteq Validators /\ ValidatorSets \subseteq SUBSET Validators
  BY HealthAssumption
<1>1. CASE NodeRound
  <2> USE <1>1 DEF NodeRound, pollVars, stateVars, pauseVars, buildVars
  <2>1. chain' \in Rounds
    BY <1>0, RoundPair DEF TypeOK, Rounds
  <2>2. TypeOK'
    BY <2>1 DEF TypeOK
  <2>3. Genuine' /\ MaxRoundGenuine'
    BY DEF Genuine, MaxRoundGenuine
  <2>4. Snapshot' /\ SnapshotConsistent'
    BY DEF Snapshot, SnapshotConsistent, Offline, OfflineRows, VotedThisHeight
  <2> QED
    BY <2>2, <2>3, <2>4
<1>2. CASE Tick
  <2> USE <1>2 DEF Tick, chainVars, pollVars, stateVars, pauseVars
  <2>1. TypeOK'
    BY <1>0 DEF TypeOK
  <2>2. Genuine' /\ MaxRoundGenuine'
    BY DEF Genuine, MaxRoundGenuine
  <2>3. Snapshot' /\ SnapshotConsistent'
    BY DEF Snapshot, SnapshotConsistent, Offline, OfflineRows, VotedThisHeight
  <2> QED
    BY <2>1, <2>2, <2>3
<1>3. CASE TogglePause
  <2> USE <1>3 DEF TogglePause, chainVars, pollVars, stateVars, buildVars
  <2>1. TypeOK'
    BY <1>0 DEF TypeOK
  <2>2. Genuine' /\ MaxRoundGenuine'
    BY DEF Genuine, MaxRoundGenuine
  <2>3. Snapshot' /\ SnapshotConsistent'
    BY DEF Snapshot, SnapshotConsistent, Offline, OfflineRows, VotedThisHeight
  <2> QED
    BY <2>1, <2>2, <2>3
<1>4. ASSUME NEW v \in Voters, AddVote(v) PROVE IInv'
  <2> USE <1>4 DEF AddVote, Moves, chainVars, pollVars, pauseVars, buildVars
  <2>1. TypeOK'
    BY <1>0 DEF TypeOK
  <2>2. Genuine' /\ MaxRoundGenuine'
    BY DEF Genuine, MaxRoundGenuine
  <2>3. Snapshot' /\ SnapshotConsistent'
    BY DEF Snapshot, SnapshotConsistent, OfflineRows
  <2> QED
    BY <2>1, <2>2, <2>3
<1>5. CASE SetTMValidators
  <2> USE <1>5 DEF SetTMValidators, Moves, chainVars, pauseVars, buildVars
  <2>1. TypeOK'
    BY <1>0 DEF TypeOK
  <2>2. Genuine' /\ MaxRoundGenuine'
    BY DEF Genuine, MaxRoundGenuine
  <2>3. Snapshot' /\ SnapshotConsistent'
    BY DEF Snapshot, SnapshotConsistent, OfflineRows
  <2> QED
    BY <2>1, <2>2, <2>3
<1>6. CASE SetConsensusHeight
  <2> USE <1>6 DEF SetConsensusHeight, Moves, chainVars, pauseVars, buildVars
  <2>0. fetched \in reached /\ fetched # NoHeight
    BY <1>0 DEF Genuine, TypeOK, Rounds, NoHeight
  <2>1. TypeOK'
    BY <1>0 DEF TypeOK
  <2>2. Genuine' /\ MaxRoundGenuine'
    BY <2>0 DEF Genuine, MaxRoundGenuine
  <2>3. Snapshot' /\ SnapshotConsistent'
    BY DEF Snapshot, SnapshotConsistent, OfflineRows
  <2> QED
    BY <2>1, <2>2, <2>3
<1>7. CASE BuildObserve
  <2> USE <1>7 DEF BuildObserve, chainVars, pollVars, stateVars, pauseVars
  <2>1. /\ Genuine' /\ MaxRoundGenuine'
        /\ lastHeight' \in 0..MaxHeight /\ curHeightMaxRound' \in 0..MaxRound
        /\ maxRoundPerHeight' \in Seq(0..MaxRound) /\ heightOf' \in Seq(1..MaxHeight)
        /\ Len(maxRoundPerHeight') <= ringCapacity
        /\ Len(heightOf') = Len(maxRoundPerHeight')
        /\ age' \in -1..haltThreshold + 1
    BY ObserveStep
  <2>2. DOMAIN rows' = vals /\ rows' \in [vals -> BOOLEAN] /\ vals \subseteq Validators
    BY DEF BuildBaseRows, TypeOK
  <2>3. rows' \in Rows
    BY <2>2, RowsType
  <2>4. TypeOK'
    BY <2>1, <2>3 DEF TypeOK
  <2>5. Snapshot' /\ SnapshotConsistent'
    BY <2>2 DEF Snapshot, SnapshotConsistent
  <2> QED
    BY <2>1, <2>4, <2>5
<1>8. CASE EnrichLiveness
  <2> USE <1>8 DEF EnrichLiveness, chainVars, pollVars, stateVars, pauseVars, buildVars
  <2>1. Offline(vals, current) \in 0..Cardinality(Validators)
    BY CountInRange DEF Offline, TypeOK
  <2>2. nh' = [halted |-> age > haltThreshold, offline |-> Offline(vals, current)]
    BY DEF Offline
  <2>3. nh' \in Metrics /\ nh'.offline = Offline(vals, current)
    BY <2>1, <2>2 DEF Metrics
  <2>4. TypeOK'
    BY <2>3 DEF TypeOK
  <2>5. Genuine' /\ MaxRoundGenuine'
    BY DEF Genuine, MaxRoundGenuine
  <2>6. Snapshot' /\ SnapshotConsistent'
    BY <2>3 DEF Snapshot, SnapshotConsistent, Offline, VotedThisHeight
  <2> QED
    BY <2>4, <2>5, <2>6
<1>9. CASE EnrichLivenessRows
  <2> USE <1>9 DEF EnrichLivenessRows, chainVars, pollVars, stateVars, pauseVars, buildVars
  <2>1. /\ DOMAIN rows \subseteq Validators /\ DOMAIN rows' = DOMAIN rows
        /\ rows' \in [DOMAIN rows' -> BOOLEAN]
        /\ \A v \in DOMAIN rows' : rows'[v] = VotedThisHeight(current, v)
    BY RowsType DEF TypeOK, VotedThisHeight
  <2>2. rows' \in Rows
    BY <2>1, RowsType
  <2>3. TypeOK'
    BY <2>2 DEF TypeOK
  <2>4. Genuine' /\ MaxRoundGenuine'
    BY DEF Genuine, MaxRoundGenuine
  <2>5. DOMAIN rows = vals => OfflineRows(rows') = Offline(vals, current)
    <3>1. DOMAIN rows = vals => {v \in DOMAIN rows' : ~rows'[v]}
                                = {v \in vals : ~VotedThisHeight(current, v)}
      BY <2>1
    <3> QED
      BY <3>1 DEF OfflineRows, Offline
  <2>6. OfflineRows(rows)' = OfflineRows(rows')
    BY DEF OfflineRows
  <2>7. Snapshot' /\ SnapshotConsistent'
    BY <2>5, <2>6 DEF Snapshot, SnapshotConsistent
  <2> QED
    BY <2>3, <2>4, <2>7
<1>10. CASE SetNetworkHealth
  <2> USE <1>10 DEF SetNetworkHealth, chainVars, pollVars, stateVars, pauseVars, buildVars
  <2>1. TypeOK'
    BY DEF TypeOK
  <2>2. Genuine' /\ MaxRoundGenuine'
    BY DEF Genuine, MaxRoundGenuine
  <2>3. Snapshot' /\ SnapshotConsistent'
    BY DEF Snapshot, SnapshotConsistent, OfflineRows
  <2> QED
    BY <2>1, <2>2, <2>3
<1>11. CASE SetValidatorHealth
  <2> USE <1>11 DEF SetValidatorHealth, chainVars, pollVars, stateVars, pauseVars, buildVars
  <2>0. NoMetrics \in Metrics /\ NoRows \in Rows
    <3>1. 0 \in 0..Cardinality(Validators)
      BY FS_EmptySet, CountInRange
    <3>2. DOMAIN NoRows = {} /\ NoRows \in [DOMAIN NoRows -> BOOLEAN]
      BY DEF NoRows
    <3> QED
      BY <3>1, <3>2, RowsType DEF NoMetrics, Metrics
  <2>1. TypeOK'
    BY <2>0 DEF TypeOK
  <2>2. Genuine' /\ MaxRoundGenuine'
    BY DEF Genuine, MaxRoundGenuine
  <2>3. Snapshot' /\ SnapshotConsistent'
    BY DEF Snapshot, SnapshotConsistent, OfflineRows
  <2> QED
    BY <2>1, <2>2, <2>3
<1>12. CASE UNCHANGED vars
  BY <1>12 DEF vars, chainVars, pollVars, stateVars, pauseVars, buildVars, TypeOK, Genuine,
               Snapshot, MaxRoundGenuine, SnapshotConsistent, Offline, OfflineRows,
               VotedThisHeight
<1> QED
  BY <1>1, <1>2, <1>3, <1>4, <1>5, <1>6, <1>7, <1>8, <1>9, <1>10, <1>11, <1>12
     DEF Next, RefreshConsensus, RefreshHealthMetrics

--------------------------------------------------------------------------------
\* The inductive invariant of the builder and its surroundings holds always.
THEOREM Invariance == Spec => []IInv
  BY InitIInv, IInvStep, PTL DEF Spec

\* Every variable keeps its type; the rings never exceed their capacity.
THEOREM TypeCorrect == Spec => []TypeOK
<1>1. IInv => TypeOK
  BY DEF IInv
<1> QED
  BY Invariance, <1>1, PTL

\* Every recorded round is one its height went through, whatever the polls missed
\* and however often another, slower node was polled.
THEOREM RecordedRoundsGenuine == Spec => []MaxRoundGenuine
<1>1. IInv => MaxRoundGenuine
  BY DEF IInv
<1> QED
  BY Invariance, <1>1, PTL

\* The offline count agrees with the rows whenever State stood still during Build.
THEOREM PanelsAgree == Spec => []SnapshotConsistent
<1>1. IInv => SnapshotConsistent
  BY DEF IInv
<1> QED
  BY Invariance, <1>1, PTL

--------------------------------------------------------------------------------
(* Hosting.  The order of a finite set, the bisection and the sums.        *)

\* A nonempty set of natural numbers has a least element.
LEMMA LeastNat ==
  ASSUME NEW T, T \subseteq Nat, T # {}
  PROVE  \E m \in T : \A n \in T : m <= n
<1>1. PICK m \in T : \A n \in T : ~(<<n, m>> \in OpToRel(<, Nat))
  BY NatLessThanWellFounded, WFMin
<1>2. \A n \in T : ~(n < m)
  BY <1>1 DEF OpToRel
<1> QED
  BY <1>2

\* A bounded one has a greatest, which is its Max.
LEMMA MaxOfBounded ==
  ASSUME NEW T, T \subseteq Nat, T # {}, NEW b \in Nat, \A n \in T : n <= b
  PROVE  Max(T) \in T
<1> DEFINE B == {n \in Nat : \A t \in T : t <= n}
<1>1. PICK m \in B : \A n \in B : m <= n
  BY LeastNat
<1>2. m \in T
  <2> SUFFICES ASSUME m \notin T PROVE FALSE
    OBVIOUS
  <2>1. PICK t \in T : TRUE
    OBVIOUS
  <2>2. m - 1 \in Nat /\ \A n \in T : n <= m - 1
    BY <2>1
  <2> QED
    BY <1>1, <2>2
<1>3. \E x \in T : \A n \in T : x >= n
  BY <1>2
<1> QED
  BY <1>3 DEF Max

\* A strict total order.
TotalOrder(K, R) ==
  /\ \A x \in K : <<x, x>> \notin R
  /\ \A x \in K : \A y \in K : x # y => <<x, y>> \in R \/ <<y, x>> \in R
  /\ \A x \in K : \A y \in K : \A z \in K :
       <<x, y>> \in R /\ <<y, z>> \in R => <<x, z>> \in R

\* InOrder lists every element once, in order: an element's position is the
\* number of those before it.
LEMMA InOrderSorted ==
  ASSUME NEW K, IsFiniteSet(K), NEW R, TotalOrder(K, R)
  PROVE  LET s == InOrder(K, R)
         IN  /\ DOMAIN s = 1..Cardinality(K) /\ \A n \in DOMAIN s : s[n] \in K
             /\ \A x \in K : \E n \in DOMAIN s : s[n] = x
             /\ \A n \in DOMAIN s : \A m \in DOMAIN s : n < m => <<s[n], s[m]>> \in R
<1> DEFINE s == InOrder(K, R)
           N == Cardinality(K)
           Before(x) == {y \in K : <<y, x>> \in R}
           pos == [x \in K |-> Cardinality(Before(x))]
           f == [x \in K |-> pos[x] + 1]
<1>1. N \in Nat
  BY FS_CardinalityType
<1>2. \A x \in K : IsFiniteSet(Before(x)) /\ pos[x] \in Nat
  BY FS_Subset, FS_CardinalityType
<1>3. ASSUME NEW x \in K, NEW y \in K, <<x, y>> \in R PROVE pos[x] < pos[y]
  <2>1. \A z \in K : <<z, x>> \in R => <<z, y>> \in R
    BY <1>3 DEF TotalOrder
  <2>2. Before(x) \in SUBSET Before(y) /\ Before(x) # Before(y)
    BY <1>3, <2>1 DEF TotalOrder
  <2> HIDE DEF Before
  <2> QED
    BY <1>2, <2>2, FS_Subset
<1>4. ASSUME NEW x \in K PROVE pos[x] < N
  <2>1. Before(x) \in SUBSET K /\ Before(x) # K
    BY DEF TotalOrder
  <2> HIDE DEF Before
  <2> QED
    BY <1>1, <1>2, <2>1, FS_Subset
<1>p. \A x \in K : pos[x] \in Nat
  BY <1>2
<1> HIDE DEF pos
<1>5. \A x \in K : \A y \in K : pos[x] = pos[y] => x = y
  <2> SUFFICES ASSUME NEW x \in K, NEW y \in K, pos[x] = pos[y], x # y PROVE FALSE
    OBVIOUS
  <2>1. <<x, y>> \in R \/ <<y, x>> \in R
    BY DEF TotalOrder
  <2>2. pos[x] < pos[y] \/ pos[y] < pos[x]
    BY <1>3, <2>1
  <2> QED
    BY <1>p, <2>2
<1>6. f \in Injection(K, 1..N)
  <2>1. f \in [K -> 1..N]
    BY <1>1, <1>p, <1>4
  <2>2. \A x \in K : \A y \in K : f[x] = f[y] => x = y
    BY <1>p, <1>5
  <2> HIDE DEF f
  <2> QED
    BY <2>1, <2>2 DEF Injection, IsInjective
<1>7. f \in Surjection(K, 1..N)
  <2>1. IsFiniteSet(1..N) /\ Cardinality(1..N) = N
    BY <1>1, FS_Interval
  <2> HIDE DEF f
  <2> QED
    BY <1>6, <2>1, FS_Injection
<1>8. \A n \in 1..N : \E x \in K : pos[x] = n - 1
  <2> SUFFICES ASSUME NEW n \in 1..N PROVE \E x \in K : pos[x] = n - 1
    OBVIOUS
  <2>1. PICK x \in K : f[x] = n
    <3> HIDE DEF f
    <3> QED
      BY <1>7 DEF Surjection
  <2> QED
    BY <1>1, <1>p, <2>1
<1>9. DOMAIN s = 1..N /\ \A n \in 1..N : s[n] = CHOOSE x \in K : Cardinality(Before(x)) = n - 1
  BY DEF InOrder, Nth
<1> HIDE DEF s, N
<1>10. \A n \in 1..N : s[n] \in K /\ pos[s[n]] = n - 1
  BY <1>8, <1>9 DEF pos
<1>11. \A x \in K : pos[x] + 1 \in 1..N /\ s[pos[x] + 1] = x
  <2> SUFFICES ASSUME NEW x \in K PROVE pos[x] + 1 \in 1..N /\ s[pos[x] + 1] = x
    OBVIOUS
  <2>1. pos[x] + 1 \in 1..N
    BY <1>1, <1>p, <1>4
  <2>2. pos[s[pos[x] + 1]] = pos[x]
    BY <1>p, <1>10, <2>1
  <2> QED
    BY <1>5, <1>10, <2>1, <2>2
<1>12. ASSUME NEW n \in 1..N, NEW m \in 1..N, n < m PROVE <<s[n], s[m]>> \in R
  <2>1. s[n] \in K /\ s[m] \in K /\ pos[s[n]] = n - 1 /\ pos[s[m]] = m - 1
    BY <1>10
  <2>2. s[n] # s[m] /\ ~(pos[s[m]] < pos[s[n]])
    BY <1>1, <1>12, <2>1
  <2> QED
    BY <1>3, <2>1, <2>2 DEF TotalOrder
<1> QED
  BY <1>9, <1>10, <1>11, <1>12 DEF s, N

\* One step of the bisection with the function it is the fixed point of.
BisectAt(ranges, addr, it, ij) ==
  LET h == (ij[1] + ij[2]) \div 2
  IN  IF ij[1] >= ij[2] THEN ij[1]
      ELSE IF ranges[h + 1].start > addr THEN it[<<ij[1], h>>]
           ELSE it[<<h + 1, ij[2]>>]

Bisects(ranges, addr, D, it) == it = [ij \in D |-> BisectAt(ranges, addr, it, ij)]

Square(n) == (0..n) \X (0..n)

LEMMA SearchFold ==
  ASSUME NEW ranges, NEW addr
  PROVE  Search(ranges, addr)
           = (CHOOSE it : Bisects(ranges, addr, Square(Len(ranges)), it))[<<0, Len(ranges)>>]
  BY DEF Search, Bisects, BisectAt, Square

\* The halves of an interval are shorter than it.
LEMMA Halves ==
  ASSUME NEW i \in Nat, NEW j \in Nat, i < j
  PROVE  LET h == (i + j) \div 2
         IN  h \in Nat /\ i <= h /\ h < j
  OBVIOUS

\* The function exists: it extends from the intervals of length k to those of
\* length k + 1.
LEMMA BisectExists ==
  ASSUME NEW ranges, NEW addr, NEW n \in Nat
  PROVE  \E it : Bisects(ranges, addr, Square(n), it)
<1> DEFINE Small(k) == {ij \in Square(n) : ij[2] - ij[1] <= k}
           Good(k) == \E it : Bisects(ranges, addr, Small(k), it)
<1>1. \A ij \in Square(n) : ij[1] \in Nat /\ ij[2] \in Nat /\ ij[1] <= n /\ ij[2] <= n
  BY DEF Square
<1>2. Good(0)
  <2> DEFINE it == [ij \in Small(0) |-> ij[1]]
  <2>1. \A ij \in Small(0) : BisectAt(ranges, addr, it, ij) = ij[1]
    BY <1>1 DEF BisectAt
  <2>2. Bisects(ranges, addr, Small(0), it)
    BY <2>1 DEF Bisects
  <2> QED
    BY <2>2
<1>3. ASSUME NEW k \in Nat, Good(k) PROVE Good(k + 1)
  <2>1. PICK it : Bisects(ranges, addr, Small(k), it)
    BY <1>3
  <2> DEFINE up == [ij \in Small(k + 1) |-> BisectAt(ranges, addr, it, ij)]
  <2>2. ASSUME NEW ij \in Small(k) PROVE up[ij] = it[ij]
    <3>1. ij \in Small(k + 1)
      BY <1>1
    <3> HIDE DEF Small
    <3> QED
      BY <2>1, <3>1 DEF Bisects
  <2>3. ASSUME NEW ij \in Small(k + 1)
        PROVE  BisectAt(ranges, addr, up, ij) = BisectAt(ranges, addr, it, ij)
    <3> DEFINE i == ij[1]
               j == ij[2]
               h == (i + j) \div 2
    <3>1. i \in Nat /\ j \in Nat /\ j <= n /\ j - i <= k + 1
      BY <1>1
    <3>2. CASE i >= j
      BY <3>2 DEF BisectAt
    <3>3. CASE i < j
      <4>1. h \in Nat /\ i <= h /\ h < j
        BY <3>1, <3>3, Halves
      <4> HIDE DEF i, j, h
      <4>2. <<i, h>> \in Small(k) /\ <<h + 1, j>> \in Small(k)
        BY <3>1, <4>1 DEF Square
      <4>3. up[<<i, h>>] = it[<<i, h>>] /\ up[<<h + 1, j>>] = it[<<h + 1, j>>]
        BY <2>2, <4>2
      <4> HIDE DEF up
      <4> QED
        BY <4>3 DEF BisectAt, i, j, h
    <3> QED
      BY <3>1, <3>2, <3>3
  <2> HIDE DEF Small
  <2>4. Bisects(ranges, addr, Small(k + 1), up)
    BY <2>3 DEF Bisects
  <2> QED
    BY <2>4 DEF Small
<1>4. Good(n)
  <2> DEFINE Bad == {k \in Nat : ~Good(k)}
  <2> HIDE DEF Good
  <2> SUFFICES ASSUME Bad # {} PROVE FALSE
    OBVIOUS
  <2>1. PICK m \in Bad : \A k \in Bad : m <= k
    <3>1. Bad \subseteq Nat
      OBVIOUS
    <3> HIDE DEF Bad
    <3> QED
      BY <3>1, LeastNat
  <2>2. m # 0 /\ m - 1 \in Nat
    BY <1>2, <2>1
  <2>3. Good(m - 1)
    BY <2>1, <2>2
  <2>4. Good((m - 1) + 1)
    BY <1>3, <2>2, <2>3
  <2>5. (m - 1) + 1 = m
    BY <2>1
  <2> QED
    BY <2>1, <2>4, <2>5
<1>5. Small(n) = Square(n)
  BY <1>1
<1> QED
  BY <1>4, <1>5

\* Around the result lies a range that starts at or before the address and one
\* that starts after it, where there is one: this needs no order of the ranges.
LEMMA SearchAround ==
  ASSUME NEW ranges, Len(ranges) \in Nat, NEW addr
  PROVE  LET r == Search(ranges, addr)
         IN  /\ r \in 0..Len(ranges)
             /\ r # 0 => ~(ranges[r].start > addr)
             /\ r # Len(ranges) => ranges[r + 1].start > addr
<1> DEFINE n == Len(ranges)
           it == CHOOSE g : Bisects(ranges, addr, Square(n), g)
           Good(ij) == /\ it[ij] \in Nat /\ ij[1] <= it[ij] /\ it[ij] <= ij[2]
                       /\ it[ij] # ij[1] => ~(ranges[it[ij]].start > addr)
                       /\ it[ij] # ij[2] => ranges[it[ij] + 1].start > addr
           D == {ij \in Square(n) : ij[1] <= ij[2]}
<1>1. Bisects(ranges, addr, Square(n), it)
  <2>1. \E g : Bisects(ranges, addr, Square(n), g)
    BY BisectExists
  <2> QED
    BY <2>1, Zenon
<1>2. Search(ranges, addr) = it[<<0, n>>]
  BY SearchFold
<1> HIDE DEF it
<1>3. \A ij \in Square(n) : it[ij] = BisectAt(ranges, addr, it, ij)
  BY <1>1 DEF Bisects
<1>4. \A ij \in D : ij[1] \in Nat /\ ij[2] \in Nat /\ ij[1] <= ij[2] /\ ij[2] <= n
                    /\ ij \in Square(n) /\ ij = <<ij[1], ij[2]>>
  BY DEF Square
<1>5. ASSUME NEW ij \in D, \A kl \in D : kl[2] - kl[1] < ij[2] - ij[1] => Good(kl)
      PROVE  Good(ij)
  <2> DEFINE i == ij[1]
             j == ij[2]
             h == (i + j) \div 2
  <2>1. i \in Nat /\ j \in Nat /\ i <= j /\ j <= n /\ ij \in Square(n)
    BY <1>4
  <2>2. it[ij] = IF i >= j THEN i
                 ELSE IF ranges[h + 1].start > addr THEN it[<<i, h>>] ELSE it[<<h + 1, j>>]
    BY <1>3, <2>1 DEF BisectAt
  <2>3. CASE i = j
    BY <2>1, <2>2, <2>3
  <2>4. CASE i < j
    <3>1. h \in Nat /\ i <= h /\ h < j
      BY <2>1, <2>4, Halves
    <3> HIDE DEF i, j, h
    <3>2. <<i, h>> \in D /\ <<h + 1, j>> \in D
      BY <1>4, <2>1, <3>1 DEF Square
    <3>a. ij[1] = i /\ ij[2] = j
      BY DEF i, j
    <3>b. h - i < j - i /\ j - (h + 1) < j - i
      BY <2>1, <3>1
    <3>3. Good(<<i, h>>) /\ Good(<<h + 1, j>>)
      <4> HIDE DEF Good, D
      <4>1. \A kl \in D : kl[2] - kl[1] < j - i => Good(kl)
        BY <1>5, <3>a
      <4> QED
        BY <3>2, <3>b, <4>1
    <3>4. CASE ranges[h + 1].start > addr
      <4>1. it[ij] = it[<<i, h>>]
        BY <2>1, <2>2, <2>4, <3>4
      <4> QED
        BY <2>1, <3>1, <3>3, <3>4, <3>a, <4>1
    <3>5. CASE ~(ranges[h + 1].start > addr)
      <4>1. it[ij] = it[<<h + 1, j>>]
        BY <2>1, <2>2, <2>4, <3>5
      <4> QED
        BY <2>1, <3>1, <3>3, <3>5, <3>a, <4>1
    <3> QED
      BY <3>4, <3>5
  <2> QED
    BY <2>1, <2>3, <2>4
<1> HIDE DEF Good
<1>6. \A ij \in D : Good(ij)
  <2> DEFINE Bad == {ij \in D : ~Good(ij)}
             C == {ij[2] - ij[1] : ij \in Bad}
  <2> SUFFICES ASSUME Bad # {} PROVE FALSE
    OBVIOUS
  <2>1. C \subseteq Nat /\ C # {}
    BY <1>4
  <2>2. PICK m \in C : \A c \in C : m <= c
    BY <2>1, LeastNat
  <2>3. PICK ij \in Bad : m = ij[2] - ij[1]
    BY <2>2
  <2>4. ASSUME NEW kl \in D, kl[2] - kl[1] < ij[2] - ij[1] PROVE Good(kl)
    <3> SUFFICES ASSUME kl \in Bad PROVE FALSE
      OBVIOUS
    <3>1. m <= kl[2] - kl[1]
      BY <2>2
    <3> QED
      BY <1>4, <2>3, <2>4, <3>1
  <2> QED
    BY <1>5, <2>3, <2>4
<1>7. <<0, n>> \in D
  BY DEF Square
<1>8. Good(<<0, n>>)
  BY <1>6, <1>7
<1> QED
  BY <1>2, <1>8 DEF Good

\* The fold behind SumOf, as a fixed point.
Pick(s) == CHOOSE x \in s : TRUE
SumAt(p, it, s) == IF s = {} THEN 0 ELSE p[Pick(s)] + it[s \ {Pick(s)}]
Sums(p, D, it) == it = [s \in D |-> SumAt(p, it, s)]

LEMMA SumFold ==
  ASSUME NEW p, NEW S
  PROVE  SumOf(p, S) = (CHOOSE it : Sums(p, SUBSET S, it))[S]
  BY DEF SumOf, MapThenSumSet, MapThenFoldSet, Sums, SumAt, Pick

LEMMA PickSmaller ==
  ASSUME NEW s, IsFiniteSet(s), s # {}
  PROVE  /\ Pick(s) \in s /\ Cardinality(s) \in Nat
         /\ Cardinality(s \ {Pick(s)}) = Cardinality(s) - 1
<1>1. Pick(s) \in s
  BY DEF Pick
<1> QED
  BY <1>1, FS_RemoveElement, FS_CardinalityType

LEMMA SumExists ==
  ASSUME NEW p, NEW S, IsFiniteSet(S)
  PROVE  \E it : Sums(p, SUBSET S, it)
<1> DEFINE Small(k) == {s \in SUBSET S : Cardinality(s) <= k}
           Good(k) == \E it : Sums(p, Small(k), it)
<1>1. \A s \in SUBSET S : IsFiniteSet(s) /\ Cardinality(s) \in Nat /\ Cardinality(s) <= Cardinality(S)
  BY FS_Subset, FS_CardinalityType
<1>2. Good(0)
  <2> DEFINE it == [s \in Small(0) |-> 0]
  <2>1. \A s \in Small(0) : s = {}
    BY <1>1, FS_EmptySet
  <2>2. \A s \in Small(0) : SumAt(p, it, s) = 0
    BY <2>1 DEF SumAt
  <2>3. Sums(p, Small(0), it)
    BY <2>2 DEF Sums
  <2> QED
    BY <2>3
<1>3. ASSUME NEW k \in Nat, Good(k) PROVE Good(k + 1)
  <2>1. PICK it : Sums(p, Small(k), it)
    BY <1>3
  <2> DEFINE up == [s \in Small(k + 1) |-> SumAt(p, it, s)]
  <2>2. ASSUME NEW s \in Small(k + 1), s # {} PROVE up[s \ {Pick(s)}] = it[s \ {Pick(s)}]
    <3> DEFINE u == s \ {Pick(s)}
    <3>1. u \in SUBSET S /\ Cardinality(u) = Cardinality(s) - 1 /\ Cardinality(s) \in Nat
      BY <1>1, <2>2, PickSmaller
    <3>2. u \in Small(k) /\ u \in Small(k + 1)
      BY <3>1
    <3> HIDE DEF u, Small
    <3> QED
      BY <2>1, <3>2 DEF u, Sums
  <2>3. \A s \in Small(k + 1) : SumAt(p, up, s) = SumAt(p, it, s)
    <3> HIDE DEF up, Small
    <3> QED
      BY <2>2 DEF SumAt
  <2> HIDE DEF Small
  <2>4. Sums(p, Small(k + 1), up)
    BY <2>3 DEF Sums
  <2> QED
    BY <2>4 DEF Small
<1>4. Cardinality(S) \in Nat /\ Small(Cardinality(S)) = SUBSET S
  BY <1>1, FS_CardinalityType
<1>5. Good(Cardinality(S))
  <2> DEFINE Bad == {k \in Nat : ~Good(k)}
  <2> HIDE DEF Good
  <2> SUFFICES ASSUME Bad # {} PROVE FALSE
    BY <1>4
  <2>1. PICK m \in Bad : \A k \in Bad : m <= k
    <3>1. Bad \subseteq Nat
      OBVIOUS
    <3> HIDE DEF Bad
    <3> QED
      BY <3>1, LeastNat
  <2>2. m # 0 /\ m - 1 \in Nat
    BY <1>2, <2>1
  <2>3. Good(m - 1)
    BY <2>1, <2>2
  <2>4. Good((m - 1) + 1)
    BY <1>3, <2>2, <2>3
  <2>5. (m - 1) + 1 = m
    BY <2>1
  <2> QED
    BY <2>1, <2>4, <2>5
<1> QED
  BY <1>4, <1>5

\* A sum of powers is a natural number.
LEMMA SumNat ==
  ASSUME NEW p, NEW S, IsFiniteSet(S), \A x \in S : p[x] \in Nat
  PROVE  SumOf(p, S) \in Nat
<1> DEFINE it == CHOOSE g : Sums(p, SUBSET S, g)
<1>1. Sums(p, SUBSET S, it)
  <2>1. \E g : Sums(p, SUBSET S, g)
    BY SumExists
  <2> QED
    BY <2>1, Zenon
<1>2. SumOf(p, S) = it[S]
  BY SumFold
<1> HIDE DEF it
<1>3. \A s \in SUBSET S : it[s] = SumAt(p, it, s)
  BY <1>1 DEF Sums
<1>4. \A s \in SUBSET S : it[s] \in Nat
  <2> DEFINE Bad == {s \in SUBSET S : it[s] \notin Nat}
             C == {Cardinality(s) : s \in Bad}
  <2> SUFFICES ASSUME Bad # {} PROVE FALSE
    OBVIOUS
  <2>0. \A s \in SUBSET S : IsFiniteSet(s) /\ Cardinality(s) \in Nat
    BY FS_Subset, FS_CardinalityType
  <2>1. C \subseteq Nat /\ C # {}
    BY <2>0
  <2>2. PICK m \in C : \A c \in C : m <= c
    BY <2>1, LeastNat
  <2>3. PICK s \in Bad : m = Cardinality(s)
    BY <2>2
  <2>4. s # {}
    BY <1>3, <2>3 DEF SumAt
  <2> DEFINE u == s \ {Pick(s)}
  <2>5. Pick(s) \in s /\ Cardinality(u) = m - 1 /\ u \in SUBSET S /\ m \in Nat
    BY <2>0, <2>3, <2>4, PickSmaller
  <2> HIDE DEF u
  <2>6. it[u] \in Nat
    <3> SUFFICES ASSUME u \in Bad PROVE FALSE
      BY <2>5
    <3>1. m <= Cardinality(u)
      BY <2>2
    <3> QED
      BY <2>5, <3>1
  <2>7. it[s] = p[Pick(s)] + it[u]
    BY <1>3, <2>3, <2>4 DEF SumAt, u
  <2> QED
    BY <2>3, <2>5, <2>6, <2>7
<1> QED
  BY <1>2, <1>4

--------------------------------------------------------------------------------
(* The ASN dataset.                                                        *)

\* Ranges in order, none overlapping the next.
RangesOK(ranges) ==
  /\ Len(ranges) \in Nat /\ DOMAIN ranges = 1..Len(ranges)
  /\ \A n \in DOMAIN ranges : /\ ranges[n].start \in Nat /\ ranges[n].end \in Nat
                              /\ ranges[n].asn \in Nat /\ ranges[n].start <= ranges[n].end
  /\ \A n \in DOMAIN ranges : \A m \in DOMAIN ranges : n < m => ranges[n].end < ranges[m].start

LEMMA SeqLength ==
  ASSUME NEW c \in Nat, NEW s, s = [n \in 1..c |-> s[n]]
  PROVE  /\ Len(s) = c /\ DOMAIN s = 1..c
         /\ \A T : (\A n \in 1..c : s[n] \in T) => s \in Seq(T)
<1>1. \A T : (\A n \in 1..c : s[n] \in T) => s \in Seq(T)
  OBVIOUS
<1>2. s \in Seq({s[n] : n \in 1..c})
  BY <1>1
<1> QED
  BY <1>1, <1>2

\* Load sorts the well-formed lines.
LEMMA LoadSorted ==
  ASSUME NEW h \in Hostings
  PROVE  /\ RangesOK(Load(h.lines))
         /\ {Load(h.lines)[n] : n \in DOMAIN Load(h.lines)}
              = {h.lines[i] : i \in DOMAIN h.lines} \ {NULL}
<1> DEFINE lines == h.lines
           kept == {i \in DOMAIN lines : lines[i] # NULL}
           before == {p \in kept \X kept :
                        \/ lines[p[1]].start < lines[p[2]].start
                        \/ lines[p[1]].start = lines[p[2]].start /\ p[1] < p[2]}
           order == InOrder(kept, before)
           c == Cardinality(kept)
           ranges == Load(h.lines)
<1>1. /\ IsFiniteSet(DOMAIN lines) /\ DOMAIN lines \subseteq Nat
      /\ \A i \in kept : /\ lines[i].start \in Nat /\ lines[i].end \in Nat /\ lines[i].asn \in Nat
                         /\ lines[i].start <= lines[i].end
      /\ \A i \in kept : \A j \in kept :
           i # j => lines[i].end < lines[j].start \/ lines[j].end < lines[i].start
  BY HostingAssumption
<1>2. IsFiniteSet(kept) /\ c \in Nat
  BY <1>1, FS_Subset, FS_CardinalityType
<1>3. \A i \in kept : \A j \in kept : <<i, j>> \in before <=>
           \/ lines[i].start < lines[j].start
           \/ lines[i].start = lines[j].start /\ i < j
  OBVIOUS
<1>4. ranges = [n \in 1..c |-> lines[order[n]]]
  BY DEF Load
<1>k. kept \subseteq Nat /\ \A i \in kept : i \in DOMAIN lines /\ lines[i] # NULL
  BY <1>1
<1>l. \A i \in DOMAIN lines : lines[i] # NULL => i \in kept
  OBVIOUS
<1> HIDE DEF lines, kept, before, c
<1>5. TotalOrder(kept, before)
  <2>1. \A x \in kept : <<x, x>> \notin before
    BY <1>1, <1>3, <1>k
  <2>2. \A x \in kept : \A y \in kept : x # y => <<x, y>> \in before \/ <<y, x>> \in before
    BY <1>1, <1>3, <1>k
  <2>3. \A x \in kept : \A y \in kept : \A z \in kept :
          <<x, y>> \in before /\ <<y, z>> \in before => <<x, z>> \in before
    BY <1>1, <1>3, <1>k
  <2> QED
    BY <2>1, <2>2, <2>3 DEF TotalOrder
<1>6. /\ DOMAIN order = 1..c /\ \A n \in DOMAIN order : order[n] \in kept
      /\ \A x \in kept : \E n \in DOMAIN order : order[n] = x
      /\ \A n \in DOMAIN order : \A m \in DOMAIN order : n < m => <<order[n], order[m]>> \in before
  BY <1>2, <1>5, InOrderSorted DEF c
<1> HIDE DEF order, ranges
<1>7. \A n \in 1..c : ranges[n] = lines[order[n]]
  BY <1>4
<1>8. Len(ranges) = c /\ DOMAIN ranges = 1..c
  <2>1. ranges = [n \in 1..c |-> ranges[n]]
    BY <1>4
  <2> QED
    BY <1>2, <2>1, SeqLength
<1>9. ASSUME NEW n \in 1..c, NEW m \in 1..c, n < m PROVE ranges[n].end < ranges[m].start
  <2>1. order[n] \in kept /\ order[m] \in kept /\ <<order[n], order[m]>> \in before
    BY <1>6, <1>9
  <2>2. order[n] # order[m] /\ lines[order[n]].start <= lines[order[m]].start
    <3>1. \A i \in kept : \A j \in kept :
            <<i, j>> \in before => i # j /\ lines[i].start <= lines[j].start
      BY <1>1, <1>3, <1>k
    <3> QED
      BY <2>1, <3>1
  <2>3. lines[order[n]].end < lines[order[m]].start
    BY <1>1, <2>1, <2>2
  <2> QED
    BY <1>7, <2>3
<1>10. RangesOK(ranges)
  <2>1. \A n \in 1..c : /\ ranges[n].start \in Nat /\ ranges[n].end \in Nat
                        /\ ranges[n].asn \in Nat /\ ranges[n].start <= ranges[n].end
    BY <1>1, <1>6, <1>7
  <2> QED
    BY <1>2, <1>8, <1>9, <2>1 DEF RangesOK
<1>11. {ranges[n] : n \in DOMAIN ranges} = {lines[i] : i \in DOMAIN lines} \ {NULL}
  <2>1. ASSUME NEW n \in DOMAIN ranges PROVE ranges[n] \in {lines[i] : i \in DOMAIN lines} \ {NULL}
    BY <1>6, <1>7, <1>8, <1>k
  <2>2. ASSUME NEW i \in DOMAIN lines, lines[i] # NULL PROVE \E n \in DOMAIN ranges : ranges[n] = lines[i]
    <3>1. PICK n \in DOMAIN order : order[n] = i
      BY <1>6, <1>l, <2>2
    <3> QED
      BY <1>6, <1>7, <1>8, <3>1
  <2> QED
    BY <2>1, <2>2
<1> QED
  BY <1>10, <1>11 DEF ranges, lines

\* Lookup finds the range that holds an address, or none.
LEMMA LookupExact ==
  ASSUME NEW ranges, RangesOK(ranges), NEW addr \in Nat
  PROVE  LET holding == {l \in {ranges[n] : n \in DOMAIN ranges} : l.start <= addr /\ addr <= l.end}
         IN  /\ holding = {} => Lookup(ranges, addr) = NotFound
             /\ \A l \in holding : Lookup(ranges, addr) = [asn |-> l.asn, found |-> TRUE]
<1> DEFINE N == Len(ranges)
           i == Search(ranges, addr)
           Holds(n) == ranges[n].start <= addr /\ addr <= ranges[n].end
           holding == {l \in {ranges[n] : n \in DOMAIN ranges} : l.start <= addr /\ addr <= l.end}
<1>1. /\ N \in Nat /\ DOMAIN ranges = 1..N
      /\ \A n \in 1..N : ranges[n].start \in Nat /\ ranges[n].end \in Nat
                         /\ ranges[n].start <= ranges[n].end
      /\ \A n \in 1..N : \A m \in 1..N : n < m => ranges[n].end < ranges[m].start
  BY DEF RangesOK
<1>2. /\ i \in 0..N /\ (i # 0 => ~(ranges[i].start > addr))
      /\ (i # N => ranges[i + 1].start > addr)
  BY <1>1, SearchAround
<1>3. addr # NULL
  BY NullAssumption
<1>4. Lookup(ranges, addr) = IF i = 0 THEN NotFound
                             ELSE IF addr > ranges[i].end THEN NotFound
                             ELSE [asn |-> ranges[i].asn, found |-> TRUE]
  BY <1>3 DEF Lookup
<1> HIDE DEF i, N
<1>5. ASSUME NEW n \in 1..N, n # i PROVE ~Holds(n)
  <2>1. CASE n < i
    <3>1. i \in 1..N /\ ranges[n].end < ranges[i].start
      BY <1>1, <1>2, <2>1
    <3> QED
      BY <1>1, <1>2, <3>1
  <2>2. CASE n > i
    <3>1. i + 1 \in 1..N /\ ranges[i + 1].start > addr
      BY <1>1, <1>2, <2>2
    <3>2. ranges[i + 1].start <= ranges[n].start
      <4>1. CASE n = i + 1
        BY <1>1, <3>1, <4>1
      <4>2. CASE i + 1 < n
        <5>1. ranges[i + 1].end < ranges[n].start
          BY <1>1, <3>1, <4>2
        <5> QED
          BY <1>1, <3>1, <5>1
      <4> QED
        BY <1>1, <1>2, <2>2, <4>1, <4>2
    <3> QED
      BY <1>1, <3>1, <3>2
  <2> QED
    BY <1>1, <1>2, <1>5, <2>1, <2>2
<1>6. CASE i # 0 /\ Holds(i)
  <2>1. /\ i \in DOMAIN ranges /\ ranges[i] \in holding
        /\ Lookup(ranges, addr) = [asn |-> ranges[i].asn, found |-> TRUE]
    BY <1>1, <1>2, <1>4, <1>6
  <2>2. \A l \in holding : l = ranges[i]
    BY <1>1, <1>5
  <2>3. holding # {} /\ \A l \in holding : Lookup(ranges, addr) = [asn |-> l.asn, found |-> TRUE]
    <3> HIDE DEF holding
    <3> QED
      BY <2>1, <2>2
  <2> QED
    BY <2>3
<1>7. CASE ~(i # 0 /\ Holds(i))
  <2>1. \A n \in 1..N : ~Holds(n)
    BY <1>1, <1>2, <1>5, <1>7
  <2>2. holding = {}
    BY <1>1, <2>1
  <2>3. Lookup(ranges, addr) = NotFound
    <3>1. CASE i = 0
      BY <1>4, <3>1
    <3>2. CASE i # 0
      <4>1. i \in 1..N /\ ranges[i].start <= addr
        BY <1>1, <1>2, <3>2
      <4>2. addr > ranges[i].end
        BY <1>1, <1>7, <3>2, <4>1
      <4> QED
        BY <1>4, <3>2, <4>2
    <3> QED
      BY <3>1, <3>2
  <2> QED
    BY <2>2, <2>3
<1> QED
  BY <1>6, <1>7

\* The address of a validator comes from the last of its linked RPCs.
LEMMA LinkedAddress ==
  ASSUME NEW h \in Hostings, NEW v \in DOMAIN buildAddrToIPMap(h.rpcs)
  PROVE  buildAddrToIPMap(h.rpcs)[v] \in Nat
<1> DEFINE rpcs == h.rpcs
           linked == {i \in DOMAIN rpcs : rpcs[i].validator # NULL /\ rpcs[i].ip # NULL}
           own == {i \in linked : rpcs[i].validator = v}
<1>1. DOMAIN rpcs = 1..Len(rpcs) /\ Len(rpcs) \in Nat /\ \A i \in DOMAIN rpcs : rpcs[i].ip \in Nat \cup {NULL}
  BY HostingAssumption
<1>2. own # {} /\ buildAddrToIPMap(rpcs)[v] = rpcs[Max(own)].ip
  BY DEF buildAddrToIPMap
<1>3. own \subseteq Nat /\ \A n \in own : n <= Len(rpcs)
  BY <1>1
<1>4. Max(own) \in own
  <2> HIDE DEF own, rpcs
  <2> QED
    BY <1>1, <1>2, <1>3, MaxOfBounded
<1>5. rpcs[Max(own)].ip \in Nat
  BY <1>1, <1>4
<1> QED
  BY <1>2, <1>5

--------------------------------------------------------------------------------
(* The hosting panel.                                                      *)

\* The share of one AS number.
ShareOf(power, asn, n) ==
  [asn |-> n, validators |-> Cardinality({v \in DOMAIN asn : asn[v] = n}),
   power |-> SumOf(power, {v \in DOMAIN asn : asn[v] = n})]

Numbers(asn) == {asn[v] : v \in DOMAIN asn}

\* enrichASN shows the first of the shares in order; one that is not shown has no
\* more power than any that is.
LEMMA PanelTop ==
  ASSUME NEW power, NEW asn, IsFiniteSet(DOMAIN asn),
         \A v \in DOMAIN asn : power[v] \in Nat /\ asn[v] \in Nat,
         NEW c \in Nat
  PROVE  LET shares == Shares(power, asn)
             top == FirstOf(InOrder(shares, ByPower(shares)), c)
             A == Numbers(asn)
         IN  /\ Len(top) = Min({c, Cardinality(A)}) /\ DOMAIN top = 1..Len(top)
             /\ \A i \in DOMAIN top : \E n \in A : top[i] = ShareOf(power, asn, n)
             /\ \A i \in DOMAIN top : \A n \in A \ {top[k].asn : k \in DOMAIN top} :
                  top[i].power >= ShareOf(power, asn, n).power
<1> DEFINE shares == Shares(power, asn)
           R == ByPower(shares)
           s == InOrder(shares, R)
           top == FirstOf(s, c)
           A == Numbers(asn)
           g == [n \in A |-> ShareOf(power, asn, n)]
           l == Cardinality(A)
<1>1. shares = {ShareOf(power, asn, n) : n \in A}
  BY DEF Shares, ShareOf, Numbers
<1>2. A \subseteq Nat /\ IsFiniteSet(A)
  <2>1. A \subseteq Nat
    BY DEF Numbers
  <2>2. IsFiniteSet(A)
    <3> DEFINE f == [v \in DOMAIN asn |-> asn[v]]
    <3>1. f \in Surjection(DOMAIN asn, A)
      BY DEF Surjection, Numbers
    <3> HIDE DEF f, A
    <3> QED
      BY <3>1, FS_Surjection
  <2> QED
    BY <2>1, <2>2
<1>3. \A n \in A : ShareOf(power, asn, n).asn = n
  BY DEF ShareOf
<1>4. \A n \in A : ShareOf(power, asn, n).power \in Nat
  <2> SUFFICES ASSUME NEW n \in A PROVE ShareOf(power, asn, n).power \in Nat
    OBVIOUS
  <2> DEFINE V == {v \in DOMAIN asn : asn[v] = n}
  <2>1. IsFiniteSet(V) /\ \A v \in V : power[v] \in Nat
    BY FS_Subset
  <2>2. SumOf(power, V) \in Nat
    <3> HIDE DEF V
    <3> QED
      BY <2>1, SumNat
  <2> QED
    BY <2>2 DEF ShareOf
<1> HIDE DEF shares, A
<1>5. IsFiniteSet(shares) /\ Cardinality(shares) = l /\ l \in Nat
  <2>1. g \in Bijection(A, shares)
    <3>1. g \in [A -> shares]
      BY <1>1
    <3>2. \A n \in A : \A m \in A : g[n] = g[m] => n = m
      BY <1>3
    <3>3. \A x \in shares : \E n \in A : g[n] = x
      BY <1>1
    <3> HIDE DEF g
    <3> QED
      BY <3>1, <3>2, <3>3 DEF Bijection, Injection, Surjection, IsInjective
  <2>2. ExistsBijection(A, shares)
    BY <2>1 DEF ExistsBijection
  <2> QED
    BY <1>2, <2>2, FS_Bijection, FS_CardinalityType
<1>6. \A x \in shares : \A y \in shares : <<x, y>> \in R <=>
         \/ x.power > y.power
         \/ x.power = y.power /\ x.asn < y.asn
  BY DEF ByPower
<1>7. /\ \A x \in shares : x.power \in Nat /\ x.asn \in Nat
      /\ \A x \in shares : \A y \in shares : x.asn = y.asn => x = y
  <2>1. \A x \in shares : x.asn \in A /\ x = ShareOf(power, asn, x.asn)
    <3> SUFFICES ASSUME NEW x \in shares PROVE x.asn \in A /\ x = ShareOf(power, asn, x.asn)
      OBVIOUS
    <3>1. PICK n \in A : x = ShareOf(power, asn, n)
      BY <1>1
    <3>2. x.asn = n
      BY <1>3, <3>1
    <3> QED
      BY <3>1, <3>2
  <2>2. \A x \in shares : x.asn \in Nat
    BY <1>2, <2>1
  <2>3. \A x \in shares : x.power \in Nat
    BY <1>1, <1>4
  <2>4. \A x \in shares : \A y \in shares : x.asn = y.asn => x = y
    BY <2>1, Zenon
  <2> QED
    BY <2>2, <2>3, <2>4
<1> HIDE DEF R, l
<1>8. TotalOrder(shares, R)
  <2>1. \A x \in shares : <<x, x>> \notin R
    BY <1>6, <1>7
  <2>2. \A x \in shares : \A y \in shares : x # y => <<x, y>> \in R \/ <<y, x>> \in R
    BY <1>6, <1>7
  <2>3. \A x \in shares : \A y \in shares : \A z \in shares :
          <<x, y>> \in R /\ <<y, z>> \in R => <<x, z>> \in R
    BY <1>6, <1>7
  <2> QED
    BY <2>1, <2>2, <2>3 DEF TotalOrder
<1>9. /\ DOMAIN s = 1..l /\ \A n \in DOMAIN s : s[n] \in shares
      /\ \A x \in shares : \E n \in DOMAIN s : s[n] = x
      /\ \A n \in DOMAIN s : \A m \in DOMAIN s : n < m => <<s[n], s[m]>> \in R
  BY <1>5, <1>8, InOrderSorted
<1>10. s = [n \in 1..l |-> s[n]]
  <2>1. s = [n \in 1..Cardinality(shares) |-> s[n]]
    BY DEF InOrder
  <2> HIDE DEF s
  <2> QED
    BY <1>5, <2>1
<1> HIDE DEF s
<1>11. Len(s) = l /\ s \in Seq(shares)
  BY <1>5, <1>9, <1>10, SeqLength
<1>12. Min({c, l}) = (IF c <= l THEN c ELSE l)
  <2>1. \E x \in {c, l} : \A y \in {c, l} : x =< y
    BY <1>5
  <2>2. Min({c, l}) \in {c, l} /\ \A y \in {c, l} : Min({c, l}) =< y
    BY <2>1 DEF Min
  <2> QED
    BY <1>5, <2>2
<1> DEFINE k == Min({c, l})
<1>13. k \in 0..l /\ k \in Nat
  BY <1>5, <1>12
<1>14. top = SubSeq(s, 1, k)
  BY <1>11 DEF FirstOf, Prefix
<1> HIDE DEF k, top
<1>15. Len(top) = k /\ DOMAIN top = 1..k /\ \A i \in 1..k : top[i] = s[i]
  BY <1>11, <1>13, <1>14
<1>16. \A i \in 1..k : i \in DOMAIN s
  BY <1>5, <1>9, <1>13
<1>17. \A i \in DOMAIN top : \E n \in A : top[i] = ShareOf(power, asn, n)
  BY <1>1, <1>9, <1>15, <1>16
<1>18. ASSUME NEW i \in DOMAIN top, NEW n \in A \ {top[j].asn : j \in DOMAIN top}
       PROVE  top[i].power >= ShareOf(power, asn, n).power
  <2>1. PICK m \in DOMAIN s : s[m] = ShareOf(power, asn, n)
    BY <1>1, <1>9
  <2>2. m \notin DOMAIN top
    BY <1>3, <1>15, <1>18, <2>1
  <2>3. i < m /\ i \in DOMAIN s
    BY <1>5, <1>9, <1>13, <1>15, <1>16, <2>1, <2>2
  <2>4. <<s[i], s[m]>> \in R /\ s[i] \in shares /\ s[m] \in shares
    BY <1>9, <2>1, <2>3
  <2>5. s[i].power >= s[m].power
    BY <1>6, <1>7, <2>4
  <2> QED
    BY <1>15, <2>1, <2>5
<1> QED
  BY <1>15, <1>17, <1>18 DEF top, k, l, s, R, A, shares

\* Over every dataset of disjoint ranges: the lookup, the rows, the hosting panel, and
\* where its join and that of the rows agree.
THEOREM HostingExact == Spec => []AsnExact
<1>1. ASSUME NEW h \in Hostings
      PROVE  LET lines  == {h.lines[i] : i \in DOMAIN h.lines} \ {NULL}
                 ip     == buildAddrToIPMap(h.rpcs)
                 Holding(v) == {l \in lines : v \in DOMAIN ip /\ l.start <= ip[v] /\ ip[v] <= l.end}
                 In(n)  == {v \in DOMAIN h.power : \E l \in Holding(v) : l.asn = n}
                 hosts  == {n \in {l.asn : l \in lines} : In(n) # {}}
                 ranges == Load(h.lines)
                 row    == enrichASNRows(DOMAIN h.power, h.rpcs, ranges)
                 top    == enrichASN(h.power, h.rpcs, ranges, topASNCount)
             IN  /\ \A v \in DOMAIN row : /\ Holding(v) = {} => row[v] = 0
                                          /\ \A l \in Holding(v) : row[v] = l.asn
                 /\ \A i \in DOMAIN top :
                      /\ top[i].validators = Cardinality(In(top[i].asn))
                      /\ top[i].asn # 0 =>
                           top[i].validators = Cardinality({v \in DOMAIN row : row[v] = top[i].asn})
                      /\ \A n \in hosts \ {top[k].asn : k \in DOMAIN top} :
                           top[i].power >= SumOf(h.power, In(n))
                 /\ Len(top) = Min({topASNCount, Cardinality(hosts)})
  <2> DEFINE lines  == {h.lines[i] : i \in DOMAIN h.lines} \ {NULL}
             ip     == buildAddrToIPMap(h.rpcs)
             power  == h.power
             Holding(v) == {l \in lines : v \in DOMAIN ip /\ l.start <= ip[v] /\ ip[v] <= l.end}
             In(n)  == {v \in DOMAIN power : \E l \in Holding(v) : l.asn = n}
             hosts  == {n \in {l.asn : l \in lines} : In(n) # {}}
             ranges == Load(h.lines)
             row    == enrichASNRows(DOMAIN power, h.rpcs, ranges)
             asn    == Located(DOMAIN power, h.rpcs, ranges)
             top    == enrichASN(power, h.rpcs, ranges, topASNCount)
             seen   == {top[k].asn : k \in DOMAIN top}
             A      == Numbers(asn)
             answer == [v \in DOMAIN power \cap DOMAIN ip |-> Lookup(ranges, ip[v])]
  <2>1. RangesOK(ranges) /\ {ranges[n] : n \in DOMAIN ranges} = lines
    BY LoadSorted
  <2>2. IsFiniteSet(DOMAIN power) /\ (\A v \in DOMAIN power : power[v] \in Nat) /\ topASNCount \in Nat
    BY HostingAssumption, HealthAssumption
  <2>3. \A v \in DOMAIN ip : ip[v] \in Nat
    BY LinkedAddress
  <2>4. /\ DOMAIN row = DOMAIN power
        /\ \A v \in DOMAIN power :
             row[v] = IF v \notin DOMAIN ip THEN 0
                      ELSE IF Lookup(ranges, ip[v]).found THEN Lookup(ranges, ip[v]).asn ELSE 0
    BY DEF enrichASNRows
  <2>5. top = FirstOf(InOrder(Shares(power, asn), ByPower(Shares(power, asn))), topASNCount)
    BY DEF enrichASN
  <2>6. \A l \in lines : l.asn \in Nat
    BY <2>1 DEF RangesOK
  <2>7. asn = [v \in {x \in DOMAIN answer : answer[x].found} |-> answer[v].asn]
    BY DEF Located
  <2> HIDE DEF lines, ranges, ip, power, row, asn, top
  <2>8. \A v \in DOMAIN power : Holding(v) \subseteq lines
    OBVIOUS
  \* What the dataset says of one validator, and what the two joins make of it.
  <2>9. ASSUME NEW v \in DOMAIN power
        PROVE  /\ Holding(v) = {} => v \notin DOMAIN asn /\ row[v] = 0
               /\ \A l \in Holding(v) : v \in DOMAIN asn /\ asn[v] = l.asn /\ row[v] = l.asn
    <3>1. CASE v \in DOMAIN ip
      <4> DEFINE H == {l \in lines : l.start <= ip[v] /\ ip[v] <= l.end}
      <4>1. Holding(v) = H
        BY <3>1
      <4>2. /\ H = {} => Lookup(ranges, ip[v]) = NotFound
            /\ \A l \in H : Lookup(ranges, ip[v]) = [asn |-> l.asn, found |-> TRUE]
        BY <2>1, <2>3, <3>1, LookupExact
      <4>3. v \in DOMAIN answer /\ answer[v] = Lookup(ranges, ip[v])
        BY <3>1
      <4> HIDE DEF H, Holding, answer
      <4>4. CASE Holding(v) = {}
        <5>1. Lookup(ranges, ip[v]).found = FALSE
          BY <4>1, <4>2, <4>4 DEF NotFound
        <5> QED
          BY <2>4, <2>7, <3>1, <4>3, <4>4, <5>1
      <4>5. ASSUME NEW l \in Holding(v)
            PROVE  v \in DOMAIN asn /\ asn[v] = l.asn /\ row[v] = l.asn
        <5>0. Lookup(ranges, ip[v]) = [asn |-> l.asn, found |-> TRUE]
          BY <4>1, <4>2, <4>5
        <5>1. Lookup(ranges, ip[v]).found = TRUE /\ Lookup(ranges, ip[v]).asn = l.asn
          BY <5>0
        <5> QED
          BY <2>4, <2>7, <3>1, <4>3, <5>1
      <4> QED
        BY <4>4, <4>5
    <3>2. CASE v \notin DOMAIN ip
      <4>1. Holding(v) = {} /\ v \notin DOMAIN answer
        BY <3>2
      <4> HIDE DEF Holding, answer
      <4> QED
        BY <2>4, <2>7, <3>2, <4>1
    <3> QED
      BY <3>1, <3>2
  <2>10. DOMAIN asn \subseteq DOMAIN power
    BY <2>7
  <2> HIDE DEF Holding, answer
  <2>11. \A n : In(n) = {v \in DOMAIN asn : asn[v] = n}
    <3> SUFFICES ASSUME NEW n, NEW v \in DOMAIN power
                 PROVE  (\E l \in Holding(v) : l.asn = n) <=> v \in DOMAIN asn /\ asn[v] = n
      BY <2>10
    <3>1. CASE Holding(v) = {}
      BY <2>9, <3>1
    <3>2. CASE Holding(v) # {}
      BY <2>9, <3>2
    <3> QED
      BY <3>1, <3>2
  <2>12. hosts = A
    <3>1. \A n : In(n) # {} => n \in {l.asn : l \in lines}
      BY <2>8
    <3>2. \A n : n \in A <=> In(n) # {}
      BY <2>11 DEF Numbers
    <3> HIDE DEF In, A
    <3> QED
      BY <3>1, <3>2
  <2>13. IsFiniteSet(DOMAIN asn) /\ \A v \in DOMAIN asn : power[v] \in Nat /\ asn[v] \in Nat
    <3>1. IsFiniteSet(DOMAIN asn)
      BY <2>2, <2>10, FS_Subset
    <3>2. \A v \in DOMAIN asn : asn[v] \in Nat
      <4> SUFFICES ASSUME NEW v \in DOMAIN asn PROVE asn[v] \in Nat
        OBVIOUS
      <4>1. v \in DOMAIN power /\ Holding(v) # {}
        BY <2>9, <2>10
      <4>2. PICK l \in Holding(v) : asn[v] = l.asn
        BY <2>9, <4>1
      <4> QED
        BY <2>6, <2>8, <4>1, <4>2
    <3> QED
      BY <2>2, <2>10, <3>1, <3>2
  <2>14. /\ Len(top) = Min({topASNCount, Cardinality(A)})
         /\ \A i \in DOMAIN top : \E n \in A : top[i] = ShareOf(power, asn, n)
         /\ \A i \in DOMAIN top : \A n \in A \ seen :
              top[i].power >= ShareOf(power, asn, n).power
    BY <2>2, <2>5, <2>13, PanelTop
  <2>15. ASSUME NEW i \in DOMAIN top
         PROVE  /\ top[i].validators = Cardinality(In(top[i].asn))
                /\ top[i].asn # 0 =>
                     top[i].validators = Cardinality({v \in DOMAIN row : row[v] = top[i].asn})
    <3>1. PICK n \in A : top[i] = ShareOf(power, asn, n)
      BY <2>14
    <3>2. top[i].asn = n /\ top[i].validators = Cardinality({v \in DOMAIN asn : asn[v] = n})
      BY <3>1 DEF ShareOf
    <3>3. n # 0 => {v \in DOMAIN asn : asn[v] = n} = {v \in DOMAIN row : row[v] = n}
      <4> SUFFICES ASSUME n # 0, NEW v \in DOMAIN power
                   PROVE  v \in DOMAIN asn /\ asn[v] = n <=> row[v] = n
        BY <2>4, <2>10
      <4>1. CASE Holding(v) = {}
        BY <2>9, <4>1
      <4>2. CASE Holding(v) # {}
        BY <2>9, <4>2
      <4> QED
        BY <4>1, <4>2
    <3> QED
      BY <2>11, <3>2, <3>3
  <2>16. ASSUME NEW i \in DOMAIN top, NEW n \in hosts \ seen
         PROVE  top[i].power >= SumOf(power, In(n))
    <3>1. top[i].power >= ShareOf(power, asn, n).power
      BY <2>12, <2>14
    <3> QED
      BY <2>11, <3>1 DEF ShareOf
  <2>17. \A v \in DOMAIN row : /\ Holding(v) = {} => row[v] = 0
                               /\ \A l \in Holding(v) : row[v] = l.asn
    BY <2>4, <2>9
  <2> HIDE DEF A, hosts, In
  <2> QED
    BY <2>12, <2>14, <2>15, <2>16, <2>17 DEF hosts, In, Holding, lines, ranges, ip, power, row, top
<1>2. AsnExact
  BY <1>1 DEF AsnExact
<1> QED
  BY <1>2, PTL

--------------------------------------------------------------------------------
(* Sums over sets of places.                                               *)

\* A set of numbers closed under successor, and a set of sets closed under adding an
\* element, by their least counterexample.
LEMMA Successors ==
  ASSUME NEW G, 0 \in G, \A n \in Nat : n \in G => n + 1 \in G
  PROVE  Nat \subseteq G
<1> DEFINE Bad == Nat \ G
<1> SUFFICES ASSUME Bad # {} PROVE FALSE
  OBVIOUS
<1>1. PICK m \in Bad : \A k \in Bad : m <= k
  <2>1. Bad \subseteq Nat
    OBVIOUS
  <2> HIDE DEF Bad
  <2> QED
    BY <2>1, LeastNat
<1>2. m - 1 \in Nat /\ m - 1 \in G /\ (m - 1) + 1 = m
  BY <1>1
<1> QED
  BY <1>1, <1>2

LEMMA Subsets ==
  ASSUME NEW S, IsFiniteSet(S), NEW G,
         \A u \in SUBSET S : (\A x \in u : u \ {x} \in G) => u \in G
  PROVE  \A u \in SUBSET S : u \in G
<1> DEFINE Bad == {u \in SUBSET S : u \notin G}
           C == {Cardinality(u) : u \in Bad}
<1> SUFFICES ASSUME Bad # {} PROVE FALSE
  OBVIOUS
<1>1. \A u \in SUBSET S : IsFiniteSet(u) /\ Cardinality(u) \in Nat
  BY FS_Subset, FS_CardinalityType
<1>2. C \subseteq Nat /\ C # {}
  BY <1>1
<1>3. PICK m \in C : \A c \in C : m <= c
  BY <1>2, LeastNat
<1>4. PICK u \in Bad : m = Cardinality(u)
  BY <1>3
<1>5. PICK x \in u : u \ {x} \notin G
  BY <1>4
<1>6. Cardinality(u \ {x}) = m - 1 /\ m \in Nat
  BY <1>1, <1>4, <1>5, FS_RemoveElement
<1>7. u \ {x} \in Bad
  BY <1>4, <1>5
<1>8. m <= Cardinality(u \ {x})
  BY <1>3, <1>7
<1> QED
  BY <1>6, <1>8

LEMMA SumUnique ==
  ASSUME NEW p, NEW S, IsFiniteSet(S), NEW T, NEW it, NEW jt,
         Sums(p, SUBSET S, it), Sums(p, SUBSET T, jt), S \subseteq T
  PROVE  \A u \in SUBSET S : it[u] = jt[u]
<1> DEFINE G == {u \in SUBSET S : it[u] = jt[u]}
<1>1. \A u \in SUBSET S : it[u] = SumAt(p, it, u) /\ jt[u] = SumAt(p, jt, u)
  BY DEF Sums
<1>2. ASSUME NEW u \in SUBSET S, \A x \in u : u \ {x} \in G PROVE u \in G
  <2>1. CASE u = {}
    BY <1>1, <2>1 DEF SumAt
  <2>2. CASE u # {}
    <3>1. Pick(u) \in u
      BY <2>2 DEF Pick
    <3>2. it[u \ {Pick(u)}] = jt[u \ {Pick(u)}]
      BY <1>2, <3>1
    <3> QED
      BY <1>1, <2>2, <3>2 DEF SumAt
  <2> QED
    BY <2>1, <2>2
<1>3. \A u \in SUBSET S : u \in G
  <2> HIDE DEF G
  <2> QED
    BY <1>2, Subsets
<1> QED
  BY <1>3

LEMMA SumEmpty ==
  ASSUME NEW p
  PROVE  SumOf(p, {}) = 0
<1> DEFINE it == CHOOSE g : Sums(p, SUBSET {}, g)
<1>1. Sums(p, SUBSET {}, it)
  <2>1. \E g : Sums(p, SUBSET {}, g)
    BY SumExists, FS_EmptySet
  <2> QED
    BY <2>1, Zenon
<1>2. SumOf(p, {}) = it[{}]
  BY SumFold
<1> HIDE DEF it
<1> QED
  BY <1>1, <1>2 DEF Sums, SumAt

LEMMA SumPick ==
  ASSUME NEW p, NEW S, IsFiniteSet(S), S # {}
  PROVE  SumOf(p, S) = p[Pick(S)] + SumOf(p, S \ {Pick(S)})
<1> DEFINE T == S \ {Pick(S)}
           it == CHOOSE g : Sums(p, SUBSET S, g)
           jt == CHOOSE g : Sums(p, SUBSET T, g)
<1>0. T \subseteq S /\ IsFiniteSet(T)
  BY FS_Subset
<1> HIDE DEF T
<1>1. Sums(p, SUBSET S, it)
  <2>1. \E g : Sums(p, SUBSET S, g)
    BY SumExists
  <2> QED
    BY <2>1, Zenon
<1>2. Sums(p, SUBSET T, jt)
  <2>1. \E g : Sums(p, SUBSET T, g)
    BY <1>0, SumExists
  <2> QED
    BY <2>1, Zenon
<1>3. SumOf(p, S) = it[S] /\ SumOf(p, T) = jt[T]
  BY SumFold
<1> HIDE DEF it, jt
<1>4. jt[T] = it[T]
  <2>1. \A u \in SUBSET T : jt[u] = it[u]
    BY ONLY <1>0, <1>1, <1>2, SumUnique, SMTT(60)
  <2> QED
    BY <2>1
<1>5. it[S] = p[Pick(S)] + it[T]
  BY <1>1 DEF Sums, SumAt, T
<1> QED
  BY <1>3, <1>4, <1>5 DEF T

\* Any element may be taken off a sum, whatever the order of the fold.
LEMMA SumRemove ==
  ASSUME NEW p, NEW S, IsFiniteSet(S), \A x \in S : p[x] \in Nat, NEW z \in S
  PROVE  SumOf(p, S) = p[z] + SumOf(p, S \ {z})
<1> DEFINE G == {u \in SUBSET S : \A x \in u : SumOf(p, u) = p[x] + SumOf(p, u \ {x})}
<1>1. \A u \in SUBSET S : IsFiniteSet(u) /\ SumOf(p, u) \in Nat
  <2> SUFFICES ASSUME NEW u \in SUBSET S PROVE IsFiniteSet(u) /\ SumOf(p, u) \in Nat
    OBVIOUS
  <2>1. IsFiniteSet(u)
    BY FS_Subset
  <2> QED
    BY <2>1, SumNat
<1>2. ASSUME NEW u \in SUBSET S, \A x \in u : u \ {x} \in G PROVE u \in G
  <2> SUFFICES ASSUME NEW x \in u PROVE SumOf(p, u) = p[x] + SumOf(p, u \ {x})
    OBVIOUS
  <2> DEFINE y == Pick(u)
  <2>1. y \in u
    BY DEF Pick
  <2>2. SumOf(p, u) = p[y] + SumOf(p, u \ {y})
    BY <1>1, SumPick
  <2> HIDE DEF y
  <2>3. CASE x = y
    BY <2>2, <2>3
  <2>4. CASE x # y
    <3> DEFINE w == (u \ {x}) \ {y}
    <3>1. w = (u \ {y}) \ {x} /\ w \in SUBSET S
      OBVIOUS
    <3>2. SumOf(p, u \ {y}) = p[x] + SumOf(p, (u \ {y}) \ {x})
      BY <1>2, <2>1, <2>4
    <3>3. SumOf(p, u \ {x}) = p[y] + SumOf(p, (u \ {x}) \ {y})
      BY <1>2, <2>1, <2>4
    <3>4. SumOf(p, w) \in Nat /\ p[x] \in Nat /\ p[y] \in Nat
      BY <1>1, <2>1, <3>1
    <3> QED
      BY <2>2, <3>1, <3>2, <3>3, <3>4
  <2> QED
    BY <2>3, <2>4
<1>3. \A u \in SUBSET S : u \in G
  <2> HIDE DEF G
  <2> QED
    BY <1>2, Subsets
<1> QED
  BY <1>3

LEMMA SumAdd ==
  ASSUME NEW p, NEW S, IsFiniteSet(S), NEW z, z \notin S, \A x \in S \cup {z} : p[x] \in Nat
  PROVE  SumOf(p, S \cup {z}) = p[z] + SumOf(p, S)
<1>1. IsFiniteSet(S \cup {z})
  BY FS_AddElement
<1>2. (S \cup {z}) \ {z} = S
  OBVIOUS
<1> QED
  BY <1>1, <1>2, SumRemove

LEMMA SumSame ==
  ASSUME NEW p, NEW q, NEW S, IsFiniteSet(S), \A x \in S : p[x] = q[x]
  PROVE  SumOf(p, S) = SumOf(q, S)
<1> DEFINE G == {u \in SUBSET S : SumOf(p, u) = SumOf(q, u)}
<1>1. ASSUME NEW u \in SUBSET S, \A x \in u : u \ {x} \in G PROVE u \in G
  <2>1. CASE u = {}
    BY <2>1, SumEmpty
  <2>2. CASE u # {}
    <3>1. Pick(u) \in u /\ IsFiniteSet(u)
      BY <2>2, FS_Subset DEF Pick
    <3>2. p[Pick(u)] = q[Pick(u)] /\ SumOf(p, u \ {Pick(u)}) = SumOf(q, u \ {Pick(u)})
      BY <1>1, <3>1
    <3>3. /\ SumOf(p, u) = p[Pick(u)] + SumOf(p, u \ {Pick(u)})
          /\ SumOf(q, u) = q[Pick(u)] + SumOf(q, u \ {Pick(u)})
      BY <2>2, <3>1, SumPick
    <3> QED
      BY <3>2, <3>3
  <2> QED
    BY <2>1, <2>2
<1>2. \A u \in SUBSET S : u \in G
  <2> HIDE DEF G
  <2> QED
    BY <1>1, Subsets
<1> QED
  BY <1>2

Renamed(b, S) == {b[x] : x \in S}

\* A sum over renamed places.
LEMMA SumMove ==
  ASSUME NEW p, NEW q, NEW b, NEW S, IsFiniteSet(S),
         \A x \in S : \A y \in S : b[x] = b[y] => x = y,
         \A x \in S : p[x] \in Nat /\ q[b[x]] = p[x]
  PROVE  /\ IsFiniteSet(Renamed(b, S)) /\ Cardinality(Renamed(b, S)) = Cardinality(S)
         /\ SumOf(q, Renamed(b, S)) = SumOf(p, S)
<1> DEFINE I(u) == {b[x] : x \in u}
           Moved(u) == /\ IsFiniteSet(I(u)) /\ Cardinality(I(u)) = Cardinality(u)
                       /\ SumOf(q, I(u)) = SumOf(p, u)
           G == {u \in SUBSET S : Moved(u)}
<1>1. ASSUME NEW u \in SUBSET S, \A x \in u : u \ {x} \in G PROVE Moved(u)
  <2>1. CASE u = {}
    <3>1. I(u) = {}
      BY <2>1
    <3> QED
      BY <2>1, <3>1, SumEmpty, FS_EmptySet
  <2>2. CASE u # {}
    <3>1. PICK x \in u : TRUE
      BY <2>2
    <3> DEFINE w == u \ {x}
    <3>2. IsFiniteSet(u) /\ IsFiniteSet(w)
      BY FS_Subset
    <3>3. I(u) = I(w) \cup {b[x]} /\ b[x] \notin I(w)
      OBVIOUS
    <3>4. Moved(w)
      BY <1>1
    <3>5. \A y \in I(w) \cup {b[x]} : q[y] \in Nat
      OBVIOUS
    <3>6. Cardinality(u) = Cardinality(w) + 1 /\ SumOf(p, u) = p[x] + SumOf(p, w)
      <4>1. Cardinality(w) = Cardinality(u) - 1 /\ Cardinality(u) \in Nat
        BY <3>2, FS_RemoveElement, FS_CardinalityType
      <4>2. \A y \in u : p[y] \in Nat
        OBVIOUS
      <4>3. SumOf(p, u) = p[x] + SumOf(p, w)
        BY <3>2, <4>2, SumRemove
      <4> QED
        BY <4>1, <4>3
    <3> HIDE DEF I, w
    <3>7. /\ IsFiniteSet(I(u)) /\ Cardinality(I(u)) = Cardinality(I(w)) + 1
          /\ SumOf(q, I(u)) = q[b[x]] + SumOf(q, I(w))
      BY <3>3, <3>4, <3>5, FS_AddElement, SumAdd
    <3> QED
      BY <3>4, <3>6, <3>7
  <2> QED
    BY <2>1, <2>2
<1>2. \A u \in SUBSET S : u \in G
  <2>1. \A u \in SUBSET S : (\A x \in u : u \ {x} \in G) => u \in G
    BY <1>1
  <2> HIDE DEF G
  <2> QED
    BY <2>1, Subsets
<1>3. Moved(S)
  BY <1>2
<1> QED
  BY <1>3 DEF Renamed

LEMMA SumUnion ==
  ASSUME NEW p, NEW A, NEW B, IsFiniteSet(A), IsFiniteSet(B), A \cap B = {},
         \A x \in A \cup B : p[x] \in Nat
  PROVE  SumOf(p, A \cup B) = SumOf(p, A) + SumOf(p, B)
<1> DEFINE G == {u \in SUBSET B : SumOf(p, A \cup u) = SumOf(p, A) + SumOf(p, u)}
<1>1. ASSUME NEW u \in SUBSET B, \A x \in u : u \ {x} \in G PROVE u \in G
  <2>0. SumOf(p, A) \in Nat
    BY SumNat
  <2>1. CASE u = {}
    <3>1. A \cup u = A
      BY <2>1
    <3> QED
      BY <2>0, <2>1, <3>1, SumEmpty
  <2>2. CASE u # {}
    <3>1. PICK x \in u : TRUE
      BY <2>2
    <3> DEFINE w == u \ {x}
    <3>2. IsFiniteSet(w) /\ IsFiniteSet(u)
      BY FS_Subset
    <3>3. IsFiniteSet(A \cup w) /\ x \notin A \cup w /\ A \cup u = (A \cup w) \cup {x}
      BY <3>2, FS_Union
    <3>4. SumOf(p, A \cup w) = SumOf(p, A) + SumOf(p, w)
      BY <1>1
    <3>5. \A y \in (A \cup w) \cup {x} : p[y] \in Nat
      OBVIOUS
    <3>6. SumOf(p, u) = p[x] + SumOf(p, w)
      BY <3>2, SumRemove
    <3>7. SumOf(p, w) \in Nat /\ p[x] \in Nat
      BY <3>2, SumNat
    <3> HIDE DEF w
    <3>8. SumOf(p, (A \cup w) \cup {x}) = p[x] + SumOf(p, A \cup w)
      BY <3>3, <3>5, SumAdd
    <3>9. SumOf(p, A \cup u) = p[x] + SumOf(p, A \cup w)
      BY <3>3, <3>8, Zenon
    <3>10. SumOf(p, A \cup u) = SumOf(p, A) + SumOf(p, u)
      BY <2>0, <3>4, <3>6, <3>7, <3>9
    <3> QED
      BY <3>10
  <2> QED
    BY <2>1, <2>2
<1>2. \A u \in SUBSET B : u \in G
  <2> HIDE DEF G
  <2> QED
    BY <1>1, Subsets
<1> QED
  BY <1>2

LEMMA SumMonotone ==
  ASSUME NEW p, NEW A, NEW B, IsFiniteSet(B), A \subseteq B, \A x \in B : p[x] \in Nat
  PROVE  SumOf(p, A) <= SumOf(p, B)
<1>1. IsFiniteSet(A) /\ IsFiniteSet(B \ A) /\ A \cup (B \ A) = B /\ A \cap (B \ A) = {}
  BY FS_Subset
<1>2. SumOf(p, B) = SumOf(p, A) + SumOf(p, B \ A)
  BY <1>1, SumUnion
<1>3. SumOf(p, A) \in Nat /\ SumOf(p, B \ A) \in Nat
  BY <1>1, SumNat
<1> QED
  BY <1>2, <1>3

\* As many places or more, each with as much power or more.
LEMMA SumExchange ==
  ASSUME NEW p, NEW A, NEW B, IsFiniteSet(A), IsFiniteSet(B),
         \A x \in A \cup B : p[x] \in Nat, \A a \in A : \A b \in B : p[a] <= p[b],
         Cardinality(A) <= Cardinality(B)
  PROVE  SumOf(p, A) <= SumOf(p, B)
<1> DEFINE G == {u \in SUBSET A : \A w \in SUBSET B :
                   Cardinality(u) <= Cardinality(w) => SumOf(p, u) <= SumOf(p, w)}
<1>0. \A w \in SUBSET B : IsFiniteSet(w) /\ Cardinality(w) \in Nat /\ SumOf(p, w) \in Nat
  <2> SUFFICES ASSUME NEW w \in SUBSET B
               PROVE  IsFiniteSet(w) /\ Cardinality(w) \in Nat /\ SumOf(p, w) \in Nat
    OBVIOUS
  <2>1. IsFiniteSet(w)
    BY FS_Subset
  <2> QED
    BY <2>1, FS_CardinalityType, SumNat
<1>1. ASSUME NEW u \in SUBSET A, \A x \in u : u \ {x} \in G PROVE u \in G
  <2> SUFFICES ASSUME NEW w \in SUBSET B, Cardinality(u) <= Cardinality(w)
               PROVE  SumOf(p, u) <= SumOf(p, w)
    OBVIOUS
  <2>1. CASE u = {}
    BY <1>0, <2>1, SumEmpty
  <2>2. CASE u # {}
    <3>1. PICK x \in u : TRUE
      BY <2>2
    <3>2. IsFiniteSet(u) /\ Cardinality(u) \in Nat /\ Cardinality(u) # 0
      BY <2>2, FS_Subset, FS_CardinalityType, FS_EmptySet
    <3>3. PICK y \in w : TRUE
      <4>1. w # {}
        BY <1>0, <3>2, FS_EmptySet
      <4> QED
        BY <4>1
    <3>4. Cardinality(u \ {x}) = Cardinality(u) - 1 /\ Cardinality(w \ {y}) = Cardinality(w) - 1
      BY <1>0, <3>1, <3>2, <3>3, FS_RemoveElement
    <3>5. SumOf(p, u \ {x}) <= SumOf(p, w \ {y})
      <4>1. Cardinality(u \ {x}) <= Cardinality(w \ {y})
        BY <1>0, <3>2, <3>4
      <4> QED
        BY <1>1, <3>1, <4>1
    <3>6. SumOf(p, u) = p[x] + SumOf(p, u \ {x})
      BY <3>1, <3>2, SumRemove
    <3>7. SumOf(p, w) = p[y] + SumOf(p, w \ {y})
      BY <1>0, <3>3, SumRemove
    <3>8. p[x] \in Nat /\ p[y] \in Nat /\ p[x] <= p[y] /\ SumOf(p, w \ {y}) \in Nat
      BY <1>0, <3>1, <3>3
    <3>9. SumOf(p, u \ {x}) \in Nat
      <4>1. IsFiniteSet(u \ {x})
        BY <3>2, FS_Subset
      <4> QED
        BY <4>1, SumNat
    <3> QED
      BY <3>5, <3>6, <3>7, <3>8, <3>9
  <2> QED
    BY <2>1, <2>2
<1>2. \A u \in SUBSET A : u \in G
  <2> HIDE DEF G
  <2> QED
    BY <1>1, Subsets
<1> QED
  BY <1>2

--------------------------------------------------------------------------------
(* Power vectors.                                                          *)

LEMMA VectorOrders ==
  ASSUME NEW p \in Seq(Nat)
  PROVE  /\ TotalOrder(DOMAIN p, Greater(p)) /\ TotalOrder(DOMAIN p, Smaller(p))
         /\ IsFiniteSet(DOMAIN p) /\ Cardinality(DOMAIN p) = Len(p) /\ Len(p) \in Nat
         /\ DOMAIN p = 1..Len(p) /\ \A i \in DOMAIN p : p[i] \in Nat
<1>1. DOMAIN p = 1..Len(p) /\ Len(p) \in Nat /\ \A i \in DOMAIN p : p[i] \in Nat
  OBVIOUS
<1>2. IsFiniteSet(DOMAIN p) /\ Cardinality(DOMAIN p) = Len(p)
  <2> DEFINE N == Len(p)
  <2>1. N \in Nat /\ DOMAIN p = 1..N
    BY <1>1
  <2> HIDE DEF N
  <2>2. IsFiniteSet(1..N) /\ Cardinality(1..N) = N
    BY <2>1, FS_Interval
  <2> QED
    BY <2>1, <2>2 DEF N
<1>3. \A i \in DOMAIN p : i \in Nat
  BY <1>1
<1>4. TotalOrder(DOMAIN p, Greater(p))
  BY <1>1, <1>3 DEF TotalOrder, Greater
<1>5. TotalOrder(DOMAIN p, Smaller(p))
  BY <1>1, <1>3 DEF TotalOrder, Smaller
<1> QED
  BY <1>1, <1>2, <1>4, <1>5

\* A vector p sorted by R: the places o in that order, and the powers s at them.
SortedBy(p, R, o, s) ==
  /\ s \in Seq(Nat) /\ Len(s) = Len(p) /\ DOMAIN s = 1..Len(p)
  /\ \A n \in 1..Len(p) : o[n] \in DOMAIN p /\ s[n] = p[o[n]]
  /\ \A n \in 1..Len(p) : \A m \in 1..Len(p) :
       (n < m => <<o[n], o[m]>> \in R) /\ (o[n] = o[m] => n = m)
  /\ \A x \in DOMAIN p : \E n \in 1..Len(p) : o[n] = x
  /\ SumOf(s, 1..Len(p)) = SumOf(p, DOMAIN p)
  /\ \A n \in 0..Len(p) :
       /\ IsFiniteSet(Renamed(o, 1..n)) /\ Cardinality(Renamed(o, 1..n)) = n
       /\ SumOf(p, Renamed(o, 1..n)) = SumOf(s, 1..n)

LEMMA Arranged ==
  ASSUME NEW p \in Seq(Nat), NEW R, TotalOrder(DOMAIN p, R)
  PROVE  SortedBy(p, R, InOrder(DOMAIN p, R), Arrange(p, R))
<1> DEFINE o == InOrder(DOMAIN p, R)
           s == Arrange(p, R)
           N == Len(p)
<1>0. /\ IsFiniteSet(DOMAIN p) /\ Cardinality(DOMAIN p) = N /\ N \in Nat
      /\ DOMAIN p = 1..N /\ \A i \in DOMAIN p : p[i] \in Nat
  BY VectorOrders
<1>1. /\ DOMAIN o = 1..N /\ \A n \in DOMAIN o : o[n] \in DOMAIN p
      /\ \A x \in DOMAIN p : \E n \in DOMAIN o : o[n] = x
      /\ \A n \in DOMAIN o : \A m \in DOMAIN o : n < m => <<o[n], o[m]>> \in R
  BY <1>0, InOrderSorted
<1>2. s = [n \in 1..N |-> p[o[n]]]
  BY DEF Arrange
<1> HIDE DEF o, s, N
<1>3. s \in Seq(Nat) /\ Len(s) = N /\ DOMAIN s = 1..N
  <2>1. \A n \in 1..N : p[o[n]] \in Nat
    BY <1>0, <1>1
  <2>2. s \in [1..N -> Nat]
    BY <1>2, <2>1
  <2> QED
    BY <1>0, <2>2
<1>4. \A n \in 1..N : \A m \in 1..N : o[n] = o[m] => n = m
  <2> SUFFICES ASSUME NEW n \in 1..N, NEW m \in 1..N, o[n] = o[m], n # m PROVE FALSE
    OBVIOUS
  <2>1. n < m \/ m < n
    BY <1>0
  <2>2. <<o[n], o[n]>> \in R
    BY <1>1, <2>1
  <2> QED
    BY <1>1, <2>2 DEF TotalOrder
<1>5. ASSUME NEW n \in 0..N
      PROVE  /\ IsFiniteSet(Renamed(o, 1..n)) /\ Cardinality(Renamed(o, 1..n)) = n
             /\ SumOf(p, Renamed(o, 1..n)) = SumOf(s, 1..n)
  <2>1. IsFiniteSet(1..n) /\ Cardinality(1..n) = n /\ 1..n \subseteq 1..N
    BY <1>0, FS_Interval
  <2>2. \A i \in 1..n : \A j \in 1..n : o[i] = o[j] => i = j
    BY <1>4, <2>1
  <2>3. \A i \in 1..n : s[i] \in Nat /\ p[o[i]] = s[i]
    BY <1>0, <1>1, <1>2, <2>1
  <2> QED
    BY ONLY <2>1, <2>2, <2>3, SumMove
<1>6. SumOf(s, 1..N) = SumOf(p, DOMAIN p)
  <2>1. Renamed(o, 1..N) = DOMAIN p
    BY <1>1 DEF Renamed
  <2>2. SumOf(p, Renamed(o, 1..N)) = SumOf(s, 1..N)
    BY <1>0, <1>5
  <2> QED
    BY <2>1, <2>2
<1> QED
  BY <1>1, <1>2, <1>3, <1>4, <1>5, <1>6 DEF o, s, N, SortedBy

LEMMA Unwrapped ==
  ASSUME NEW x \in 0..MaxInt
  PROVE  Int64(x) = x
<1>1. MaxInt \in Nat
  BY HealthAssumption
<1> DEFINE a == x + MaxInt + 1
           m == 2 * (MaxInt + 1)
<1>2. a \in Nat /\ m \in Nat /\ 0 < m /\ a < m
  BY <1>1
<1>3. Int64(x) = (a % m) - (MaxInt + 1)
  BY DEF Int64
<1>4. a % m = a
  <2> HIDE DEF a, m
  <2> QED
    BY <1>2
<1> QED
  BY <1>1, <1>3, <1>4

\* One step of the fold of Total.
WrapAt(s, it, u) == IF u = {} THEN 0 ELSE Int64(it[u \ {Pick(u)}] + s[Pick(u)])
Wraps(s, D, it) == it = [u \in D |-> WrapAt(s, it, u)]

LEMMA TotalFold ==
  ASSUME NEW s
  PROVE  Total(s) = (CHOOSE it : Wraps(s, SUBSET DOMAIN s, it))[DOMAIN s]
  BY DEF Total, FoldSeq, FoldFunction, FoldFunctionOnSet, MapThenFoldSet, Wraps, WrapAt, Pick

\* As long as the whole fits, no partial sum wraps, in whatever order.
LEMMA TotalExact ==
  ASSUME NEW s \in Seq(Nat), SumOf(s, DOMAIN s) <= MaxInt
  PROVE  Total(s) = SumOf(s, DOMAIN s)
<1> DEFINE D == DOMAIN s
           sum == [u \in SUBSET D |-> SumOf(s, u)]
           it == CHOOSE g : Wraps(s, SUBSET D, g)
<1>0. IsFiniteSet(D) /\ (\A i \in D : s[i] \in Nat) /\ MaxInt \in Nat
  BY VectorOrders, HealthAssumption
<1> HIDE DEF D
<1>1. \A u \in SUBSET D : IsFiniteSet(u) /\ SumOf(s, u) \in Nat /\ SumOf(s, u) \in 0..MaxInt
  <2> SUFFICES ASSUME NEW u \in SUBSET D
               PROVE  IsFiniteSet(u) /\ SumOf(s, u) \in Nat /\ SumOf(s, u) \in 0..MaxInt
    OBVIOUS
  <2>1. IsFiniteSet(u)
    BY <1>0, FS_Subset
  <2>2. SumOf(s, u) \in Nat /\ SumOf(s, D) \in Nat
    BY <1>0, <2>1, SumNat
  <2>3. SumOf(s, u) <= SumOf(s, D)
    BY <1>0, SumMonotone
  <2> QED
    BY <1>0, <2>1, <2>2, <2>3 DEF D
<1>2. ASSUME NEW u \in SUBSET D, u # {}
      PROVE  /\ Pick(u) \in u
             /\ Int64(SumOf(s, u \ {Pick(u)}) + s[Pick(u)]) = SumOf(s, u)
  <2>1. Pick(u) \in u
    BY <1>2 DEF Pick
  <2>2. SumOf(s, u) = s[Pick(u)] + SumOf(s, u \ {Pick(u)})
    BY <1>1, <1>2, SumPick
  <2>3. SumOf(s, u \ {Pick(u)}) \in Nat /\ s[Pick(u)] \in Nat
    BY <1>0, <1>1, <2>1
  <2>4. SumOf(s, u \ {Pick(u)}) + s[Pick(u)] = SumOf(s, u)
    BY <2>2, <2>3
  <2>5. Int64(SumOf(s, u)) = SumOf(s, u)
    BY <1>1, Unwrapped
  <2> QED
    BY <2>1, <2>4, <2>5
<1>3. Wraps(s, SUBSET D, sum)
  <2>1. ASSUME NEW u \in SUBSET D PROVE SumOf(s, u) = WrapAt(s, sum, u)
    <3>1. CASE u = {}
      BY <3>1, SumEmpty DEF WrapAt
    <3>2. CASE u # {}
      <4>1. sum[u \ {Pick(u)}] = SumOf(s, u \ {Pick(u)})
        BY <1>2, <3>2
      <4> QED
        BY <1>2, <3>2, <4>1 DEF WrapAt
    <3> QED
      BY <3>1, <3>2
  <2>2. [u \in SUBSET D |-> SumOf(s, u)] = [u \in SUBSET D |-> WrapAt(s, sum, u)]
    BY <2>1
  <2> QED
    BY <2>2 DEF Wraps
<1>4. Wraps(s, SUBSET D, it)
  <2>1. \E g : Wraps(s, SUBSET D, g)
    BY <1>3
  <2> QED
    BY <2>1, Zenon
<1>5. Total(s) = it[D]
  BY TotalFold DEF D
<1> HIDE DEF it, sum
<1> DEFINE G == {u \in SUBSET D : it[u] = SumOf(s, u)}
<1>6. ASSUME NEW u \in SUBSET D, \A x \in u : u \ {x} \in G PROVE u \in G
  <2>0. it[u] = WrapAt(s, it, u)
    BY <1>4 DEF Wraps
  <2>1. CASE u = {}
    BY <2>0, <2>1, SumEmpty DEF WrapAt
  <2>2. CASE u # {}
    <3>1. Pick(u) \in u
      BY <1>2, <2>2
    <3>2. it[u \ {Pick(u)}] = SumOf(s, u \ {Pick(u)})
      BY <1>6, <3>1
    <3>3. it[u] = Int64(SumOf(s, u \ {Pick(u)}) + s[Pick(u)])
      BY <2>0, <2>2, <3>2 DEF WrapAt
    <3> QED
      BY <1>2, <2>2, <3>3
  <2> QED
    BY <2>1, <2>2
<1>7. \A u \in SUBSET D : u \in G
  <2> HIDE DEF G
  <2> QED
    BY <1>0, <1>6, Subsets
<1> QED
  BY <1>5, <1>7 DEF D

LEMMA PrefixTotal ==
  ASSUME NEW s \in Seq(Nat), SumOf(s, 1..Len(s)) <= MaxInt, NEW n \in 0..Len(s)
  PROVE  /\ Total(s) = SumOf(s, 1..Len(s)) /\ Total(Prefix(s, n)) = SumOf(s, 1..n)
         /\ SumOf(s, 1..n) \in Nat /\ SumOf(s, 1..n) <= SumOf(s, 1..Len(s))
<1> DEFINE f == Prefix(s, n)
           N == Len(s)
<1>1. N \in Nat /\ DOMAIN s = 1..N /\ (\A i \in 1..N : s[i] \in Nat) /\ MaxInt \in Nat
  BY HealthAssumption
<1>2. f \in Seq(Nat) /\ DOMAIN f = 1..n /\ \A i \in 1..n : f[i] = s[i]
  BY <1>1 DEF Prefix
<1>3. IsFiniteSet(1..n) /\ IsFiniteSet(1..N) /\ 1..n \subseteq 1..N
  BY <1>1, FS_Interval
<1> HIDE DEF f, N
<1>4. SumOf(f, 1..n) = SumOf(s, 1..n)
  BY <1>2, <1>3, SumSame
<1>5. SumOf(s, 1..n) \in Nat /\ SumOf(s, 1..N) \in Nat /\ SumOf(s, 1..n) <= SumOf(s, 1..N)
  BY <1>1, <1>3, SumNat, SumMonotone
<1>6. SumOf(f, DOMAIN f) <= MaxInt
  BY <1>1, <1>2, <1>4, <1>5 DEF N
<1>7. Total(f) = SumOf(f, DOMAIN f)
  BY <1>2, <1>6, TotalExact
<1>8. Total(s) = SumOf(s, 1..N)
  BY <1>1, TotalExact DEF N
<1> QED
  BY <1>2, <1>4, <1>5, <1>7, <1>8 DEF f, N

LEMMA MinOfNat ==
  ASSUME NEW T, T \subseteq Nat, T # {}
  PROVE  Min(T) \in T /\ \A x \in T : Min(T) <= x
<1>1. \E m \in T : \A n \in T : m <= n
  BY LeastNat
<1> QED
  BY <1>1 DEF Min

\* No coalition of n validators is stronger than the first n of the sorted vector.
LEMMA Strongest ==
  ASSUME NEW p \in Seq(Nat), NEW n \in 0..Len(p), NEW T, T \subseteq DOMAIN p, Cardinality(T) <= n
  PROVE  SumOf(p, T) <= SumOf(Descending(p), 1..n)
<1> DEFINE R == Greater(p)
           o == InOrder(DOMAIN p, R)
           s == Arrange(p, R)
           N == Len(p)
           F == Renamed(o, 1..n)
           A == T \ F
           B == F \ T
           C == T \cap F
<1>1. /\ TotalOrder(DOMAIN p, R) /\ IsFiniteSet(DOMAIN p) /\ N \in Nat
      /\ DOMAIN p = 1..N /\ \A i \in DOMAIN p : p[i] \in Nat
  BY VectorOrders
<1>s. SortedBy(p, R, o, s)
  BY <1>1, Arranged
<1>3. s = Descending(p)
  BY DEF Descending
<1> HIDE DEF R, o, s
<1>2. /\ \A i \in 1..N : o[i] \in DOMAIN p
      /\ \A i \in 1..N : \A j \in 1..N : i < j => <<o[i], o[j]>> \in R
      /\ \A x \in DOMAIN p : \E i \in 1..N : o[i] = x
      /\ IsFiniteSet(F) /\ Cardinality(F) = n /\ SumOf(p, F) = SumOf(s, 1..n)
  BY <1>1, <1>s DEF SortedBy
<1> HIDE DEF N
<1>4. F \subseteq DOMAIN p /\ \A x \in F : \E i \in 1..n : x = o[i]
  BY <1>1, <1>2 DEF Renamed, N
<1>5. ASSUME NEW a \in A, NEW b \in B PROVE p[a] <= p[b]
  <2>1. PICK i \in 1..n : b = o[i]
    BY <1>4
  <2>2. PICK j \in 1..N : a = o[j]
    BY <1>2
  <2>3. j \notin 1..n
    BY <2>2 DEF Renamed
  <2>4. i \in 1..N /\ i < j
    BY <1>1, <2>1, <2>2, <2>3 DEF N
  <2>5. <<b, a>> \in R
    BY <1>2, <2>1, <2>2, <2>4
  <2>6. a \in DOMAIN p /\ b \in DOMAIN p
    BY <1>4
  <2> QED
    BY <1>1, <2>5, <2>6 DEF Greater, R
<1> HIDE DEF F
<1>6. /\ IsFiniteSet(T) /\ IsFiniteSet(A) /\ IsFiniteSet(B) /\ IsFiniteSet(C)
  BY <1>1, <1>4, FS_Subset
<1>7. Cardinality(A) <= Cardinality(B)
  <2>1. Cardinality(A) = Cardinality(T) - Cardinality(C)
    BY <1>6, FS_Difference
  <2>2. Cardinality(B) = Cardinality(F) - Cardinality(C)
    <3>1. F \cap T = C
      OBVIOUS
    <3> HIDE DEF C
    <3> QED
      BY <1>2, <3>1, FS_Difference
  <2>3. Cardinality(T) \in Nat /\ Cardinality(C) \in Nat /\ n \in Nat
    BY <1>6, FS_CardinalityType
  <2> QED
    BY <1>2, <2>1, <2>2, <2>3
<1>8. \A x \in T \cup F : p[x] \in Nat
  BY <1>1, <1>4
<1>9. SumOf(p, A) <= SumOf(p, B)
  BY <1>5, <1>6, <1>7, <1>8, SumExchange
<1>10. SumOf(p, T) = SumOf(p, C) + SumOf(p, A)
  <2>1. C \cup A = T /\ C \cap A = {} /\ \A x \in C \cup A : p[x] \in Nat
    BY <1>8
  <2> HIDE DEF A, C
  <2> QED
    BY <1>6, <2>1, SumUnion
<1>11. SumOf(p, F) = SumOf(p, C) + SumOf(p, B)
  <2>1. C \cup B = F /\ C \cap B = {} /\ \A x \in C \cup B : p[x] \in Nat
    BY <1>8
  <2> HIDE DEF B, C
  <2> QED
    BY <1>6, <2>1, SumUnion
<1>12. SumOf(p, A) \in Nat /\ SumOf(p, B) \in Nat /\ SumOf(p, C) \in Nat
  BY <1>6, <1>8, SumNat
<1> QED
  BY <1>2, <1>3, <1>9, <1>10, <1>11, <1>12

\* The facts about a sorted vector that the figures below use.
LEMMA SortedVector ==
  ASSUME NEW p \in Seq(Nat)
  PROVE  LET s == Descending(p)
             total == SumOf(p, DOMAIN p)
         IN  /\ s \in Seq(Nat) /\ Len(s) = Len(p) /\ SumOf(s, 1..Len(p)) = total
             /\ total \in Nat /\ Len(p) \in Nat /\ IsFiniteSet(DOMAIN p)
             /\ Cardinality(DOMAIN p) = Len(p)
             /\ \A n \in 0..Len(p) : \E T \in SUBSET DOMAIN p :
                  Cardinality(T) = n /\ SumOf(p, T) = SumOf(s, 1..n)
<1> DEFINE R == Greater(p)
           o == InOrder(DOMAIN p, R)
           s == Arrange(p, R)
<1>1. /\ TotalOrder(DOMAIN p, R) /\ IsFiniteSet(DOMAIN p) /\ Len(p) \in Nat
      /\ Cardinality(DOMAIN p) = Len(p)
      /\ DOMAIN p = 1..Len(p) /\ \A i \in DOMAIN p : p[i] \in Nat
  BY VectorOrders
<1>s. SortedBy(p, R, o, s)
  BY <1>1, Arranged
<1>5. s = Descending(p)
  BY DEF Descending
<1> HIDE DEF R, o, s
<1>2. /\ s \in Seq(Nat) /\ Len(s) = Len(p) /\ SumOf(s, 1..Len(p)) = SumOf(p, DOMAIN p)
      /\ \A i \in 1..Len(p) : o[i] \in DOMAIN p
      /\ \A n \in 0..Len(p) : /\ Cardinality(Renamed(o, 1..n)) = n
                              /\ SumOf(p, Renamed(o, 1..n)) = SumOf(s, 1..n)
  BY <1>1, <1>s DEF SortedBy
<1>3. \A n \in 0..Len(p) : Renamed(o, 1..n) \in SUBSET DOMAIN p
  BY <1>1, <1>2 DEF Renamed
<1>4. SumOf(p, DOMAIN p) \in Nat
  BY <1>1, SumNat
<1> QED
  BY <1>1, <1>2, <1>3, <1>4, <1>5

\* The sizes of the coalitions with more than k thirds of the power.
Sizes(p, k) ==
  {Cardinality(S) : S \in {T \in SUBSET DOMAIN p : 3 * SumOf(p, T) > k * SumOf(p, DOMAIN p)}}

\* The prefixes that FirstAbove finds have the sizes of these coalitions.
LEMMA FirstAboveLeast ==
  ASSUME NEW p \in Seq(Nat), NEW k \in {1, 2}, 8 * SumOf(p, DOMAIN p) <= MaxInt
  PROVE  /\ Sizes(p, k) \subseteq Nat \ {0}
         /\ FirstAbove(Descending(p), k * SumOf(p, DOMAIN p))
              = IF Sizes(p, k) = {} THEN 0 ELSE Min(Sizes(p, k))
<1> DEFINE s == Descending(p)
           total == SumOf(p, DOMAIN p)
           N == Len(p)
           P(n) == SumOf(s, 1..n)
           ns == {n \in 1..Len(s) : Int64(Total(Prefix(s, n)) * 3) > k * total}
<1>1. /\ s \in Seq(Nat) /\ Len(s) = N /\ P(N) = total /\ total \in Nat /\ N \in Nat
      /\ IsFiniteSet(DOMAIN p) /\ Cardinality(DOMAIN p) = N
      /\ \A n \in 0..N : \E T \in SUBSET DOMAIN p : Cardinality(T) = n /\ SumOf(p, T) = P(n)
  BY SortedVector
<1>2. MaxInt \in Nat /\ 8 * total <= MaxInt
  BY HealthAssumption
<1> HIDE DEF s, total, N, P
<1>3. ASSUME NEW n \in 0..N
      PROVE  P(n) \in Nat /\ Int64(Total(Prefix(s, n)) * 3) = 3 * P(n)
  <2>1. SumOf(s, 1..Len(s)) <= MaxInt
    BY <1>1, <1>2 DEF P
  <2>2. Total(Prefix(s, n)) = P(n) /\ P(n) \in Nat /\ P(n) <= total
    BY <1>1, <2>1, PrefixTotal DEF P
  <2>3. P(n) * 3 \in 0..MaxInt
    BY <1>1, <1>2, <2>2
  <2>4. Int64(P(n) * 3) = P(n) * 3
    BY <2>3, Unwrapped
  <2> QED
    BY <2>2, <2>4
<1>4. \A n : n \in ns <=> n \in 1..N /\ 3 * P(n) > k * total
  <2>1. \A n \in 1..N : n \in 0..N
    BY <1>1
  <2>2. \A n \in 1..N : Int64(Total(Prefix(s, n)) * 3) = 3 * P(n)
    BY <1>3, <2>1
  <2> QED
    BY <1>1, <2>2
<1>n. FirstAbove(s, k * total) = IF ns = {} THEN 0 ELSE Min(ns)
  BY DEF FirstAbove
<1> HIDE DEF ns
<1>5. ASSUME NEW n \in ns PROVE n \in Sizes(p, k)
  <2>1. n \in 1..N /\ n \in 0..N /\ 3 * P(n) > k * total
    BY <1>1, <1>4, <1>5
  <2>2. PICK T \in SUBSET DOMAIN p : Cardinality(T) = n /\ SumOf(p, T) = P(n)
    BY <1>1, <2>1
  <2> QED
    BY <2>1, <2>2 DEF Sizes, total
<1>6. ASSUME NEW c \in Sizes(p, k) PROVE c \in ns
  <2>1. PICK T \in SUBSET DOMAIN p : c = Cardinality(T) /\ 3 * SumOf(p, T) > k * total
    BY <1>6 DEF Sizes, total
  <2>2. IsFiniteSet(T) /\ c \in Nat /\ c <= N
    BY <1>1, <2>1, FS_Subset, FS_CardinalityType
  <2>3. SumOf(p, T) <= P(c)
    BY <1>1, <2>1, <2>2, Strongest DEF P, s, N
  <2>4. SumOf(p, T) \in Nat /\ P(c) \in Nat
    <3>1. \A i \in DOMAIN p : p[i] \in Nat
      BY VectorOrders
    <3> QED
      BY <1>1, <1>3, <2>2, <3>1, SumNat
  <2>5. c # 0
    <3> SUFFICES ASSUME c = 0 PROVE FALSE
      OBVIOUS
    <3>1. T = {}
      BY <2>1, <2>2, FS_EmptySet
    <3>2. SumOf(p, T) = 0
      BY <3>1, SumEmpty
    <3> QED
      BY <1>1, <2>1, <3>2
  <2>6. 3 * P(c) > k * total
    BY <1>1, <2>1, <2>3, <2>4
  <2>7. c \in 1..N
    BY <1>1, <2>2, <2>5
  <2> QED
    BY <1>4, <2>6, <2>7
<1>7. ns = Sizes(p, k)
  BY <1>5, <1>6
<1>8. ns \subseteq Nat \ {0}
  BY <1>1, <1>4
<1> QED
  BY <1>n, <1>7, <1>8 DEF s, total

LEMMA NakamotoExact ==
  ASSUME NEW p \in Seq(Nat), 8 * SumOf(p, DOMAIN p) <= MaxInt
  PROVE  nakamoto(p) = <<IF Sizes(p, 1) = {} THEN 0 ELSE Min(Sizes(p, 1)),
                         IF Sizes(p, 2) = {} THEN 0 ELSE Min(Sizes(p, 2))>>
<1> DEFINE s == Descending(p)
           total == SumOf(p, DOMAIN p)
           S1 == Sizes(p, 1)
           S2 == Sizes(p, 2)
           n33 == FirstAbove(s, total)
           n66 == FirstAbove(s, 2 * total)
<1>1. s \in Seq(Nat) /\ SumOf(s, 1..Len(s)) = total /\ total \in Nat /\ Len(s) \in Nat
  BY SortedVector
<1>2. MaxInt \in Nat /\ 8 * total <= MaxInt
  BY HealthAssumption
<1>3. S1 \subseteq Nat \ {0} /\ FirstAbove(s, 1 * total) = IF S1 = {} THEN 0 ELSE Min(S1)
  BY FirstAboveLeast
<1>4. S2 \subseteq Nat \ {0} /\ n66 = IF S2 = {} THEN 0 ELSE Min(S2)
  BY FirstAboveLeast
<1>5. S2 \subseteq S1
  <2>1. \A T \in SUBSET DOMAIN p : SumOf(p, T) \in Nat
    <3> SUFFICES ASSUME NEW T \in SUBSET DOMAIN p PROVE SumOf(p, T) \in Nat
      OBVIOUS
    <3>1. IsFiniteSet(T) /\ \A i \in T : p[i] \in Nat
      BY VectorOrders, FS_Subset
    <3> QED
      BY <3>1, SumNat
  <2> QED
    BY <1>1, <2>1 DEF Sizes
<1> HIDE DEF s, total, S1, S2
<1>6. Total(s) = total
  BY <1>1, <1>2, PrefixTotal
<1>7. Int64(total * 2) = 2 * total
  <2>1. total * 2 \in 0..MaxInt /\ total * 2 = 2 * total
    BY <1>1, <1>2
  <2> QED
    BY <2>1, Unwrapped
<1>8. nakamoto(p) = <<IF n66 # 0 /\ n33 > n66 THEN 0 ELSE n33, n66>>
  BY <1>6, <1>7 DEF nakamoto, s
<1>9. 1 * total = total
  BY <1>1
<1>10. n33 = IF S1 = {} THEN 0 ELSE Min(S1)
  BY <1>3, <1>9
<1> HIDE DEF n33, n66
<1>11. ~(n66 # 0 /\ n33 > n66)
  <2> SUFFICES ASSUME n66 # 0 PROVE ~(n33 > n66)
    OBVIOUS
  <2>1. S2 # {} /\ n66 = Min(S2)
    BY <1>4
  <2>2. S1 # {} /\ n33 = Min(S1)
    BY <1>5, <1>10, <2>1
  <2>3. S1 \subseteq Nat /\ S2 \subseteq Nat
    BY <1>3, <1>4
  <2>4. n66 \in S2 /\ n33 \in S1 /\ \A x \in S1 : n33 <= x
    BY <2>1, <2>2, <2>3, MinOfNat
  <2>5. n33 <= n66 /\ n33 \in Nat /\ n66 \in Nat
    BY <1>5, <2>3, <2>4
  <2> QED
    BY <2>5
<1> QED
  BY <1>4, <1>8, <1>10, <1>11 DEF S1, S2

LEMMA TopShareExact ==
  ASSUME NEW p \in Seq(Nat), 8 * SumOf(p, DOMAIN p) <= MaxInt, SumOf(p, DOMAIN p) # 0
  PROVE  LET top == Max({SumOf(p, S) : S \in {T \in SUBSET DOMAIN p : Cardinality(T) <= topN}})
             t == topNShare(p, topN)
         IN  t[1] * SumOf(p, DOMAIN p) = 100 * top * t[2]
<1> DEFINE s == Descending(p)
           total == SumOf(p, DOMAIN p)
           N == Len(p)
           P(n) == SumOf(s, 1..n)
           Sums0 == {SumOf(p, S) : S \in {T \in SUBSET DOMAIN p : Cardinality(T) <= topN}}
           m == Min({topN, Len(s)})
<1>1. /\ s \in Seq(Nat) /\ Len(s) = N /\ P(N) = total /\ total \in Nat /\ N \in Nat
      /\ IsFiniteSet(DOMAIN p) /\ Cardinality(DOMAIN p) = N
      /\ \A n \in 0..N : \E T \in SUBSET DOMAIN p : Cardinality(T) = n /\ SumOf(p, T) = P(n)
  BY SortedVector
<1>2. MaxInt \in Nat /\ topN \in Nat /\ 8 * total <= MaxInt /\ total # 0
  BY HealthAssumption, PowerAssumption
<1> HIDE DEF s, total, N, P
<1>3. m \in {topN, N} /\ m <= topN /\ m <= N
  <2>1. {topN, N} \subseteq Nat /\ {topN, N} # {}
    BY <1>1, <1>2
  <2>2. Min({topN, N}) \in {topN, N} /\ \A x \in {topN, N} : Min({topN, N}) <= x
    BY <2>1, MinOfNat
  <2> QED
    BY <1>1, <2>2
<1> HIDE DEF m
<1>4. m \in 0..N
  BY <1>1, <1>2, <1>3
<1>5. Total(s) = total /\ Total(Prefix(s, m)) = P(m) /\ P(m) \in Nat
  <2>1. SumOf(s, 1..Len(s)) <= MaxInt
    BY <1>1, <1>2 DEF P
  <2> QED
    BY <1>1, <1>4, <2>1, PrefixTotal DEF P
<1>6. topNShare(p, topN) = <<100 * P(m), total>>
  BY <1>2, <1>5 DEF topNShare, FirstOf, m, s
<1>7. P(m) \in Sums0
  <2>1. PICK T \in SUBSET DOMAIN p : Cardinality(T) = m /\ SumOf(p, T) = P(m)
    BY <1>1, <1>4
  <2> QED
    BY <1>3, <2>1
<1>8. ASSUME NEW x \in Sums0 PROVE x \in Nat /\ P(m) >= x
  <2>1. PICK T \in SUBSET DOMAIN p : Cardinality(T) <= topN /\ x = SumOf(p, T)
    BY <1>8
  <2>2. IsFiniteSet(T) /\ Cardinality(T) \in Nat /\ Cardinality(T) <= N
    BY <1>1, FS_Subset, FS_CardinalityType
  <2>3. Cardinality(T) <= m
    BY <1>3, <2>1, <2>2
  <2>4. SumOf(p, T) <= P(m)
    BY <1>4, <2>3, Strongest DEF P, s, N
  <2>5. SumOf(p, T) \in Nat
    <3>1. \A i \in DOMAIN p : p[i] \in Nat
      BY VectorOrders
    <3> QED
      BY <2>2, <3>1, SumNat
  <2> QED
    BY <1>5, <2>1, <2>4, <2>5
<1>9. Max(Sums0) = P(m)
  <2> HIDE DEF Sums0
  <2>1. \E x \in Sums0 : \A y \in Sums0 : x >= y
    BY <1>7, <1>8
  <2>2. Max(Sums0) \in Sums0 /\ \A y \in Sums0 : Max(Sums0) >= y
    BY <2>1 DEF Max
  <2> QED
    BY <1>5, <1>7, <1>8, <2>2
<1>10. (100 * P(m)) * total = 100 * P(m) * total
  BY <1>1, <1>5
<1> HIDE DEF Sums0
<1>11. topNShare(p, topN)[1] * total = 100 * Max(Sums0) * topNShare(p, topN)[2]
  BY <1>6, <1>9, <1>10
<1> QED
  BY <1>11 DEF Sums0, total

--------------------------------------------------------------------------------
(* The Gini coefficient.                                                   *)

LEMMA Upto ==
  ASSUME NEW n \in Nat
  PROVE  /\ IsFiniteSet(1..n) /\ Cardinality(1..n) = n
         /\ 1..(n + 1) = (1..n) \cup {n + 1} /\ n + 1 \notin 1..n
  BY FS_Interval

\* The differences between a number and those before it.
LEMMA RowSum ==
  ASSUME NEW n \in Nat, NEW s, \A i \in 1..n : s[i] \in Nat, NEW x \in Nat,
         \A i \in 1..n : s[i] <= x, NEW e, \A i \in 1..n : e[i] = x - s[i]
  PROVE  SumOf(e, 1..n) \in Nat /\ SumOf(e, 1..n) + SumOf(s, 1..n) = n * x
<1> DEFINE G == {m \in Nat : m <= n => SumOf(e, 1..m) + SumOf(s, 1..m) = m * x}
<1>1. \A i \in 1..n : e[i] \in Nat
  OBVIOUS
<1>2. 0 \in G
  <2>1. 1..0 = {}
    OBVIOUS
  <2>2. SumOf(e, 1..0) = 0 /\ SumOf(s, 1..0) = 0
    BY <2>1, SumEmpty
  <2> QED
    BY <2>2
<1>3. ASSUME NEW m \in Nat, m \in G PROVE m + 1 \in G
  <2> SUFFICES ASSUME m + 1 <= n
               PROVE  SumOf(e, 1..(m + 1)) + SumOf(s, 1..(m + 1)) = (m + 1) * x
    OBVIOUS
  <2>1. SumOf(e, 1..m) + SumOf(s, 1..m) = m * x
    BY <1>3
  <2>2. \A i \in (1..m) \cup {m + 1} : e[i] \in Nat /\ s[i] \in Nat
    BY <1>1
  <2>3. /\ IsFiniteSet(1..m) /\ 1..(m + 1) = (1..m) \cup {m + 1} /\ m + 1 \notin 1..m
    BY Upto
  <2>4. SumOf(e, 1..(m + 1)) = e[m + 1] + SumOf(e, 1..m)
    BY <2>2, <2>3, SumAdd
  <2>5. SumOf(s, 1..(m + 1)) = s[m + 1] + SumOf(s, 1..m)
    BY <2>2, <2>3, SumAdd
  <2>6. SumOf(e, 1..m) \in Nat /\ SumOf(s, 1..m) \in Nat
    BY <2>2, <2>3, SumNat
  <2>7. e[m + 1] + s[m + 1] = x /\ e[m + 1] \in Nat /\ s[m + 1] \in Nat
    BY <1>1
  <2> DEFINE mx == m * x
  <2>8. (m + 1) * x = mx + x /\ mx \in Nat /\ SumOf(e, 1..m) + SumOf(s, 1..m) = mx
    BY <2>1
  <2> HIDE DEF mx
  <2>9. SumOf(e, 1..(m + 1)) + SumOf(s, 1..(m + 1))
          = (e[m + 1] + s[m + 1]) + (SumOf(e, 1..m) + SumOf(s, 1..m))
    BY <2>4, <2>5, <2>6, <2>7
  <2>10. SumOf(e, 1..(m + 1)) + SumOf(s, 1..(m + 1)) = x + mx
    BY <2>7, <2>8, <2>9
  <2>11. x + mx = mx + x
    BY <2>8
  <2> QED
    BY <2>8, <2>10, <2>11, Zenon
<1>4. Nat \subseteq G
  <2> HIDE DEF G
  <2> QED
    BY <1>2, <1>3, Successors
<1>5. SumOf(e, 1..n) \in Nat
  BY <1>1, Upto, SumNat
<1> QED
  BY <1>4, <1>5

Pairs(n) == (1..n) \X (1..n)

\* A square with one more row and column.
LEMMA SquareStep ==
  ASSUME NEW n \in Nat, NEW d, \A ij \in Pairs(n + 1) : d[ij] \in Nat, NEW e,
         \A j \in 1..n : d[<<n + 1, j>>] = e[j] /\ d[<<j, n + 1>>] = e[j],
         d[<<n + 1, n + 1>>] = 0
  PROVE  SumOf(d, Pairs(n + 1)) = SumOf(d, Pairs(n)) + 2 * SumOf(e, 1..n)
<1> DEFINE row == [j \in 1..n |-> <<n + 1, j>>]
           col == [j \in 1..n |-> <<j, n + 1>>]
           A == Pairs(n)
           B == Renamed(row, 1..n)
           C == Renamed(col, 1..n)
           z == <<n + 1, n + 1>>
<1>0. /\ IsFiniteSet(1..n) /\ 1..(n + 1) = (1..n) \cup {n + 1} /\ n + 1 \notin 1..n
  BY Upto
<1>1. B = {n + 1} \X (1..n) /\ C = (1..n) \X {n + 1}
  BY DEF Renamed
<1>2. /\ A \subseteq Pairs(n + 1) /\ B \subseteq Pairs(n + 1) /\ C \subseteq Pairs(n + 1)
      /\ z \in Pairs(n + 1)
  BY <1>0, <1>1 DEF Pairs
<1>3. Pairs(n + 1) = ((A \cup B) \cup C) \cup {z}
  <2>1. ASSUME NEW i \in 1..(n + 1), NEW j \in 1..(n + 1)
        PROVE  <<i, j>> \in ((A \cup B) \cup C) \cup {z}
    <3>1. i = n + 1 \/ i \in 1..n
      BY <1>0
    <3>2. j = n + 1 \/ j \in 1..n
      BY <1>0
    <3> QED
      BY <1>1, <3>1, <3>2 DEF Pairs
  <2>2. Pairs(n + 1) \subseteq ((A \cup B) \cup C) \cup {z}
    BY <2>1 DEF Pairs
  <2> HIDE DEF A, B, C, z
  <2> QED
    BY <1>2, <2>2
<1>4. A \cap B = {} /\ (A \cup B) \cap C = {} /\ z \notin (A \cup B) \cup C
  <2>1. \A ij \in A : ij[1] \in 1..n /\ ij[2] \in 1..n
    BY DEF Pairs
  <2>2. \A ij \in B : ij[1] = n + 1 /\ ij[2] \in 1..n
    BY <1>1
  <2>3. \A ij \in C : ij[2] = n + 1
    BY <1>1
  <2>4. \A ij \in C : ij[1] \in 1..n
    BY <1>1
  <2>5. z[1] = n + 1 /\ z[2] = n + 1
    OBVIOUS
  <2> HIDE DEF A, B, C, z
  <2> QED
    BY <1>0, <2>1, <2>2, <2>3, <2>4, <2>5
<1>5. \A j \in 1..n : e[j] \in Nat
  <2>1. \A j \in 1..n : <<n + 1, j>> \in Pairs(n + 1)
    BY <1>0 DEF Pairs
  <2> QED
    BY <2>1
<1>6. IsFiniteSet(B) /\ SumOf(d, B) = SumOf(e, 1..n)
  <2>1. \A i \in 1..n : \A j \in 1..n : row[i] = row[j] => i = j
    OBVIOUS
  <2>2. \A j \in 1..n : e[j] \in Nat /\ d[row[j]] = e[j]
    BY <1>5
  <2> DEFINE I == 1..n
  <2>3. /\ IsFiniteSet(I) /\ \A i \in I : \A j \in I : row[i] = row[j] => i = j
        /\ \A j \in I : e[j] \in Nat /\ d[row[j]] = e[j]
    BY <1>0, <2>1, <2>2
  <2> HIDE DEF row, I
  <2>4. IsFiniteSet(Renamed(row, I)) /\ SumOf(d, Renamed(row, I)) = SumOf(e, I)
    BY ONLY <2>3, SumMove
  <2> QED
    BY <2>4 DEF I
<1>7. IsFiniteSet(C) /\ SumOf(d, C) = SumOf(e, 1..n)
  <2>1. \A i \in 1..n : \A j \in 1..n : col[i] = col[j] => i = j
    OBVIOUS
  <2>2. \A j \in 1..n : e[j] \in Nat /\ d[col[j]] = e[j]
    BY <1>5
  <2> DEFINE I == 1..n
  <2>3. /\ IsFiniteSet(I) /\ \A i \in I : \A j \in I : col[i] = col[j] => i = j
        /\ \A j \in I : e[j] \in Nat /\ d[col[j]] = e[j]
    BY <1>0, <2>1, <2>2
  <2> HIDE DEF col, I
  <2>4. IsFiniteSet(Renamed(col, I)) /\ SumOf(d, Renamed(col, I)) = SumOf(e, I)
    BY ONLY <2>3, SumMove
  <2> QED
    BY <2>4 DEF I
<1>8. IsFiniteSet(A)
  BY <1>0, FS_Product DEF Pairs
<1> HIDE DEF A, B, C, z
<1>9. IsFiniteSet(A \cup B) /\ IsFiniteSet((A \cup B) \cup C)
  BY <1>6, <1>7, <1>8, FS_Union
<1>10. SumOf(d, A \cup B) = SumOf(d, A) + SumOf(d, B)
  BY <1>2, <1>4, <1>6, <1>8, SumUnion
<1>11. SumOf(d, (A \cup B) \cup C) = SumOf(d, A \cup B) + SumOf(d, C)
  BY <1>2, <1>4, <1>7, <1>9, SumUnion
<1>12. SumOf(d, ((A \cup B) \cup C) \cup {z}) = d[z] + SumOf(d, (A \cup B) \cup C)
  BY <1>2, <1>4, <1>9, SumAdd
<1>13. SumOf(d, A) \in Nat /\ SumOf(e, 1..n) \in Nat /\ d[z] = 0
  BY <1>0, <1>2, <1>5, <1>8, SumNat DEF z
<1>14. SumOf(d, Pairs(n + 1)) = d[z] + SumOf(d, (A \cup B) \cup C)
  BY <1>3, <1>12
<1> QED
  BY <1>6, <1>7, <1>10, <1>11, <1>13, <1>14 DEF A

\* The identity between the two forms of the coefficient, and how it grows.
GiniForm(n, d, w, t) == d = 2 * (2 * w - (n + 1) * t)
RowForm(n, e, t, x) == e + t = n * x

LEMMA GiniStep ==
  ASSUME NEW n \in Int, NEW d \in Int, NEW w \in Int, NEW t \in Int, NEW x \in Int, NEW e \in Int,
         GiniForm(n, d, w, t), RowForm(n, e, t, x)
  PROVE  GiniForm(n + 1, d + 2 * e, w + (n + 1) * x, t + x)
<1> DEFINE nx == n * x
           nt == n * t
<1>1. (n + 1) * t = nt + t /\ (n + 1) * x = nx + x
  OBVIOUS
<1>2. ((n + 1) + 1) * (t + x) = nt + 2 * t + nx + 2 * x
  OBVIOUS
<1>3. nx \in Int /\ nt \in Int
  OBVIOUS
<1>4. e + t = nx
  BY DEF RowForm
<1>5. d = 2 * (2 * w - (n + 1) * t)
  BY DEF GiniForm
<1> HIDE DEF nx, nt
<1>6. d + 2 * e = 2 * (2 * (w + (n + 1) * x) - ((n + 1) + 1) * (t + x))
  BY <1>1, <1>2, <1>3, <1>4, <1>5
<1> QED
  BY <1>6 DEF GiniForm

\* Of a sorted vector, the sum of all differences by the sum weighted with the places.
LEMMA Differences ==
  ASSUME NEW N \in Nat, NEW s, \A i \in 1..N : s[i] \in Nat,
         \A i \in 1..N : \A j \in 1..N : i < j => s[i] <= s[j],
         NEW d, \A ij \in Pairs(N) : d[ij] = Abs(s[ij[1]] - s[ij[2]]),
         NEW w, \A i \in 1..N : w[i] = i * s[i]
  PROVE  /\ SumOf(d, Pairs(N)) = 2 * (2 * SumOf(w, 1..N) - (N + 1) * SumOf(s, 1..N))
         /\ SumOf(w, 1..N) \in Nat /\ SumOf(w, 1..N) <= N * SumOf(s, 1..N)
<1> DEFINE D(n) == SumOf(d, Pairs(n))
           W(n) == SumOf(w, 1..n)
           T(n) == SumOf(s, 1..n)
           Gini(n) == /\ GiniForm(n, D(n), W(n), T(n)) /\ D(n) \in Nat
                      /\ W(n) \in Nat /\ T(n) \in Nat /\ W(n) <= N * T(n)
           G == {n \in Nat : n <= N => Gini(n)}
<1>1. Gini(0)
  <2>1. 1..0 = {} /\ Pairs(0) = {}
    BY DEF Pairs
  <2>2. D(0) = 0 /\ W(0) = 0 /\ T(0) = 0
    BY <2>1, SumEmpty
  <2> QED
    BY <2>2 DEF GiniForm
<1>2. ASSUME NEW n \in Nat, Gini(n), n + 1 <= N PROVE Gini(n + 1)
  <2> DEFINE x == s[n + 1]
             e == [j \in 1..n |-> x - s[j]]
  <2>0. /\ IsFiniteSet(1..n) /\ 1..(n + 1) = (1..n) \cup {n + 1} /\ n + 1 \notin 1..n
        /\ 1..(n + 1) \subseteq 1..N /\ n + 1 \in 1..N
    BY <1>2, Upto
  <2>1. \A i \in 1..(n + 1) : s[i] \in Nat /\ w[i] \in Nat
    <3> SUFFICES ASSUME NEW i \in 1..(n + 1) PROVE s[i] \in Nat /\ w[i] \in Nat
      OBVIOUS
    <3>1. i \in 1..N /\ i \in Nat
      BY <2>0
    <3>2. s[i] \in Nat /\ w[i] = i * s[i]
      BY <3>1
    <3> QED
      BY <3>1, <3>2
  <2>2. x \in Nat /\ \A j \in 1..n : s[j] <= x /\ s[j] \in Nat
    <3>1. \A j \in 1..n : j \in 1..N /\ j < n + 1
      BY <2>0
    <3> QED
      BY <2>0, <3>1
  <2>3. T(n + 1) = x + T(n)
    BY <2>0, <2>1, SumAdd
  <2>4. W(n + 1) = (n + 1) * x + W(n)
    <3>1. W(n + 1) = w[n + 1] + W(n)
      BY <2>0, <2>1, SumAdd
    <3> QED
      BY <2>0, <3>1
  <2>5. \A ij \in Pairs(n + 1) : d[ij] \in Nat /\ d[ij] = Abs(s[ij[1]] - s[ij[2]])
    <3> SUFFICES ASSUME NEW i \in 1..(n + 1), NEW j \in 1..(n + 1)
                 PROVE  d[<<i, j>>] \in Nat /\ d[<<i, j>>] = Abs(s[i] - s[j])
      BY DEF Pairs
    <3>1. <<i, j>> \in Pairs(N)
      BY <2>0 DEF Pairs
    <3>2. d[<<i, j>>] = Abs(s[i] - s[j])
      BY <3>1
    <3>3. s[i] \in Nat /\ s[j] \in Nat
      BY <2>1
    <3> QED
      BY <3>2, <3>3 DEF Abs
  <2>6. d[<<n + 1, n + 1>>] = 0
    <3>1. <<n + 1, n + 1>> \in Pairs(n + 1)
      BY <2>0 DEF Pairs
    <3>2. d[<<n + 1, n + 1>>] = Abs(x - x)
      BY <2>5, <3>1
    <3> QED
      BY <2>2, <3>2 DEF Abs
  <2>7. \A j \in 1..n : d[<<n + 1, j>>] = e[j] /\ d[<<j, n + 1>>] = e[j]
    <3> SUFFICES ASSUME NEW j \in 1..n
                 PROVE  d[<<n + 1, j>>] = e[j] /\ d[<<j, n + 1>>] = e[j]
      OBVIOUS
    <3>1. <<n + 1, j>> \in Pairs(n + 1) /\ <<j, n + 1>> \in Pairs(n + 1)
      BY <2>0 DEF Pairs
    <3>2. d[<<n + 1, j>>] = Abs(x - s[j]) /\ d[<<j, n + 1>>] = Abs(s[j] - x)
      BY <2>5, <3>1
    <3>3. e[j] = x - s[j] /\ s[j] <= x /\ s[j] \in Nat /\ x \in Nat
      BY <2>2
    <3> QED
      BY <3>2, <3>3 DEF Abs
  <2>8. \A j \in 1..n : e[j] = x - s[j]
    OBVIOUS
  <2> HIDE DEF e, x, D, W, T
  <2>9. D(n + 1) = D(n) + 2 * SumOf(e, 1..n)
    BY <2>5, <2>6, <2>7, SquareStep DEF D
  <2>10. SumOf(e, 1..n) \in Nat /\ SumOf(e, 1..n) + T(n) = n * x
    BY <2>2, <2>8, RowSum DEF T
  <2>11. /\ GiniForm(n, D(n), W(n), T(n)) /\ D(n) \in Nat
         /\ W(n) \in Nat /\ T(n) \in Nat /\ W(n) <= N * T(n)
    BY <1>2
  <2>12. GiniForm(n + 1, D(n) + 2 * SumOf(e, 1..n), W(n) + (n + 1) * x, T(n) + x)
    <3>1. RowForm(n, SumOf(e, 1..n), T(n), x)
      BY <2>10 DEF RowForm
    <3> QED
      BY <2>2, <2>10, <2>11, <3>1, GiniStep
  <2>13. (n + 1) * x \in Nat /\ (n + 1) * x <= N * x
    <3>1. N - (n + 1) \in Nat
      BY <1>2
    <3>2. (N - (n + 1)) * x \in Nat
      BY <2>2, <3>1
    <3>3. (N - (n + 1)) * x = N * x - (n + 1) * x
      BY <2>2
    <3>4. (n + 1) * x \in Nat /\ N * x \in Nat
      BY <2>2
    <3> QED
      BY <3>2, <3>3, <3>4
  <2>14. N * (x + T(n)) = N * x + N * T(n) /\ N * x \in Nat /\ N * T(n) \in Nat
    BY <2>2, <2>11
  <2>15. W(n + 1) \in Nat /\ T(n + 1) \in Nat /\ D(n + 1) \in Nat
    <3> DEFINE y == (n + 1) * x
    <3>1. y \in Nat /\ W(n + 1) = y + W(n)
      BY <2>4, <2>13
    <3> HIDE DEF y
    <3>2. W(n + 1) \in Nat
      BY <2>11, <3>1
    <3>3. T(n + 1) \in Nat /\ D(n + 1) \in Nat
      BY <2>2, <2>3, <2>9, <2>10, <2>11
    <3> QED
      BY <3>2, <3>3
  <2>16. W(n + 1) <= N * T(n + 1)
    BY <2>3, <2>4, <2>11, <2>13, <2>14
  <2>17. W(n + 1) = W(n) + (n + 1) * x /\ T(n + 1) = T(n) + x
    BY <2>2, <2>3, <2>4, <2>11, <2>13
  <2>18. GiniForm(n + 1, D(n + 1), W(n + 1), T(n + 1))
    BY <2>9, <2>12, <2>17
  <2> QED
    BY <2>15, <2>16, <2>18
<1> HIDE DEF Gini
<1>3. 0 \in G /\ \A n \in Nat : n \in G => n + 1 \in G
  BY <1>1, <1>2
<1>4. Nat \subseteq G
  <2> HIDE DEF G
  <2> QED
    BY <1>3, Successors
<1>5. Gini(N)
  BY <1>4
<1> QED
  BY <1>5 DEF Gini, GiniForm

LEMMA PairParts ==
  ASSUME NEW S, NEW x \in S \X S
  PROVE  x[1] \in S /\ x[2] \in S /\ x = <<x[1], x[2]>>
  OBVIOUS

LEMMA GapNat ==
  ASSUME NEW a \in Nat, NEW b \in Nat
  PROVE  Abs(a - b) \in Nat
  BY DEF Abs

Gaps(p, I) == [ij \in I |-> Abs(p[ij[1]] - p[ij[2]])]

\* The sum of the differences does not depend on the order of the vector.
LEMMA DifferencesMove ==
  ASSUME NEW p \in Seq(Nat), NEW R, NEW o, NEW s, SortedBy(p, R, o, s)
  PROVE  SumOf(Gaps(p, (DOMAIN p) \X (DOMAIN p)), (DOMAIN p) \X (DOMAIN p))
           = SumOf(Gaps(s, Pairs(Len(p))), Pairs(Len(p)))
<1> DEFINE N == Len(p)
           I == Pairs(N)
           K == (DOMAIN p) \X (DOMAIN p)
           b == [ij \in I |-> <<o[ij[1]], o[ij[2]]>>]
           q == Gaps(p, K)
           d == Gaps(s, I)
<1>0. N \in Nat /\ \A i \in DOMAIN p : p[i] \in Nat
  BY VectorOrders
<1>1. /\ \A n \in 1..N : o[n] \in DOMAIN p /\ s[n] = p[o[n]]
      /\ \A n \in 1..N : \A m \in 1..N : o[n] = o[m] => n = m
      /\ \A x \in DOMAIN p : \E n \in 1..N : o[n] = x
  BY DEF SortedBy
<1> HIDE DEF N
<1>2. IsFiniteSet(I)
  BY <1>0, Upto, FS_Product DEF Pairs
<1>a. \A x \in I : x[1] \in 1..N /\ x[2] \in 1..N /\ x = <<x[1], x[2]>>
  BY PairParts DEF Pairs
<1>b. \A x \in I : b[x] = <<o[x[1]], o[x[2]]>> /\ d[x] = Abs(s[x[1]] - s[x[2]])
  BY DEF Gaps
<1>c. \A x \in DOMAIN p : \A y \in DOMAIN p : q[<<x, y>>] = Abs(p[x] - p[y])
  BY DEF Gaps
<1>d. \A i \in 1..N : \A j \in 1..N : <<i, j>> \in I
  BY DEF Pairs
<1>e. \A x \in DOMAIN p : \A y \in DOMAIN p : <<x, y>> \in K
  OBVIOUS
<1>f. \A x \in K : x[1] \in DOMAIN p /\ x[2] \in DOMAIN p /\ x = <<x[1], x[2]>>
  BY PairParts
<1> HIDE DEF I, K, b, q, d
<1>3. \A x \in I : \A y \in I : b[x] = b[y] => x = y
  <2> SUFFICES ASSUME NEW x \in I, NEW y \in I, b[x] = b[y] PROVE x = y
    OBVIOUS
  <2>1. <<o[x[1]], o[x[2]]>> = <<o[y[1]], o[y[2]]>>
    BY <1>b
  <2>2. o[x[1]] = o[y[1]] /\ o[x[2]] = o[y[2]]
    BY <2>1
  <2>3. x[1] = y[1] /\ x[2] = y[2]
    <3>1. x[1] \in 1..N /\ x[2] \in 1..N /\ y[1] \in 1..N /\ y[2] \in 1..N
      BY <1>a
    <3>2. \A n \in 1..N : \A m \in 1..N : o[n] = o[m] => n = m
      BY <1>1
    <3> QED
      BY ONLY <2>2, <3>1, <3>2, Zenon
  <2>4. x = <<x[1], x[2]>> /\ y = <<y[1], y[2]>>
    BY <1>a
  <2> QED
    BY <2>3, <2>4, Zenon
<1>4. \A x \in I : d[x] \in Nat /\ q[b[x]] = d[x]
  <2> SUFFICES ASSUME NEW x \in I PROVE d[x] \in Nat /\ q[b[x]] = d[x]
    OBVIOUS
  <2>1. /\ o[x[1]] \in DOMAIN p /\ s[x[1]] = p[o[x[1]]]
        /\ o[x[2]] \in DOMAIN p /\ s[x[2]] = p[o[x[2]]]
    BY <1>1, <1>a
  <2>2. q[b[x]] = Abs(p[o[x[1]]] - p[o[x[2]]])
    BY <1>b, <1>c, <2>1
  <2>3. d[x] = Abs(p[o[x[1]]] - p[o[x[2]]])
    BY <1>b, <2>1
  <2>4. Abs(p[o[x[1]]] - p[o[x[2]]]) \in Nat
    BY <1>0, <2>1, GapNat
  <2> QED
    BY <2>2, <2>3, <2>4
<1>5. Renamed(b, I) = K
  <2>1. ASSUME NEW x \in I PROVE b[x] \in K
    <3>1. x[1] \in 1..N /\ x[2] \in 1..N
      BY <1>a
    <3>2. o[x[1]] \in DOMAIN p /\ o[x[2]] \in DOMAIN p
      BY <1>1, <3>1, Zenon
    <3>3. <<o[x[1]], o[x[2]]>> \in K
      BY <1>e, <3>2
    <3> QED
      BY <1>b, <3>3
  <2>2. ASSUME NEW x \in K PROVE \E y \in I : b[y] = x
    <3>1. PICK i \in 1..N : o[i] = x[1]
      BY <1>1, <1>f
    <3>2. PICK j \in 1..N : o[j] = x[2]
      BY <1>1, <1>f
    <3>3. <<i, j>> \in I /\ b[<<i, j>>] = <<o[i], o[j]>>
      BY <1>b, <1>d
    <3>4. x = <<x[1], x[2]>>
      BY <1>f
    <3> QED
      BY <3>1, <3>2, <3>3, <3>4
  <2> QED
    BY <2>1, <2>2 DEF Renamed
<1>6. SumOf(q, Renamed(b, I)) = SumOf(d, I)
  BY ONLY <1>2, <1>3, <1>4, SumMove
<1>7. SumOf(q, K) = SumOf(d, I)
  BY <1>5, <1>6
<1> QED
  BY <1>7 DEF q, d, K, I, N

LEMMA GiniProduct ==
  ASSUME NEW a \in Int, NEW n \in Int, NEW t \in Int
  PROVE  a * 2 * n * t = (n * t) * (2 * a)
  OBVIOUS

\* The weighted sum is at most the total times the number of validators.
LEMMA GiniExact ==
  ASSUME NEW p \in Seq(Nat), Len(p) * SumOf(p, DOMAIN p) <= MaxInt
  PROVE  LET total == SumOf(p, DOMAIN p)
             diff == SumOf([ij \in (DOMAIN p) \X (DOMAIN p) |-> Abs(p[ij[1]] - p[ij[2]])],
                           (DOMAIN p) \X (DOMAIN p))
             g == gini(p)
         IN  g[1] * 2 * Len(p) * total = g[2] * diff
<1> DEFINE R == Smaller(p)
           o == InOrder(DOMAIN p, R)
           s == Arrange(p, R)
           N == Len(p)
           total == SumOf(p, DOMAIN p)
           q == Gaps(p, (DOMAIN p) \X (DOMAIN p))
           d == Gaps(s, Pairs(N))
           w == [i \in 1..N |-> i * s[i]]
           W == SumOf(w, 1..N)
           diff == SumOf(q, (DOMAIN p) \X (DOMAIN p))
<1>1. /\ TotalOrder(DOMAIN p, R) /\ IsFiniteSet(DOMAIN p) /\ N \in Nat
      /\ DOMAIN p = 1..N /\ \A i \in DOMAIN p : p[i] \in Nat
  BY VectorOrders
<1>2. SortedBy(p, R, o, s)
  BY <1>1, Arranged
<1>3. s = Ascending(p)
  BY DEF Ascending
<1>4. MaxInt \in Nat /\ N * total <= MaxInt /\ total \in Nat
  BY <1>1, SumNat, HealthAssumption
<1>5. diff = SumOf(d, Pairs(N))
  <2> HIDE DEF R, o, s
  <2> QED
    BY <1>2, DifferencesMove
<1>6. \A i \in 1..N : \A j \in 1..N : i < j => s[i] <= s[j]
  <2> SUFFICES ASSUME NEW i \in 1..N, NEW j \in 1..N, i < j PROVE s[i] <= s[j]
    OBVIOUS
  <2> HIDE DEF o, s
  <2>1. <<o[i], o[j]>> \in R /\ s[i] = p[o[i]] /\ s[j] = p[o[j]]
        /\ o[i] \in DOMAIN p /\ o[j] \in DOMAIN p
    BY <1>2 DEF SortedBy
  <2> QED
    BY <1>1, <2>1 DEF Smaller
<1> HIDE DEF R, o, s, total, q
<1>7. s \in Seq(Nat) /\ Len(s) = N /\ SumOf(s, 1..N) = total
  BY <1>2 DEF SortedBy, total
<1>8. \A i \in 1..N : s[i] \in Nat
  BY <1>7
<1>9. \A i \in 1..N : w[i] = i * s[i]
  OBVIOUS
<1>10. \A ij \in Pairs(N) : d[ij] = Abs(s[ij[1]] - s[ij[2]])
  BY DEF Gaps
<1> HIDE DEF N
<1>11. diff = 2 * (2 * W - (N + 1) * total) /\ W \in Nat /\ W <= N * total
  <2> HIDE DEF d, w
  <2>1. /\ SumOf(d, Pairs(N)) = 2 * (2 * SumOf(w, 1..N) - (N + 1) * SumOf(s, 1..N))
        /\ SumOf(w, 1..N) \in Nat /\ SumOf(w, 1..N) <= N * SumOf(s, 1..N)
    BY <1>1, <1>6, <1>8, <1>9, <1>10, Differences
  <2> QED
    BY <1>5, <1>7, <2>1
<1>12. total <= MaxInt
  <2>1. CASE N = 0
    <3>1. 1..N = {}
      BY <2>1
    <3>2. total = 0
      BY <1>7, <3>1, SumEmpty
    <3> QED
      BY <1>4, <3>2
  <2>2. CASE N # 0
    <3> DEFINE r == (N - 1) * total
    <3>1. N - 1 \in Nat
      BY <1>1, <2>2
    <3>2. r \in Nat /\ N * total = r + total
      BY <1>1, <1>4, <3>1
    <3> HIDE DEF r
    <3> QED
      BY <1>4, <3>2
  <2> QED
    BY <2>1, <2>2
<1>13. Total(s) = total
  <2>1. SumOf(s, 1..Len(s)) <= MaxInt /\ 0 \in 0..Len(s)
    BY <1>1, <1>7, <1>12
  <2> QED
    BY <1>7, <2>1, PrefixTotal
<1>14. Total([i \in 1..N |-> Int64(i * s[i])]) = W
  <2>0. W <= MaxInt
    <3> DEFINE k == N * total
    <3>1. W \in Nat /\ k \in Nat /\ W <= k /\ k <= MaxInt
      BY <1>1, <1>4, <1>11
    <3> HIDE DEF k, W
    <3> QED
      BY <1>4, <3>1
  <2>1. \A i \in 1..N : w[i] \in Nat
    <3> SUFFICES ASSUME NEW i \in 1..N PROVE w[i] \in Nat
      OBVIOUS
    <3>1. i \in Nat /\ s[i] \in Nat
      BY <1>8
    <3> QED
      BY <3>1
  <2>2. w \in Seq(Nat) /\ DOMAIN w = 1..N
    BY <1>1, <2>1
  <2>3. \A i \in 1..N : Int64(i * s[i]) = i * s[i]
    <3> SUFFICES ASSUME NEW i \in 1..N PROVE Int64(i * s[i]) = i * s[i]
      OBVIOUS
    <3> HIDE DEF w
    <3>1. IsFiniteSet(1..N) /\ IsFiniteSet({i}) /\ {i} \subseteq 1..N
      BY <1>1, Upto, FS_Singleton
    <3>2. SumOf(w, {i}) <= W
      BY <2>1, <3>1, SumMonotone
    <3>3. SumOf(w, {i}) = w[i]
      <4>1. {i} \ {i} = {} /\ \A x \in {i} : w[x] \in Nat
        BY <2>1
      <4>2. SumOf(w, {i}) = w[i] + SumOf(w, {})
        BY <3>1, <4>1, SumRemove
      <4> QED
        BY <2>1, <4>2, SumEmpty
    <3>4. w[i] \in 0..MaxInt
      BY <1>4, <1>11, <2>0, <2>1, <3>2, <3>3
    <3>5. Int64(w[i]) = w[i]
      BY <3>4, Unwrapped
    <3> QED
      BY <1>9, <3>5
  <2>4. [i \in 1..N |-> Int64(i * s[i])] = w
    BY <2>3
  <2>5. Total(w) = W
    BY <2>0, <2>2, TotalExact
  <2> QED
    BY <2>4, <2>5
<1> HIDE DEF W, diff
<1>15. CASE total = 0
  <2>1. gini(p) = <<0, 1>>
    BY <1>3, <1>13, <1>15 DEF gini, s
  <2>2. N * total = 0 /\ (N + 1) * total = 0
    BY <1>1, <1>15
  <2>3. W = 0
    BY <1>11, <2>2
  <2>4. diff = 0
    BY <1>11, <2>2, <2>3
  <2>5. 0 * 2 * N * total = 1 * diff
    BY <1>1, <1>15, <2>4
  <2> QED
    BY <2>1, <2>5 DEF diff, q, total, N, Gaps
<1>16. CASE total # 0
  <2> DEFINE a == 2 * W - (N + 1) * total
  <2>1. N # 0
    <3> SUFFICES ASSUME N = 0 PROVE FALSE
      OBVIOUS
    <3>1. 1..N = {}
      OBVIOUS
    <3> QED
      BY <1>7, <1>16, <3>1, SumEmpty
  <2>2. gini(p) = <<a, N * total>>
    BY <1>3, <1>13, <1>14, <1>16, <2>1 DEF gini, N
  <2>3. a \in Int /\ diff = 2 * a
    BY <1>1, <1>4, <1>11
  <2> HIDE DEF a
  <2>4. a * 2 * N * total = (N * total) * (2 * a)
    BY <1>1, <1>4, <2>3, GiniProduct
  <2>5. gini(p)[1] * 2 * N * total = gini(p)[2] * diff
    BY <2>2, <2>3, <2>4
  <2> QED
    BY <2>5 DEF diff, q, total, N, Gaps
<1> QED
  BY <1>15, <1>16

\* The concentration panel is exact for every vector of powers: both Nakamoto
\* coefficients and the top share up to CometBFT's limit on the total power, the Gini
\* coefficient as long as the total times the number of validators is an int64
\* (enrich_decentralization.go).
THEOREM ConcentrationExact == Spec => []NakamotoMinimal
<1>1. ASSUME NEW p \in PowerVectors
      PROVE  LET total == SumOf(p, DOMAIN p)
                 Least(k) == LET sizes == {Cardinality(S) : S \in {T \in SUBSET DOMAIN p :
                                                                3 * SumOf(p, T) > k * total}}
                             IN  IF sizes = {} THEN 0 ELSE Min(sizes)
                 diff == SumOf([ij \in (DOMAIN p) \X (DOMAIN p) |-> Abs(p[ij[1]] - p[ij[2]])],
                               (DOMAIN p) \X (DOMAIN p))
                 top == Max({SumOf(p, S) : S \in {T \in SUBSET DOMAIN p : Cardinality(T) <= topN}})
                 g == gini(p)
                 t == topNShare(p, topN)
             IN  /\ 8 * total <= MaxInt =>
                      /\ nakamoto(p) = <<Least(1), Least(2)>>
                      /\ total # 0 => t[1] * total = 100 * top * t[2]
                 /\ Len(p) * total <= MaxInt => g[1] * 2 * Len(p) * total = g[2] * diff
  <2>1. p \in Seq(Nat)
    BY PowerAssumption
  <2>2. 8 * SumOf(p, DOMAIN p) <= MaxInt =>
          nakamoto(p) = <<IF Sizes(p, 1) = {} THEN 0 ELSE Min(Sizes(p, 1)),
                          IF Sizes(p, 2) = {} THEN 0 ELSE Min(Sizes(p, 2))>>
    BY <2>1, NakamotoExact
  <2>3. (8 * SumOf(p, DOMAIN p) <= MaxInt /\ SumOf(p, DOMAIN p) # 0) =>
          LET top == Max({SumOf(p, S) : S \in {T \in SUBSET DOMAIN p : Cardinality(T) <= topN}})
              t == topNShare(p, topN)
          IN  t[1] * SumOf(p, DOMAIN p) = 100 * top * t[2]
    BY <2>1, TopShareExact
  <2>4. Len(p) * SumOf(p, DOMAIN p) <= MaxInt =>
          LET total == SumOf(p, DOMAIN p)
              diff == SumOf([ij \in (DOMAIN p) \X (DOMAIN p) |-> Abs(p[ij[1]] - p[ij[2]])],
                            (DOMAIN p) \X (DOMAIN p))
              g == gini(p)
          IN  g[1] * 2 * Len(p) * total = g[2] * diff
    BY <2>1, GiniExact
  <2> QED
    BY <2>2, <2>3, <2>4 DEF Sizes
<1>2. NakamotoMinimal
  BY <1>1 DEF NakamotoMinimal
<1> QED
  BY <1>2, PTL
================================================================================
