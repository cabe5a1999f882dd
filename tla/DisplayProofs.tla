----------------------------- MODULE DisplayProofs -----------------------------
(***************************************************************************)
(* For every set of rounds and validator lists and every bound: with no    *)
(* writer busy the tables are current (Settled), and the header of the     *)
(* all-rounds table implements the safety part of Screen.                  *)
(***************************************************************************)
EXTENDS Display, SequenceTheorems, FiniteSetTheorems, TLAPS

Lists == ValLists \cup {<<>>}
Stage == {"run", "written", "wait"}

Types ==
  /\ rounds \in SUBSET Rounds /\ validators \in Lists /\ local \in Lists
  /\ consumer \in Stage /\ poller \in Stage /\ loop \in {"idle", "lastRound", "allRounds"}
  /\ building \in Seq(SUBSET Rounds) /\ allCells \in Seq(SUBSET Rounds)

\* The queue holds the callers that wait.
Queued ==
  \/ queue = <<>> /\ consumer # "wait" /\ poller # "wait"
  \/ queue = <<"consumer">> /\ consumer = "wait" /\ poller # "wait"
  \/ queue = <<"poller">> /\ consumer # "wait" /\ poller = "wait"
  \/ queue = <<"consumer", "poller">> /\ consumer = "wait" /\ poller = "wait"
  \/ queue = <<"poller", "consumer">> /\ consumer = "wait" /\ poller = "wait"

\* An update belongs to the head of the queue, and makes rows in its last part only.
Running ==
  /\ loop # "idle" => queue # <<>>
  /\ loop # "allRounds" => building = <<>>
  /\ loop = "allRounds" => Len(building) <= AllRows

\* The one writer the update of the head does not hold is not busy.
OtherRuns == IF Head(queue) = "consumer" THEN poller = "run" ELSE consumer = "run"

Rows(n) == [i \in 1..n |-> rounds]

\* What an update has read is State's while the other writer stays out.
Current ==
  loop # "idle" /\ OtherRuns =>
    /\ local = validators
    /\ building = Rows(Len(building))
    /\ loop = "allRounds" => TMValidators = validators /\ ConsensusError = consensusError

\* The headers only grow: shown, then being made, then State's.
Headers ==
  /\ allCells # <<>> => validators # <<>> /\ allCells[1] \subseteq rounds
  /\ building # <<>> => building[1] \subseteq rounds
  /\ allCells # <<>> /\ building # <<>> => allCells[1] \subseteq building[1]
  /\ allCells # <<>> /\ loop # "idle" => local # <<>>
  /\ local # <<>> => validators # <<>>

IInv == Types /\ Queued /\ Running /\ Current /\ Headers /\ Settled

--------------------------------------------------------------------------------
\* Keys touch neither State nor what the updates write, but for the last-round
\* table's cells.
LEMMA KeysLeave ==
  Keys => UNCHANGED <<rounds, validators, consensusError, consumer, poller, queue, loop, local,
                      building, allCells, TMValidators, ConsensusError>>
<1> SUFFICES ASSUME Keys
             PROVE  UNCHANGED <<rounds, validators, consensusError, consumer, poller, queue, loop,
                                local, building, allCells, TMValidators, ConsensusError>>
  OBVIOUS
<1>1. Key
  BY DEF Keys, Toggle, ChangeInfoBlockHeight, ChangeColumnsCount, SetTranspose, Pause, ChangeMode
<1>2. UNCHANGED <<TMValidators, ConsensusError>>
  BY DEF Keys, Toggle, ChangeInfoBlockHeight, ChangeColumnsCount, SetTranspose, Pause, ChangeMode,
         SetColumnsCount, lastVars
<1> QED
  BY <1>1, <1>2 DEF Key, stateVars, callerVars, allVars

LEMMA InitIInv == Init => IInv
<1> SUFFICES ASSUME Init PROVE IInv
  OBVIOUS
<1>1. Types /\ Queued /\ Running
  BY DEF Init, Types, Queued, Running, Lists, Stage
<1>2. Current /\ Headers /\ Settled
  BY DEF Init, Current, Headers, Settled
<1> QED
  BY <1>1, <1>2 DEF IInv

\* A row more of the same rounds.
LEMMA OneRowMore ==
  ASSUME NEW n \in Nat, building \in Seq(SUBSET Rounds), rounds \in SUBSET Rounds,
         Len(building) = n, building = Rows(n)
  PROVE  Append(building, rounds) = Rows(n + 1)
<1> DEFINE s == Append(building, rounds)
<1>1. DOMAIN s = 1..(n + 1) /\ s = [i \in 1..(n + 1) |-> s[i]]
  BY DEF Rows
<1>2. \A i \in 1..(n + 1) : s[i] = rounds
  BY SMT DEF Rows
<1> HIDE DEF s
<1> QED
  BY <1>1, <1>2 DEF Rows

\* The queue's contents as they come and go.
LEMMA QueueSteps ==
  /\ Append(<<>>, "consumer") = <<"consumer">> /\ Append(<<>>, "poller") = <<"poller">>
  /\ Append(<<"poller">>, "consumer") = <<"poller", "consumer">>
  /\ Append(<<"consumer">>, "poller") = <<"consumer", "poller">>
  /\ Head(<<"consumer">>) = "consumer" /\ Tail(<<"consumer">>) = <<>>
  /\ Head(<<"poller">>) = "poller" /\ Tail(<<"poller">>) = <<>>
  /\ Head(<<"consumer", "poller">>) = "consumer" /\ Tail(<<"consumer", "poller">>) = <<"poller">>
  /\ Head(<<"poller", "consumer">>) = "poller" /\ Tail(<<"poller", "consumer">>) = <<"consumer">>
  /\ <<"consumer">> # <<>> /\ <<"poller">> # <<>>
  /\ <<"consumer", "poller">> # <<>> /\ <<"poller", "consumer">> # <<>>
<1> DEFINE Who == {"consumer", "poller"}
<1>1. \A x \in Who : Append(<<>>, x) = <<x>> /\ Head(<<x>>) = x /\ <<x>> # <<>>
  OBVIOUS
<1>2. \A x \in Who : Tail(<<x>>) = <<>>
  OBVIOUS
<1>3. \A x, y \in Who : Head(<<x, y>>) = x /\ <<x, y>> # <<>>
  OBVIOUS
<1>4. \A x, y \in Who : Tail(<<x, y>>) = <<y>>
  OBVIOUS
<1>5. ASSUME NEW x \in Who, NEW y \in Who PROVE Append(<<x>>, y) = <<x, y>>
  <2> DEFINE s == Append(<<x>>, y)
             t == <<x, y>>
  <2>1. s \in Seq(Who) /\ t \in Seq(Who) /\ Len(s) = 2 /\ Len(t) = 2
    OBVIOUS
  <2>2. s[1] = t[1] /\ s[2] = t[2]
    OBVIOUS
  <2> HIDE DEF s, t
  <2>3. Len(s) = Len(t) /\ \A i \in 1..Len(s) : s[i] = t[i]
    BY <2>1, <2>2
  <2>4. s = t
    BY <2>1, <2>3, SeqEqual, Zenon
  <2> QED
    BY <2>4 DEF s, t
<1> QED
  BY <1>1, <1>2, <1>3, <1>4, <1>5

--------------------------------------------------------------------------------
LEMMA IInvStep == IInv /\ [Next]_vars => IInv'
<1> SUFFICES ASSUME IInv, [Next]_vars PROVE IInv'
  OBVIOUS
<1> USE DisplayAssumption
<1>1. ASSUME NEW r \in Rounds, AddCometBFTEvents(r) PROVE IInv'
  <2> USE <1>1 DEF AddCometBFTEvents, IInv, allVars, lastVars
  <2>1. Types'
    BY DEF Types, Stage
  <2>2. Queued' /\ Running'
    BY DEF Queued, Running, AllRows
  <2>3. Current'
    BY DEF Current, OtherRuns, Queued, Rows, Running
  <2>4. Headers'
    BY DEF Headers
  <2>5. Settled'
    BY DEF Settled
  <2> QED
    BY <2>1, <2>2, <2>3, <2>4, <2>5
<1>2. CASE RefreshConsensus
  <2> USE <1>2 DEF RefreshConsensus, IInv, allVars, lastVars
  <2>0. rounds \subseteq rounds' /\ rounds' \in SUBSET Rounds /\ validators' \in Lists
        /\ (validators # <<>> => validators' # <<>>)
    BY DEF Types, Lists
  <2>1. Types'
    BY <2>0 DEF Types, Stage
  <2>2. Queued' /\ Running'
    BY DEF Queued, Running, AllRows
  <2>3. Current'
    BY DEF Current, OtherRuns, Queued, Running
  <2>4. Headers'
    BY <2>0 DEF Headers
  <2>5. Settled'
    BY DEF Settled
  <2> QED
    BY <2>1, <2>2, <2>3, <2>4, <2>5
<1>3. CASE ConsumerSetState
  <2> USE <1>3 DEF ConsumerSetState, IInv, allVars, lastVars, stateVars
  <2>1. Types'
    BY DEF Types, Stage
  <2>2. Queued' /\ Running'
    <3>1. Queued'
      BY QueueSteps, Zenon DEF Queued
    <3>2. queue' # <<>>
      BY <3>1, QueueSteps DEF Queued
    <3> QED
      BY <3>1, <3>2 DEF Running, AllRows
  <2>3. Current'
    BY DEF Current, OtherRuns, Queued, Running, Rows
  <2>4. Headers' /\ Settled'
    BY DEF Headers, Settled
  <2> QED
    BY <2>1, <2>2, <2>3, <2>4
<1>4. CASE PollerSetState
  <2> USE <1>4 DEF PollerSetState, IInv, allVars, lastVars, stateVars
  <2>1. Types'
    BY DEF Types, Stage
  <2>2. Queued' /\ Running'
    <3>1. Queued'
      BY QueueSteps, Zenon DEF Queued
    <3>2. queue' # <<>>
      BY <3>1, QueueSteps DEF Queued
    <3> QED
      BY <3>1, <3>2 DEF Running, AllRows
  <2>3. Current'
    BY DEF Current, OtherRuns, Queued, Running, Rows
  <2>4. Headers' /\ Settled'
    BY DEF Headers, Settled
  <2> QED
    BY <2>1, <2>2, <2>3, <2>4
<1>5. CASE SetStateBegin
  <2> USE <1>5 DEF SetStateBegin, IInv, allVars, lastVars, stateVars, callerVars
  <2>1. Types'
    BY DEF Types
  <2>2. Queued' /\ Running'
    BY DEF Queued, Running
  <2>3. Current'
    BY DEF Current, Running, Rows
  <2>4. Headers'
    BY DEF Headers, Running
  <2>5. Settled'
    BY DEF Settled, Queued
  <2> QED
    BY <2>1, <2>2, <2>3, <2>4, <2>5
<1>6. CASE SetStateLastRound
  <2> USE <1>6 DEF SetStateLastRound, IInv, allVars, stateVars, callerVars
  <2>1. Types'
    BY DEF Types
  <2>2. Queued' /\ Running'
    BY DEF Queued, Running, AllRows, Types, Lists
  <2>3. Current'
    BY DEF Current, Rows, OtherRuns
  <2>4. Headers'
    BY DEF Headers
  <2>5. Settled'
    BY DEF Settled, Queued, Running
  <2> QED
    BY <2>1, <2>2, <2>3, <2>4, <2>5
<1>7. CASE createCells
  <2> USE <1>7 DEF createCells, IInv, lastVars, stateVars, callerVars
  <2>0. /\ Len(building) \in Nat /\ AllRows \in Nat
        /\ building' = Append(building, rounds) /\ Len(building') = Len(building) + 1
    BY DEF Types, Lists, AllRows, ReverseIter
  <2>1. Types'
    BY <2>0 DEF Types
  <2>2. Queued' /\ Running'
    BY <2>0 DEF Queued, Running, AllRows
  <2>3. Current'
    <3> SUFFICES ASSUME OtherRuns' PROVE Current'
      BY DEF Current
    <3>1. local = validators /\ building = Rows(Len(building))
          /\ TMValidators = validators /\ ConsensusError = consensusError
      BY DEF Current, OtherRuns
    <3>2. building' = Rows(Len(building) + 1)
      BY <2>0, <3>1, OneRowMore DEF Types
    <3> QED
      BY <2>0, <3>1, <3>2 DEF Current, Rows
  <2>4. Headers'
    <3>1. CASE building = <<>>
      <4>1. building'[1] = rounds
        BY <2>0, <3>1
      <4> QED
        BY <4>1 DEF Headers
    <3>2. CASE building # <<>>
      <4>1. building'[1] = building[1]
        BY <2>0, <3>2 DEF Types
      <4> QED
        BY <4>1, <3>2 DEF Headers
    <3> QED
      BY <3>1, <3>2
  <2>5. Settled'
    BY DEF Settled, Queued, Running
  <2> QED
    BY <2>1, <2>2, <2>3, <2>4, <2>5
<1>8. CASE SetStateEnd
  <2> USE <1>8 DEF SetStateEnd, Update, IInv, lastVars, stateVars
  <2>0. queue # <<>>
    BY DEF Running
  <2>1. Types'
    BY DEF Types, Stage, Lists
  <2>2. Queued'
    BY <2>0, QueueSteps, Zenon DEF Queued
  <2>3. Running' /\ Current'
    BY DEF Running, Current
  <2>4. Headers'
    <3>1. building # <<>> => local # <<>>
      BY DEF AllRows, Types
    <3> QED
      BY <3>1 DEF Headers
  <2>5. Settled'
    <3> SUFFICES ASSUME consumer' = "run", poller' = "run" PROVE Settled'
      BY DEF Settled
    <3>1. OtherRuns
      BY <2>0 DEF OtherRuns, Queued
    <3>2. /\ local = validators /\ building = Rows(AllRows)
          /\ TMValidators = validators /\ ConsensusError = consensusError
      BY <3>1 DEF Current
    <3>3. CASE validators = <<>>
      <4>1. building = <<>>
        BY <3>2, <3>3 DEF AllRows, Types
      <4> QED
        BY <3>2, <3>3, <4>1 DEF Settled
    <3>4. CASE validators # <<>>
      BY <3>2, <3>4 DEF Settled, AllRows, Rows
    <3> QED
      BY <3>3, <3>4
  <2> QED
    BY <2>1, <2>2, <2>3, <2>4, <2>5
<1>9. ASSUME UNCHANGED <<rounds, validators, consensusError, consumer, poller, queue, loop, local,
                         building, allCells, TMValidators, ConsensusError>>
      PROVE  IInv'
  BY <1>9 DEF IInv, Types, Queued, Running, AllRows, Current, OtherRuns, Rows, Headers, Settled
<1>10. CASE Keys
  BY <1>10, KeysLeave, <1>9
<1>11. CASE UNCHANGED vars
  BY <1>11, <1>9 DEF vars, stateVars, callerVars, lastVars, allVars
<1> QED
  BY <1>1, <1>2, <1>3, <1>4, <1>5, <1>6, <1>7, <1>8, <1>10, <1>11 DEF Next, Draw

--------------------------------------------------------------------------------
\* The tables are current whenever no writer is between its write and the return of
\* its SetState, however the updates and the writes interleave.
THEOREM SettledAlways == Spec => []Settled
<1>1. IInv => Settled
  BY DEF IInv
<1> QED
  BY InitIInv, IInvStep, <1>1, PTL DEF Spec

\* The header of the all-rounds table never shows a round State has not heard of and
\* never loses one: every step is a step of Screen, or leaves its variables alone.
THEOREM ImplementsScreen == Spec => Scr!SafeSpec
<1> DEFINE known == IF validators = <<>> THEN {} ELSE rounds
           shown == IF allCells = <<>> THEN {} ELSE allCells[1]
<1> USE DisplayAssumption
<1>1. Init => Scr!Init
  BY DEF Init, Scr!Init
<1>2. ASSUME IInv, IInv', [Next]_vars
      PROVE  [Scr!Next]_<<known, shown>>
  <2> USE <1>2 DEF IInv
  <2>1. ASSUME rounds \subseteq rounds', validators # <<>> => validators' # <<>>,
               UNCHANGED allCells
        PROVE  [Scr!Next]_<<known, shown>>
    <3>1. known' \in SUBSET Rounds /\ known \subseteq known' /\ UNCHANGED shown
      BY <2>1 DEF Types
    <3> QED
      BY <3>1 DEF Scr!Next, Scr!Learn
  <2>2. CASE SetStateEnd
    <3>1. UNCHANGED known
      BY <2>2 DEF SetStateEnd, stateVars
    <3>2. shown' \subseteq known
      BY <2>2 DEF SetStateEnd, Headers, stateVars
    <3>3. shown \subseteq shown'
      <4>1. CASE allCells = <<>>
        BY <4>1
      <4>2. CASE allCells # <<>>
        <5>1. building # <<>>
          BY <2>2, <4>2 DEF SetStateEnd, Headers, AllRows, Types, Lists
        <5> QED
          BY <2>2, <4>2, <5>1 DEF SetStateEnd, Update, Headers
      <4> QED
        BY <4>1, <4>2
    <3> QED
      BY <3>1, <3>2, <3>3 DEF Scr!Next, Scr!Show
  <2>3. CASE Keys
    BY <2>3, KeysLeave, <2>1
  <2>4. CASE RefreshConsensus
    BY <2>4, <2>1 DEF RefreshConsensus, allVars
  <2>5. CASE (\E r \in Rounds : AddCometBFTEvents(r)) \/ ConsumerSetState \/ PollerSetState
             \/ SetStateBegin \/ SetStateLastRound \/ createCells
    BY <2>5, <2>1 DEF AddCometBFTEvents, ConsumerSetState, PollerSetState, SetStateBegin,
                      SetStateLastRound, createCells, allVars, stateVars
  <2>6. CASE UNCHANGED vars
    BY <2>6, <2>1 DEF vars, stateVars, allVars
  <2> QED
    BY <2>2, <2>3, <2>4, <2>5, <2>6 DEF Next, Draw
<1> QED
  BY <1>1, <1>2, InitIInv, IInvStep, PTL DEF Spec, Scr!SafeSpec

--------------------------------------------------------------------------------
(* The last-round table.                                                   *)

\* The table whose fill goes by the rows it needs.
Ideal(vals, cols, transpose) ==
  LET rows == RowsNeeded(Len(vals), cols)
  IN  [row \in 1..rows |->
         [column \in 1..cols |->
            LET index == IF transpose THEN (column - 1) * rows + row
                                      ELSE (row - 1) * cols + column
            IN  IF index <= Len(vals) THEN vals[index] ELSE NULL]]

\* Products with one factor fixed, as linear facts.
LEMMA Products ==
  /\ \A q, p \in Int, w \in Nat : p + 1 <= q => p * w + w <= q * w
  /\ \A q, w \in Nat : q * w \in Nat
OBVIOUS

\* Division with remainder.
LEMMA DivMod ==
  ASSUME NEW x \in Nat, NEW w \in Nat \ {0}
  PROVE  x = w * (x \div w) + (x % w) /\ x % w \in 0..w - 1 /\ x \div w \in Nat
OBVIOUS

\* A position of a table w wide has one row and one column, and its row is one of the
\* m rows when it is among the first m * w positions.
LEMMA Place ==
  ASSUME NEW w \in Nat \ {0}, NEW i \in Nat \ {0}
  PROVE  \E q \in Nat, s \in 1..w :
           /\ i = q * w + s
           /\ \A p \in Nat, t \in 1..w : i = p * w + t => p = q /\ t = s
           /\ \A m \in Nat : i <= m * w => q + 1 <= m
<1> DEFINE q == (i - 1) \div w
           s == ((i - 1) % w) + 1
<1>1. i - 1 \in Nat
  OBVIOUS
<1>2. q \in Nat /\ s \in 1..w /\ i - 1 = w * q + ((i - 1) % w)
  <2>1. PICK x \in Nat : x = i - 1
    BY <1>1
  <2>2. (i - 1) % w \in 0..w - 1 /\ q \in Nat /\ i - 1 = w * q + ((i - 1) % w)
    BY <2>1, DivMod
  <2> QED
    BY <2>2
<1>3. w * q = q * w /\ q * w \in Nat
  BY <1>2
<1>4. i = q * w + s
  BY <1>2, <1>3
<1> HIDE DEF q, s
<1>5. ASSUME NEW p \in Nat, NEW t \in 1..w, i = p * w + t PROVE p = q /\ t = s
  <2>0. p * w \in Nat /\ q * w \in Nat
    BY <1>2, Products
  <2>1. ~(p + 1 <= q)
    <3> SUFFICES ASSUME p + 1 <= q PROVE FALSE
      OBVIOUS
    <3>1. p * w + w <= q * w
      BY <1>2, Products
    <3> QED
      BY <1>2, <1>4, <1>5, <2>0, <3>1
  <2>2. ~(q + 1 <= p)
    <3> SUFFICES ASSUME q + 1 <= p PROVE FALSE
      OBVIOUS
    <3>1. q * w + w <= p * w
      BY <1>2, Products
    <3> QED
      BY <1>2, <1>4, <1>5, <2>0, <3>1
  <2>3. p = q
    BY <1>2, <2>1, <2>2
  <2> QED
    BY <1>2, <1>4, <1>5, <2>0, <2>3
<1>6. ASSUME NEW m \in Nat, i <= m * w PROVE q + 1 <= m
  <2>0. m * w \in Nat /\ q * w \in Nat
    BY <1>2, Products
  <2> SUFFICES ASSUME ~(q + 1 <= m) PROVE FALSE
    OBVIOUS
  <2>1. m <= q
    BY <1>2
  <2>2. m * w <= q * w
    <3>1. CASE m = q
      BY <2>0, <3>1
    <3>2. CASE m + 1 <= q
      <4>1. m * w + w <= q * w
        BY <1>2, <3>2, Products
      <4> QED
        BY <2>0, <4>1
    <3> QED
      BY <1>2, <2>1, <3>1, <3>2
  <2> QED
    BY <1>2, <1>4, <1>6, <2>0, <2>2
<1> QED
  BY <1>2, <1>4, <1>5, <1>6

\* The rows a table needs hold all its entries.
LEMMA RowsEnough ==
  ASSUME NEW n \in Nat, NEW cols \in Nat \ {0}
  PROVE  /\ RowsNeeded(n, cols) \in Nat
         /\ n <= RowsNeeded(n, cols) * cols /\ n <= cols * RowsNeeded(n, cols)
<1> DEFINE d == n \div cols
           m == n % cols
<1>1. d \in Nat /\ m \in 0..cols - 1 /\ n = cols * d + m
  OBVIOUS
<1>2. RowsNeeded(n, cols) = IF m = 0 THEN d ELSE d + 1
  BY DEF RowsNeeded
<1> HIDE DEF d, m
<1>3. cols * d = d * cols /\ cols * (d + 1) = d * cols + cols /\ (d + 1) * cols = d * cols + cols
      /\ d * cols \in Nat
  BY <1>1
<1>4. CASE m = 0
  <2>1. n = d * cols /\ n = cols * d
    BY <1>1, <1>3, <1>4
  <2> QED
    BY <1>1, <1>2, <1>4, <2>1
<1>5. CASE m # 0
  <2>1. n <= (d + 1) * cols /\ n <= cols * (d + 1)
    BY <1>1, <1>3
  <2> QED
    BY <1>1, <1>2, <1>5, <2>1
<1> QED
  BY <1>4, <1>5

\* A list of the display, or the empty one.
LEMMA ListFacts ==
  ASSUME NEW l \in Lists
  PROVE  /\ Len(l) \in Nat /\ DOMAIN l = 1..Len(l)
         /\ \A i \in DOMAIN l : l[i] # NULL /\ \A j \in DOMAIN l : l[i] = l[j] => i = j
<1>1. CASE l = <<>>
  BY <1>1
<1>2. CASE l \in ValLists
  BY <1>2, DisplayAssumption
<1> QED
  BY <1>1, <1>2 DEF Lists

\* Filled by the rows it needs, the table has every entry in one cell.
LEMMA IdealComplete ==
  ASSUME NEW vals \in Lists, NEW cols \in Nat \ {0}, NEW transpose \in BOOLEAN,
         NEW i \in DOMAIN vals
  PROVE  Cardinality({rc \in (DOMAIN Ideal(vals, cols, transpose)) \X (1..cols) :
                        Ideal(vals, cols, transpose)[rc[1]][rc[2]] = vals[i]}) = 1
<1> DEFINE rows == RowsNeeded(Len(vals), cols)
           index(row, column) == IF transpose THEN (column - 1) * rows + row
                                              ELSE (row - 1) * cols + column
           cells == Ideal(vals, cols, transpose)
           Where == {rc \in (DOMAIN cells) \X (1..cols) : cells[rc[1]][rc[2]] = vals[i]}
<1>1. /\ Len(vals) \in Nat /\ i \in Nat \ {0} /\ i \in 1..Len(vals) /\ vals[i] # NULL
      /\ \A j \in 1..Len(vals) : vals[i] = vals[j] => i = j
  BY ListFacts
<1>2. rows \in Nat /\ Len(vals) <= rows * cols /\ Len(vals) <= cols * rows
  BY <1>1, RowsEnough
<1>3. /\ DOMAIN cells = 1..rows
      /\ \A row \in 1..rows, column \in 1..cols :
           cells[row][column] = IF index(row, column) <= Len(vals) THEN vals[index(row, column)]
                                                                   ELSE NULL
  BY DEF Ideal
<1> HIDE DEF rows, cells
<1>4. i <= rows * cols /\ i <= cols * rows
  <2>1. rows * cols \in Int /\ cols * rows \in Int
    BY <1>2
  <2> QED
    BY <1>1, <1>2, <2>1
<1>5. \E r \in 1..rows, k \in 1..cols :
        /\ i = index(r, k)
        /\ \A row \in 1..rows, column \in 1..cols : i = index(row, column) => row = r /\ column = k
  <2>1. CASE transpose
    <3>0. rows # 0
      <4>1. cols * 0 = 0
        OBVIOUS
      <4> QED
        BY <1>1, <1>4, <4>1
    <3>1. PICK q \in Nat, s \in 1..rows :
            /\ i = q * rows + s
            /\ \A p \in Nat, t \in 1..rows : i = p * rows + t => p = q /\ t = s
            /\ \A m \in Nat : i <= m * rows => q + 1 <= m
      BY <1>1, <1>2, <3>0, Place
    <3>2. q + 1 \in 1..cols /\ (q + 1) - 1 = q
      BY <1>4, <3>1
    <3>3. i = index(s, q + 1)
      BY <2>1, <3>1, <3>2
    <3>4. ASSUME NEW row \in 1..rows, NEW column \in 1..cols, i = index(row, column)
          PROVE  row = s /\ column = q + 1
      <4>1. column - 1 \in Nat /\ i = (column - 1) * rows + row
        BY <2>1, <3>4
      <4>2. column - 1 = q /\ row = s
        BY <3>1, <4>1
      <4> QED
        BY <4>2
    <3> QED
      BY <3>2, <3>3, <3>4
  <2>2. CASE ~transpose
    <3>1. PICK q \in Nat, s \in 1..cols :
            /\ i = q * cols + s
            /\ \A p \in Nat, t \in 1..cols : i = p * cols + t => p = q /\ t = s
            /\ \A m \in Nat : i <= m * cols => q + 1 <= m
      BY <1>1, Place
    <3>2. q + 1 \in 1..rows /\ (q + 1) - 1 = q
      BY <1>2, <1>4, <3>1
    <3>3. i = index(q + 1, s)
      BY <2>2, <3>1, <3>2
    <3>4. ASSUME NEW row \in 1..rows, NEW column \in 1..cols, i = index(row, column)
          PROVE  row = q + 1 /\ column = s
      <4>1. row - 1 \in Nat /\ i = (row - 1) * cols + column
        BY <1>2, <2>2, <3>4
      <4>2. row - 1 = q /\ column = s
        BY <3>1, <4>1
      <4> QED
        BY <1>2, <4>2
    <3> QED
      BY <3>2, <3>3, <3>4
  <2> QED
    BY <2>1, <2>2
<1>6. \A row \in 1..rows, column \in 1..cols : index(row, column) \in Nat \ {0}
  <2> SUFFICES ASSUME NEW row \in 1..rows, NEW column \in 1..cols
               PROVE  index(row, column) \in Nat \ {0}
    OBVIOUS
  <2>1. row - 1 \in Nat /\ column - 1 \in Nat
    BY <1>2
  <2>2. (column - 1) * rows \in Nat /\ (row - 1) * cols \in Nat
    BY <1>2, <2>1, Products
  <2> QED
    BY <1>2, <2>2
<1>7. \A row \in 1..rows, column \in 1..cols : cells[row][column] = vals[i] <=> i = index(row, column)
  <2> SUFFICES ASSUME NEW row \in 1..rows, NEW column \in 1..cols
               PROVE  cells[row][column] = vals[i] <=> i = index(row, column)
    OBVIOUS
  <2>1. PICK x \in Nat \ {0} : x = index(row, column)
    BY <1>6
  <2>2. cells[row][column] = IF x <= Len(vals) THEN vals[x] ELSE NULL
    BY <1>3, <2>1
  <2>3. cells[row][column] = vals[i] <=> i = x
    BY <1>1, <2>2
  <2> QED
    BY <2>1, <2>3
<1> HIDE DEF index
<1>8. PICK r \in 1..rows, k \in 1..cols :
        /\ i = index(r, k)
        /\ \A row \in 1..rows, column \in 1..cols : i = index(row, column) => row = r /\ column = k
  BY <1>5
<1>9. Where = {<<r, k>>}
  <2>1. \A rc \in (1..rows) \X (1..cols) : cells[rc[1]][rc[2]] = vals[i] <=> rc = <<r, k>>
    BY <1>7, <1>8
  <2> QED
    BY <1>3, <2>1
<1>10. Cardinality(Where) = 1
  BY <1>9, FS_Singleton
<1> QED
  BY <1>10 DEF cells

\* A fill makes the rows it needs, whatever table it replaces.
LEMMA FillLength ==
  ASSUME NEW vals \in Lists, NEW cols \in Nat \ {0}, NEW transpose, NEW cells
  PROVE  Len(makeCells(vals, FALSE, cols, transpose, cells)) = RowsNeeded(Len(vals), cols)
<1> DEFINE rows == RowsNeeded(Len(vals), cols)
<1>1. rows \in Nat
  BY ListFacts, RowsEnough
<1>2. DOMAIN makeCells(vals, FALSE, cols, transpose, cells) = 1..rows
  BY DEF makeCells
<1>3. Len(makeCells(vals, FALSE, cols, transpose, cells)) = rows
  <2> HIDE DEF rows
  <2> QED
    BY <1>1 DEF makeCells, rows
<1> QED
  BY <1>3

\* A fill by rows, or one that replaces a table of as many rows, is ideal.
LEMMA FillIdeal ==
  ASSUME NEW vals \in Lists, NEW cols \in Nat \ {0}, NEW transpose \in BOOLEAN, NEW cells,
         transpose => Len(cells) = RowsNeeded(Len(vals), cols)
  PROVE  makeCells(vals, FALSE, cols, transpose, cells) = Ideal(vals, cols, transpose)
<1>1. CASE transpose
  BY <1>1 DEF makeCells, Ideal
<1>2. CASE ~transpose
  BY <1>2 DEF makeCells, Ideal
<1> QED
  BY <1>1, <1>2

--------------------------------------------------------------------------------
(* The layout and the tables under a step.                                 *)

\* Without an error the last-round table has the rows it needs, and it is ideal unless
\* its columns changed under a transposed fill.
Table ==
  /\ ConsensusError = FALSE => Len(lastCells) = RowsNeeded(Len(TMValidators), ColumnsCount)
  /\ ConsensusError = FALSE /\ resized = FALSE =>
       lastCells = Ideal(TMValidators, ColumnsCount, Transpose)

TableTypes ==
  /\ TMValidators \in Lists /\ ConsensusError \in BOOLEAN /\ consensusError \in BOOLEAN
  /\ ColumnsCount \in 1..MaxColumns /\ Transpose \in BOOLEAN /\ resized \in BOOLEAN

Bounds ==
  /\ paused \in BOOLEAN /\ polls \in 0..MaxPolls /\ keys \in 0..MaxKeys
  /\ allCells # <<>> => \E l \in ValLists : Len(allCells) = Len(l) + 1

Layout ==
  /\ Mode \in Modes /\ overlays \subseteq Overlays /\ InfoBlockWidth \in 1..RowsAmount
  /\ grid \in Seq(Modes) /\ grid[Len(grid)] = Mode
  /\ focus = IF "rpclist" \in overlays THEN "rpclist" ELSE Mode

TInv == IInv /\ Table /\ TableTypes /\ Bounds /\ Layout

\* Columns that a width gives are within the bound.
LEMMA ColumnsBound ==
  ASSUME NEW width \in Widths, NEW cols \in 1..MaxColumns
  PROVE  ColumnsFor(width, cols) \in 1..MaxColumns
<1>1. /\ width \in Nat /\ MaxColumns \in Nat /\ width \div 50 <= MaxColumns
      /\ DefaultColumnsCount \in 1..MaxColumns
  BY DisplayAssumption
<1>2. width \div 50 \in Int /\ 1 \in 1..MaxColumns
  BY <1>1
<1> QED
  BY <1>1, <1>2 DEF ColumnsFor

\* A redraw puts the mode's widget on top.
LEMMA RedrawTops ==
  ASSUME Layout, NEW mode \in Modes, NEW overs, Redraw(mode, overs)
  PROVE  /\ grid' \in Seq(Modes) /\ grid'[Len(grid')] = mode
         /\ focus' = IF "rpclist" \in overs THEN "rpclist" ELSE mode
<1> DEFINE J == {j \in DOMAIN grid : grid[j] = "NetInfo"}
           n == Cardinality(J)
<1>1. IsFiniteSet(1..Len(grid)) /\ DOMAIN grid = 1..Len(grid)
  BY FS_Interval DEF Layout
<1>2. n \in Nat
  <2>1. J \subseteq 1..Len(grid)
    BY <1>1
  <2>2. IsFiniteSet(J)
    BY <1>1, <2>1, FS_Subset
  <2> QED
    BY <2>2, FS_CardinalityType
<1>3. Kept = [i \in 1..n |-> "NetInfo"]
  BY DEF Kept
<1> HIDE DEF n
<1>4. Kept \in Seq(Modes)
  BY <1>2, <1>3 DEF Modes
<1>5. grid' = Append(Kept, mode)
  BY DEF Redraw
<1> QED
  BY <1>4, <1>5 DEF Redraw

\* SetColumnsCount keeps the table.
LEMMA SetColumnsCountKeeps ==
  ASSUME TableTypes, Table, NEW n \in 1..MaxColumns, SetColumnsCount(n), UNCHANGED consensusError
  PROVE  TableTypes' /\ Table'
<1>0. n \in Nat \ {0} /\ ColumnsCount \in Nat \ {0} /\ TMValidators \in Lists
  BY DisplayAssumption DEF TableTypes
<1>1. TableTypes'
  BY DEF TableTypes, SetColumnsCount
<1>2. ASSUME ConsensusError' = FALSE PROVE lastCells' = makeCells(TMValidators, FALSE, n, Transpose, lastCells)
  BY <1>2 DEF SetColumnsCount
<1>3. ASSUME ConsensusError' = FALSE PROVE Len(lastCells') = RowsNeeded(Len(TMValidators'), ColumnsCount')
  BY <1>0, <1>2, <1>3, FillLength DEF SetColumnsCount
<1>4. ASSUME ConsensusError' = FALSE, resized' = FALSE
      PROVE  lastCells' = Ideal(TMValidators', ColumnsCount', Transpose')
  <2>1. Transpose => n = ColumnsCount
    BY <1>4 DEF SetColumnsCount
  <2>2. Transpose => Len(lastCells) = RowsNeeded(Len(TMValidators), n)
    BY <1>4, <2>1 DEF SetColumnsCount, Table
  <2>3. makeCells(TMValidators, FALSE, n, Transpose, lastCells) = Ideal(TMValidators, n, Transpose)
    BY <1>0, <2>2, FillIdeal DEF TableTypes
  <2> QED
    BY <1>2, <1>4, <2>3 DEF SetColumnsCount
<1> QED
  BY <1>1, <1>3, <1>4 DEF Table

\* Every step keeps the last-round table.
LEMMA TableStep ==
  ASSUME IInv, TableTypes, Table, Next
  PROVE  TableTypes' /\ Table'
<1>0. /\ ColumnsCount \in Nat \ {0} /\ TMValidators \in Lists /\ local \in Lists
      /\ MaxColumns \in Nat
  BY DisplayAssumption DEF TableTypes, IInv, Types
<1>1. CASE UNCHANGED lastVars /\ consensusError' \in BOOLEAN
  BY <1>1, Zenon DEF lastVars, TableTypes, Table
<1>2. CASE SetStateLastRound
  <2> DEFINE Fill(cells) == makeCells(local, consensusError, ColumnsCount, Transpose, cells)
  <2>1. /\ TMValidators' = local /\ ConsensusError' = consensusError /\ resized' = FALSE
        /\ lastCells' = Fill(Fill(Fill(lastCells)))
        /\ UNCHANGED <<ColumnsCount, Transpose, consensusError>>
    BY <1>2 DEF SetStateLastRound, stateVars
  <2>2. TableTypes'
    BY <1>0, <2>1, Zenon DEF TableTypes
  <2>3. ASSUME consensusError = FALSE
        PROVE  /\ Len(lastCells') = RowsNeeded(Len(local), ColumnsCount)
               /\ lastCells' = Ideal(local, ColumnsCount, Transpose)
    <3> DEFINE two == Fill(Fill(lastCells))
    <3>1. Len(two) = RowsNeeded(Len(local), ColumnsCount)
      BY <1>0, <2>3, FillLength
    <3>2. lastCells' = makeCells(local, FALSE, ColumnsCount, Transpose, two)
      BY <2>1, <2>3
    <3> HIDE DEF two
    <3>3. lastCells' = Ideal(local, ColumnsCount, Transpose)
      BY <1>0, <3>1, <3>2, FillIdeal DEF TableTypes
    <3>4. Len(lastCells') = RowsNeeded(Len(local), ColumnsCount)
      BY <1>0, <3>2, FillLength
    <3> QED
      BY <3>3, <3>4
  <2>4. Table'
    BY <2>1, <2>3, Zenon DEF Table
  <2> QED
    BY <2>2, <2>4
<1>3. ASSUME NEW n \in 1..MaxColumns, SetColumnsCount(n), UNCHANGED consensusError
      PROVE  TableTypes' /\ Table'
  BY <1>3, SetColumnsCountKeeps
<1>4. ASSUME NEW increase \in BOOLEAN, ChangeColumnsCount(increase) PROVE TableTypes' /\ Table'
  <2>1. (IF increase THEN ColumnsCount + 1 ELSE OneLess(ColumnsCount)) \in 1..MaxColumns
    BY <1>0, <1>4 DEF ChangeColumnsCount, OneLess, TableTypes
  <2> QED
    BY <1>3, <1>4, <2>1, Zenon DEF ChangeColumnsCount, Key, stateVars
<1>5. CASE SetTranspose
  <2>1. /\ Transpose' = ~Transpose /\ resized' = FALSE
        /\ UNCHANGED <<TMValidators, ConsensusError, ColumnsCount, consensusError>>
        /\ lastCells' = makeCells(TMValidators, ConsensusError, ColumnsCount, Transpose', lastCells)
    BY <1>5, Zenon DEF SetTranspose, Key, stateVars
  <2>2. Transpose' \in BOOLEAN
    BY <2>1, Zenon
  <2>3. TableTypes'
    BY <2>1, <2>2, Zenon DEF TableTypes
  <2>4. ASSUME ConsensusError = FALSE
        PROVE  /\ Len(lastCells') = RowsNeeded(Len(TMValidators), ColumnsCount)
               /\ lastCells' = Ideal(TMValidators, ColumnsCount, Transpose')
    <3>1. Len(lastCells) = RowsNeeded(Len(TMValidators), ColumnsCount)
      BY <2>4 DEF Table
    <3>2. lastCells' = makeCells(TMValidators, FALSE, ColumnsCount, Transpose', lastCells)
      BY <2>1, <2>4
    <3>3. lastCells' = Ideal(TMValidators, ColumnsCount, Transpose')
      BY <1>0, <2>2, <3>1, <3>2, FillIdeal
    <3>4. Len(lastCells') = RowsNeeded(Len(TMValidators), ColumnsCount)
      BY <1>0, <3>2, FillLength
    <3> QED
      BY <3>3, <3>4
  <2>5. Table'
    BY <2>1, <2>4, Zenon DEF Table
  <2> QED
    BY <2>3, <2>5
<1>6. CASE ChangeMode
  <2>1. UNCHANGED consensusError
    BY <1>6, Zenon DEF ChangeMode, Key, stateVars
  <2>2. ASSUME NEW width \in Widths, SetColumnsCount(ColumnsFor(width, ColumnsCount))
        PROVE  TableTypes' /\ Table'
    <3>1. ColumnsFor(width, ColumnsCount) \in 1..MaxColumns
      BY ColumnsBound DEF TableTypes
    <3> QED
      BY <1>3, <2>1, <2>2, <3>1
  <2>3. UNCHANGED lastVars \/ \E width \in Widths : SetColumnsCount(ColumnsFor(width, ColumnsCount))
    BY <1>6, Zenon DEF ChangeMode
  <2>4. consensusError' \in BOOLEAN
    BY <2>1, Zenon DEF TableTypes
  <2> QED
    BY <1>1, <2>2, <2>3, <2>4, Zenon
<1>7. CASE RefreshConsensus
  <2>1. UNCHANGED lastVars /\ consensusError' \in {TRUE, FALSE}
    BY <1>7, Zenon DEF RefreshConsensus
  <2>2. consensusError' \in BOOLEAN
    BY <2>1, Zenon
  <2> QED
    BY <1>1, <2>1, <2>2, Zenon
<1>8. ASSUME UNCHANGED <<lastVars, consensusError>> PROVE TableTypes' /\ Table'
  <2>1. consensusError' \in BOOLEAN
    BY <1>8, Zenon DEF TableTypes
  <2> QED
    BY <1>1, <1>8, <2>1, Zenon
<1> QED
  BY <1>2, <1>4, <1>5, <1>6, <1>7, <1>8, Zenon
  DEF Next, Draw, Keys, AddCometBFTEvents, ConsumerSetState, PollerSetState, SetStateBegin,
      createCells, SetStateEnd, Toggle, ChangeInfoBlockHeight, Pause, Key, stateVars

\* Every step keeps the bounds; an all-rounds table has the rows of a validator list.
LEMMA BoundsStep ==
  ASSUME IInv, Bounds, Next
  PROVE  Bounds'
<1>0. MaxPolls \in Nat /\ MaxKeys \in Nat
  BY DisplayAssumption
<1> DEFINE RowsOfList == allCells # <<>> => \E l \in ValLists : Len(allCells) = Len(l) + 1
<1>1. RowsOfList'
  <2>1. CASE UNCHANGED allCells
    BY <2>1, Zenon DEF Bounds
  <2>2. CASE SetStateEnd
    <3>1. allCells' = building /\ Len(building) = AllRows
      BY <2>2 DEF SetStateEnd, Update
    <3>2. CASE local = <<>>
      <4>1. building = <<>>
        BY <3>1, <3>2 DEF AllRows, IInv, Types
      <4> QED
        BY <3>1, <4>1
    <3>3. CASE local # <<>>
      <4>1. local \in ValLists /\ Len(building) = Len(local) + 1
        BY <3>1, <3>3 DEF AllRows, IInv, Types, Lists
      <4> QED
        BY <3>1, <4>1
    <3> QED
      BY <3>2, <3>3
  <2> QED
    BY <2>1, <2>2, KeysLeave, Zenon
    DEF Next, Draw, AddCometBFTEvents, RefreshConsensus, ConsumerSetState, PollerSetState,
        SetStateBegin, SetStateLastRound, createCells, allVars
<1>2. paused' \in BOOLEAN
  <2>1. CASE UNCHANGED paused
    BY <2>1, Zenon DEF Bounds
  <2>2. CASE paused' = ~paused
    BY <2>2, Zenon
  <2> QED
    BY <2>1, <2>2, Zenon
    DEF Next, Draw, Keys, AddCometBFTEvents, RefreshConsensus, ConsumerSetState, PollerSetState,
        SetStateBegin, SetStateLastRound, createCells, SetStateEnd, Toggle,
        ChangeInfoBlockHeight, ChangeColumnsCount, SetTranspose, Pause, ChangeMode, layoutVars
<1>3. polls' \in 0..MaxPolls
  <2>1. CASE RefreshConsensus
    BY <1>0, <2>1 DEF RefreshConsensus, Bounds
  <2>2. CASE UNCHANGED polls
    BY <2>2, Zenon DEF Bounds
  <2> QED
    BY <2>1, <2>2, Zenon
    DEF Next, Draw, Keys, AddCometBFTEvents, ConsumerSetState, PollerSetState, SetStateBegin,
        SetStateLastRound, createCells, SetStateEnd, Toggle, ChangeInfoBlockHeight,
        ChangeColumnsCount, SetTranspose, Pause, ChangeMode, Key
<1>4. keys' \in 0..MaxKeys
  <2>1. CASE Key
    BY <1>0, <2>1 DEF Key, Bounds
  <2>2. CASE UNCHANGED keys
    BY <2>2, Zenon DEF Bounds
  <2> QED
    BY <2>1, <2>2, Zenon
    DEF Next, Draw, Keys, AddCometBFTEvents, RefreshConsensus, ConsumerSetState, PollerSetState,
        SetStateBegin, SetStateLastRound, createCells, SetStateEnd, Toggle,
        ChangeInfoBlockHeight, ChangeColumnsCount, SetTranspose, Pause, ChangeMode
<1> QED
  BY <1>1, <1>2, <1>3, <1>4, Zenon DEF Bounds

\* Every step keeps the layout.
LEMMA LayoutStep ==
  ASSUME Layout, Next
  PROVE  Layout'
<1>0. RowsAmount \in Nat /\ DebugBlockHeight \in Nat /\ RowsAmount >= 2
  BY DisplayAssumption
<1>1. CASE UNCHANGED layoutVars
  BY <1>1, Zenon DEF layoutVars, Layout
<1>2. ASSUME Mode' \in Modes, overlays' \subseteq Overlays, InfoBlockWidth' \in 1..RowsAmount,
             Redraw(Mode', overlays')
      PROVE  Layout'
  <2>1. /\ grid' \in Seq(Modes) /\ grid'[Len(grid')] = Mode'
        /\ focus' = IF "rpclist" \in overlays' THEN "rpclist" ELSE Mode'
    BY <1>2, RedrawTops
  <2> QED
    BY <1>2, <2>1 DEF Layout
<1>3. /\ Mode \in Modes /\ overlays \subseteq Overlays /\ InfoBlockWidth \in 1..RowsAmount
  BY DEF Layout
<1>4. ASSUME NEW o \in Overlays, Toggle(o) PROVE Layout'
  <2>1. /\ overlays' \subseteq Overlays
        /\ Mode' = Mode /\ InfoBlockWidth' = InfoBlockWidth /\ Redraw(Mode, overlays')
    BY <1>3, <1>4 DEF Toggle
  <2> QED
    BY <1>2, <1>3, <2>1
<1>5. ASSUME NEW increase \in BOOLEAN, ChangeInfoBlockHeight(increase) PROVE Layout'
  <2>1. InfoBlockWidth' \in 1..RowsAmount
    BY <1>0, <1>3, <1>5 DEF ChangeInfoBlockHeight, OneLess
  <2>2. Mode' = Mode /\ overlays' = overlays /\ Redraw(Mode, overlays)
    BY <1>5 DEF ChangeInfoBlockHeight
  <2> QED
    BY <1>2, <1>3, <2>1, <2>2
<1>6. ASSUME NEW increase \in BOOLEAN, ChangeColumnsCount(increase) PROVE Layout'
  <2>1. /\ Mode' = Mode /\ overlays' = overlays /\ InfoBlockWidth' = InfoBlockWidth
        /\ Redraw(Mode, overlays)
    BY <1>6, Zenon DEF ChangeColumnsCount
  <2> QED
    BY <1>2, <1>3, <2>1
<1>7. CASE ChangeMode
  <2>1. /\ Mode' = NextMode[Mode] /\ overlays' = overlays /\ InfoBlockWidth' = InfoBlockWidth
        /\ Redraw(Mode', overlays)
    BY <1>7, Zenon DEF ChangeMode
  <2>2. NextMode[Mode] \in Modes
    BY <1>3 DEF Modes, NextMode
  <2> QED
    BY <1>2, <1>3, <2>1, <2>2
<1> QED
  BY <1>1, <1>4, <1>5, <1>6, <1>7, Zenon
  DEF Next, Draw, Keys, AddCometBFTEvents, RefreshConsensus, ConsumerSetState, PollerSetState,
      SetStateBegin, SetStateLastRound, createCells, SetStateEnd, SetTranspose, Pause

\* The initial states satisfy the invariant of tables and layout.
LEMMA InitTInv == Init => TInv
<1> SUFFICES ASSUME Init PROVE TInv
  OBVIOUS
<1>1. IInv
  BY InitIInv
<1>2. ColumnsCount \in 1..MaxColumns /\ ColumnsCount \in Nat \ {0} /\ MaxColumns \in Nat
  <2>1. PICK width \in Widths : ColumnsCount = ColumnsFor(width, DefaultColumnsCount)
    BY Zenon DEF Init
  <2>2. ColumnsCount \in 1..MaxColumns
    BY <2>1, ColumnsBound, DisplayAssumption
  <2> QED
    BY <2>2, DisplayAssumption
<1>3. TableTypes
  BY <1>2, Zenon DEF Init, TableTypes, Lists
<1>4. Table
  <2>1. RowsNeeded(0, ColumnsCount) = 0
    <3>1. 0 % ColumnsCount = 0 /\ 0 \div ColumnsCount = 0
      BY <1>2
    <3> QED
      BY <3>1 DEF RowsNeeded
  <2>2. lastCells = <<>> /\ TMValidators = <<>> /\ Len(<<>>) = 0
    BY DEF Init
  <2>3. Len(lastCells) = RowsNeeded(Len(TMValidators), ColumnsCount)
    BY <2>1, <2>2
  <2>4. Ideal(TMValidators, ColumnsCount, Transpose) = <<>>
    <3>1. DOMAIN Ideal(TMValidators, ColumnsCount, Transpose) = {}
      BY <2>1, <2>2 DEF Ideal
    <3> QED
      BY <2>1, <2>2, <3>1 DEF Ideal
  <2> QED
    BY <2>2, <2>3, <2>4 DEF Table
<1>5. Bounds
  <2>1. 0 \in 0..MaxPolls /\ 0 \in 0..MaxKeys
    BY DisplayAssumption
  <2> QED
    BY <2>1, Zenon DEF Init, Bounds
<1>6. Layout
  <2>1. 2 \in 1..RowsAmount
    BY DisplayAssumption
  <2>2. grid \in Seq(Modes) /\ grid[Len(grid)] = "AllRounds" /\ "AllRounds" \in Modes
    BY DEF Init, Modes
  <2> QED
    BY <2>1, <2>2 DEF Init, Layout
<1> QED
  BY <1>1, <1>3, <1>4, <1>5, <1>6 DEF TInv

\* Every step keeps the invariant of tables and layout.
LEMMA TInvStep == TInv /\ [Next]_vars => TInv'
<1> SUFFICES ASSUME TInv, [Next]_vars PROVE TInv'
  OBVIOUS
<1>0. IInv /\ Table /\ TableTypes /\ Bounds /\ Layout /\ IInv'
  BY IInvStep DEF TInv
<1>1. CASE Next
  BY <1>0, <1>1, TableStep, BoundsStep, LayoutStep, Zenon DEF TInv
<1>2. CASE UNCHANGED vars
  <2> USE DEF vars, stateVars, lastVars, allVars, layoutVars
  <2>1. Table' /\ TableTypes'
    BY <1>0, <1>2, Zenon DEF Table, TableTypes
  <2>2. Bounds'
    BY <1>0, <1>2, Zenon DEF Bounds
  <2>3. Layout'
    BY <1>0, <1>2, Zenon DEF Layout
  <2> QED
    BY <1>0, <2>1, <2>2, <2>3 DEF TInv
<1> QED
  BY <1>1, <1>2

\* Type correctness: whatever keys come, the columns and the info block stay at one or
\* more and within their bounds, the mode's widget is on top of the grid, the RPC list
\* has the focus exactly while it is displayed, and no caller of SetState is queued twice.
THEOREM TypeCorrect == Spec => []TypeOK
<1>1. TInv => TypeOK
  <2> SUFFICES ASSUME TInv PROVE TypeOK
    OBVIOUS
  <2>1. /\ rounds \subseteq Rounds /\ validators \in ValLists \cup {<<>>}
        /\ local \in ValLists \cup {<<>>} /\ TMValidators \in ValLists \cup {<<>>}
        /\ consumer \in {"run", "written", "wait"} /\ poller \in {"run", "written", "wait"}
        /\ loop \in {"idle", "lastRound", "allRounds"}
    BY DEF TInv, IInv, Types, Lists, Stage, TableTypes
  <2>2. queue \in {<<>>, <<"consumer">>, <<"poller">>, <<"consumer", "poller">>, <<"poller", "consumer">>}
    BY Zenon DEF TInv, IInv, Queued
  <2>3. Len(building) <= Len(local) + 1
    <3>1. Len(local) \in Nat /\ Len(building) \in Nat
      BY ListFacts DEF TInv, IInv, Types
    <3>2. CASE loop = "allRounds"
      BY <3>1, <3>2 DEF TInv, IInv, Running, AllRows
    <3>3. CASE loop # "allRounds"
      BY <3>1, <3>3 DEF TInv, IInv, Running
    <3> QED
      BY <3>2, <3>3
  <2>4. TableTypes /\ Bounds /\ Layout
    BY DEF TInv
  <2> QED
    BY <2>1, <2>2, <2>3, <2>4, Zenon DEF TypeOK, TableTypes, Bounds, Layout
<1> QED
  BY InitTInv, TInvStep, <1>1, PTL DEF Spec

\* The last-round table shows every validator in exactly one cell, for every number of
\* validators and columns and in both orders of filling, unless its columns changed while
\* it was transposed and no update has come since.
THEOREM EveryValidatorOnce == Spec => []LastRoundComplete
<1>1. TInv => LastRoundComplete
  <2> SUFFICES ASSUME TInv, ~ConsensusError, ~resized, NEW i \in DOMAIN TMValidators
               PROVE  Cardinality({rc \in (DOMAIN lastCells) \X (1..ColumnsCount) :
                                     lastCells[rc[1]][rc[2]] = TMValidators[i]}) = 1
    BY DEF LastRoundComplete
  <2>1. ConsensusError = FALSE /\ resized = FALSE
    BY DEF TInv, TableTypes
  <2>2. lastCells = Ideal(TMValidators, ColumnsCount, Transpose)
    BY <2>1 DEF TInv, Table
  <2>3. TMValidators \in Lists /\ ColumnsCount \in Nat \ {0} /\ Transpose \in BOOLEAN
    BY DisplayAssumption DEF TInv, TableTypes
  <2> QED
    BY <2>2, <2>3, IdealComplete
<1> QED
  BY InitTInv, TInvStep, <1>1, PTL DEF Spec
================================================================================
