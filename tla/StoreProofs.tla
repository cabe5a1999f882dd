------------------------------ MODULE StoreProofs ------------------------------
(***************************************************************************)
(* For every chain, every set of validators, both retention settings and   *)
(* any number of failing statements: the tables keep their types, a height *)
(* never shows two proposers, and a cleanup deletes no row that lies       *)
(* within the retention windows when the statement runs, whichever order   *)
(* the heights are stored in.                                              *)
(***************************************************************************)
EXTENDS ConsensusStore, FiniteSetTheorems, WellFoundedInduction, TLAPS

\* The consumer works on the head of its batch.
Working == consumer # "idle" => batch # <<>>

\* Two flags of one height are one.
OneFlag ==
  \A h \in Heights, v \in Validators, w \in Validators :
    snapshots[<<h, v>>] = "true" /\ snapshots[<<h, w>>] = "true" => v = w

\* Between the two UPDATEs of updateProposerInSnapshots no flag of the height is set:
\* the poller, the only other writer of the rows, resets flags and sets none.
Cleared ==
  consumer = "set" =>
    \A v \in Validators : snapshots[<<Head(batch).at[1], v>>] # "true"

\* No RPC is ahead of the chain; the heights come in no order.
Bounded == polled[1] <= tip[1] /\ \A h \in heights : h <= tip[1]

FreshStored == fresh \subseteq heights

\* What RetainedNeverDeleted speaks of.
Retained(h) == InWindows(h) /\ (RetainDays => h \notin late)

\* The cutoff of a running pass, although it is old: it lies below every height that
\* is retained now, and without MaxRetainDays below the block window, which only moves
\* up: a height that the poller adds in between is retained only above it.
CutoffSafe ==
  cleaner # "idle" =>
    /\ heights # {} /\ cutoff <= Max(heights)
    /\ ~RetainDays => MaxRetainBlocks > 0 /\ cutoff <= BlockCutoff
    /\ \A h \in heights : Retained(h) => h >= cutoff

Typed == TypeOK /\ Working
Flags == OneFlag /\ Cleared
Cutoffs == Bounded /\ FreshStored /\ CutoffSafe

IInv == Typed /\ Flags /\ Cutoffs

--------------------------------------------------------------------------------
(* Maxima and minima.                                                      *)

\* A nonempty set of natural numbers has a least element.
LEMMA LeastNat ==
  ASSUME NEW T, T \subseteq Nat, T # {}
  PROVE  \E m \in T : \A n \in T : m <= n
<1>1. PICK m \in T : \A n \in T : ~(<<n, m>> \in OpToRel(<, Nat))
  BY NatLessThanWellFounded, WFMin
<1>2. \A n \in T : ~(n < m)
  BY <1>1 DEF OpToRel
<1> QED
  BY <1>2

\* Max of a bounded set of natural numbers is its greatest element.
LEMMA MaxNat ==
  ASSUME NEW T, T \subseteq Nat, T # {}, NEW b \in Nat, \A n \in T : n <= b
  PROVE  Max(T) \in T /\ Max(T) \in Nat /\ \A n \in T : n <= Max(T)
<1> DEFINE B == {n \in Nat : \A t \in T : t <= n}
<1>1. PICK m \in B : \A n \in B : m <= n
  BY LeastNat
<1>2. m \in T
  <2> SUFFICES ASSUME m \notin T PROVE FALSE
    OBVIOUS
  <2>1. PICK t \in T : TRUE
    OBVIOUS
  <2>2. m - 1 \in Nat /\ \A n \in T : n <= m - 1
    BY <2>1
  <2> QED
    BY <1>1, <2>2
<1>3. \E x \in T : \A y \in T : x >= y
  BY <1>2
<1>4. Max(T) \in T /\ \A n \in T : Max(T) >= n
  BY <1>3 DEF Max
<1>5. Max(T) \in Nat
  BY <1>4, Zenon
<1> QED
  BY <1>4, <1>5

\* Min of a nonempty set of natural numbers is its least element.
LEMMA MinNat ==
  ASSUME NEW T, T \subseteq Nat, T # {}
  PROVE  Min(T) \in T /\ Min(T) \in Nat /\ \A n \in T : Min(T) <= n
<1>1. \E x \in T : \A y \in T : x =< y
  BY LeastNat
<1>2. Min(T) \in T /\ \A n \in T : Min(T) <= n
  BY <1>1 DEF Min
<1>3. Min(T) \in Nat
  BY <1>2, Zenon
<1> QED
  BY <1>2, <1>3

\* Max of one or two integers.
LEMMA MaxTwo ==
  ASSUME NEW a \in Int, NEW b \in Int
  PROVE  Max({a, b}) \in {a, b} /\ a <= Max({a, b}) /\ b <= Max({a, b})
<1>1. \E x \in {a, b} : \A y \in {a, b} : x >= y
  OBVIOUS
<1> QED
  BY <1>1 DEF Max

--------------------------------------------------------------------------------
(* Types.                                                                  *)

LEMMA HeightsNat == Heights \subseteq Nat \ {0} /\ \A hr \in Rounds : hr[1] \in Heights /\ hr[2] \in Nat
BY StoreAssumption DEF Heights

LEMMA InitIInv == Init => IInv
<1> SUFFICES ASSUME Init PROVE IInv
  OBVIOUS
<1> USE StoreAssumption
<1>1. Typed
  BY DEF Init, Typed, TypeOK, Working, Heights
<1>2. Flags
  BY DEF Init, Flags, OneFlag, Cleared
<1>3. Cutoffs
  BY DEF Init, Cutoffs, Bounded, FreshStored, CutoffSafe
<1> QED
  BY <1>1, <1>2, <1>3 DEF IInv

\* Going on with the next event keeps the batch's type, and an event to work on.
LEMMA NextEventTyped ==
  ASSUME Typed, consumer # "idle", NextEvent
  PROVE  /\ batch' \in Seq(Event) /\ consumer' \in {"idle", "insert"}
         /\ consumer' # "idle" => batch' # <<>>
<1>1. batch \in Seq(Event) /\ batch # <<>>
  BY DEF Typed, TypeOK, Working
<1>2. batch' \in Seq(Event) /\ Len(batch') = Len(batch) - 1 /\ Len(batch) \in Nat \ {0}
  BY <1>1 DEF NextEvent
<1>3. Len(batch) # 1 => batch' # <<>>
  BY <1>2
<1> QED
  BY <1>2, <1>3 DEF NextEvent

LEMMA CutoffInt == TypeOK /\ Bounded /\ FreshStored => computeCutoffHeight \in Int
<1> SUFFICES ASSUME TypeOK, Bounded, FreshStored PROVE computeCutoffHeight \in Int
  OBVIOUS
<1>0. heights \subseteq Nat /\ fresh \subseteq Nat /\ tip[1] \in Nat /\ MaxRetainBlocks \in Nat
  BY HeightsNat, StoreAssumption DEF TypeOK
<1>1. heights # {} => BlockCutoff \in Int
  <2>1. heights # {} => Max(heights) \in Nat
    BY <1>0, MaxNat DEF Bounded
  <2> QED
    BY <1>0, <2>1 DEF BlockCutoff
<1>2. fresh # {} => Min(fresh) - 1 \in Int
  <2>1. fresh # {} => Min(fresh) \in Nat
    BY <1>0, MinNat
  <2> QED
    BY <1>0, <2>1
<1>3. CASE DayCutoffs = {}
  <2>1. DayCutoffs \cup {BlockCutoff} = {BlockCutoff, BlockCutoff}
    BY <1>3
  <2>2. heights # {} => Max(DayCutoffs \cup {BlockCutoff}) \in Int
    BY <1>1, <2>1, MaxTwo
  <2> QED
    BY <1>3, <2>2 DEF computeCutoffHeight
<1>4. CASE DayCutoffs = {Min(fresh) - 1} /\ fresh # {}
  <2> DEFINE day == Min(fresh) - 1
  <2> HIDE DEF day
  <2>1. DayCutoffs \cup {BlockCutoff} = {day, BlockCutoff} /\ DayCutoffs = {day, day}
    BY <1>4 DEF day
  <2>2. day \in Int
    BY <1>2, <1>4 DEF day
  <2>3. Max(DayCutoffs) \in Int /\ (heights # {} => Max(DayCutoffs \cup {BlockCutoff}) \in Int)
    BY <1>1, <2>1, <2>2, MaxTwo
  <2> QED
    BY <2>3 DEF computeCutoffHeight
<1> QED
  BY <1>3, <1>4 DEF DayCutoffs

\* Every step keeps the types.
LEMMA TypedStep == Typed /\ Cutoffs /\ [Next]_vars => Typed'
<1> SUFFICES ASSUME Typed, Cutoffs, [Next]_vars PROVE Typed'
  OBVIOUS
<1> USE StoreAssumption DEF chain, memory, pollVars, consVars, cleanVars, tables
<1>t. TypeOK /\ Working
  BY DEF Typed
<1>1. CASE NodeRound
  <2>1. tip' \in Rounds
    BY <1>1 DEF NodeRound, NextRounds
  <2> DEFINE e == [kind |-> "new_round", at |-> tip']
  <2>2. e \in Event /\ pending' \in {Append(pending, e), pending}
    BY <1>1, <2>1 DEF Event, NodeRound
  <2> HIDE DEF e
  <2>3. pending' \in Seq(Event)
    <3>1. pending \in Seq(Event)
      BY <1>t DEF TypeOK
    <3>2. Append(pending, e) \in Seq(Event)
      BY <2>2, <3>1
    <3> QED
      BY <2>2, <3>1, <3>2
  <2> QED
    BY <1>t, <1>1, <2>1, <2>3 DEF NodeRound, Typed, TypeOK, Working
<1>2. CASE NodeVote
  <2>1. [kind |-> "vote", at |-> tip] \in Event
    BY <1>t DEF Event, TypeOK
  <2>2. pending' \in Seq(Event)
    BY <1>t, <1>2, <2>1 DEF NodeVote, TypeOK
  <2> QED
    BY <1>t, <1>2, <2>2 DEF NodeVote, Typed, TypeOK, Working
<1>3. CASE PollFetch
  BY <1>t, <1>3 DEF PollFetch, Typed, TypeOK, Working
<1>4. CASE StoreValidators
  <2>1. PICK bad \in {{}} \cup {{v} : v \in Validators}, snapshotOnly \in BOOLEAN :
          /\ IF bad = {} THEN UNCHANGED errors ELSE SqlError
          /\ validators' = validators \cup (IF snapshotOnly THEN Validators ELSE Validators \ bad)
          /\ snapshots' = [x \in DOMAIN snapshots |->
               IF x[1] = polled[1] /\ x[2] \notin bad THEN "null" ELSE snapshots[x]]
    BY <1>4 DEF StoreValidators
  <2>2. errors' \in 0..MaxErrors
    BY <1>t, <2>1 DEF SqlError, TypeOK
  <2>3. validators' \subseteq Validators
    BY <1>t, <2>1 DEF TypeOK
  <2>4. snapshots' \in [Heights \X Validators -> {"none", "null", "false", "true"}]
    BY <1>t, <2>1 DEF TypeOK
  <2>5. heights' \subseteq Heights /\ fresh' \subseteq Heights /\ late' \subseteq Heights
    BY <1>t, <1>4, HeightsNat DEF StoreValidators, TypeOK
  <2> QED
    BY <1>t, <1>4, <2>2, <2>3, <2>4, <2>5 DEF StoreValidators, StartRounds, Typed, TypeOK, Working
<1>5. CASE StoreValidatorsFails
  BY <1>t, <1>5 DEF StoreValidatorsFails, StartRounds, SqlError, Typed, TypeOK, Working
<1>6. CASE PollDone
  BY <1>t, <1>6 DEF PollDone, Typed, TypeOK, Working
<1>7. ASSUME NEW hr \in Rounds, StoreRoundData(hr) PROVE Typed'
  <2>1. rounds' \subseteq Rounds /\ votes' \subseteq Rounds /\ todo' \subseteq Rounds
    BY <1>t, <1>7 DEF StoreRoundData, TypeOK
  <2> QED
    BY <1>t, <1>7, <2>1 DEF StoreRoundData, Typed, TypeOK, Working
<1>8. ASSUME NEW hr \in Rounds, StoreRoundDataFails(hr) PROVE Typed'
  BY <1>t, <1>8 DEF StoreRoundDataFails, SqlError, Typed, TypeOK, Working
<1>9. CASE ConsumeEvents
  <2> DEFINE at(kind) == {e.at : e \in {x \in Range(pending) : x.kind = kind}}
  <2>1. \A e \in Range(pending) : e \in Event
    BY <1>t DEF Range, TypeOK
  <2>2. at("new_round") \subseteq Rounds /\ at("vote") \subseteq Rounds
    BY <2>1 DEF Event
  <2>3. proposers' = proposers \cup at("new_round") /\ roundVotes' = roundVotes \cup at("vote")
    BY <1>9 DEF ConsumeEvents
  <2> HIDE DEF at
  <2>4. proposers' \subseteq Rounds /\ roundVotes' \subseteq Rounds
    BY <1>t, <2>2, <2>3 DEF TypeOK
  <2> QED
    BY <1>t, <1>9, <2>4 DEF ConsumeEvents, Typed, TypeOK, Working
<1>h. consumer # "idle" => Head(batch) \in Event
  BY <1>t DEF TypeOK, Working
<1>10. CASE StoreConsensusEvent
  <2>1. /\ batch' \in Seq(Event) /\ consumer' \in {"idle", "insert", "clear"}
        /\ consumer' # "idle" => batch' # <<>>
    BY <1>t, <1>10, NextEventTyped DEF StoreConsensusEvent, Typed, TypeOK, Working
  <2>2. events' \subseteq Rounds /\ errors' \in 0..MaxErrors
    <3>1. events \subseteq Rounds /\ errors \in 0..MaxErrors /\ Head(batch).at \in Rounds
      BY <1>t, <1>h, <1>10 DEF StoreConsensusEvent, Event, TypeOK
    <3>2. events' \in {events, events \cup {Head(batch).at}}
      BY <1>10 DEF StoreConsensusEvent
    <3>3. errors' = errors \/ SqlError
      BY <1>10 DEF StoreConsensusEvent
    <3> QED
      BY <3>1, <3>2, <3>3 DEF SqlError
  <2> QED
    BY <1>t, <1>10, <2>1, <2>2 DEF StoreConsensusEvent, Typed, TypeOK, Working
<1>11. CASE ClearProposerFlags
  <2>1. snapshots' \in [Heights \X Validators -> {"none", "null", "false", "true"}]
    BY <1>t, <1>11 DEF ClearProposerFlags, TypeOK
  <2> QED
    BY <1>t, <1>11, <2>1 DEF ClearProposerFlags, Typed, TypeOK, Working
<1>12. CASE SetProposerFlag
  <2>1. snapshots' \in [Heights \X Validators -> {"none", "null", "false", "true"}]
    BY <1>t, <1>12 DEF SetProposerFlag, TypeOK
  <2>2. /\ batch' \in Seq(Event) /\ consumer' \in {"idle", "insert"}
        /\ consumer' # "idle" => batch' # <<>>
    BY <1>12, NextEventTyped DEF SetProposerFlag
  <2> QED
    BY <1>t, <1>12, <2>1, <2>2 DEF SetProposerFlag, Typed, TypeOK, Working
<1>13. CASE UpdateProposerFails
  <2>1. /\ batch' \in Seq(Event) /\ consumer' \in {"idle", "insert"}
        /\ consumer' # "idle" => batch' # <<>>
    BY <1>13, NextEventTyped DEF UpdateProposerFails
  <2> QED
    BY <1>t, <1>13, <2>1 DEF UpdateProposerFails, SqlError, Typed, TypeOK, Working
<1>14. CASE CleanupStart
  <2>1. cutoff' \in Nat
    BY <1>t, <1>14, CutoffInt DEF CleanupStart, Cutoffs
  <2> QED
    BY <1>t, <1>14, <2>1 DEF CleanupStart, Typed, TypeOK, Working
<1>15. CASE DeleteEvents \/ DeleteVotes \/ DeleteRounds
  BY <1>t, <1>15 DEF DeleteEvents, DeleteVotes, DeleteRounds, Young, Typed, TypeOK, Working
<1>16. CASE DeleteSnapshots
  <2>1. snapshots' \in [Heights \X Validators -> {"none", "null", "false", "true"}]
    BY <1>t, <1>16 DEF DeleteSnapshots, TypeOK
  <2> QED
    BY <1>t, <1>16, <2>1 DEF DeleteSnapshots, Typed, TypeOK, Working
<1>17. CASE DeleteHeights
  <2>1. heights' \subseteq Heights /\ fresh' \subseteq Heights
    BY <1>t, <1>17 DEF DeleteHeights, TypeOK
  <2> QED
    BY <1>t, <1>17, <2>1 DEF DeleteHeights, Typed, TypeOK, Working
<1>18. CASE CleanupFails
  BY <1>t, <1>18 DEF CleanupFails, SqlError, Typed, TypeOK, Working
<1>19. CASE AgeOut
  BY <1>t, <1>19 DEF AgeOut, Typed, TypeOK, Working
<1>20. CASE UNCHANGED vars
  BY <1>t, <1>20 DEF vars, Typed, TypeOK, Working
<1>21. ASSUME NEW i \in Interruptions, Interrupt(i) PROVE Typed'
  BY <1>t, <1>21 DEF Interrupt, Typed, TypeOK, Working
<1> QED
  BY <1>1, <1>2, <1>3, <1>4, <1>5, <1>6, <1>7, <1>8, <1>9, <1>10, <1>11, <1>12, <1>13, <1>14,
     <1>15, <1>16, <1>17, <1>18, <1>19, <1>20, <1>21 DEF Next, Node, Poller, Consumer, Cleaner

--------------------------------------------------------------------------------
(* The proposer flags.                                                     *)

\* A step that sets no flag keeps OneFlag.
LEMMA NoNewFlag ==
  ASSUME OneFlag, \A x \in Heights \X Validators : snapshots'[x] = "true" => snapshots[x] = "true"
  PROVE  OneFlag'
BY DEF OneFlag

LEMMA FlagsStep == Typed /\ Flags /\ [Next]_vars => Flags'
<1> SUFFICES ASSUME Typed, Flags, [Next]_vars PROVE Flags'
  OBVIOUS
<1> USE StoreAssumption DEF chain, memory, pollVars, consVars, cleanVars, tables
<1>t. TypeOK /\ Working /\ OneFlag /\ Cleared
  BY DEF Typed, Flags
<1>h. consumer # "idle" =>
        /\ Head(batch).at[1] \in Heights /\ Proposer[Head(batch).at] \in Validators
  <2>1. consumer # "idle" => Head(batch) \in Event
    BY <1>t DEF TypeOK, Working
  <2> QED
    BY <2>1, HeightsNat DEF Event
<1>1. ASSUME UNCHANGED <<snapshots, batch>>, consumer' = "set" => consumer = "set"
      PROVE  Flags'
  BY <1>t, <1>1 DEF Flags, OneFlag, Cleared
<1>2. CASE StoreValidators
  <2>1. \A x \in Heights \X Validators : snapshots'[x] = "true" => snapshots[x] = "true"
    BY <1>t, <1>2 DEF StoreValidators, TypeOK
  <2>2. Cleared'
    BY <1>t, <1>2, <2>1, <1>h DEF StoreValidators, Cleared
  <2> QED
    BY <1>t, <2>1, <2>2, NoNewFlag DEF Flags
<1>3. CASE DeleteSnapshots
  <2>1. \A x \in Heights \X Validators : snapshots'[x] = "true" => snapshots[x] = "true"
    BY <1>t, <1>3 DEF DeleteSnapshots, TypeOK
  <2>2. Cleared'
    BY <1>t, <1>3, <2>1, <1>h DEF DeleteSnapshots, Cleared
  <2> QED
    BY <1>t, <2>1, <2>2, NoNewFlag DEF Flags
<1>4. CASE ClearProposerFlags
  <2>1. \A x \in Heights \X Validators :
          /\ snapshots'[x] = "true" => snapshots[x] = "true"
          /\ x[1] = Head(batch).at[1] => snapshots'[x] # "true"
    BY <1>t, <1>4 DEF ClearProposerFlags, TypeOK
  <2>2. Cleared'
    BY <1>4, <2>1, <1>h DEF ClearProposerFlags, Cleared
  <2> QED
    BY <1>t, <2>1, <2>2, NoNewFlag DEF Flags
<1>5. CASE SetProposerFlag
  <2> DEFINE h0 == Head(batch).at[1]
             v0 == Proposer[Head(batch).at]
  <2>1. /\ consumer = "set" /\ h0 \in Heights /\ v0 \in Validators
        /\ \A v \in Validators : snapshots[<<h0, v>>] # "true"
    BY <1>t, <1>5, <1>h DEF SetProposerFlag, Cleared
  <2>2. snapshots' = snapshots \/ snapshots' = [snapshots EXCEPT ![<<h0, v0>>] = "true"]
    BY <1>5 DEF SetProposerFlag
  <2> HIDE DEF h0, v0
  <2>3. OneFlag'
    <3> SUFFICES ASSUME NEW h \in Heights, NEW v \in Validators, NEW w \in Validators,
                        snapshots'[<<h, v>>] = "true", snapshots'[<<h, w>>] = "true"
                 PROVE  v = w
      BY DEF OneFlag
    <3>1. \A x \in Validators : snapshots'[<<h, x>>] = "true" =>
             \/ snapshots[<<h, x>>] = "true"
             \/ h = h0 /\ x = v0
      BY <1>t, <2>1, <2>2 DEF TypeOK
    <3> QED
      BY <1>t, <2>1, <3>1 DEF OneFlag
  <2>4. consumer' # "set"
    BY <1>5 DEF SetProposerFlag, NextEvent
  <2> QED
    BY <2>3, <2>4 DEF Flags, Cleared
<1>6. CASE ConsumeEvents \/ StoreConsensusEvent \/ UpdateProposerFails
  <2>1. UNCHANGED snapshots /\ consumer' # "set"
    BY <1>6 DEF ConsumeEvents, StoreConsensusEvent, UpdateProposerFails, NextEvent
  <2> QED
    BY <1>t, <2>1 DEF Flags, OneFlag, Cleared
<1>7. CASE Node \/ PollFetch \/ StoreValidatorsFails \/ PollDone
           \/ (\E hr \in Rounds : StoreRoundData(hr) \/ StoreRoundDataFails(hr))
  BY <1>7, <1>1 DEF Node, NodeRound, NodeVote, Interrupt, PollFetch, StoreValidatorsFails, PollDone,
                    StoreRoundData, StoreRoundDataFails
<1>8. CASE CleanupStart \/ DeleteEvents \/ DeleteVotes \/ DeleteRounds \/ DeleteHeights
           \/ CleanupFails \/ AgeOut \/ UNCHANGED vars
  BY <1>8, <1>1 DEF CleanupStart, DeleteEvents, DeleteVotes, DeleteRounds, DeleteHeights,
                    CleanupFails, AgeOut, vars
<1> QED
  BY <1>2, <1>3, <1>4, <1>5, <1>6, <1>7, <1>8 DEF Next, Poller, Consumer, Cleaner

\* A set with no two different members has at most one.
LEMMA AtMostOne ==
  ASSUME NEW S, \A x, y \in S : x = y
  PROVE  Cardinality(S) <= 1
<1>1. CASE S = {}
  BY <1>1, FS_EmptySet
<1>2. CASE S # {}
  <2>1. PICK x \in S : TRUE
    BY <1>2
  <2>2. S = {x}
    BY <2>1
  <2> QED
    BY <2>2, FS_Singleton
<1> QED
  BY <1>1, <1>2

--------------------------------------------------------------------------------
(* The cutoff.                                                             *)

\* The steps that touch neither the heights nor the cutoff.
LEMMA CutoffsFrame ==
  ASSUME Cutoffs, UNCHANGED <<tip, polled, heights, fresh, cutoff, late>>,
         cleaner' # "idle" => cleaner # "idle"
  PROVE  Cutoffs'
BY DEF Cutoffs, Bounded, FreshStored, CutoffSafe, Retained, InWindows, BlockCutoff

\* The cutoff of a new pass spares what the windows retain.
LEMMA FreshCutoff ==
  ASSUME Typed, Cutoffs, heights # {}, computeCutoffHeight # 0
  PROVE  /\ computeCutoffHeight <= Max(heights)
         /\ ~RetainDays => MaxRetainBlocks > 0 /\ computeCutoffHeight <= BlockCutoff
         /\ \A h \in heights : InWindows(h) => h >= computeCutoffHeight
<1>0. /\ heights \subseteq Nat /\ fresh \subseteq heights /\ MaxRetainBlocks \in Nat
      /\ tip[1] \in Nat /\ \A h \in heights : h <= tip[1]
  BY HeightsNat, StoreAssumption DEF Typed, TypeOK, Cutoffs, Bounded, FreshStored
<1>1. Max(heights) \in Nat /\ \A h \in heights : h \in Nat /\ h <= Max(heights)
  BY <1>0, MaxNat
<1>2. BlockCutoff \in Int /\ BlockCutoff <= Max(heights)
  BY <1>0, <1>1 DEF BlockCutoff
<1>3. CASE DayCutoffs = {}
  <2>1. DayCutoffs \cup {BlockCutoff} = {BlockCutoff, BlockCutoff}
    BY <1>3
  <2>2. Max(DayCutoffs \cup {BlockCutoff}) = BlockCutoff
    BY <1>2, <2>1, MaxTwo
  <2>3. computeCutoffHeight = BlockCutoff /\ MaxRetainBlocks > 0
    BY <1>0, <1>3, <2>2 DEF computeCutoffHeight
  <2> QED
    BY <1>1, <1>2, <2>3 DEF InWindows
<1>4. CASE DayCutoffs = {Min(fresh) - 1} /\ fresh # {} /\ RetainDays
  <2> DEFINE day == Min(fresh) - 1
  <2>1. /\ day \in Int /\ \A h \in fresh : h \in Nat /\ day < h
        /\ day <= Max(heights)
    <3>1. fresh \subseteq Nat
      BY <1>0
    <3>2. Min(fresh) \in fresh /\ Min(fresh) \in Nat /\ \A h \in fresh : h \in Nat /\ Min(fresh) <= h
      BY <1>4, <3>1, MinNat
    <3>3. Min(fresh) <= Max(heights)
      BY <1>0, <1>1, <3>2
    <3> QED
      BY <1>1, <3>2, <3>3
  <2>2. DayCutoffs = {day, day} /\ DayCutoffs \cup {BlockCutoff} = {day, BlockCutoff}
    BY <1>4
  <2> HIDE DEF day
  <2>3. Max(DayCutoffs) = day /\ Max(DayCutoffs \cup {BlockCutoff}) \in {day, BlockCutoff}
    BY <1>2, <2>1, <2>2, MaxTwo
  <2>4. computeCutoffHeight = day \/ (computeCutoffHeight = BlockCutoff /\ MaxRetainBlocks > 0)
    BY <1>0, <1>4, <2>3 DEF computeCutoffHeight
  <2> QED
    BY <1>1, <1>2, <1>4, <2>1, <2>4 DEF InWindows
<1> QED
  BY <1>3, <1>4 DEF DayCutoffs

LEMMA CutoffsStep == Typed /\ Typed' /\ Cutoffs /\ [Next]_vars => Cutoffs'
<1> SUFFICES ASSUME Typed, Typed', Cutoffs, [Next]_vars PROVE Cutoffs'
  OBVIOUS
<1> USE StoreAssumption DEF chain, memory, pollVars, consVars, cleanVars, tables
<1>t. /\ TypeOK /\ TypeOK' /\ Bounded /\ FreshStored /\ CutoffSafe
      /\ tip \in Rounds /\ polled \in Rounds /\ heights \subseteq Nat /\ MaxRetainBlocks \in Nat
      /\ tip[1] \in Nat /\ polled[1] \in Nat /\ cutoff \in Nat
  BY HeightsNat DEF Typed, TypeOK, Cutoffs
<1>m. heights # {} => /\ Max(heights) \in heights /\ Max(heights) \in Nat
                      /\ \A h \in heights : h \in Nat /\ h <= Max(heights)
  BY <1>t, MaxNat DEF Bounded
<1>1. CASE NodeRound
  <2>1. tip' \in Rounds /\ tip'[1] \in Nat /\ tip[1] <= tip'[1]
    BY <1>t, <1>1, HeightsNat DEF NodeRound, NextRounds, Before
  <2> QED
    BY <1>t, <1>1, <2>1 DEF NodeRound, Cutoffs, Bounded, FreshStored, CutoffSafe, Retained,
                            InWindows, BlockCutoff
<1>2. CASE PollFetch
  <2>1. polled'[1] <= tip[1]
    BY <1>t, <1>2, HeightsNat DEF PollFetch, Before
  <2> QED
    BY <1>t, <1>2, <2>1 DEF PollFetch, Cutoffs, Bounded, FreshStored, CutoffSafe, Retained,
                            InWindows, BlockCutoff
<1>3. CASE StoreValidators
  <2> DEFINE p == polled[1]
  <2>0. /\ heights' = heights \cup {p} /\ p \in Nat /\ \A h \in heights : h \in Nat
        /\ fresh' = IF p \in heights THEN fresh ELSE fresh \cup {p}
        /\ late' = IF RetainDays /\ cleaner # "idle" THEN late \cup ({p} \ heights) ELSE late
        /\ polled' = <<1, 0>>
        /\ UNCHANGED <<tip, cleaner, cutoff>> /\ p <= tip[1]
    BY <1>t, <1>3 DEF StoreValidators, StartRounds, Bounded
  <2> HIDE DEF p
  <2>1. Bounded'
    <3>1. <<1, 0>>[1] <= tip[1]
      BY <1>t, HeightsNat
    <3> QED
      BY <1>t, <2>0, <3>1 DEF Bounded
  <2>2. FreshStored'
    BY <1>t, <2>0 DEF FreshStored
  <2>3. CutoffSafe'
    <3> SUFFICES ASSUME cleaner # "idle" PROVE CutoffSafe'
      BY <2>0 DEF CutoffSafe
    <3>1. /\ heights # {} /\ cutoff <= Max(heights)
          /\ ~RetainDays => MaxRetainBlocks > 0 /\ cutoff <= BlockCutoff
          /\ \A h \in heights : Retained(h) => h >= cutoff
      BY <1>t DEF CutoffSafe
    <3>2. Max(heights') \in Nat /\ Max(heights) <= Max(heights') /\ heights' # {}
      <4>1. heights' \subseteq Nat /\ heights' # {} /\ \A n \in heights' : n <= tip[1]
        BY <1>t, <2>0 DEF Bounded
      <4>2. Max(heights') \in Nat /\ \A n \in heights' : n <= Max(heights')
        BY <1>t, <4>1, MaxNat
      <4> QED
        BY <1>m, <2>0, <3>1, <4>1, <4>2
    <3>3. BlockCutoff' >= BlockCutoff /\ BlockCutoff' \in Int /\ BlockCutoff \in Int
      BY <1>t, <1>m, <3>1, <3>2 DEF BlockCutoff
    <3>4. ASSUME NEW h \in heights', Retained(h)' PROVE h >= cutoff
      <4>1. CASE h \in heights
        <5>1. Retained(h)
          BY <1>t, <2>0, <3>3, <3>4, <4>1 DEF Retained, InWindows
        <5> QED
          BY <3>1, <4>1, <5>1
      <4>2. CASE h \notin heights
        <5>1. h = p /\ ~RetainDays
          BY <2>0, <3>4, <4>2 DEF Retained
        <5>2. h >= BlockCutoff'
          BY <3>1, <3>4, <5>1 DEF Retained, InWindows
        <5> QED
          BY <1>t, <2>0, <3>1, <3>3, <5>1, <5>2
      <4> QED
        BY <4>1, <4>2
    <3> QED
      BY <1>t, <1>m, <2>0, <3>1, <3>2, <3>3, <3>4 DEF CutoffSafe
  <2> QED
    BY <2>1, <2>2, <2>3 DEF Cutoffs
<1>4. CASE StoreValidatorsFails
  <2>1. <<1, 0>>[1] <= tip[1]
    BY <1>t, HeightsNat
  <2> QED
    BY <1>t, <1>4, <2>1 DEF StoreValidatorsFails, StartRounds, Cutoffs, Bounded, FreshStored,
                            CutoffSafe, Retained, InWindows, BlockCutoff
<1>5. CASE CleanupStart
  <2>1. heights # {} /\ computeCutoffHeight > 0 /\ computeCutoffHeight \in Int
    BY <1>t, <1>5, CutoffInt DEF CleanupStart, computeCutoffHeight
  <2>2. /\ computeCutoffHeight <= Max(heights)
        /\ ~RetainDays => MaxRetainBlocks > 0 /\ computeCutoffHeight <= BlockCutoff
        /\ \A h \in heights : InWindows(h) => h >= computeCutoffHeight
    BY <2>1, FreshCutoff
  <2>3. UNCHANGED <<tip, polled, heights, fresh, late>> /\ cutoff' = computeCutoffHeight
    BY <1>5 DEF CleanupStart
  <2> QED
    BY <1>t, <2>1, <2>2, <2>3
    DEF Cutoffs, Bounded, FreshStored, CutoffSafe, Retained, InWindows, BlockCutoff
<1>6. CASE DeleteHeights
  <2>1. heights' \subseteq heights /\ fresh' \subseteq heights' /\ cleaner' = "idle"
    BY <1>t, <1>6 DEF DeleteHeights, FreshStored
  <2> QED
    BY <1>t, <1>6, <2>1 DEF DeleteHeights, Cutoffs, Bounded, FreshStored, CutoffSafe
<1>7. CASE CleanupFails
  BY <1>t, <1>7 DEF CleanupFails, Cutoffs, Bounded, FreshStored, CutoffSafe
<1>8. CASE AgeOut
  BY <1>t, <1>8 DEF AgeOut, Cutoffs, Bounded, FreshStored, CutoffSafe, Retained, InWindows,
                    BlockCutoff
<1>9. CASE NodeVote \/ (\E i \in Interruptions : Interrupt(i)) \/ PollDone \/ (\E hr \in Rounds : StoreRoundData(hr) \/ StoreRoundDataFails(hr))
  BY <1>9, CutoffsFrame DEF NodeVote, Interrupt, PollDone, StoreRoundData, StoreRoundDataFails
<1>10. CASE Consumer \/ UNCHANGED vars
  BY <1>10, CutoffsFrame DEF Consumer, ConsumeEvents, StoreConsensusEvent, ClearProposerFlags,
                             SetProposerFlag, UpdateProposerFails, vars
<1>11. CASE DeleteEvents \/ DeleteVotes \/ DeleteSnapshots \/ DeleteRounds
  BY <1>11, CutoffsFrame DEF DeleteEvents, DeleteVotes, DeleteSnapshots, DeleteRounds
<1> QED
  BY <1>1, <1>2, <1>3, <1>4, <1>5, <1>6, <1>7, <1>8, <1>9, <1>10, <1>11
  DEF Next, Node, Poller, Cleaner

--------------------------------------------------------------------------------
(* The theorems.                                                           *)

\* The inductive invariant of the store and its three writers.
THEOREM Invariance == Spec => []IInv
<1>1. IInv /\ [Next]_vars => IInv'
  BY TypedStep, FlagsStep, CutoffsStep DEF IInv
<1> QED
  BY InitIInv, <1>1, PTL DEF Spec

\* Every table keeps its type, whichever statements fail and in whatever order the
\* three goroutines write.
THEOREM TypeCorrect == Spec => []TypeOK
<1>1. IInv => TypeOK
  BY DEF IInv, Typed
<1> QED
  BY Invariance, <1>1, PTL

\* No height shows two proposers, however the refresh and the two UPDATEs of a
\* NewRound event interleave.
THEOREM OneProposer == Spec => []AtMostOneProposer
<1>1. ASSUME IInv PROVE AtMostOneProposer
  <2> SUFFICES ASSUME NEW h \in Heights
               PROVE  Cardinality({v \in Validators : snapshots[<<h, v>>] = "true"}) <= 1
    BY DEF AtMostOneProposer
  <2>1. \A x, y \in {v \in Validators : snapshots[<<h, v>>] = "true"} : x = y
    BY <1>1 DEF IInv, Flags, OneFlag
  <2> QED
    BY <2>1, AtMostOne
<1> QED
  BY Invariance, <1>1, PTL

\* No DELETE takes a row of a height that every window set retains at that moment,
\* although its cutoff may be many writes old and heights come in no order; under
\* MaxRetainDays, of those that were stored when the cutoff was computed.
THEOREM CleanupSparesRetained == Spec => RetainedNeverDeleted
<1> DEFINE A == \A h \in heights :
                  InWindows(h) /\ (RetainDays => h \notin late) => KeepsRows(h)
<1>1. ASSUME IInv, IInv', [Next]_vars PROVE A
  <2> SUFFICES ASSUME NEW h \in heights, Retained(h)
               PROVE  KeepsRows(h)
    BY DEF Retained
  <2> USE DEF chain, memory, pollVars, consVars, cleanVars, tables
  <2>t. TypeOK /\ TypeOK' /\ h \in Nat /\ (cleaner # "idle" => h >= cutoff) /\ cutoff \in Nat
    BY <1>1, HeightsNat DEF IInv, Typed, TypeOK, Cutoffs, CutoffSafe
  <2>0. \A hr \in rounds \cup votes \cup events : hr \in Rounds /\ hr[1] \in Nat
    BY <2>t, HeightsNat DEF TypeOK
  \* What the step does to the rows of h, table by table.
  <2>1. ASSUME \A hr \in rounds : hr[1] = h => hr \in rounds',
               \A hr \in votes : hr[1] = h => hr \in votes',
               \A hr \in events : hr[1] = h => hr \in events',
               \A x \in Heights \X Validators :
                 x[1] = h /\ snapshots[x] # "none" => snapshots'[x] # "none",
               h \in heights'
        PROVE  KeepsRows(h)
    <3>1. DOMAIN snapshots = Heights \X Validators /\ DOMAIN snapshots' = Heights \X Validators
      BY <2>t DEF TypeOK
    <3> QED
      BY <2>1, <3>1 DEF Rows, KeepsRows
  <2>2. CASE StoreValidators
    BY <1>1, <2>t, <2>1, <2>2 DEF StoreValidators, TypeOK
  <2>3. CASE ClearProposerFlags
    BY <1>1, <2>t, <2>1, <2>3 DEF ClearProposerFlags, TypeOK
  <2>4. CASE SetProposerFlag
    BY <1>1, <2>t, <2>1, <2>4 DEF SetProposerFlag, TypeOK
  <2>5. CASE DeleteSnapshots
    BY <1>1, <2>t, <2>1, <2>5 DEF DeleteSnapshots, TypeOK
  <2>6. CASE DeleteEvents \/ DeleteVotes \/ DeleteRounds
    BY <2>t, <2>0, <2>1, <2>6 DEF DeleteEvents, DeleteVotes, DeleteRounds, Young
  <2>7. CASE DeleteHeights
    <3>1. h \in heights'
      BY <2>t, <2>7 DEF DeleteHeights
    <3> QED
      BY <2>1, <2>7, <3>1 DEF DeleteHeights
  <2>8. CASE (\E hr \in Rounds : StoreRoundData(hr)) \/ StoreConsensusEvent
    BY <2>1, <2>8 DEF StoreRoundData, StoreConsensusEvent
  <2>9. CASE Node \/ PollFetch \/ StoreValidatorsFails \/ PollDone
             \/ (\E hr \in Rounds : StoreRoundDataFails(hr)) \/ ConsumeEvents \/ UpdateProposerFails
    BY <2>1, <2>9 DEF Node, NodeRound, NodeVote, Interrupt, PollFetch, StoreValidatorsFails, PollDone,
                      StoreRoundDataFails, ConsumeEvents, UpdateProposerFails
  <2>10. CASE CleanupStart \/ CleanupFails \/ AgeOut \/ UNCHANGED vars
    BY <2>1, <2>10 DEF CleanupStart, CleanupFails, AgeOut, vars
  <2> QED
    BY <1>1, <2>2, <2>3, <2>4, <2>5, <2>6, <2>7, <2>8, <2>9, <2>10
    DEF Next, Poller, Consumer, Cleaner
<1> QED
  BY Invariance, <1>1, PTL DEF Spec, RetainedNeverDeleted
================================================================================
