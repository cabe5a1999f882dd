------------------------------ MODULE FetchProofs ------------------------------
(***************************************************************************)
(* For every number of nodes, heights and switches, every page size and    *)
(* every sequence of validator sets: a list whose pages come from one      *)
(* height is the set of that height, and the height and the validators     *)
(* that two parallel requests bring belong together unless a block or a    *)
(* switch fell in between.                                                 *)
(***************************************************************************)
EXTENDS Fetch, SequenceTheorems, WellFoundedInduction, TLAPS

Keys == UNION {Range(ValSetAt[h]) : h \in 1..MaxHeight}

\* The locals of RefreshConsensus between two refreshes.
Blank ==
  refresh = "idle" => /\ consensus = NULL /\ fetch = "done" /\ page = 1 /\ cometVals = <<>>
                      /\ chunk = 0 /\ seen = {} /\ moved = FALSE

\* The validators that came with the pages before this one.
Before == (page - 1) * PerPage

\* While pages are read: those of one height are a proper prefix of its set.
Paged ==
  refresh = "fetch" /\ fetch = "page" =>
    /\ seen = {} => page = 1 /\ cometVals = <<>>
    /\ \A h \in 1..MaxHeight : seen = {h} =>
         Before < Len(ValSetAt[h]) /\ cometVals = SubSeq(ValSetAt[h], 1, Before)

\* When no page is missing: those of one height are its set.
Complete ==
  refresh # "idle" /\ fetch \in {"cosmos", "genesis", "assigned", "done"} =>
    /\ seen # {}
    /\ \A h \in 1..MaxHeight : seen = {h} => cometVals = ValSetAt[h]

\* While nothing moves, everything that is read is of the height of the current RPC.
Together ==
  refresh = "fetch" /\ ~moved =>
    consensus \in {NULL, Failed, work[currentRPC]} /\ seen \subseteq {work[currentRPC]}

\* Between the two writes the validators are of the height that is not written yet.
Publishing ==
  refresh = "height" => /\ consensus \in 1..MaxHeight
                        /\ ~shownMoved => ShownKeys = ValSetAt[consensus]

\* The block that is waited for is older than the first one.
OlderExists ==
  latestBlock # 0 => /\ latestBlock \in 1..MaxHeight /\ OlderHeight(latestBlock) \in 1..MaxHeight
                     /\ OlderHeight(latestBlock) < latestBlock

Lists == cometVals \in Seq(Keys) /\ Blank /\ Paged /\ Complete
Shown == Together /\ Publishing /\ ValidatorsExact /\ PublishedTogether

IInv == TypeOK /\ OlderExists /\ Lists /\ Shown

--------------------------------------------------------------------------------
(* Arithmetic.                                                             *)

\* A nonempty set of natural numbers has a least element.
LEMMA LeastNat ==
  ASSUME NEW T, T \subseteq Nat, T # {}
  PROVE  \E m \in T : \A n \in T : m <= n
<1>1. PICK m \in T : \A n \in T : ~(<<n, m>> \in OpToRel(<, Nat))
  BY NatLessThanWellFounded, WFMin
<1>2. \A n \in T : ~(n < m)
  BY <1>1 DEF OpToRel
<1> QED
  BY <1>2

\* Min of two integers.
LEMMA MinTwo ==
  ASSUME NEW a \in Int, NEW b \in Int
  PROVE  Min({a, b}) = IF a <= b THEN a ELSE b
<1>1. \E x \in {a, b} : \A y \in {a, b} : x =< y
  OBVIOUS
<1>2. Min({a, b}) \in {a, b} /\ Min({a, b}) <= a /\ Min({a, b}) <= b
  BY <1>1 DEF Min
<1> QED
  BY <1>2

\* Products with one factor fixed.
LEMMA Products ==
  /\ \A x, y \in Int, n \in Nat : x <= y => x * n <= y * n
  /\ \A x \in Int, n \in Nat : x * (n + 1) = x * n + x /\ x * n \in Int /\ (-x) * n = -(x * n)
OBVIOUS

\* Of the steps from F[a] to F[a + n] one is not above their mean.
LEMMA SmallStep ==
  ASSUME NEW F \in [1..MaxHeight -> Int], NEW a \in 1..MaxHeight, NEW n \in Nat \ {0},
         a + n \in 1..MaxHeight
  PROVE  \E lo \in 1..MaxHeight - 1 : (F[lo + 1] - F[lo]) * n <= F[a + n] - F[a]
<1>0. MaxHeight \in Nat /\ MaxHeight - 1 \in Nat
  BY FetchAssumption
<1> DEFINE I == 1..(MaxHeight - 1)
           d == [i \in I |-> F[i + 1] - F[i]]
           Bad == {k \in Nat \ {0} : /\ a + k \in 1..MaxHeight
                                     /\ \A lo \in I : ~(d[lo] * k <= F[a + k] - F[a])}
<1>1. \A i \in I : d[i] \in Int /\ i + 1 \in 1..MaxHeight /\ F[i + 1] = F[i] + d[i]
  BY <1>0
<1>2. SUFFICES ASSUME Bad # {} PROVE FALSE
  <2>1. n \notin Bad
    BY <1>2
  <2>2. PICK lo \in I : d[lo] * n <= F[a + n] - F[a]
    BY <2>1
  <2> QED
    BY <2>2
<1>3. Bad \subseteq Nat
  OBVIOUS
<1>4. PICK m \in Bad : \A k \in Bad : m <= k
  BY <1>2, <1>3, LeastNat
<1>5. /\ m \in Nat \ {0} /\ a + m \in 1..MaxHeight
      /\ \A lo \in I : ~(d[lo] * m <= F[a + m] - F[a])
  BY <1>4
<1>6. \A k \in Nat \ {0} : a + k \in 1..MaxHeight /\ k < m =>
        \E lo \in I : d[lo] * k <= F[a + k] - F[a]
  <2> SUFFICES ASSUME NEW k \in Nat \ {0}, a + k \in 1..MaxHeight, k < m,
                      \A lo \in I : ~(d[lo] * k <= F[a + k] - F[a])
               PROVE  FALSE
    OBVIOUS
  <2>1. k \in Bad
    OBVIOUS
  <2> QED
    BY <1>4, <1>5, <2>1
<1> HIDE DEF Bad, d
<1>7. m # 1
  <2> SUFFICES ASSUME m = 1 PROVE FALSE
    OBVIOUS
  <2>1. a \in I /\ d[a] = F[a + 1] - F[a] /\ d[a] \in Int
    BY <1>0, <1>1, <1>5
  <2>2. d[a] * 1 = d[a]
    BY <2>1
  <2>3. d[a] * 1 <= F[a + 1] - F[a]
    BY <2>1, <2>2
  <2> QED
    BY <1>5, <2>1, <2>3
<1>8. PICK j \in I : j = a + (m - 1)
  BY <1>0, <1>5, <1>7
<1>9. PICK l \in Nat \ {0} : m = l + 1
  BY <1>5, <1>7
<1>10. PICK lo \in I : d[lo] * l <= F[j] - F[a]
  <2>1. a + l = j /\ j \in 1..MaxHeight /\ l < m
    BY <1>0, <1>8, <1>9
  <2> QED
    BY <1>6, <2>1
<1>11. /\ d[lo] \in Int /\ d[j] \in Int /\ F[j] \in Int /\ F[a] \in Int
       /\ F[a + m] = F[j] + d[j]
  <2>1. a + m = j + 1 /\ j \in 1..MaxHeight
    BY <1>0, <1>8, <1>9
  <2> QED
    BY <1>1, <2>1
<1>12. /\ d[lo] * m = d[lo] * l + d[lo] /\ d[j] * m = d[j] * l + d[j]
       /\ d[lo] * l \in Int /\ d[j] * l \in Int
  BY <1>9, <1>11, Products
<1>a. \A p, x, y, s, u \in Int : p <= s - u /\ x <= y => p + x <= (s + y) - u
  OBVIOUS
<1>13. CASE d[lo] <= d[j]
  <2>1. d[lo] * l + d[lo] <= (F[j] + d[j]) - F[a]
    BY <1>10, <1>11, <1>12, <1>13, <1>a
  <2> QED
    BY <1>5, <1>11, <1>12, <2>1
<1>14. CASE d[j] <= d[lo]
  <2>1. d[j] * l <= d[lo] * l
    BY <1>9, <1>11, <1>14, Products
  <2>2. d[j] * l + d[j] <= (F[j] + d[j]) - F[a]
    <3>1. \A p, q, s, u, y \in Int : p <= q /\ q <= s - u => p + y <= (s + y) - u
      OBVIOUS
    <3> QED
      BY <1>10, <1>11, <1>12, <2>1, <3>1
  <2> QED
    BY <1>5, <1>11, <1>12, <2>2
<1> QED
  BY <1>11, <1>13, <1>14

\* The time between two blocks, over their number, is an average of the chain's.
LEMMA BlockTimeBounds ==
  ASSUME NEW latest \in 1..MaxHeight, NEW older \in 1..MaxHeight, older < latest
  PROVE  <<TimeOf[latest] - TimeOf[older], latest - older>> \in BlockTimes
<1> DEFINE n == latest - older
           t == TimeOf[latest] - TimeOf[older]
<1>0. MaxHeight \in Nat /\ TimeOf \in [1..MaxHeight -> Int] /\ \A i \in 1..MaxHeight : TimeOf[i] \in Nat
  BY FetchAssumption
<1>1. n \in Nat \ {0} /\ n \in 1..MaxHeight /\ older + n = latest /\ t \in Nat
  BY <1>0, FetchAssumption
<1>2. PICK lo \in 1..MaxHeight - 1 : (TimeOf[lo + 1] - TimeOf[lo]) * n <= t
  BY <1>0, <1>1, SmallStep
<1>3. PICK hi \in 1..MaxHeight - 1 : t <= (TimeOf[hi + 1] - TimeOf[hi]) * n
  <2> DEFINE F == [i \in 1..MaxHeight |-> -TimeOf[i]]
  <2>1. F \in [1..MaxHeight -> Int]
    BY <1>0
  <2>2. PICK hi \in 1..MaxHeight - 1 : (F[hi + 1] - F[hi]) * n <= F[older + n] - F[older]
    BY <1>1, <2>1, SmallStep
  <2>3. F[older + n] - F[older] = -t
    BY <1>0, <1>1
  <2>4. hi \in 1..MaxHeight /\ hi + 1 \in 1..MaxHeight
    BY <1>0
  <2>5. PICK x \in Int : x = TimeOf[hi + 1] - TimeOf[hi]
    BY <1>0, <2>4
  <2>6. F[hi + 1] - F[hi] = -x
    BY <1>0, <2>4, <2>5
  <2>7. (-x) * n <= -t /\ (-x) * n = -(x * n) /\ x * n \in Int
    BY <1>1, <2>2, <2>3, <2>5, <2>6, Products
  <2>8. t <= x * n
    <3>1. \A y, z \in Int : -y <= -z => z <= y
      OBVIOUS
    <3> QED
      BY <1>1, <2>7, <3>1
  <2> QED
    BY <2>5, <2>8
<1> HIDE DEF n, t
<1>4. <<t, n>> \in Nat \X (1..MaxHeight) /\ <<t, n>>[1] = t /\ <<t, n>>[2] = n
  BY <1>1
<1>5. <<t, n>> \in BlockTimes
  BY <1>2, <1>3, <1>4 DEF BlockTimes
<1> QED
  BY <1>5 DEF n, t

--------------------------------------------------------------------------------
(* Pages.                                                                  *)

\* The pages before the p-th and the p-th itself.
LEMMA PageJoin ==
  ASSUME NEW S, NEW set \in Seq(S), NEW p \in Nat \ {0}, (p - 1) * PerPage <= Len(set)
  PROVE  LET n == (p - 1) * PerPage
             m == IF p * PerPage <= Len(set) THEN p * PerPage ELSE Len(set)
         IN  /\ n \in Nat /\ m \in n..Len(set)
             /\ SubSeq(set, 1, n) \o PageOf(set, p) = SubSeq(set, 1, m)
             /\ Len(SubSeq(set, 1, m)) = m
<1> DEFINE n == (p - 1) * PerPage
           m == IF p * PerPage <= Len(set) THEN p * PerPage ELSE Len(set)
<1>1. PerPage \in Nat \ {0} /\ Len(set) \in Nat
  BY FetchAssumption
<1>2. n \in Nat /\ p * PerPage = n + PerPage
  <2>1. PICK q \in Nat : p = q + 1
    OBVIOUS
  <2>2. PerPage * (q + 1) = PerPage * q + PerPage /\ PerPage * q \in Nat
    BY <1>1
  <2>3. p - 1 = q /\ (p - 1) * PerPage = PerPage * q /\ p * PerPage = PerPage * (q + 1)
    BY <1>1, <2>1
  <2> QED
    BY <2>2, <2>3
<1>3. m = IF n + PerPage <= Len(set) THEN n + PerPage ELSE Len(set)
  BY <1>2
<1>4. PageOf(set, p) = SubSeq(set, n + 1, m)
  <2>1. p * PerPage \in Int /\ Len(set) \in Int
    BY <1>1, <1>2
  <2>2. Min({p * PerPage, Len(set)}) = m
    BY <2>1, MinTwo, Zenon
  <2> QED
    BY <2>2, Zenon DEF PageOf
<1> HIDE DEF n, m
<1>5. m \in n..Len(set) /\ n <= Len(set)
  BY <1>1, <1>2, <1>3 DEF n
<1>6. SubSeq(set, 1, n) \o SubSeq(set, n + 1, m) = SubSeq(set, 1, m)
  <2>1. 1 \in 1..Len(set) + 1 /\ n \in (1 - 1)..Len(set) /\ m \in n..Len(set)
    BY <1>1, <1>2, <1>5
  <2> QED
    BY <2>1, ConcatAdjacentSubSeq
<1>7. Len(SubSeq(set, 1, m)) = m
  BY <1>1, <1>2, <1>5
<1> QED
  BY <1>2, <1>4, <1>5, <1>6, <1>7 DEF n, m

--------------------------------------------------------------------------------
(* Types, by the process that writes them.                                 *)

NetType ==
  /\ config \in Configs /\ work \in [Nodes -> 1..MaxHeight] /\ currentRPC \in Nodes
  /\ switches \in 0..MaxSwitches /\ failures \in 0..MaxFailures
  /\ paused \in BOOLEAN /\ pauses \in 0..MaxPauses
LocalsType ==
  /\ refresh \in {"idle", "fetch", "height"}
  /\ consensus \in 1..MaxHeight \cup {NULL, Failed}
  /\ fetch \in {"page", "dump", "cosmos", "genesis", "assigned", "done", "error"}
  /\ page \in Nat \ {0} /\ chunk \in 0..Chunks - 1
  /\ seen \subseteq 1..MaxHeight /\ moved \in BOOLEAN
StateType ==
  /\ shownSeen \subseteq 1..MaxHeight /\ shownMoved \in BOOLEAN
  /\ height \in 0..MaxHeight /\ consensusStateError \in BOOLEAN
InfoType ==
  /\ asked \in [Kinds -> Nodes \cup {NULL}]
  /\ info \in [Kinds -> Nodes \cup {NULL, "halt-height", "none"}]
  /\ infoErr \subseteq Kinds
  /\ latestBlock \in 0..MaxHeight
  /\ blockTime = NULL \/ blockTime \in BlockTimes

\* The parts make up the type invariant.
LEMMA TypeParts == TypeOK <=> NetType /\ LocalsType /\ StateType /\ InfoType
BY Zenon DEF TypeOK, NetType, LocalsType, StateType, InfoType

\* The constants of the arithmetic.
LEMMA Constants ==
  /\ MaxHeight \in Nat \ {0, 1} /\ Chunks \in Nat \ {0} /\ blocksBehind \in Nat
  /\ MaxFailures \in Nat /\ MaxSwitches \in Nat /\ MaxPauses \in Nat
BY FetchAssumption

\* The initial states satisfy the inductive invariant.
LEMMA InitIInv == Init => IInv
<1> SUFFICES ASSUME Init PROVE IInv
  OBVIOUS
<1> USE DEF Init
<1>1. TypeOK
  <2>1. 1 \in 1..MaxHeight /\ 2 \in 1..MaxHeight
    BY Constants
  <2>2. work \in [Nodes -> 1..MaxHeight]
    BY <2>1
  <2>3. NetType
    <3>1. 0 \in 0..MaxSwitches /\ 0 \in 0..MaxFailures /\ 0 \in 0..MaxPauses
      BY Constants
    <3> QED
      BY <2>2, <3>1, FetchAssumption DEF NetType
  <2>4. LocalsType
    <3>1. 0 \in 0..Chunks - 1 /\ 1 \in Nat \ {0}
      BY Constants
    <3> QED
      BY <3>1, Zenon DEF LocalsType
  <2>5. StateType /\ InfoType
    <3>1. 0 \in 0..MaxHeight
      BY Constants
    <3>2. asked \in [Kinds -> Nodes \cup {NULL}] /\ info \in [Kinds -> Nodes \cup {NULL, "halt-height", "none"}]
      OBVIOUS
    <3> QED
      BY <3>1, <3>2, Zenon DEF StateType, InfoType
  <2> QED
    BY <2>3, <2>4, <2>5, TypeParts
<1>2. OlderExists
  BY DEF OlderExists
<1>3. Lists
  BY DEF Lists, Blank, Paged, Complete
<1>4. Shown
  BY DEF Shown, Together, Publishing, ValidatorsExact, PublishedTogether
<1> QED
  BY <1>1, <1>2, <1>3, <1>4 DEF IInv

--------------------------------------------------------------------------------
(* Types and block times under a step.                                     *)

\* Every step keeps the nodes', the user's and the failures' types.
LEMMA NetTypeStep == NetType /\ Next => NetType'
<1> SUFFICES ASSUME NetType, Next PROVE NetType'
  OBVIOUS
<1>c. MaxHeight \in Nat /\ MaxFailures \in Nat /\ MaxSwitches \in Nat /\ MaxPauses \in Nat
  BY Constants
<1> USE DEF NetType
<1>1. CASE \E n \in Nodes : NodeBlock(n)
  <2>1. PICK n \in Nodes : NodeBlock(n)
    BY <1>1
  <2>2. work[n] + 1 \in 1..MaxHeight
    BY <1>c, <2>1 DEF NodeBlock
  <2> QED
    BY <2>1, <2>2 DEF NodeBlock
<1>2. CASE \E n \in Nodes : SetCurrentRPCURL(n)
  BY <1>c, <1>2 DEF SetCurrentRPCURL
<1>3. CASE TogglePause
  <2>1. paused' \in BOOLEAN
    BY <1>3 DEF TogglePause
  <2>2. pauses' \in 0..MaxPauses
    BY <1>c, <1>3 DEF TogglePause
  <2> QED
    BY <1>3, <2>1, <2>2 DEF TogglePause
<1>4. CASE UNCHANGED netVars /\ (UNCHANGED failures \/ Fails)
  <2>1. failures' \in 0..MaxFailures
    BY <1>c, <1>4 DEF Fails
  <2> QED
    BY <1>4, <2>1 DEF netVars
<1>5. ASSUME ~(\E n \in Nodes : NodeBlock(n) \/ SetCurrentRPCURL(n)), ~TogglePause
      PROVE  UNCHANGED netVars /\ (UNCHANGED failures \/ Fails)
  BY <1>5, Zenon
  DEF Next, RefreshConsensus, GetConsensusState, FetchFails, GetValidators, Publish, Infos,
      Answer, AnswerFails, GetLatestBlock, GetOlderBlock, GetValidatorsPage,
      getValidatorsViaDumpConsensusState, GetCosmosValidators, GetAssignedKeys,
      getGenesisValidators, SetConsensusStateError, SetTMValidators, SetConsensusHeight,
      RefreshCometNodeInfo, RefreshNetInfo, RefreshMempool, RefreshUpgrade, SetUpgrade, Ask
<1> QED
  BY <1>1, <1>2, <1>3, <1>4, <1>5

\* Every step keeps the types of the locals of a refresh.
LEMMA LocalsTypeStep == NetType /\ LocalsType /\ Next => LocalsType'
<1> SUFFICES ASSUME NetType, LocalsType, Next PROVE LocalsType'
  OBVIOUS
<1>c. MaxHeight \in Nat /\ Chunks \in Nat \ {0}
  BY Constants
<1>w. work[currentRPC] \in 1..MaxHeight
  BY DEF NetType
<1> USE DEF LocalsType
<1>1. CASE \E n \in Nodes : NodeBlock(n) \/ SetCurrentRPCURL(n)
  <2>1. moved' \in BOOLEAN
    BY <1>1 DEF NodeBlock, SetCurrentRPCURL, Moves
  <2>2. UNCHANGED <<refresh, fetchVars>>
    BY <1>1, Zenon DEF NodeBlock, SetCurrentRPCURL
  <2> QED
    BY <2>1, <2>2, Zenon DEF fetchVars
<1>2. CASE UNCHANGED consVars
  BY <1>2, Zenon DEF consVars, fetchVars
<1>3. CASE RefreshConsensus
  BY <1>3, Zenon DEF RefreshConsensus
<1>4. CASE GetConsensusState
  <2>1. consensus' \in 1..MaxHeight \cup {NULL, Failed}
    BY <1>4, <1>w DEF GetConsensusState
  <2> QED
    BY <1>4, <2>1, Zenon DEF GetConsensusState
<1>5. CASE FetchFails
  BY <1>5, Zenon DEF FetchFails
<1>6. CASE GetValidatorsPage
  <2>1. page' \in Nat \ {0} /\ seen' \subseteq 1..MaxHeight
    <3>1. page' \in {page, page + 1} /\ seen' \in {seen, seen \cup {work[currentRPC]}}
      BY <1>6, Zenon DEF GetValidatorsPage
    <3> QED
      BY <1>w, <3>1
  <2>2. fetch' \in {"dump", "error", "cosmos", fetch}
    BY <1>6, Zenon DEF GetValidatorsPage
  <2>3. UNCHANGED <<refresh, consensus, chunk, moved>>
    BY <1>6, Zenon DEF GetValidatorsPage
  <2> QED
    BY <2>1, <2>2, <2>3, Zenon
<1>7. CASE getValidatorsViaDumpConsensusState
  <2>1. seen' \subseteq 1..MaxHeight
    BY <1>7, <1>w DEF getValidatorsViaDumpConsensusState
  <2> QED
    BY <1>7, <2>1, Zenon DEF getValidatorsViaDumpConsensusState
<1>8. CASE GetCosmosValidators
  <2>1. fetch' \in {"done", "genesis", "assigned", "error"}
    BY <1>8 DEF GetCosmosValidators
  <2> QED
    BY <1>8, <2>1, Zenon DEF GetCosmosValidators
<1>9. CASE GetAssignedKeys
  BY <1>9, Zenon DEF GetAssignedKeys
<1>10. CASE getGenesisValidators
  <2>1. chunk' \in 0..Chunks - 1 /\ fetch' \in {"done", fetch}
    BY <1>10, <1>c DEF getGenesisValidators
  <2> QED
    BY <1>10, <2>1, Zenon DEF getGenesisValidators
<1>11. CASE Return
  <2>1. 0 \in 0..Chunks - 1 /\ 1 \in Nat \ {0}
    BY <1>c
  <2> QED
    BY <1>11, <2>1, Zenon DEF Return
<1>12. CASE SetTMValidators
  BY <1>12, Zenon DEF SetTMValidators, fetchVars
<1> QED
  BY <1>1, <1>2, <1>3, <1>4, <1>5, <1>6, <1>7, <1>8, <1>9, <1>10, <1>11, <1>12, Zenon
  DEF Next, TogglePause, GetValidators, Publish, Infos, Answer, AnswerFails, GetLatestBlock,
      GetOlderBlock, SetConsensusStateError, SetConsensusHeight, RefreshCometNodeInfo,
      RefreshNetInfo, RefreshMempool, RefreshUpgrade, SetUpgrade, Ask

\* Every step keeps the types of State; the height that is written is one.
LEMMA StateTypeStep == LocalsType /\ Publishing /\ StateType /\ Next => StateType'
<1> SUFFICES ASSUME LocalsType, Publishing, StateType, Next PROVE StateType'
  OBVIOUS
<1> USE DEF StateType
<1>1. CASE UNCHANGED stateVars
  BY <1>1, Zenon DEF stateVars
<1>2. CASE SetConsensusStateError
  BY <1>2, Zenon DEF SetConsensusStateError
<1>3. CASE SetTMValidators
  BY <1>3, Zenon DEF SetTMValidators, LocalsType
<1>4. CASE SetConsensusHeight
  <2>1. height' \in 0..MaxHeight
    BY <1>4, Constants DEF SetConsensusHeight, Publishing
  <2> QED
    BY <1>4, <2>1, Zenon DEF SetConsensusHeight
<1> QED
  BY <1>1, <1>2, <1>3, <1>4, Zenon
  DEF Next, NodeBlock, SetCurrentRPCURL, TogglePause, RefreshConsensus, GetConsensusState,
      FetchFails, GetValidators, GetValidatorsPage, getValidatorsViaDumpConsensusState,
      GetCosmosValidators, GetAssignedKeys, getGenesisValidators, Publish, Infos, Answer,
      AnswerFails, GetLatestBlock, GetOlderBlock, RefreshCometNodeInfo, RefreshNetInfo,
      RefreshMempool, RefreshUpgrade, SetUpgrade, Ask

\* Every step keeps the types of the panels, and the block that GetBlockTime waits for
\* is older than the first one.
LEMMA InfoTypeStep == NetType /\ InfoType /\ OlderExists /\ Next => InfoType' /\ OlderExists'
<1> SUFFICES ASSUME NetType, InfoType, OlderExists, Next PROVE InfoType' /\ OlderExists'
  OBVIOUS
<1>c. MaxHeight \in Nat /\ blocksBehind \in Nat
  BY Constants
<1>w. work[currentRPC] \in 1..MaxHeight /\ currentRPC \in Nodes
  BY DEF NetType
<1> DEFINE Panels == /\ asked \in [Kinds -> Nodes \cup {NULL}]
                     /\ info \in [Kinds -> Nodes \cup {NULL, "halt-height", "none"}]
                     /\ infoErr \subseteq Kinds
           Times == /\ latestBlock \in 0..MaxHeight
                    /\ blockTime = NULL \/ blockTime \in BlockTimes
<1>1. Panels /\ Times
  BY Zenon DEF InfoType
<1>2. SUFFICES Panels' /\ Times' /\ OlderExists'
  BY <1>2, Zenon DEF InfoType
<1>k. "status" \in Kinds /\ "netinfo" \in Kinds /\ "mempool" \in Kinds /\ "upgrade" \in Kinds
  BY DEF Kinds
<1>3. CASE UNCHANGED infoVars
  <2>1. UNCHANGED <<asked, info, infoErr, latestBlock, blockTime>>
    BY <1>3 DEF infoVars
  <2> QED
    BY <1>1, <2>1, Zenon DEF OlderExists
<1>4. CASE Infos \/ \E k \in Kinds : Answer(k) \/ AnswerFails(k)
  <2>1. UNCHANGED <<latestBlock, blockTime>>
    BY <1>4, Zenon DEF Infos, Answer, AnswerFails, RefreshCometNodeInfo, RefreshNetInfo,
                       RefreshMempool, RefreshUpgrade, SetUpgrade, Ask
  <2>2. Times' /\ OlderExists'
    BY <1>1, <2>1, Zenon DEF OlderExists
  <2>3. CASE Infos
    <3>1. ASSUME NEW k \in Kinds, NEW n \in Nodes, Ask(k, n) PROVE Panels'
      BY <1>1, <3>1 DEF Ask
    <3>2. ASSUME NEW plan \in {"halt-height", "none"}, SetUpgrade(plan),
                 UNCHANGED infoErr \/ infoErr' = infoErr \ {"upgrade"}
          PROVE  Panels'
      BY <1>1, <1>k, <3>2 DEF SetUpgrade
    <3>4. LCDHost \in Nodes
      BY FetchAssumption
    <3>3. Panels'
      BY <1>k, <1>w, <2>3, <3>1, <3>2, <3>4, Zenon
      DEF Infos, RefreshUpgrade, RefreshCometNodeInfo, RefreshNetInfo, RefreshMempool
    <3> QED
      BY <2>2, <3>3
  <2>4. CASE \E k \in Kinds : Answer(k)
    <3>1. PICK k \in Kinds : Answer(k)
      BY <2>4
    <3>2. asked[k] \in Nodes
      BY <1>1, <3>1 DEF Answer
    <3>3. Panels'
      BY <1>1, <3>1, <3>2 DEF Answer
    <3> QED
      BY <2>2, <3>3
  <2>5. CASE \E k \in Kinds : AnswerFails(k)
    <3>1. Panels'
      BY <1>1, <2>5 DEF AnswerFails
    <3> QED
      BY <2>2, <3>1
  <2> QED
    BY <1>4, <2>3, <2>4, <2>5
<1>5. CASE GetLatestBlock
  <2>1. latestBlock' \in 1..MaxHeight /\ latestBlock' = work[currentRPC] - 1
    BY <1>5, <1>c, <1>w DEF GetLatestBlock
  <2>2. OlderHeight(latestBlock') \in 1..MaxHeight /\ OlderHeight(latestBlock') < latestBlock'
    BY <1>5, <1>c, <2>1 DEF GetLatestBlock, OlderHeight
  <2>3. OlderExists'
    BY <2>1, <2>2 DEF OlderExists, OlderHeight
  <2>4. Times'
    BY <1>1, <1>5, <1>c, <2>1 DEF GetLatestBlock
  <2>5. Panels'
    BY <1>1, <1>5, Zenon DEF GetLatestBlock
  <2> QED
    BY <2>3, <2>4, <2>5
<1>6. CASE GetOlderBlock
  <2>1. latestBlock' = 0 /\ latestBlock # 0 /\ 0 \in 0..MaxHeight
    BY <1>6, <1>c DEF GetOlderBlock
  <2>2. CASE UNCHANGED blockTime
    BY <1>1, <1>6, <2>1, <2>2, Zenon DEF GetOlderBlock, OlderExists
  <2>3. CASE blockTime' = <<TimeOf[latestBlock] - TimeOf[OlderHeight(latestBlock)],
                            latestBlock - OlderHeight(latestBlock)>>
    <3>1. blockTime' \in BlockTimes
      BY <2>1, <2>3, BlockTimeBounds DEF OlderExists
    <3> QED
      BY <1>1, <1>6, <2>1, <3>1, Zenon DEF GetOlderBlock, OlderExists
  <2> QED
    BY <1>6, <2>2, <2>3, Zenon DEF GetOlderBlock
<1> QED
  BY <1>3, <1>4, <1>5, <1>6, Zenon
  DEF Next, NodeBlock, SetCurrentRPCURL, TogglePause, RefreshConsensus, GetConsensusState,
      FetchFails, GetValidators, GetValidatorsPage, getValidatorsViaDumpConsensusState,
      GetCosmosValidators, GetAssignedKeys, getGenesisValidators, Publish,
      SetConsensusStateError, SetTMValidators, SetConsensusHeight

--------------------------------------------------------------------------------
(* The lists under a step.                                                 *)

\* A validator set is a sequence of keys.
LEMMA SetOfHeight ==
  ASSUME NEW h \in 1..MaxHeight
  PROVE  ValSetAt[h] \in Seq(Keys) /\ Len(ValSetAt[h]) \in Nat
<1> DEFINE set == ValSetAt[h]
           R == Range(set)
<1>1. set \in Seq(R) /\ R \subseteq Keys
  BY FetchAssumption DEF Keys
<1> HIDE DEF set, R
<1>2. set \in Seq(Keys) /\ Len(set) \in Nat
  BY <1>1
<1> QED
  BY <1>2 DEF set

\* Any page of a set holds keys.
LEMMA PageKeys ==
  ASSUME NEW S, NEW set \in Seq(S), NEW p \in Nat \ {0}
  PROVE  PageOf(set, p) \in Seq(S)
<1> DEFINE lo == (p - 1) * PerPage + 1
           end == p * PerPage
           hi == Min({end, Len(set)})
<1>1. PerPage \in Nat \ {0} /\ Len(set) \in Nat
  BY FetchAssumption
<1>2. PICK n \in Nat : n = (p - 1) * PerPage
  <2>1. PICK q \in Nat : p - 1 = q
    OBVIOUS
  <2>2. PerPage * q \in Nat /\ (p - 1) * PerPage = PerPage * q
    BY <1>1, <2>1
  <2> QED
    BY <2>2
<1>3. end \in Int
  BY <1>1
<1> HIDE DEF end
<1>4. hi \in Int /\ hi <= Len(set)
  BY <1>1, <1>3, MinTwo
<1> HIDE DEF hi
<1>5. lo \in Int /\ lo >= 1
  BY <1>2
<1> HIDE DEF lo
<1>6. \A i \in lo..hi : set[i] \in S
  BY <1>1, <1>4, <1>5
<1>7. SubSeq(set, lo, hi) \in Seq(S)
  BY <1>4, <1>5, <1>6, SubSeqProperties
<1> QED
  BY <1>7, Zenon DEF PageOf, lo, hi, end

\* A page of the height that was read so far, or the first page: the list stays a
\* prefix of the set, and it is the set when it is as long.
LEMMA NextPage ==
  ASSUME LocalsType, Lists, refresh = "fetch", fetch = "page",
         NEW h \in 1..MaxHeight, seen \cup {h} = {h}
  PROVE  LET set == ValSetAt[h]
             vals == cometVals \o PageOf(set, page)
         IN  IF Len(vals) >= Len(set) THEN vals = set
             ELSE page * PerPage < Len(set) /\ vals = SubSeq(set, 1, page * PerPage)
<1> DEFINE set == ValSetAt[h]
           vals == cometVals \o PageOf(set, page)
           next == page * PerPage
           m == IF next <= Len(set) THEN next ELSE Len(set)
<1>1. set \in Seq(Keys) /\ Len(set) \in Nat /\ page \in Nat \ {0} /\ PerPage \in Nat \ {0}
  BY SetOfHeight, FetchAssumption DEF LocalsType
<1>2. Before <= Len(set) /\ cometVals = SubSeq(set, 1, Before)
  <2>1. CASE seen = {}
    <3>1. page = 1 /\ cometVals = <<>>
      BY <2>1 DEF Lists, Paged
    <3>2. Before = 0
      BY <1>1, <3>1 DEF Before
    <3>3. SubSeq(set, 1, 0) = <<>>
      BY SubSeqEmpty
    <3> QED
      BY <1>1, <3>1, <3>2, <3>3
  <2>2. CASE seen = {h}
    <3>1. Before < Len(set) /\ cometVals = SubSeq(set, 1, Before)
      BY <2>2 DEF Lists, Paged
    <3>2. Before \in Int
      BY <1>1 DEF Before
    <3> QED
      BY <1>1, <3>1, <3>2
  <2> QED
    BY <2>1, <2>2
<1> HIDE DEF set
<1>3. m \in Before..Len(set) /\ vals = SubSeq(set, 1, m) /\ Len(vals) = m
  BY <1>1, <1>2, PageJoin DEF Before
<1>4. next \in Int
  BY <1>1
<1> HIDE DEF vals, next
<1>5. SubSeq(set, 1, Len(set)) = set
  BY <1>1, SubSeqFull
<1>6. IF Len(vals) >= Len(set) THEN vals = set
      ELSE next < Len(set) /\ vals = SubSeq(set, 1, next)
  <2>1. CASE next < Len(set)
    BY <1>1, <1>3, <1>4, <2>1
  <2>2. CASE ~(next < Len(set))
    <3>1. m = Len(set)
      BY <1>1, <1>4, <2>2
    <3> HIDE DEF m
    <3>2. Len(vals) >= Len(set) /\ vals = set
      BY <1>1, <1>3, <1>5, <3>1
    <3> QED
      BY <3>2
  <2> QED
    BY <2>1, <2>2
<1> QED
  BY <1>6 DEF set, vals, next

\* A page that is read keeps the list exact, whichever node sends it.
LEMMA PageStep ==
  ASSUME NetType, LocalsType, Lists, GetValidatorsPage
  PROVE  Lists'
<1> DEFINE h == work[currentRPC]
           set == ValSetAt[h]
           vals == cometVals \o PageOf(set, page)
<1>1. h \in 1..MaxHeight /\ page \in Nat \ {0}
  BY DEF NetType, LocalsType
<1>2. refresh = "fetch" /\ refresh' = "fetch" /\ fetch = "page"
  BY Zenon DEF GetValidatorsPage
<1>b. Blank'
  BY <1>2 DEF Blank
<1> HIDE DEF h
<1>3. CASE fetch' \in {"dump", "error"} /\ cometVals' = cometVals
  <2>1. Paged' /\ Complete'
    BY <1>3 DEF Paged, Complete
  <2> QED
    BY <1>3, <1>b, <2>1 DEF Lists
<1>4. CASE /\ cometVals' = vals /\ seen' = seen \cup {h}
           /\ IF Len(cometVals') >= Len(set) THEN fetch' = "cosmos"
              ELSE page' = page + 1 /\ fetch' = fetch
  <2>1. cometVals' \in Seq(Keys)
    <3>1. PageOf(set, page) \in Seq(Keys)
      BY <1>1, SetOfHeight, PageKeys
    <3>2. cometVals \in Seq(Keys)
      BY DEF Lists
    <3> QED
      BY <1>4, <3>1, <3>2
  <2>2. ASSUME NEW g \in 1..MaxHeight, seen' = {g} PROVE g = h /\ seen \cup {h} = {h}
    BY <1>4, <2>2
  <2>3. seen' # {}
    BY <1>4
  <2>4. CASE Len(vals) >= Len(set)
    <3>1. fetch' = "cosmos"
      BY <1>4, <2>4
    <3>2. ASSUME NEW g \in 1..MaxHeight, seen' = {g} PROVE cometVals' = ValSetAt[g]
      BY <1>1, <1>2, <1>4, <2>2, <2>4, <3>2, NextPage
    <3>3. Paged' /\ Complete'
      BY <2>3, <3>1, <3>2 DEF Paged, Complete
    <3> QED
      BY <1>b, <2>1, <3>3 DEF Lists
  <2>5. CASE ~(Len(vals) >= Len(set))
    <3>1. fetch' = "page" /\ page' = page + 1
      BY <1>2, <1>4, <2>5
    <3>2. Before' = page * PerPage
      <4>1. page' - 1 = page
        BY <1>1, <3>1
      <4> QED
        BY <4>1 DEF Before
    <3>3. ASSUME NEW g \in 1..MaxHeight, seen' = {g}
          PROVE  /\ page * PerPage < Len(ValSetAt[g])
                 /\ cometVals' = SubSeq(ValSetAt[g], 1, page * PerPage)
      BY <1>1, <1>2, <1>4, <2>2, <2>5, <3>3, NextPage
    <3>4. Paged' /\ Complete'
      BY <2>3, <3>1, <3>2, <3>3 DEF Paged, Complete
    <3> QED
      BY <1>b, <2>1, <3>4 DEF Lists
  <2> QED
    BY <2>4, <2>5
<1> QED
  BY <1>3, <1>4, Zenon DEF GetValidatorsPage, h

\* Every step keeps the lists exact.
LEMMA ListsStep ==
  ASSUME NetType, LocalsType, Lists, Next
  PROVE  Lists'
<1>w. work[currentRPC] \in 1..MaxHeight
  BY DEF NetType
<1> USE DEF Lists
<1>1. CASE \E n \in Nodes : NodeBlock(n) \/ SetCurrentRPCURL(n)
  <2>1. UNCHANGED <<refresh, consensus, fetch, page, cometVals, chunk, seen>> /\ Moves
    BY <1>1, Zenon DEF NodeBlock, SetCurrentRPCURL, fetchVars
  <2>2. Blank'
    BY <2>1 DEF Blank, Moves
  <2> QED
    BY <2>1, <2>2, Zenon DEF Paged, Complete, Before
<1>2. CASE UNCHANGED consVars
  BY <1>2, Zenon DEF consVars, fetchVars, Blank, Paged, Complete, Before
<1>3. CASE RefreshConsensus
  <2>1. page' = 1 /\ cometVals' = <<>> /\ seen' = {} /\ refresh' = "fetch" /\ fetch' = "page"
    BY <1>3 DEF RefreshConsensus, Blank
  <2>2. Paged' /\ Complete' /\ Blank'
    BY <2>1 DEF Paged, Complete, Blank
  <2> QED
    BY <1>3, <2>2, Zenon DEF RefreshConsensus
<1>4. CASE GetConsensusState
  <2>1. UNCHANGED <<refresh, fetch, page, cometVals, seen>> /\ refresh = "fetch"
    BY <1>4, Zenon DEF GetConsensusState
  <2>2. Blank'
    BY <2>1 DEF Blank
  <2> QED
    BY <2>1, <2>2, Zenon DEF Paged, Complete, Before
<1>5. CASE FetchFails
  BY <1>5 DEF FetchFails, Blank, Paged, Complete
<1>6. CASE GetValidatorsPage
  BY <1>6, PageStep
<1>7. CASE getValidatorsViaDumpConsensusState
  <2>1. /\ cometVals' = ValSetAt[work[currentRPC]] /\ seen' = {work[currentRPC]}
        /\ refresh' = "fetch" /\ fetch' = "cosmos"
    BY <1>7 DEF getValidatorsViaDumpConsensusState
  <2>2. Paged' /\ Complete' /\ Blank'
    BY <2>1 DEF Paged, Complete, Blank
  <2> QED
    BY <1>w, <2>1, <2>2, SetOfHeight
<1>8. ASSUME GetCosmosValidators \/ GetAssignedKeys \/ getGenesisValidators PROVE Lists'
  <2>1. /\ UNCHANGED <<refresh, cometVals, seen>> /\ refresh = "fetch"
        /\ fetch \in {"cosmos", "assigned", "genesis"}
        /\ fetch' \in {"genesis", "assigned", "done", "error"}
    <3>1. CASE GetCosmosValidators
      BY <3>1 DEF GetCosmosValidators
    <3>2. CASE GetAssignedKeys
      BY <3>2 DEF GetAssignedKeys
    <3>3. CASE getGenesisValidators
      BY <3>3 DEF getGenesisValidators
    <3> QED
      BY <1>8, <3>1, <3>2, <3>3
  <2> QED
    BY <2>1 DEF Blank, Paged, Complete
<1>9. CASE Return
  BY <1>9 DEF Return, Blank, Paged, Complete
<1>10. CASE SetTMValidators
  <2>1. /\ UNCHANGED <<fetch, cometVals, seen>> /\ refresh' = "height"
        /\ refresh = "fetch" /\ fetch = "done"
    BY <1>10 DEF SetTMValidators, Joined, fetchVars
  <2> QED
    BY <2>1 DEF Blank, Paged, Complete
<1> QED
  BY <1>1, <1>2, <1>3, <1>4, <1>5, <1>6, <1>7, <1>8, <1>9, <1>10, Zenon
  DEF Next, TogglePause, GetValidators, Publish, Infos, Answer, AnswerFails, GetLatestBlock,
      GetOlderBlock, SetConsensusStateError, SetConsensusHeight, RefreshCometNodeInfo,
      RefreshNetInfo, RefreshMempool, RefreshUpgrade, SetUpgrade, Ask

--------------------------------------------------------------------------------
(* What is shown under a step.                                             *)

\* Everything that one refresh read comes from the current RPC's height, unless a node
\* moved or the user did.
LEMMA TogetherStep ==
  ASSUME LocalsType, Lists, Together, Next
  PROVE  Together'
<1> USE DEF Together
<1>1. CASE \E n \in Nodes : NodeBlock(n) \/ SetCurrentRPCURL(n)
  <2>1. refresh' = refresh /\ Moves
    BY <1>1, Zenon DEF NodeBlock, SetCurrentRPCURL
  <2> QED
    BY <2>1 DEF Moves
<1>2. ASSUME UNCHANGED <<work, currentRPC, consVars>> PROVE Together'
  BY <1>2, Zenon DEF consVars, fetchVars
<1>3. CASE RefreshConsensus
  <2>1. consensus' = NULL /\ seen' = {}
    BY <1>3 DEF RefreshConsensus, Lists, Blank
  <2> QED
    BY <2>1
<1>4. CASE GetConsensusState
  BY <1>4 DEF GetConsensusState, netVars
<1>5. ASSUME FetchFails \/ GetCosmosValidators \/ GetAssignedKeys \/ getGenesisValidators
      PROVE  Together'
  <2>1. UNCHANGED <<work, currentRPC, refresh, consensus, seen, moved>>
    BY <1>5, Zenon DEF FetchFails, GetCosmosValidators, GetAssignedKeys, getGenesisValidators,
                       netVars
  <2> QED
    BY <2>1
<1>6. ASSUME GetValidatorsPage \/ getValidatorsViaDumpConsensusState PROVE Together'
  <2>1. /\ UNCHANGED <<work, currentRPC, refresh, consensus, moved>>
        /\ seen' \in {seen, seen \cup {work[currentRPC]}, {work[currentRPC]}}
    BY <1>6, Zenon DEF GetValidatorsPage, getValidatorsViaDumpConsensusState, netVars
  <2> QED
    BY <2>1
<1>7. CASE Return
  BY <1>7 DEF Return
<1>8. CASE SetTMValidators
  BY <1>8 DEF SetTMValidators
<1> QED
  BY <1>1, <1>2, <1>3, <1>4, <1>5, <1>6, <1>7, <1>8, Zenon
  DEF Next, TogglePause, GetValidators, Publish, Infos, Answer, AnswerFails, GetLatestBlock,
      GetOlderBlock, SetConsensusStateError, SetConsensusHeight, RefreshCometNodeInfo,
      RefreshNetInfo, RefreshMempool, RefreshUpgrade, SetUpgrade, Ask, netVars

\* The keys of the merged list are the keys CometBFT listed, whatever the staking
\* module knows of them.
LEMMA MergeKeys ==
  ASSUME cometVals \in Seq(Keys), tmValidators' = Merge
  PROVE  ShownKeys' = cometVals
<1>1. DOMAIN Merge = DOMAIN cometVals /\ \A i \in DOMAIN cometVals : Merge[i].key = cometVals[i]
  BY DEF Merge
<1>2. ShownKeys' = [i \in DOMAIN cometVals |-> cometVals[i]]
  BY <1>1 DEF ShownKeys
<1>3. cometVals = [i \in DOMAIN cometVals |-> cometVals[i]]
  OBVIOUS
<1> QED
  BY <1>2, <1>3

\* Every step keeps what is shown right.
LEMMA ShownStep ==
  ASSUME LocalsType, Lists, Shown, Next
  PROVE  Shown'
<1>t. Together'
  BY TogetherStep DEF Shown
<1> USE DEF Shown

<1>1. CASE SetTMValidators
  <2>1. /\ Joined /\ consensus # Failed /\ fetch # "error" /\ refresh' = "height"
        /\ shownSeen' = seen /\ shownMoved' = moved /\ consensus' = consensus
    BY <1>1, Zenon DEF SetTMValidators, fetchVars
  <2>2. ShownKeys' = cometVals
    BY <1>1, MergeKeys, Zenon DEF SetTMValidators, Lists
  <2>3. refresh = "fetch" /\ fetch = "done" /\ consensus \in 1..MaxHeight
    BY <2>1 DEF Joined, LocalsType
  <2>4. seen # {} /\ \A h \in 1..MaxHeight : seen = {h} => cometVals = ValSetAt[h]
    BY <2>3 DEF Lists, Complete
  <2>5. ValidatorsExact'
    BY <2>1, <2>2, <2>4 DEF ValidatorsExact
  <2>6. ASSUME ~moved PROVE cometVals = ValSetAt[consensus]
    <3>1. consensus = work[currentRPC] /\ seen \subseteq {work[currentRPC]}
      BY <2>1, <2>3, <2>6 DEF Together, Joined
    <3> QED
      BY <2>3, <2>4, <3>1
  <2>7. Publishing' /\ PublishedTogether'
    BY <2>1, <2>2, <2>3, <2>6 DEF Publishing, PublishedTogether
  <2> QED
    BY <1>t, <2>5, <2>7
<1>2. CASE SetConsensusHeight
  <2>1. /\ refresh = "height" /\ refresh' = "idle" /\ height' = consensus
        /\ UNCHANGED <<tmValidators, shownSeen, shownMoved>>
    BY <1>2, Zenon DEF SetConsensusHeight, Return
  <2>2. ShownKeys' = ShownKeys
    BY <2>1 DEF ShownKeys
  <2>3. ValidatorsExact' /\ Publishing' /\ PublishedTogether'
    BY <2>1, <2>2 DEF ValidatorsExact, Publishing, PublishedTogether
  <2> QED
    BY <1>t, <2>3
<1>3. CASE ~SetTMValidators /\ ~SetConsensusHeight
  <2>1. UNCHANGED <<tmValidators, height, shownSeen, shownMoved>>
    BY <1>3, Zenon
    DEF Next, NodeBlock, SetCurrentRPCURL, TogglePause, RefreshConsensus, GetConsensusState,
        FetchFails, GetValidators, GetValidatorsPage, getValidatorsViaDumpConsensusState,
        GetCosmosValidators, GetAssignedKeys, getGenesisValidators, Publish,
        SetConsensusStateError, Infos, Answer, AnswerFails, GetLatestBlock, GetOlderBlock,
        RefreshCometNodeInfo, RefreshNetInfo, RefreshMempool, RefreshUpgrade, SetUpgrade, Ask, stateVars
  <2>2. ShownKeys' = ShownKeys
    BY <2>1 DEF ShownKeys
  <2>3. ValidatorsExact'
    BY <2>1, <2>2 DEF ValidatorsExact
  <2>4. \/ refresh # "height" /\ refresh' # "height"
        \/ refresh' = refresh /\ consensus' = consensus
    <3>1. ASSUME RefreshConsensus \/ SetConsensusStateError \/ GetConsensusState
          PROVE  refresh # "height" /\ refresh' # "height"
      BY <3>1 DEF RefreshConsensus, SetConsensusStateError, GetConsensusState, Joined, Return
    <3>2. ASSUME ~RefreshConsensus, ~SetConsensusStateError, ~GetConsensusState
          PROVE  refresh' = refresh /\ consensus' = consensus
      BY <1>3, <3>2, Zenon
      DEF Next, NodeBlock, SetCurrentRPCURL, TogglePause, FetchFails, GetValidators,
          GetValidatorsPage, getValidatorsViaDumpConsensusState, GetCosmosValidators,
          GetAssignedKeys, getGenesisValidators, Publish, Infos, Answer, AnswerFails,
          GetLatestBlock, GetOlderBlock, RefreshCometNodeInfo, RefreshNetInfo, RefreshMempool,
          RefreshUpgrade, SetUpgrade, Ask, consVars, fetchVars
    <3> QED
      BY <3>1, <3>2
  <2>5. Publishing' /\ PublishedTogether'
    BY <2>1, <2>2, <2>4 DEF Publishing, PublishedTogether
  <2> QED
    BY <1>t, <2>3, <2>5
<1> QED
  BY <1>1, <1>2, <1>3

--------------------------------------------------------------------------------
(* The theorems.                                                           *)

\* The inductive invariant: the types; while pages of one height are read the list is a
\* proper prefix of that height's set, and it is the set when the last one came; while
\* nothing moves both goroutines read one height; between the two writes the validators
\* belong to the height that is not written yet; GetBlockTime's older block exists
\* (RefreshConsensus, CometRPC.GetValidators, GetBlockTime).
THEOREM Invariance == Spec => []IInv
<1>1. IInv /\ [Next]_vars => IInv'
  <2> SUFFICES ASSUME IInv, [Next]_vars PROVE IInv'
    OBVIOUS
  <2>0. NetType /\ LocalsType /\ StateType /\ InfoType /\ OlderExists /\ Lists /\ Shown /\ Publishing
    BY TypeParts DEF IInv, Shown
  <2>1. CASE Next
    <3>1. NetType' /\ LocalsType' /\ StateType' /\ InfoType' /\ OlderExists'
      BY <2>0, <2>1, NetTypeStep, LocalsTypeStep, StateTypeStep, InfoTypeStep, Zenon
    <3>2. TypeOK'
      BY <3>1, Zenon DEF TypeOK, NetType, LocalsType, StateType, InfoType
    <3>3. Lists' /\ Shown'
      BY <2>0, <2>1, ListsStep, ShownStep, Zenon
    <3> QED
      BY <3>1, <3>2, <3>3 DEF IInv
  <2>2. CASE UNCHANGED vars
    <3> USE DEF vars, netVars, consVars, fetchVars, stateVars, infoVars
    <3>1. TypeOK' /\ OlderExists'
      <4>1. NetType' /\ StateType'
        BY <2>0, <2>2, Zenon DEF NetType, StateType
      <4>2. LocalsType'
        BY <2>0, <2>2, Zenon DEF LocalsType
      <4>3. InfoType' /\ OlderExists'
        BY <2>0, <2>2, Zenon DEF InfoType, OlderExists
      <4> QED
        BY <4>1, <4>2, <4>3, Zenon DEF TypeOK, NetType, LocalsType, StateType, InfoType
    <3>2. Lists'
      BY <2>0, <2>2, Zenon DEF Lists, Blank, Paged, Complete, Before
    <3>3. Shown'
      BY <2>0, <2>2, Zenon
      DEF Shown, Together, Publishing, ValidatorsExact, PublishedTogether, ShownKeys
    <3> QED
      BY <3>1, <3>2, <3>3 DEF IInv
  <2> QED
    BY <2>1, <2>2
<1> QED
  BY <1>1, InitIInv, PTL DEF Spec

\* Type correctness: a genesis chunk that is asked for exists, and the block time shown
\* lies between the shortest and the longest interval of the chain although its two
\* blocks may come from different nodes (getGenesisValidators, GetBlockTime).
THEOREM TypeCorrect == Spec => []TypeOK
<1>1. IInv => TypeOK
  BY DEF IInv
<1> QED
  BY <1>1, Invariance, PTL

\* The pages of one height make up its set, each validator once and in order, for every
\* page size and wherever the RPC was switched (CometRPC.GetValidators).
THEOREM PagesMakeTheSet == Spec => []ValidatorsExact
<1>1. IInv => ValidatorsExact
  BY DEF IInv, Shown
<1> QED
  BY <1>1, Invariance, PTL

\* Two parallel requests and two writes show one height, unless a block or a switch fell
\* into the refresh; a failed refresh leaves it so (RefreshConsensus).
THEOREM HeightAndValidatorsAgree == Spec => []PublishedTogether
<1>1. IInv => PublishedTogether
  BY DEF IInv, Shown
<1> QED
  BY <1>1, Invariance, PTL
================================================================================
