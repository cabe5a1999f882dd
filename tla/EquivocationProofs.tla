--------------------------- MODULE EquivocationProofs --------------------------
(* The accusations of Equivocation are true and its memory unambiguous, for *)
(* every window, every capacity of the list and every sequence of votes.    *)
EXTENDS Equivocation, TLAPS

\* What is remembered was delivered, and is a vote for a block.
SeenDelivered == \A p \in seen : p \in votes /\ p.block # NilBlock

\* The set seen stands for the map seen[height][slotKey]: a slot has one block.
OneFirstVote == \A p, q \in seen : SameSlot(p, q) => p = q

\* No later vote has pushed the height of a out of the window.
InWindow(a) == \A v \in votes : v.height <= a.height + window

\* The list holds evidence for the slot of a, or is full.
Accused(a) ==
  \/ Len(events) = maxEquivEvents
  \/ \E i \in DOMAIN events :
       /\ events[i].val = a.val /\ events[i].height = a.height
       /\ events[i].round = a.round /\ events[i].type = a.type

\* A vote for a block within the window has a first vote in memory, and either is
\* for its block or has made evidence.
Remembered ==
  \A a \in votes : (a.block # NilBlock /\ InWindow(a)) =>
    \E p \in seen : SameSlot(p, a) /\ (p.block = a.block \/ Accused(a))

IInv == TypeOK /\ SeenDelivered /\ OneFirstVote /\ EvidenceSound /\ FlagSound /\ Remembered

\* The memory between two slots: same slot means the same four fields.
LEMMA SlotFields ==
  ASSUME NEW a \in Vote, NEW b \in Vote, SameSlot(a, b)
  PROVE  a.val = b.val /\ a.height = b.height /\ a.round = b.round /\ a.type = b.type
BY DEF SameSlot, slotKey

\* Being in the same slot is transitive through a third vote.
LEMMA SlotTransitive ==
  ASSUME NEW a \in Vote, NEW b \in Vote, NEW c \in Vote,
         SameSlot(a, c), SameSlot(b, c)
  PROVE  SameSlot(a, b)
BY DEF SameSlot, slotKey

\* Two votes of one slot for different blocks are an event of the list's type.
LEMMA ConflictType ==
  ASSUME NEW p \in Vote, NEW v \in Vote, p.block # NilBlock, v.block # NilBlock
  PROVE  Conflict(p, v) \in Event
BY DEF Conflict, Vote, Event

\* Capping a list keeps its type, and no entry that was not in the list.
LEMMA CappedType ==
  ASSUME NEW s \in Seq(Event), Len(s) <= maxEquivEvents + 1
  PROVE  /\ capped(s) \in Seq(Event) /\ Len(capped(s)) <= maxEquivEvents
         /\ \A i \in DOMAIN capped(s) : \E j \in DOMAIN s : capped(s)[i] = s[j]
<1>0. maxEquivEvents \in Nat /\ maxEquivEvents > 0
  BY EquivocationAssumption
<1>1. CASE Len(s) > maxEquivEvents
  <2>1. s # <<>> /\ Len(s) = maxEquivEvents + 1
    BY <1>0, <1>1
  <2>2. Tail(s) \in Seq(Event) /\ Len(Tail(s)) = maxEquivEvents
    BY <1>0, <2>1
  <2>3. \A i \in 1..Len(Tail(s)) : i + 1 \in 1..Len(s) /\ Tail(s)[i] = s[i + 1]
    BY <1>0, <2>1, <2>2
  <2>. QED  BY <1>0, <1>1, <2>2, <2>3 DEF capped
<1>2. CASE ~ Len(s) > maxEquivEvents
  BY <1>0, <1>2 DEF capped
<1>. QED  BY <1>1, <1>2

LEMMA InitInv == Init => IInv
BY EquivocationAssumption
DEF Init, IInv, TypeOK, SeenDelivered, OneFirstVote, EvidenceSound, FlagSound, Remembered

LEMMA WindowType == window \in Nat \ {0}
BY EquivocationAssumption DEF window

\* The list only grows until it is full, so a slot stays accused.
LEMMA AccusedStays ==
  ASSUME TypeOK, TypeOK', NEW a \in Vote, Accused(a),
         \/ events' = events
         \/ \E e \in Event : events' = capped(Append(events, e))
  PROVE  Accused(a)'
<1>0. maxEquivEvents \in Nat \ {0} /\ events \in Seq(Event) /\ Len(events) <= maxEquivEvents
  BY EquivocationAssumption DEF TypeOK
<1>1. CASE events' = events
  BY <1>1 DEF Accused
<1>2. ASSUME NEW e \in Event, events' = capped(Append(events, e)) PROVE Accused(a)'
  <2>1. Append(events, e) \in Seq(Event) /\ Len(Append(events, e)) = Len(events) + 1
    BY <1>0
  <2>2. CASE Len(events) = maxEquivEvents
    <3>1. events' = Tail(Append(events, e))
      BY <1>0, <1>2, <2>1, <2>2 DEF capped
    <3>2. Len(events') = maxEquivEvents
      BY <1>0, <2>1, <2>2, <3>1
    <3>. QED  BY <3>2 DEF Accused
  <2>3. CASE Len(events) < maxEquivEvents
    <3>1. events' = Append(events, e)
      BY <1>0, <1>2, <2>1, <2>3 DEF capped
    <3>2. \A i \in DOMAIN events : i \in DOMAIN events' /\ events'[i] = events[i]
      BY <1>0, <2>1, <3>1
    <3>. QED  BY <1>0, <2>3, <3>2 DEF Accused
  <2>. QED  BY <1>0, <2>2, <2>3
<1>. QED  BY <1>1, <1>2

\* The conflict of a vote with the first of its slot accuses the slot.
LEMMA ConflictAccuses ==
  ASSUME TypeOK, NEW p \in Vote, NEW v \in Vote, Conflict(p, v) \in Event,
         events' = capped(Append(events, Conflict(p, v)))
  PROVE  Accused(v)'
<1> DEFINE e == Conflict(p, v)
<1>0. maxEquivEvents \in Nat \ {0} /\ events \in Seq(Event) /\ Len(events) <= maxEquivEvents
  BY EquivocationAssumption DEF TypeOK
<1>1. e.val = v.val /\ e.height = v.height /\ e.round = v.round /\ e.type = v.type
  BY DEF Conflict
<1> HIDE DEF e
<1>2. Append(events, e) \in Seq(Event) /\ Len(Append(events, e)) = Len(events) + 1
  BY <1>0 DEF e
<1>3. CASE Len(events) = maxEquivEvents
  <2>1. events' = Tail(Append(events, e))
    BY <1>0, <1>2, <1>3 DEF capped, e
  <2>2. Len(events') = maxEquivEvents
    BY <1>0, <1>2, <1>3, <2>1
  <2>. QED  BY <2>2 DEF Accused
<1>4. CASE Len(events) < maxEquivEvents
  <2>1. events' = Append(events, e)
    BY <1>0, <1>2, <1>4 DEF capped, e
  <2>2. Len(events) + 1 \in DOMAIN events' /\ events'[Len(events) + 1] = e
    BY <1>0, <1>2, <2>1
  <2>. QED  BY <1>1, <2>2 DEF Accused
<1>. QED  BY <1>0, <1>3, <1>4

\* A first vote of the slot of a vote in the window survives the eviction.
LEMMA FirstVoteStays ==
  ASSUME TypeOK, NEW v \in Vote, votes' = votes \cup {v}, NEW a \in Vote, InWindow(a)',
         NEW S, NEW p \in S, p \in Vote, SameSlot(p, a)
  PROVE  InWindow(a) /\ p \in evict(S, v.height)
<1>1. v.height <= a.height + window /\ InWindow(a)
  BY DEF InWindow, window
<1>2. p.height = a.height /\ p.height \in Int /\ v.height \in Int
  BY SlotFields DEF Vote
<1>. QED  BY <1>1, <1>2, WindowType DEF evict

\* One vote: what the memory and the list become.
LEMMA ObserveInv ==
  ASSUME IInv, NEW v \in Vote, observeForEquivocation(v)
  PROVE  IInv'
<1>. USE DEF IInv
<1>0. votes' = votes \cup {v} /\ flagged' = flagged
  BY DEF observeForEquivocation
<1>f. FlagSound'
  BY <1>0 DEF FlagSound
<1>v. v \in votes' /\ \A a \in votes' : a \in Vote /\ (a = v \/ a \in votes)
  BY <1>0 DEF TypeOK
<1>1. CASE v.block = NilBlock /\ UNCHANGED <<seen, events>>
  <2>1. TypeOK' /\ SeenDelivered' /\ OneFirstVote' /\ EvidenceSound'
    BY <1>0, <1>1 DEF TypeOK, SeenDelivered, OneFirstVote, EvidenceSound
  <2>2. Remembered'
    <3> SUFFICES ASSUME NEW a \in votes', a.block # NilBlock, InWindow(a)'
                 PROVE  \E p \in seen' : SameSlot(p, a) /\ (p.block = a.block \/ Accused(a)')
      BY DEF Remembered, SameSlot, slotKey
    <3>1. a \in votes /\ InWindow(a)
      BY <1>0, <1>1, <1>v DEF InWindow, window
    <3>2. Accused(a) => Accused(a)'
      BY <1>1 DEF Accused
    <3>. QED  BY <1>1, <3>1, <3>2 DEF Remembered
  <2>. QED  BY <1>f, <2>1, <2>2
<1>2. CASE /\ v.block # NilBlock
           /\ ~ \E p \in seen : SameSlot(p, v)
           /\ seen' = evict(seen \cup {v}, v.height)
           /\ events' = events
  <2>1. seen' \subseteq seen \cup {v}
    BY <1>2 DEF evict
  <2>2. TypeOK'
    BY <1>0, <1>2, <2>1 DEF TypeOK
  <2>3. SeenDelivered'
    BY <1>0, <1>2, <2>1 DEF SeenDelivered
  <2>4. OneFirstVote'
    BY <1>2, <2>1 DEF OneFirstVote, SameSlot
  <2>5. EvidenceSound'
    BY <1>0, <1>2 DEF EvidenceSound
  <2>6. Remembered'
    <3> SUFFICES ASSUME NEW a \in votes', a.block # NilBlock, InWindow(a)'
                 PROVE  \E p \in seen' : SameSlot(p, a) /\ (p.block = a.block \/ Accused(a)')
      BY DEF Remembered, SameSlot, slotKey
    <3>1. CASE a = v
      <4>1. SameSlot(v, v)
        BY DEF SameSlot
      <4>2. v \in seen'
        BY <1>0, <1>2, <1>v, <3>1, <4>1, FirstVoteStays
      <4>. QED  BY <3>1, <4>1, <4>2
    <3>2. CASE a \in votes
      <4>1. InWindow(a)
        BY <1>0 DEF InWindow, window
      <4>2. PICK p \in seen : SameSlot(p, a) /\ (p.block = a.block \/ Accused(a))
        BY <3>2, <4>1 DEF Remembered
      <4>3. p \in seen'
        <5>1. p \in seen \cup {v} /\ p \in Vote
          BY DEF TypeOK
        <5>. QED  BY <1>0, <1>2, <1>v, <4>2, <5>1, FirstVoteStays
      <4>4. Accused(a) => Accused(a)'
        BY <1>2 DEF Accused
      <4>. QED  BY <4>2, <4>3, <4>4
    <3>. QED  BY <1>v, <3>1, <3>2
  <2>. QED  BY <1>f, <2>2, <2>3, <2>4, <2>5, <2>6
<1>3. ASSUME v.block # NilBlock,
             NEW p \in seen, SameSlot(p, v),
             seen' = evict(seen, v.height),
             events' = IF p.block = v.block THEN events
                       ELSE capped(Append(events, Conflict(p, v)))
      PROVE  IInv'
  <2>1. seen' \subseteq seen
    BY <1>3 DEF evict
  <2>2. SeenDelivered' /\ OneFirstVote'
    BY <1>0, <2>1 DEF SeenDelivered, OneFirstVote
  <2>3. p \in Vote /\ p \in votes /\ p.block # NilBlock
    BY DEF TypeOK, SeenDelivered
  <2>a. ASSUME TypeOK', Accused(v)' \/ p.block = v.block,
               \A a \in Vote : Accused(a) => Accused(a)'
        PROVE  Remembered'
    <3> SUFFICES ASSUME NEW a \in votes', a.block # NilBlock, InWindow(a)'
                 PROVE  \E q \in seen' : SameSlot(q, a) /\ (q.block = a.block \/ Accused(a)')
      BY DEF Remembered, SameSlot, slotKey
    <3>1. CASE a = v
      <4>1. p \in seen'
        BY <1>0, <1>3, <1>v, <2>3, <3>1, FirstVoteStays
      <4>. QED  BY <1>3, <2>a, <3>1, <4>1
    <3>2. CASE a \in votes
      <4>1. InWindow(a)
        BY <1>0 DEF InWindow, window
      <4>2. PICK q \in seen : SameSlot(q, a) /\ (q.block = a.block \/ Accused(a))
        BY <3>2, <4>1 DEF Remembered
      <4>3. q \in seen'
        <5>1. q \in Vote
          BY DEF TypeOK
        <5>. QED  BY <1>0, <1>3, <1>v, <4>2, <5>1, FirstVoteStays
      <4>. QED  BY <1>v, <2>a, <4>2, <4>3
    <3>. QED  BY <1>v, <3>1, <3>2
  <2>4. CASE p.block = v.block
    <3>1. TypeOK' /\ EvidenceSound'
      BY <1>0, <1>3, <2>1, <2>4 DEF TypeOK, EvidenceSound
    <3>2. \A a \in Vote : Accused(a) => Accused(a)'
      BY <1>3, <2>4 DEF Accused
    <3>. QED  BY <1>f, <2>2, <2>4, <2>a, <3>1, <3>2
  <2>5. CASE p.block # v.block
    <3> DEFINE s == Append(events, Conflict(p, v))
    <3>1. events' = capped(s)
      BY <1>3, <2>5
    <3>2. Conflict(p, v) \in Event
      BY <1>3, <2>3, ConflictType
    <3>3. s \in Seq(Event) /\ Len(s) <= maxEquivEvents + 1
      BY <3>2, EquivocationAssumption DEF TypeOK
    <3>4. TypeOK'
      BY <1>0, <2>1, <3>1, <3>3, CappedType DEF TypeOK
    <3>5. Equivocates(p, v)
      BY <1>3, <2>3, <2>5, SlotFields DEF Equivocates
    <3>6. \A j \in DOMAIN s : \E a, b \in votes' : Equivocates(a, b) /\ s[j] = Conflict(a, b)
      <4>1. events \in Seq(Event)
        BY DEF TypeOK
      <4>2. TAKE j \in DOMAIN s
      <4>3. CASE j \in DOMAIN events
        <5>1. s[j] = events[j]
          BY <3>2, <4>1, <4>3
        <5>. QED  BY <1>0, <4>3, <5>1 DEF EvidenceSound
      <4>4. CASE j \notin DOMAIN events
        <5>1. s[j] = Conflict(p, v)
          BY <3>2, <4>1, <4>2, <4>4
        <5>. QED  BY <1>0, <2>3, <3>5, <5>1
      <4>. QED  BY <4>3, <4>4
    <3>7. \A i \in DOMAIN capped(s) : \E j \in DOMAIN s : capped(s)[i] = s[j]
      BY <3>3, CappedType
    <3> HIDE DEF s
    <3>8. EvidenceSound'
      BY <3>1, <3>6, <3>7 DEF EvidenceSound
    <3>9. \A a \in Vote : Accused(a) => Accused(a)'
      BY <3>1, <3>2, <3>4, AccusedStays DEF s
    <3>10. Accused(v)'
      BY <2>3, <3>1, <3>2, ConflictAccuses DEF s
    <3>. QED  BY <1>f, <2>2, <2>a, <3>4, <3>8, <3>9, <3>10
  <2>. QED  BY <2>4, <2>5
<1>. QED  BY <1>1, <1>2, <1>3 DEF observeForEquivocation

\* A Build flags only validators with evidence.
LEMMA BuildInv ==
  ASSUME IInv, enrichEquivocationFlags
  PROVE  IInv'
<1>. USE DEF IInv
<1>1. TypeOK' /\ SeenDelivered' /\ OneFirstVote' /\ EvidenceSound'
  <2>1. \A i \in DOMAIN events : events[i].val \in Validators
    <3>1. \A i \in DOMAIN events : events[i] \in Event
      BY DEF TypeOK
    <3>. QED  BY <3>1 DEF Event
  <2>. QED  BY <2>1 DEF enrichEquivocationFlags, TypeOK, SeenDelivered,
                        OneFirstVote, EvidenceSound
<1>2. FlagSound'
  <2>1. ASSUME NEW val \in flagged'
        PROVE  \E a, b \in votes : a.val = val /\ Equivocates(a, b)
    <3>1. PICK i \in DOMAIN events : val = events[i].val
      BY <2>1 DEF enrichEquivocationFlags
    <3>2. PICK a \in votes, b \in votes :
            Equivocates(a, b) /\ events[i] = Conflict(a, b)
      BY DEF EvidenceSound
    <3>3. val = a.val
      BY <3>1, <3>2 DEF Conflict, Equivocates
    <3>. QED  BY <3>2, <3>3
  <2>. QED  BY <2>1 DEF FlagSound, enrichEquivocationFlags
<1>3. Remembered'
  BY DEF enrichEquivocationFlags, Remembered, InWindow, Accused, SameSlot, slotKey, window
<1>. QED  BY <1>1, <1>2, <1>3

\* The inductive invariant of the detector.
THEOREM Invariance == Spec => []IInv
<1>1. IInv /\ [Next]_vars => IInv'
  <2>. SUFFICES ASSUME IInv, [Next]_vars PROVE IInv'
    OBVIOUS
  <2>1. CASE ObserveVote
    BY <2>1, ObserveInv DEF ObserveVote
  <2>2. CASE enrichEquivocationFlags
    BY <2>2, BuildInv
  <2>3. CASE UNCHANGED vars
    BY <2>3 DEF vars, IInv, TypeOK, SeenDelivered, OneFirstVote, EvidenceSound, FlagSound,
                Remembered, InWindow, Accused, SameSlot, slotKey, window
  <2>. QED  BY <2>1, <2>2, <2>3 DEF Next
<1>. QED  BY <1>1, InitInv, PTL DEF Spec

\* The list of evidence never exceeds its capacity and holds only events.
THEOREM TypeCorrect == Spec => []TypeOK
<1>1. IInv => TypeOK
  BY DEF IInv
<1>. QED  BY <1>1, Invariance, PTL

\* Nobody is accused who did not equivocate.
THEOREM NoFalseEvidence == Spec => []EvidenceSound
<1>1. IInv => EvidenceSound
  BY DEF IInv
<1>. QED  BY <1>1, Invariance, PTL

\* Nobody's row is flagged who did not equivocate.
THEOREM NoFalseFlag == Spec => []FlagSound
<1>1. IInv => FlagSound
  BY DEF IInv
<1>. QED  BY <1>1, Invariance, PTL

\* Nobody escapes whose height stayed in the window while the list had room.
THEOREM NoEscape == Spec => []EvidenceComplete
<1>1. ASSUME IInv PROVE EvidenceComplete
  <2>. USE <1>1 DEF IInv
  <2> SUFFICES ASSUME NEW a \in votes, NEW b \in votes, Equivocates(a, b),
                      Len(events) < maxEquivEvents, InWindow(a)
               PROVE  \E i \in DOMAIN events :
                        /\ events[i].val = a.val /\ events[i].height = a.height
                        /\ events[i].round = a.round /\ events[i].type = a.type
    BY DEF EvidenceComplete, InWindow
  <2>0. a \in Vote /\ b \in Vote /\ SameSlot(a, b) /\ InWindow(b)
    BY DEF TypeOK, Equivocates, SameSlot, slotKey, InWindow
  <2>1. PICK p \in seen : SameSlot(p, a) /\ (p.block = a.block \/ Accused(a))
    BY DEF Remembered, Equivocates
  <2>2. PICK q \in seen : SameSlot(q, b) /\ (q.block = b.block \/ Accused(b))
    BY <2>0 DEF Remembered, Equivocates
  <2>3. p = q
    BY <2>0, <2>1, <2>2 DEF OneFirstVote, SameSlot
  <2>4. Accused(a) \/ Accused(b)
    BY <2>1, <2>2, <2>3 DEF Equivocates
  <2>5. Len(events) # maxEquivEvents
    BY EquivocationAssumption DEF TypeOK
  <2>. QED  BY <2>4, <2>5 DEF Accused, Equivocates
<1>. QED  BY <1>1, Invariance, PTL
================================================================================
