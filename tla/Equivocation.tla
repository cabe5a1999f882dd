----------------------------- MODULE Equivocation ------------------------------
(***************************************************************************)
(* pkg/metrics/equivocation.go: the health builder watches the votes of    *)
(* the websocket and keeps the evidence of validators that voted for two   *)
(* blocks in one slot (height, round, vote type).                          *)
(*                                                                         *)
(* Builder.mu makes every observation and every Build atomic.  equiv.seen, *)
(* a map from height and slot to the first block hash, is the set of first *)
(* votes.  votes is what the node has delivered (a history variable).      *)
(***************************************************************************)
EXTENDS Integers, Sequences, FiniteSets

CONSTANTS Validators, Blocks, Rounds, Types,
          NilBlock,       \* a vote with an empty BlockID.Hash
          MaxHeight,      \* heights of the votes are 1..MaxHeight (bound)
          windowBlocks,   \* Builder.windowBlocks
          defaultEvictionWindow,
          maxEquivEvents,
          MaxVotes        \* different votes in a behaviour (bound)

ASSUME EquivocationAssumption ==
  /\ NilBlock \notin Blocks
  /\ MaxHeight \in Nat /\ windowBlocks \in Int
  /\ defaultEvictionWindow \in Nat \ {0} /\ maxEquivEvents \in Nat \ {0}

VARIABLES seen,    \* the first vote for a block of each slot
          events,  \* the evidence, oldest first
          flagged, \* validators with Equivocated set in the last Build
          votes    \* the votes delivered so far

vars == <<seen, events, flagged, votes>>

Vote  == [val : Validators, height : 1..MaxHeight, round : Rounds, type : Types,
          block : Blocks \cup {NilBlock}]
Event == [val : Validators, height : 1..MaxHeight, round : Rounds, type : Types,
          blockA : Blocks, blockB : Blocks]

TypeOK ==
  /\ seen \subseteq Vote
  /\ events \in Seq(Event) /\ Len(events) <= maxEquivEvents
  /\ flagged \subseteq Validators
  /\ votes \subseteq Vote

Init == seen = {} /\ events = <<>> /\ flagged = {} /\ votes = {}

--------------------------------------------------------------------------------
\* Mutant of slotKey: the vote type is left out of the key.
slotKeyNoType(v) == <<v.val, v.round>>

slotKey(v) == <<v.val, v.round, v.type>>

SameSlot(a, b) == a.height = b.height /\ slotKey(a) = slotKey(b)

Conflict(p, v) ==
  [val |-> v.val, height |-> v.height, round |-> v.round, type |-> v.type,
   blockA |-> p.block, blockB |-> v.block]

\* The newest maxEquivEvents entries; s has at most one too many.
capped(s) == IF Len(s) > maxEquivEvents THEN Tail(s) ELSE s

window == IF windowBlocks <= 0 THEN defaultEvictionWindow ELSE windowBlocks

\* Mutant of evict: the window is counted from the wrong side.
evictAll(s, height) == {p \in s : p.height >= height}

\* The height buckets that stay after a vote of this height.
evict(s, height) == {p \in s : p.height >= height - window}

--------------------------------------------------------------------------------
\* Mutant of observeForEquivocation: a nil vote is compared like any other.
observeNilToo(v) ==
  /\ votes' = votes \cup {v}
  /\ \/ /\ ~ \E p \in seen : SameSlot(p, v)
        /\ seen' = evict(seen \cup {v}, v.height)
        /\ events' = events
     \/ \E p \in seen :
          /\ SameSlot(p, v)
          /\ seen' = evict(seen, v.height)
          /\ events' = IF p.block = v.block THEN events
                       ELSE capped(Append(events, Conflict(p, v)))
  /\ UNCHANGED flagged

\* A vote of the websocket: a nil vote returns early; the first block of a
\* slot is remembered, a different one is evidence; then old heights go.
observeForEquivocation(v) ==
  /\ votes' = votes \cup {v}
  /\ IF v.block = NilBlock THEN UNCHANGED <<seen, events>>
     ELSE \/ /\ ~ \E p \in seen : SameSlot(p, v)
             /\ seen' = evict(seen \cup {v}, v.height)
             /\ events' = events
          \/ \E p \in seen :
               /\ SameSlot(p, v)
               /\ seen' = evict(seen, v.height)
               /\ events' = IF p.block = v.block THEN events
                            ELSE capped(Append(events, Conflict(p, v)))
  /\ UNCHANGED flagged

\* Build: the rows of the validators with evidence are flagged.
enrichEquivocationFlags ==
  /\ flagged' = {events[i].val : i \in DOMAIN events}
  /\ UNCHANGED <<seen, events, votes>>

\* The node delivers any vote, in any order and more than once.
ObserveVote ==
  \E v \in Vote : /\ v \in votes \/ Cardinality(votes) < MaxVotes
                  /\ observeForEquivocation(v)

Next == ObserveVote \/ enrichEquivocationFlags

Spec == Init /\ [][Next]_vars

--------------------------------------------------------------------------------
(* Properties.                                                             *)

Equivocates(a, b) ==
  /\ a.val = b.val /\ a.height = b.height /\ a.round = b.round /\ a.type = b.type
  /\ a.block # b.block /\ a.block # NilBlock /\ b.block # NilBlock

\* Every accusation is true: the node delivered both votes of the event, of
\* the same validator, height, round and type, for two different blocks; nil
\* votes, other rounds and prevote/precommit pairs never accuse anybody.
EvidenceSound ==
  \A i \in DOMAIN events :
    \E a, b \in votes :
      /\ Equivocates(a, b)
      /\ events[i] = Conflict(a, b)

\* No flag without evidence: a flagged row belongs to a validator of whom
\* the node delivered two conflicting votes.
FlagSound ==
  \A val \in flagged : \E a, b \in votes : a.val = val /\ Equivocates(a, b)

\* No equivocation escapes whose height never left the window while the
\* evidence fits in the list, whatever the order of the votes.
EvidenceComplete ==
  \A a, b \in votes :
    ( /\ Equivocates(a, b)
      /\ Len(events) < maxEquivEvents
      /\ \A v \in votes : v.height <= a.height + window )
    => \E i \in DOMAIN events :
         /\ events[i].val = a.val /\ events[i].height = a.height
         /\ events[i].round = a.round /\ events[i].type = a.type

\* equivocation.go: for a slot with two distinct block IDs "exactly one
\* EquivocationEvent is emitted".
ExactlyOneEvent ==
  \A i, j \in DOMAIN events :
    (/\ events[i].val = events[j].val /\ events[i].height = events[j].height
     /\ events[i].round = events[j].round /\ events[i].type = events[j].type) => i = j

================================================================================
