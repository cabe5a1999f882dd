------------------------------- MODULE Websocket -------------------------------
(***************************************************************************)
(* pkg/fetcher/comet_rpc_websocket.go: one websocket to a CometBFT node,   *)
(* redialled on failure, with every subscription replayed on the new       *)
(* connection.                                                             *)
(*                                                                         *)
(* Processes: the manager goroutine (connectionManager, preceded by the    *)
(* constructor's own resetConnection), one caller of Subscribe per element *)
(* of Subs, the caller of Close, and the node with the network (external). *)
(* muWrite is the mutex of that name; the manager keeps it from the first  *)
(* line of resetConnection until the last resubscription is written.       *)
(***************************************************************************)
EXTENDS Naturals, Sequences, FiniteSets

CONSTANTS Subs,       \* subscription ids, one per call of Subscribe
          InboxBound, \* frames the node may have on the wire (bound)
          MaxFaults   \* node crashes and broken links in a behaviour (bound)

ASSUME SubsAssumption == "free" \notin Subs /\ "manager" \notin Subs
ASSUME BoundsAssumption == InboxBound \in Nat \ {0} /\ MaxFaults \in Nat

VARIABLES mgr,       \* where the manager is
          built,     \* the constructor has returned
          muWrite,   \* "free", "manager" or the subscription that holds it
          conn,      \* "nil", "up", "broken" (I/O fails) or "silent" (peer gone, no error yet)
          subs,      \* the registered subscriptions (ws.subs)
          todo,      \* what the resubscribe loop has still to visit
          caller,    \* where each call of Subscribe is
          stopped,   \* chStop is closed
          closer,    \* where the call of Close is
          sent,      \* SUBSCRIBE frames on the wire of this connection
          active,    \* subscriptions the node serves on this connection
          refused,   \* subscriptions the node answered with an error
          inbox,     \* frames from the node on this connection
          delivered, \* subscriptions whose mailbox got an event of this connection
          nodeUp,    \* the node accepts connections
          faults     \* faults so far

wire == <<sent, active, refused>>
env  == <<nodeUp, faults>>
vars == <<mgr, built, muWrite, conn, subs, todo, caller, stopped, closer,
          wire, inbox, delivered, env>>

Frame == [kind : {"ack", "error", "event"}, id : Subs]

\* The types of the variables; every one of them is bounded.
TypeOK ==
  /\ mgr \in {"lock", "dial", "backoff", "resub", "check", "read", "after",
              "term", "wgdone", "done"}
  /\ built \in BOOLEAN
  /\ muWrite \in Subs \cup {"free", "manager"}
  /\ conn \in {"nil", "up", "broken", "silent"}
  /\ subs \in SUBSET Subs
  /\ todo \in SUBSET Subs
  /\ caller \in [Subs -> {"idle", "registered", "locked", "returned"}]
  /\ stopped \in BOOLEAN
  /\ closer \in {"idle", "waiting", "returned"}
  /\ sent \in SUBSET Subs
  /\ active \in SUBSET Subs
  /\ refused \in SUBSET Subs
  /\ inbox \in Seq(Frame) /\ Len(inbox) <= InboxBound
  /\ delivered \in SUBSET Subs
  /\ nodeUp \in BOOLEAN
  /\ faults \in 0..MaxFaults

Init ==
  /\ mgr = "lock"
  /\ built = FALSE
  /\ muWrite = "free"
  /\ conn = "nil"
  /\ subs = {}
  /\ todo = {}
  /\ caller = [s \in Subs |-> "idle"]
  /\ stopped = FALSE
  /\ closer = "idle"
  /\ sent = {} /\ active = {} /\ refused = {}
  /\ inbox = <<>>
  /\ delivered = {}
  /\ nodeUp \in BOOLEAN
  /\ faults = 0

--------------------------------------------------------------------------------
(* The manager: resetConnection.                                           *)

\* Nothing of the old connection is left once its socket is closed or dead.
ForgetWire == sent' = {} /\ active' = {} /\ refused' = {}

\* WriteJSON reaches the node only on a live connection: a nil conn is
\* skipped, an error is logged, a frame to a vanished peer is lost.
writeSubscribeLocked(s) ==
  /\ sent' = IF conn = "up" THEN sent \cup {s} ELSE sent
  /\ UNCHANGED <<active, refused>>

\* Mutant of ResetLock: the reconnect does not wait for muWrite.
ResetUnlocked ==
  /\ mgr = "lock"
  /\ muWrite' = "manager"
  /\ conn' = "nil"
  /\ ForgetWire
  /\ inbox' = <<>>
  /\ delivered' = {}
  /\ mgr' = "dial"
  /\ UNCHANGED <<built, subs, todo, caller, stopped, closer, env>>

\* muWrite.Lock(), then the old connection is closed.
ResetLock ==
  /\ mgr = "lock" /\ muWrite = "free"
  /\ muWrite' = "manager"
  /\ conn' = "nil"
  /\ ForgetWire
  /\ inbox' = <<>>
  /\ delivered' = {}
  /\ mgr' = "dial"
  /\ UNCHANGED <<built, subs, todo, caller, stopped, closer, env>>

\* Mutant of DialOk: the new connection is used without resubscribing.
DialWithoutReplay ==
  /\ mgr = "dial" /\ nodeUp
  /\ conn' = "up"
  /\ todo' = {}
  /\ mgr' = "resub"
  /\ UNCHANGED <<built, muWrite, subs, caller, stopped, closer, wire, inbox,
                 delivered, env>>

DialOk ==
  /\ mgr = "dial" /\ nodeUp
  /\ conn' = "up"
  /\ todo' = subs
  /\ mgr' = "resub"
  /\ UNCHANGED <<built, muWrite, subs, caller, stopped, closer, wire, inbox,
                 delivered, env>>

\* A closed chStop wins over the 5 s timer that has just been started.
DialFail ==
  /\ mgr = "dial" /\ ~nodeUp
  /\ IF stopped THEN mgr' = "check" /\ muWrite' = "free"
                ELSE mgr' = "backoff" /\ muWrite' = muWrite
  /\ UNCHANGED <<built, conn, subs, todo, caller, stopped, closer, wire, inbox,
                 delivered, env>>

\* chStop closes while the manager waits: return with conn = nil.
BackoffStop ==
  /\ mgr = "backoff" /\ stopped
  /\ mgr' = "check" /\ muWrite' = "free"
  /\ UNCHANGED <<built, conn, subs, todo, caller, stopped, closer, wire, inbox,
                 delivered, env>>

BackoffRetry ==
  /\ mgr = "backoff"
  /\ mgr' = "dial"
  /\ UNCHANGED <<built, muWrite, conn, subs, todo, caller, stopped, closer,
                 wire, inbox, delivered, env>>

Resubscribe(s) ==
  /\ mgr = "resub" /\ s \in todo
  /\ todo' = todo \ {s}
  /\ writeSubscribeLocked(s)
  /\ UNCHANGED <<mgr, built, muWrite, conn, subs, caller, stopped, closer,
                 inbox, delivered, env>>

ResubscribeDone ==
  /\ mgr = "resub" /\ todo = {}
  /\ muWrite' = "free"
  /\ built' = TRUE
  /\ mgr' = "check"
  /\ UNCHANGED <<conn, subs, todo, caller, stopped, closer, wire, inbox,
                 delivered, env>>

--------------------------------------------------------------------------------
(* The manager: readConnection and connectionManager.                      *)

\* Mutant of CheckStop: the read loop does not look at chStop.
CheckNothing ==
  /\ mgr = "check"
  /\ mgr' = "read"
  /\ UNCHANGED <<built, muWrite, conn, subs, todo, caller, stopped, closer,
                 wire, inbox, delivered, env>>

CheckStop ==
  /\ mgr = "check"
  /\ mgr' = IF stopped THEN "after" ELSE "read"
  /\ UNCHANGED <<built, muWrite, conn, subs, todo, caller, stopped, closer,
                 wire, inbox, delivered, env>>

\* ReadJSON returned a frame; only an event of a known subscription has an
\* effect, everything else is logged or ignored.
ReadFrame ==
  /\ mgr = "read" /\ conn # "nil" /\ inbox # <<>>
  /\ inbox' = Tail(inbox)
  /\ delivered' = IF Head(inbox).kind = "event" /\ Head(inbox).id \in subs
                  THEN delivered \cup {Head(inbox).id} ELSE delivered
  /\ mgr' = "check"
  /\ UNCHANGED <<built, muWrite, conn, subs, todo, caller, stopped, closer,
                 wire, env>>

\* ReadJSON failed, or panicked on a nil conn and was recovered.
ReadFail ==
  /\ mgr = "read" /\ conn \in {"broken", "nil"}
  /\ mgr' = "after"
  /\ UNCHANGED <<built, muWrite, conn, subs, todo, caller, stopped, closer,
                 wire, inbox, delivered, env>>

\* Mutants of AfterRead: the manager leaves without its deferred
\* terminateConnection, gives up after one failed read, never looks at chStop.
LeaveConnected ==
  /\ mgr = "after"
  /\ mgr' = IF stopped THEN "wgdone" ELSE "lock"
  /\ UNCHANGED <<built, muWrite, conn, subs, todo, caller, stopped, closer,
                 wire, inbox, delivered, env>>

GiveUp ==
  /\ mgr = "after"
  /\ mgr' = "term"
  /\ UNCHANGED <<built, muWrite, conn, subs, todo, caller, stopped, closer,
                 wire, inbox, delivered, env>>

ReconnectAlways ==
  /\ mgr = "after"
  /\ mgr' = "lock"
  /\ UNCHANGED <<built, muWrite, conn, subs, todo, caller, stopped, closer,
                 wire, inbox, delivered, env>>

AfterRead ==
  /\ mgr = "after"
  /\ mgr' = IF stopped THEN "term" ELSE "lock"
  /\ UNCHANGED <<built, muWrite, conn, subs, todo, caller, stopped, closer,
                 wire, inbox, delivered, env>>

terminateConnection ==
  /\ mgr = "term" /\ muWrite = "free"
  /\ conn' = "nil"
  /\ ForgetWire
  /\ inbox' = <<>>
  /\ mgr' = "wgdone"
  /\ UNCHANGED <<built, muWrite, subs, todo, caller, stopped, closer,
                 delivered, env>>

ManagerDone ==
  /\ mgr = "wgdone"
  /\ mgr' = "done"
  /\ UNCHANGED <<built, muWrite, conn, subs, todo, caller, stopped, closer,
                 wire, inbox, delivered, env>>

Manager ==
  \/ ResetLock \/ DialOk \/ DialFail \/ BackoffStop \/ BackoffRetry
  \/ \E s \in Subs : Resubscribe(s)
  \/ ResubscribeDone
  \/ CheckStop \/ ReadFrame \/ ReadFail \/ AfterRead
  \/ terminateConnection \/ ManagerDone

--------------------------------------------------------------------------------
(* Subscribe and Close.                                                    *)

\* subs.Set comes before muWrite.Lock(): a resubscribe loop that is running
\* may or may not still see the new entry.
SubscribeRegister(s) ==
  /\ built /\ caller[s] = "idle"
  /\ subs' = subs \cup {s}
  /\ caller' = [caller EXCEPT ![s] = "registered"]
  /\ \/ todo' = todo
     \/ mgr = "resub" /\ todo' = todo \cup {s}
  /\ UNCHANGED <<mgr, built, muWrite, conn, stopped, closer, wire, inbox,
                 delivered, env>>

SubscribeLock(s) ==
  /\ caller[s] = "registered" /\ muWrite = "free"
  /\ muWrite' = s
  /\ caller' = [caller EXCEPT ![s] = "locked"]
  /\ UNCHANGED <<mgr, built, conn, subs, todo, stopped, closer, wire, inbox,
                 delivered, env>>

SubscribeWrite(s) ==
  /\ caller[s] = "locked"
  /\ writeSubscribeLocked(s)
  /\ muWrite' = "free"
  /\ caller' = [caller EXCEPT ![s] = "returned"]
  /\ UNCHANGED <<mgr, built, conn, subs, todo, stopped, closer, inbox,
                 delivered, env>>

CloseStop ==
  /\ built /\ closer = "idle"
  /\ stopped' = TRUE
  /\ closer' = "waiting"
  /\ UNCHANGED <<mgr, built, muWrite, conn, subs, todo, caller, wire, inbox,
                 delivered, env>>

CloseReturn ==
  /\ closer = "waiting" /\ mgr = "done"
  /\ closer' = "returned"
  /\ UNCHANGED <<mgr, built, muWrite, conn, subs, todo, caller, stopped, wire,
                 inbox, delivered, env>>

--------------------------------------------------------------------------------
(* The node and the network (external).                                    *)

\* A second SUBSCRIBE for a served subscription is answered with an error.
NodeAnswer(s) ==
  /\ conn = "up" /\ s \in sent /\ Len(inbox) < InboxBound
  /\ sent' = sent \ {s}
  /\ \/ /\ s \notin active
        /\ active' = active \cup {s} /\ refused' = refused
        /\ inbox' = Append(inbox, [kind |-> "ack", id |-> s])
     \/ /\ active' = active
        /\ refused' = IF s \in active THEN refused ELSE refused \cup {s}
        /\ inbox' = Append(inbox, [kind |-> "error", id |-> s])
  /\ UNCHANGED <<mgr, built, muWrite, conn, subs, todo, caller, stopped, closer,
                 delivered, env>>

NodeEvent(s) ==
  /\ conn = "up" /\ s \in active /\ Len(inbox) < InboxBound
  /\ inbox' = Append(inbox, [kind |-> "event", id |-> s])
  /\ UNCHANGED <<mgr, built, muWrite, conn, subs, todo, caller, stopped, closer,
                 wire, delivered, env>>

\* A node that goes away leaves a connection that fails, or one on which
\* nothing more is heard.
NodeCrash ==
  /\ nodeUp /\ faults < MaxFaults
  /\ nodeUp' = FALSE /\ faults' = faults + 1
  /\ IF conn = "up" THEN conn' \in {"broken", "silent"} /\ ForgetWire
                    ELSE UNCHANGED <<conn, wire>>
  /\ UNCHANGED <<mgr, built, muWrite, subs, todo, caller, stopped, closer, inbox,
                 delivered>>

NodeRestart ==
  /\ ~nodeUp
  /\ nodeUp' = TRUE
  /\ UNCHANGED <<mgr, built, muWrite, conn, subs, todo, caller, stopped, closer,
                 wire, inbox, delivered, faults>>

LinkBreak ==
  /\ conn = "up" /\ faults < MaxFaults
  /\ conn' = "broken" /\ faults' = faults + 1
  /\ ForgetWire
  /\ UNCHANGED <<mgr, built, muWrite, subs, todo, caller, stopped, closer, inbox,
                 delivered, nodeUp>>

\* The TCP keep-alive of Go's default dialer turns silence into an error.
KeepAliveExpires ==
  /\ conn = "silent"
  /\ conn' = "broken"
  /\ UNCHANGED <<mgr, built, muWrite, subs, todo, caller, stopped, closer, wire,
                 inbox, delivered, env>>

Node ==
  \/ \E s \in Subs : NodeAnswer(s) \/ NodeEvent(s)
  \/ NodeCrash \/ NodeRestart \/ LinkBreak \/ KeepAliveExpires

Next ==
  \/ Manager
  \/ \E s \in Subs : SubscribeRegister(s) \/ SubscribeLock(s) \/ SubscribeWrite(s)
  \/ CloseStop \/ CloseReturn
  \/ Node

Spec == Init /\ [][Next]_vars

--------------------------------------------------------------------------------
(* Fairness.  Goroutines are scheduled, and a Go mutex does not starve a   *)
(* waiter.  The node answers what it receives; it owes nobody an event.    *)

ClientFairness ==
  /\ WF_vars(Manager)
  /\ SF_vars(ResetLock) /\ SF_vars(terminateConnection)
  /\ \A s \in Subs : SF_vars(SubscribeLock(s)) /\ WF_vars(SubscribeWrite(s))
  /\ WF_vars(CloseReturn)
  /\ WF_vars(KeepAliveExpires)

\* A node that comes back after each crash and keeps producing blocks.
NodeFairness ==
  /\ WF_vars(NodeRestart)
  /\ \A s \in Subs : SF_vars(NodeAnswer(s)) /\ SF_vars(NodeEvent(s))

FairSpec == Spec /\ ClientFairness

--------------------------------------------------------------------------------
(* Properties.                                                             *)

Writing(p) == IF p = "manager" THEN mgr \in {"dial", "backoff", "resub"}
                               ELSE caller[p] = "locked"

\* At most one goroutine replaces or writes the connection at a time, as
\* gorilla/websocket requires (muWrite, lines 22-29).
SingleWriter ==
  \A p, q \in Subs \cup {"manager"} : Writing(p) /\ Writing(q) => p = q

\* While nobody holds muWrite and the connection lives, every Subscribe that
\* has returned has its SUBSCRIBE frame on this connection, however many
\* reconnects happened between its registration and its write (lines 192-201,
\* 222-233).
SubscriptionsSurvive ==
  conn = "up" /\ muWrite = "free" =>
    \A s \in Subs : caller[s] = "returned" => s \in sent \cup active \cup refused

\* readConnection never reads a nil connection, although resetConnection can
\* return without one (lines 183-186).
NoNilRead == mgr = "read" => conn # "nil"

\* Once Close has returned the connection is gone for good and a Subscribe
\* still in flight cannot write to the node (lines 82-93, 206-218).
CloseReleases == closer = "returned" => conn = "nil" /\ sent = {}

\* A subscription outlives every fault: if the node keeps coming back, then
\* unless it refuses the subscription or the client is stopped, an event is
\* delivered on the connection the client then has.
EventuallyReceives ==
  NodeFairness =>
    \A s \in Subs : caller[s] = "returned" ~>
                      (s \in delivered \/ s \in refused \/ stopped)

\* The manager blocked in ReadJSON on a connection with nothing to read.
ReaderIdle == mgr = "read" /\ inbox = <<>> /\ conn \in {"up", "silent"}

\* Stopping frees a Subscribe that waits for muWrite, even if the node never comes
\* back (the select in resetConnection's dial loop); and Close returns unless the
\* reader sits on a quiet connection for ever.
CallsReturn ==
  /\ \A s \in Subs : (stopped /\ caller[s] = "registered") ~> caller[s] = "returned"
  /\ stopped ~> (closer = "returned" \/ []ReaderIdle)

\* The comment of readConnection: "Returns when chStop closes or when ReadJSON
\* fails".
ReadReturnsOnStop == (stopped /\ mgr = "read") ~> mgr # "read"

\* A session with the node lasts from the end of the replay to the loss of the
\* connection; the service is closed when Close has returned.
InSession == conn = "up" /\ mgr # "resub"

SessionState == IF closer = "returned" THEN "closed"
                ELSE IF InSession THEN "up" ELSE "down"

Service == INSTANCE Subscriptions WITH
             asked   <- {s \in Subs : caller[s] = "returned"},
             session <- SessionState,
             told    <- IF InSession THEN sent \cup active \cup refused ELSE {}

\* Locking, redialling and replay together implement the subscription service: the
\* node is told of every returned Subscribe before the reader sees a new connection,
\* nothing it was told is withdrawn while that lasts, and after Close it is told nothing.
ImplementsService == Service!Spec
================================================================================
