----------------------------- MODULE NetworkProofs -----------------------------
(***************************************************************************)
(* Safety of the two clients of the network.                               *)
(*                                                                         *)
(* The reconnecting websocket, for every set of subscriptions and every    *)
(* number of faults: TypeOK is inductive by itself; the properties of      *)
(* Websocket are not and follow from IInv, and so does the refinement of   *)
(* Subscriptions.                                                          *)
(*                                                                         *)
(* The crawler, for every network: whatever the nodes answer, the rows of  *)
(* the RPC table keep their place and the peers the topology records are   *)
(* known RPCs (CrawlInv).                                                  *)
(***************************************************************************)
EXTENDS Websocket, Crawler, SequenceTheorems, TLAPS

\* Who holds muWrite, by the holder's own position.
LockInv ==
  /\ muWrite = "manager" <=> mgr \in {"dial", "backoff", "resub"}
  /\ \A s \in Subs : muWrite = s <=> caller[s] = "locked"

\* Frames and served subscriptions belong to a live connection.
WireInv == conn # "up" => sent = {} /\ active = {} /\ refused = {}

\* Where the connection is nil, and where it cannot be.
ConnInv ==
  /\ mgr \in {"dial", "backoff", "wgdone", "done"} => conn = "nil"
  /\ mgr \in {"resub", "read"} => conn # "nil"
  /\ mgr = "check" /\ conn = "nil" => stopped
  /\ closer = "returned" => mgr = "done"

\* On a live connection a returned Subscribe has been written, or the
\* resubscribe loop that holds muWrite will still write it.
ReplayInv ==
  /\ \A s \in Subs : caller[s] # "idle" => s \in subs
  /\ conn = "up" =>
       \A s \in Subs : caller[s] = "returned" =>
         \/ s \in sent \cup active \cup refused
         \/ mgr = "resub" /\ s \in todo

IInv == TypeOK /\ LockInv /\ WireInv /\ ConnInv /\ ReplayInv

--------------------------------------------------------------------------------
LEMMA InitIInv == Init => IInv
<1> SUFFICES ASSUME Init PROVE IInv
  OBVIOUS
<1>1. inbox \in Seq(Frame) /\ Len(inbox) <= InboxBound
  <2>1. inbox \in Seq(Frame) /\ Len(inbox) = 0
    BY EmptySeq DEF Init
  <2> QED
    BY <2>1, BoundsAssumption
<1>2. TypeOK
  <2>1. faults \in 0..MaxFaults
    BY BoundsAssumption DEF Init
  <2>2. caller \in [Subs -> {"idle", "registered", "locked", "returned"}]
    BY DEF Init
  <2> QED
    BY <1>1, <2>1, <2>2, Zenon DEF Init, TypeOK
<1>3. LockInv /\ WireInv /\ ConnInv /\ ReplayInv
  BY SubsAssumption DEF Init, LockInv, WireInv, ConnInv, ReplayInv
<1> QED
  BY <1>2, <1>3 DEF IInv

USE DEF wire, env, ForgetWire, writeSubscribeLocked

LEMMA TypeStep == TypeOK /\ [Next]_vars => TypeOK'
<1> SUFFICES ASSUME TypeOK, [Next]_vars PROVE TypeOK'
  OBVIOUS
<1> USE SubsAssumption, BoundsAssumption DEF TypeOK
<1>1. CASE ResetLock
  BY <1>1, EmptySeq DEF ResetLock
<1>2. CASE DialOk \/ DialFail \/ BackoffStop \/ BackoffRetry
  BY <1>2 DEF DialOk, DialFail, BackoffStop, BackoffRetry
<1>3. ASSUME NEW s \in Subs, Resubscribe(s) PROVE TypeOK'
  BY <1>3 DEF Resubscribe
<1>4. CASE ResubscribeDone \/ CheckStop \/ ReadFail \/ AfterRead \/ ManagerDone
  BY <1>4 DEF ResubscribeDone, CheckStop, ReadFail, AfterRead, ManagerDone
<1>5. CASE ReadFrame
  <2>1. inbox' \in Seq(Frame) /\ Len(inbox') = Len(inbox) - 1
    BY <1>5, HeadTailProperties DEF ReadFrame
  <2>2. Head(inbox).id \in Subs
    <3>1. Head(inbox) \in Frame
      BY <1>5, HeadTailProperties DEF ReadFrame
    <3> QED
      BY <3>1 DEF Frame
  <2>3. Len(inbox) \in Nat
    BY LenProperties
  <2> QED
    BY <1>5, <2>1, <2>2, <2>3 DEF ReadFrame
<1>6. CASE terminateConnection
  BY <1>6, EmptySeq DEF terminateConnection
<1>7. ASSUME NEW s \in Subs,
             SubscribeRegister(s) \/ SubscribeLock(s) \/ SubscribeWrite(s)
      PROVE TypeOK'
  BY <1>7 DEF SubscribeRegister, SubscribeLock, SubscribeWrite
<1>8. CASE CloseStop \/ CloseReturn
  BY <1>8 DEF CloseStop, CloseReturn
<1>9. ASSUME NEW s \in Subs, NodeAnswer(s) \/ NodeEvent(s) PROVE TypeOK'
  <2>1. PICK f \in Frame : inbox' = Append(inbox, f)
    BY <1>9 DEF NodeAnswer, NodeEvent, Frame
  <2>2. inbox' \in Seq(Frame) /\ Len(inbox') = Len(inbox) + 1
    BY <2>1, AppendProperties
  <2>3. Len(inbox) \in Nat /\ Len(inbox) < InboxBound
    BY <1>9, LenProperties DEF NodeAnswer, NodeEvent
  <2> QED
    BY <1>9, <2>2, <2>3 DEF NodeAnswer, NodeEvent
<1>10. CASE NodeCrash \/ NodeRestart \/ LinkBreak \/ KeepAliveExpires
  <2>1. CASE NodeCrash
    <3>1. faults' \in 0..MaxFaults
      BY <2>1 DEF NodeCrash
    <3>2. conn' \in {"nil", "up", "broken", "silent"}
      BY <2>1 DEF NodeCrash
    <3>3. sent' \in SUBSET Subs /\ active' \in SUBSET Subs /\ refused' \in SUBSET Subs
      BY <2>1 DEF NodeCrash
    <3> QED
      BY <2>1, <3>1, <3>2, <3>3 DEF NodeCrash
  <2>2. CASE NodeRestart
    BY <2>2 DEF NodeRestart
  <2>3. CASE LinkBreak
    BY <2>3 DEF LinkBreak
  <2>4. CASE KeepAliveExpires
    BY <2>4 DEF KeepAliveExpires
  <2> QED
    BY <1>10, <2>1, <2>2, <2>3, <2>4
<1>11. CASE UNCHANGED vars
  BY <1>11 DEF vars
<1> QED
  BY <1>1, <1>2, <1>3, <1>4, <1>5, <1>6, <1>7, <1>8, <1>9, <1>10, <1>11
     DEF Next, Manager, Node

\* The variables of these four parts take few values, so each action needs its
\* own definition and the invariant.
LEMMA InvStep == IInv /\ [Next]_vars => (LockInv /\ WireInv /\ ConnInv /\ ReplayInv)'
<1> SUFFICES ASSUME IInv, [Next]_vars
             PROVE  (LockInv /\ WireInv /\ ConnInv /\ ReplayInv)'
  OBVIOUS
<1> USE SubsAssumption DEF IInv, TypeOK, LockInv, WireInv, ConnInv, ReplayInv
<1>1. CASE ResetLock
  BY <1>1 DEF ResetLock
<1>2. CASE DialOk
  BY <1>2 DEF DialOk
<1>3. CASE DialFail
  BY <1>3 DEF DialFail
<1>4. CASE BackoffStop \/ BackoffRetry
  BY <1>4 DEF BackoffStop, BackoffRetry
<1>5. ASSUME NEW s \in Subs, Resubscribe(s)
      PROVE  (LockInv /\ WireInv /\ ConnInv /\ ReplayInv)'
  BY <1>5 DEF Resubscribe
<1>6. CASE ResubscribeDone
  BY <1>6 DEF ResubscribeDone
<1>7. CASE CheckStop \/ ReadFrame \/ ReadFail \/ AfterRead \/ ManagerDone
  BY <1>7 DEF CheckStop, ReadFrame, ReadFail, AfterRead, ManagerDone
<1>8. CASE terminateConnection
  BY <1>8 DEF terminateConnection
<1>9. ASSUME NEW s \in Subs, SubscribeRegister(s)
      PROVE  (LockInv /\ WireInv /\ ConnInv /\ ReplayInv)'
  BY <1>9 DEF SubscribeRegister
<1>10. ASSUME NEW s \in Subs, SubscribeLock(s)
       PROVE  (LockInv /\ WireInv /\ ConnInv /\ ReplayInv)'
  BY <1>10 DEF SubscribeLock
<1>11. ASSUME NEW s \in Subs, SubscribeWrite(s)
       PROVE  (LockInv /\ WireInv /\ ConnInv /\ ReplayInv)'
  BY <1>11 DEF SubscribeWrite
<1>12. CASE CloseStop \/ CloseReturn
  BY <1>12 DEF CloseStop, CloseReturn
<1>13. ASSUME NEW s \in Subs, NodeAnswer(s)
       PROVE  (LockInv /\ WireInv /\ ConnInv /\ ReplayInv)'
  BY <1>13 DEF NodeAnswer
<1>14. ASSUME NEW s \in Subs, NodeEvent(s)
       PROVE  (LockInv /\ WireInv /\ ConnInv /\ ReplayInv)'
  BY <1>14 DEF NodeEvent
<1>15. CASE NodeCrash \/ NodeRestart \/ LinkBreak \/ KeepAliveExpires
  BY <1>15 DEF NodeCrash, NodeRestart, LinkBreak, KeepAliveExpires
<1>16. CASE UNCHANGED vars
  BY <1>16 DEF vars
<1> QED
  BY <1>1, <1>2, <1>3, <1>4, <1>5, <1>6, <1>7, <1>8, <1>9, <1>10, <1>11,
     <1>12, <1>13, <1>14, <1>15, <1>16 DEF Next, Manager, Node

--------------------------------------------------------------------------------
\* The inductive invariant holds of every behaviour of the websocket.
THEOREM Invariance == Spec => []IInv
<1>1. IInv /\ [Next]_vars => IInv'
  BY TypeStep, InvStep DEF IInv
<1> QED
  BY InitIInv, <1>1, PTL DEF Spec

\* Every variable of the websocket keeps its type, the inbox its bound.
THEOREM TypeCorrect == Spec => []TypeOK
<1>1. IInv => TypeOK
  BY DEF IInv
<1> QED
  BY Invariance, <1>1, PTL

\* muWrite gives the connection one writer at a time.
THEOREM WriterExclusion == Spec => []SingleWriter
<1>1. IInv => SingleWriter
  BY SubsAssumption DEF IInv, TypeOK, LockInv, SingleWriter, Writing
<1> QED
  BY Invariance, <1>1, PTL

\* No reconnect loses a subscription whose Subscribe has returned.
THEOREM NoLostSubscription == Spec => []SubscriptionsSurvive
<1>1. IInv => SubscriptionsSurvive
  BY DEF IInv, TypeOK, LockInv, ReplayInv, SubscriptionsSurvive
<1> QED
  BY Invariance, <1>1, PTL

\* The reader never dereferences a nil connection.
THEOREM ReaderHasConnection == Spec => []NoNilRead
<1>1. IInv => NoNilRead
  BY DEF IInv, ConnInv, NoNilRead
<1> QED
  BY Invariance, <1>1, PTL

\* A returned Close leaves no connection and nothing on the wire.
THEOREM CloseIsFinal == Spec => []CloseReleases
<1>1. IInv => CloseReleases
  BY DEF IInv, ConnInv, WireInv, CloseReleases
<1> QED
  BY Invariance, <1>1, PTL

--------------------------------------------------------------------------------
(* The refinement.  asked and told stand for the variables of Subscriptions *)
(* under the mapping of Service.                                            *)

asked == {s \in Subs : caller[s] = "returned"}
told  == IF InSession THEN sent \cup active \cup refused ELSE {}

\* A returned Close leaves no session.
LEMMA ClosedNoSession == IInv /\ closer = "returned" => ~InSession
BY DEF IInv, ConnInv, InSession

\* A step after which there is no session ends one or is not seen by the service.
LEMMA DropStep ==
  ASSUME IInv, UNCHANGED <<closer, caller>>, ~InSession'
  PROVE  [Service!Next]_<<asked, SessionState, told>>
<1>1. UNCHANGED asked /\ told' = {}
  BY DEF asked, told
<1>2. CASE InSession
  <2>1. SessionState = "up" /\ SessionState' = "down"
    BY <1>2, ClosedNoSession DEF SessionState
  <2> QED
    BY <1>1, <2>1 DEF asked, told, Service!Next, Service!Drop
<1>3. CASE ~InSession
  <2>1. UNCHANGED SessionState /\ told = {}
    BY <1>3 DEF SessionState, told
  <2> QED
    BY <1>1, <2>1
<1> QED
  BY <1>2, <1>3

\* The service does not see a step that leaves these alone.
LEMMA HiddenStep ==
  ASSUME UNCHANGED <<asked, closer, InSession>>,
         UNCHANGED (sent \cup active \cup refused)
  PROVE  UNCHANGED <<asked, SessionState, told>>
BY DEF SessionState, told

\* Every step of the websocket is a step of the service or leaves it alone.
LEMMA ServiceStep ==
  ASSUME IInv, [Next]_vars
  PROVE  [Service!Next]_<<asked, SessionState, told>>
<1> USE SubsAssumption DEF IInv, TypeOK, LockInv, WireInv, ConnInv, ReplayInv
<1>1. CASE ResetLock \/ terminateConnection
  BY <1>1, DropStep DEF ResetLock, terminateConnection, InSession
<1>2. CASE DialOk \/ DialFail \/ BackoffStop \/ BackoffRetry
  BY <1>2, DropStep DEF DialOk, DialFail, BackoffStop, BackoffRetry, InSession
<1>3. ASSUME NEW s \in Subs, Resubscribe(s)
      PROVE  [Service!Next]_<<asked, SessionState, told>>
  BY <1>3, DropStep DEF Resubscribe, InSession
<1>4. CASE ResubscribeDone
  <2>1. CASE conn = "up"
    <3>1. UNCHANGED asked /\ SessionState = "down" /\ SessionState' = "up"
      BY <1>4, <2>1 DEF ResubscribeDone, asked, SessionState, InSession
    <3>2. told' = sent \cup active \cup refused
      BY <1>4, <2>1 DEF ResubscribeDone, told, InSession
    <3>3. asked \subseteq told' /\ told' \in SUBSET Subs
      BY <1>4, <2>1, <3>2 DEF ResubscribeDone, asked
    <3> QED
      BY <3>1, <3>3 DEF asked, told, Service!Next, Service!Open
  <2>2. CASE conn # "up"
    BY <1>4, <2>2, DropStep DEF ResubscribeDone, InSession
  <2> QED
    BY <2>1, <2>2
<1>5. CASE CheckStop \/ ReadFrame \/ ReadFail \/ AfterRead \/ ManagerDone
  <2>1. UNCHANGED <<asked, closer, InSession, sent, active, refused>>
    BY <1>5 DEF CheckStop, ReadFrame, ReadFail, AfterRead, ManagerDone, asked,
                InSession
  <2> QED
    BY <2>1, HiddenStep
<1>6. ASSUME NEW s \in Subs, SubscribeRegister(s) \/ SubscribeLock(s)
      PROVE  [Service!Next]_<<asked, SessionState, told>>
  <2>1. UNCHANGED asked
    BY <1>6 DEF SubscribeRegister, SubscribeLock, asked
  <2>2. UNCHANGED <<closer, InSession, sent, active, refused>>
    BY <1>6 DEF SubscribeRegister, SubscribeLock, InSession
  <2> QED
    BY <2>1, <2>2, HiddenStep
<1>7. ASSUME NEW s \in Subs, SubscribeWrite(s)
      PROVE  [Service!Next]_<<asked, SessionState, told>>
  <2>1. s \notin asked /\ asked' = asked \cup {s}
    BY <1>7 DEF SubscribeWrite, asked
  <2>2. UNCHANGED <<InSession, SessionState>> /\ (InSession <=> conn = "up")
    BY <1>7 DEF SubscribeWrite, SessionState, InSession
  <2>3. InSession <=> SessionState = "up"
    BY ClosedNoSession DEF SessionState
  <2>4. told' = IF SessionState = "up" THEN told \cup {s} ELSE told
    BY <1>7, <2>2, <2>3 DEF SubscribeWrite, told
  <2> QED
    BY <2>1, <2>2, <2>4 DEF asked, told, Service!Next, Service!Ask
<1>8. CASE CloseStop
  <2>1. UNCHANGED <<asked, InSession, SessionState, told>>
    BY <1>8 DEF CloseStop, asked, InSession, SessionState, told
  <2> QED
    BY <2>1
<1>9. CASE CloseReturn
  <2>1. UNCHANGED asked /\ SessionState # "closed" /\ SessionState' = "closed"
    BY <1>9 DEF CloseReturn, asked, SessionState
  <2>2. told' = {}
    BY <1>9 DEF CloseReturn, told, InSession
  <2> QED
    BY <2>1, <2>2 DEF asked, told, Service!Next, Service!Close
<1>10. ASSUME NEW s \in Subs, NodeAnswer(s) \/ NodeEvent(s)
       PROVE  [Service!Next]_<<asked, SessionState, told>>
  <2>1. UNCHANGED <<asked, closer, InSession>>
    BY <1>10 DEF NodeAnswer, NodeEvent, asked, InSession
  <2>2. UNCHANGED (sent \cup active \cup refused)
    BY <1>10 DEF NodeAnswer, NodeEvent
  <2> QED
    BY <2>1, <2>2, HiddenStep
<1>11. CASE NodeCrash \/ LinkBreak \/ KeepAliveExpires
  BY <1>11, DropStep DEF NodeCrash, LinkBreak, KeepAliveExpires, InSession
<1>12. CASE NodeRestart \/ UNCHANGED vars
  <2>1. UNCHANGED <<asked, closer, InSession, sent, active, refused>>
    BY <1>12 DEF NodeRestart, vars, asked, InSession
  <2> QED
    BY <2>1, HiddenStep
<1> QED
  BY <1>1, <1>2, <1>3, <1>4, <1>5, <1>6, <1>7, <1>8, <1>9, <1>10, <1>11, <1>12
     DEF Next, Manager, Node

\* For every set of subscriptions and every pattern of faults, the connection
\* manager with its callers implements the subscription service: a session opens
\* with all that was asked for, withdraws nothing, and does not follow Close.
THEOREM ServiceRefinement == Spec => ImplementsService
<1>1. Init => Service!Init
  BY DEF Init, SessionState, InSession, Service!Init
<1>2. IInv /\ [Next]_vars => [Service!Next]_<<asked, SessionState, told>>
  BY ServiceStep
<1> QED
  BY Invariance, <1>1, <1>2, PTL
     DEF Spec, ImplementsService, Service!Spec, asked, told

--------------------------------------------------------------------------------
(* The crawler.                                                            *)

\* A probe runs only while Run waits for its batch.
BatchWaits == run # "wait" => \A u \in URLs : pc[u] = "idle"

\* The recorded peers of a URL are known, or its loop will still visit them.
PeersPending ==
  \A u \in URLs : \A p \in rpcPeers[u] :
    p \in Known \/ (pc[u] \in {"loop", "peer"} /\ p \in unvisited[u])

CrawlInv == CrawlTypeOK /\ BatchWaits /\ RowsStayPut /\ PeersPending

--------------------------------------------------------------------------------
\* Writing an entry adds its URL, forgets none and moves none.
LEMMA AddKnownRPCKeeps ==
  ASSUME CrawlTypeOK, NEW u \in URLs, NEW e \in Entry, AddKnownRPC(u, e)
  PROVE  /\ order' \in Seq(URLs) /\ entry' \in [URLs -> Entry]
         /\ \A i \in DOMAIN order : i \in DOMAIN order' /\ order'[i] = order[i]
         /\ Known \subseteq Known' /\ u \in Known'
<1>1. entry' \in [URLs -> Entry]
  BY DEF AddKnownRPC, CrawlTypeOK
<1>2. CASE u \in Known
  BY <1>1, <1>2 DEF AddKnownRPC, CrawlTypeOK, Known
<1>3. CASE u \notin Known
  <2>1. order' = Append(order, u)
    BY <1>3 DEF AddKnownRPC
  <2>2. order' \in Seq(URLs) /\ Len(order') = Len(order) + 1
    BY <2>1 DEF CrawlTypeOK
  <2>3. \A i \in DOMAIN order : i \in DOMAIN order' /\ order'[i] = order[i]
    BY <2>1, <2>2 DEF CrawlTypeOK
  <2>4. u \in Known'
    <3>1. Len(order) + 1 \in DOMAIN order' /\ order'[Len(order) + 1] = u
      BY <2>1, <2>2 DEF CrawlTypeOK
    <3>. QED  BY <3>1 DEF Known
  <2>5. Known \subseteq Known'
    BY <2>3 DEF Known
  <2>. QED  BY <1>1, <2>2, <2>3, <2>4, <2>5
<1>. QED  BY <1>2, <1>3

\* Adding to the map disturbs neither the table nor the recorded peers.
LEMMA GrowthKeeps ==
  ASSUME CrawlInv, NEW u \in URLs, NEW e \in Entry, AddKnownRPC(u, e),
         table' = table
  PROVE  RowsStayPut'
BY AddKnownRPCKeeps DEF CrawlInv, RowsStayPut

LEMMA CrawlInitInv == CrawlInit => CrawlInv
<1>. SUFFICES ASSUME CrawlInit PROVE CrawlInv
  OBVIOUS
<1>0. <<>> \in Seq(URLs) /\ Zero \in Entry /\ seed \in URLs
  BY NetworkAssumption DEF Entry, Zero
<1>1. CrawlTypeOK
  <2>1. /\ pc \in [URLs -> {"idle", "request", "copied", "added", "loop", "peer"}]
        /\ lastSeen \in [URLs -> {"never", "recent", "old"}]
    BY DEF CrawlInit
  <2>2. /\ cur \in [URLs -> URLs] /\ unvisited \in [URLs -> SUBSET URLs]
        /\ rpcPeers \in [URLs -> SUBSET URLs] /\ mailbox \in SUBSET URLs
    BY <1>0 DEF CrawlInit
  <2>3. copy \in [URLs -> Entry] /\ entry \in [URLs -> Entry]
    BY <1>0 DEF CrawlInit
  <2>. QED  BY <1>0, <2>1, <2>2, <2>3 DEF CrawlInit, CrawlTypeOK
<1>. QED
  BY <1>1 DEF CrawlInit, CrawlInv, BatchWaits, RowsStayPut, PeersPending

--------------------------------------------------------------------------------
\* The loop of Run.
LEMMA RunStep ==
  ASSUME CrawlInv, TakeBatch \/ WaitBatch \/ Rescan \/ SelectStop
  PROVE  CrawlInv'
<1>. USE DEF CrawlInv, fetchVars, rpcVars, uiVars
<1>1. Known \in SUBSET URLs
  BY DEF Known, CrawlTypeOK
<1>2. CrawlTypeOK'
  BY <1>1 DEF CrawlTypeOK, TakeBatch, WaitBatch, Rescan, SelectStop
<1>3. Known' = Known
  BY DEF Known, TakeBatch, WaitBatch, Rescan, SelectStop
<1>4. BatchWaits'
  BY DEF BatchWaits, TakeBatch, WaitBatch, Rescan, SelectStop
<1>5. RowsStayPut'
  BY DEF RowsStayPut, TakeBatch, WaitBatch, Rescan, SelectStop
<1>6. PeersPending'
  <2>1. CASE TakeBatch
    <3>1. \A u \in URLs : pc[u] = "idle"
      BY <2>1 DEF TakeBatch, BatchWaits
    <3>2. \A u \in URLs : rpcPeers[u] \subseteq Known
      BY <3>1 DEF PeersPending
    <3>. QED  BY <2>1, <3>2, <1>3 DEF TakeBatch, PeersPending
  <2>2. CASE WaitBatch \/ Rescan \/ SelectStop
    BY <2>2, <1>3 DEF WaitBatch, Rescan, SelectStop, PeersPending
  <2>. QED  BY <2>1, <2>2
<1>. QED  BY <1>2, <1>4, <1>5, <1>6

\* The steps of a probe that do not write an entry.
LEMMA ProbeStep ==
  ASSUME CrawlInv, NEW u \in URLs,
         \/ Refused(u) \/ Answered(u) \/ AddRPCPeers(u) \/ FetchDone(u)
         \/ \E p \in URLs : CopyPeer(u, p)
  PROVE  CrawlInv'
<1>. USE DEF CrawlInv, fetchVars, rpcVars, uiVars
<1>1. CrawlTypeOK'
  <2>1. CASE Refused(u) \/ FetchDone(u)
    BY <2>1 DEF CrawlTypeOK, Refused, FetchDone
  <2>2. CASE Answered(u)
    <3>1. PICK peers \in Answers[u] : unvisited' = [unvisited EXCEPT ![u] = peers]
      BY <2>2 DEF Answered
    <3>2. peers \in SUBSET URLs
      BY NetworkAssumption
    <3>. QED  BY <2>2, <3>1, <3>2 DEF CrawlTypeOK, Answered
  <2>3. ASSUME NEW p \in URLs, CopyPeer(u, p) PROVE CrawlTypeOK'
    BY <2>3 DEF CrawlTypeOK, CopyPeer
  <2>4. CASE AddRPCPeers(u)
    BY <2>4 DEF CrawlTypeOK, AddRPCPeers
  <2>. QED  BY <2>1, <2>2, <2>3, <2>4
<1>2. Known' = Known
  BY DEF Known, Refused, Answered, AddRPCPeers, FetchDone, CopyPeer
<1>3. BatchWaits'
  BY DEF BatchWaits, CrawlTypeOK, Refused, Answered, AddRPCPeers, FetchDone, CopyPeer
<1>4. RowsStayPut'
  BY DEF RowsStayPut, Refused, Answered, AddRPCPeers, FetchDone, CopyPeer
<1>5. PeersPending'
  <2>1. CASE Refused(u) \/ FetchDone(u)
    BY <2>1, <1>2 DEF PeersPending, CrawlTypeOK, Refused, FetchDone
  <2>2. CASE Answered(u)
    <3>1. pc[u] = "request" /\ rpcPeers' = rpcPeers /\ unvisited \in [URLs -> SUBSET URLs]
      BY <2>2 DEF Answered, CrawlTypeOK
    <3>2. \A w \in URLs : w # u => pc'[w] = pc[w] /\ unvisited'[w] = unvisited[w]
      BY <2>2 DEF Answered, CrawlTypeOK
    <3>. QED  BY <3>1, <3>2, <1>2 DEF PeersPending
  <2>3. CASE AddRPCPeers(u)
    BY <2>3, <1>2 DEF PeersPending, CrawlTypeOK, AddRPCPeers
  <2>4. ASSUME NEW p \in URLs, CopyPeer(u, p) PROVE PeersPending'
    BY <2>4, <1>2 DEF PeersPending, CrawlTypeOK, CopyPeer
  <2>. QED  BY <2>1, <2>2, <2>3, <2>4
<1>. QED  BY <1>1, <1>3, <1>4, <1>5

\* The two writes of a probe: its own entry and a peer's.
LEMMA WriteStep ==
  ASSUME CrawlInv, NEW u \in URLs, AddSelf(u) \/ AddPeer(u)
  PROVE  CrawlInv'
<1>. USE DEF fetchVars, uiVars
<1>1. CASE AddSelf(u)
  <2>. DEFINE e == [val |-> TRUE, ip |-> copy[u].ip]
  <2>1. e \in Entry /\ AddKnownRPC(u, e) /\ CrawlTypeOK
    BY <1>1 DEF AddSelf, CrawlInv, CrawlTypeOK, Entry
  <2>2. /\ order' \in Seq(URLs) /\ entry' \in [URLs -> Entry]
        /\ Known \subseteq Known'
    BY <2>1, AddKnownRPCKeeps
  <2>3. CrawlTypeOK'
    BY <1>1, <2>2 DEF AddSelf, CrawlInv, CrawlTypeOK, Entry, Zero
  <2>4. RowsStayPut'
    BY <1>1, <2>1, GrowthKeeps DEF AddSelf
  <2>5. BatchWaits' /\ PeersPending'
    BY <1>1, <2>2 DEF AddSelf, CrawlInv, CrawlTypeOK, BatchWaits, PeersPending
  <2>. QED  BY <2>3, <2>4, <2>5 DEF CrawlInv
<1>2. CASE AddPeer(u)
  <2>. DEFINE e == [val |-> copy[u].val, ip |-> TRUE]
  <2>1. e \in Entry /\ cur[u] \in URLs /\ AddKnownRPC(cur[u], e) /\ CrawlTypeOK
    BY <1>2 DEF AddPeer, CrawlInv, CrawlTypeOK, Entry
  <2>2. /\ order' \in Seq(URLs) /\ entry' \in [URLs -> Entry]
        /\ Known \subseteq Known' /\ cur[u] \in Known'
    BY <2>1, AddKnownRPCKeeps
  <2>3. CrawlTypeOK'
    BY <1>2, <2>1, <2>2 DEF AddPeer, CrawlTypeOK, Entry, Zero
  <2>4. RowsStayPut'
    BY <1>2, <2>1, GrowthKeeps DEF AddPeer
  <2>5. BatchWaits' /\ PeersPending'
    BY <1>2, <2>2 DEF AddPeer, CrawlInv, CrawlTypeOK, BatchWaits, PeersPending
  <2>. QED  BY <2>3, <2>4, <2>5 DEF CrawlInv
<1>. QED  BY <1>1, <1>2

\* The display, the clock and Stop.
LEMMA WorldStep ==
  ASSUME CrawlInv, \/ Draw \/ Stop \/ (\E row \in DOMAIN table : SelectRPC(row))
               \/ (\E u \in URLs : Elapse(u)) \/ UNCHANGED crawlVars
  PROVE  CrawlInv'
<1>. USE DEF CrawlInv, fetchVars, rpcVars, uiVars, crawlVars
<1>1. CrawlTypeOK'
  <2>1. CASE Draw
    BY <2>1 DEF CrawlTypeOK, Draw
  <2>2. CASE Stop
    BY <2>2 DEF CrawlTypeOK, Stop
  <2>3. ASSUME NEW row \in DOMAIN table, SelectRPC(row) PROVE CrawlTypeOK'
    BY <2>3 DEF CrawlTypeOK, SelectRPC
  <2>4. ASSUME NEW u \in URLs, Elapse(u) PROVE CrawlTypeOK'
    BY <2>4 DEF CrawlTypeOK, Elapse
  <2>5. CASE UNCHANGED crawlVars
    BY <2>5 DEF CrawlTypeOK
  <2>. QED  BY <2>1, <2>2, <2>3, <2>4, <2>5
<1>2. Known' = Known
  BY DEF Known, Draw, Stop, SelectRPC, Elapse
<1>3. BatchWaits' /\ RowsStayPut' /\ PeersPending'
  BY <1>2 DEF BatchWaits, RowsStayPut, PeersPending, Draw, Stop, SelectRPC, Elapse
<1>. QED  BY <1>1, <1>3

--------------------------------------------------------------------------------
\* The inductive invariant of the crawler and the RPC table.
THEOREM CrawlInvariance == CrawlSpec => []CrawlInv
<1>1. CrawlInv /\ [CrawlNext]_crawlVars => CrawlInv'
  BY RunStep, ProbeStep, WriteStep, WorldStep DEF CrawlNext, fetchOne
<1>. QED  BY <1>1, CrawlInitInv, PTL DEF CrawlSpec

\* Every variable of the crawler keeps its type.
THEOREM CrawlTypeCorrect == CrawlSpec => []CrawlTypeOK
<1>1. CrawlInv => CrawlTypeOK
  BY DEF CrawlInv
<1>. QED  BY <1>1, CrawlInvariance, PTL

\* The row a user sees is the RPC a user gets, for every network and every
\* interleaving of probes, draws and selections.
THEOREM RowsKeepPlace == CrawlSpec => []RowsStayPut
<1>1. CrawlInv => RowsStayPut
  BY DEF CrawlInv
<1>. QED  BY <1>1, CrawlInvariance, PTL

\* No recorded peer of a finished probe is missing from the known RPCs.
THEOREM RecordedPeersKnown == CrawlSpec => []PeersKnown
<1>1. CrawlInv => PeersKnown
  BY DEF CrawlInv, PeersPending, PeersKnown
<1>. QED  BY <1>1, CrawlInvariance, PTL
================================================================================
