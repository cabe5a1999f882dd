---------------------------- MODULE LifecycleProofs ----------------------------
(* The order of App.Stop, for any set of goroutines, any interleaving of    *)
(* the callers of Stop and any number of panics.                            *)
EXTENDS Lifecycle, TLAPS

\* wgDone counts exactly the goroutines that live.
GroupCounts == wgDone = {w \in Workers : pc[w] \notin {"unborn", "unwound", "done"}}

\* The topology server exists before any other goroutine, and main spawns
\* nothing once it is in the display.
SpawnOrder ==
  /\ main # "init" => \A w \in Workers : pc[w] # "unborn"
  /\ \A w \in Workers \ Topology :
       pc[w] # "unborn" => \A t \in Topology : pc[t] # "unborn"

\* Who is in Stop, and what every call of Stop has done at once.
StopCalls ==
  /\ stop["main"] # "idle" => main = "stopping"
  /\ \A c \in Callers : stop[c] # "idle" => chStop /\ ws # "running"
  /\ \A w \in Guarded :
       /\ stop[w] # "idle" => pc[w] \in {"shutdown", "unwound"}
       /\ stop[w] \notin {"idle", "returned"} => pc[w] = "shutdown"
  /\ "main" \in inTime => main # "init"

IInv == /\ TypeOK /\ GroupCounts /\ SpawnOrder /\ StopCalls
        /\ CleanShutdown /\ PanicNeverInTime

LEMMA InitInv == Init => IInv
<1>. SUFFICES ASSUME Init PROVE IInv
  OBVIOUS
<1>. USE DEF Init
<1>1. TypeOK
  <2>1. chStop \in BOOLEAN /\ signalled \in BOOLEAN
    BY Zenon
  <2>2. panics \in 0..MaxPanics
    BY WorkersAssumption
  <2>3. /\ pc \in [Workers -> {"unborn", "begin", "fetch", "write", "draw", "select",
                              "serve", "panic", "shutdown", "unwound", "done"}]
        /\ stop \in [Callers -> {"idle", "fetcher", "topology", "drain", "wait",
                                "close", "returned"}]
        /\ ctx \in [Callers -> {"none", "live", "expired"}]
    BY Zenon
  <2>. QED  BY <2>1, <2>2, <2>3, Zenon DEF TypeOK
<1>2. GroupCounts /\ SpawnOrder
  BY DEF GroupCounts, SpawnOrder
<1>3. StopCalls
  BY DEF StopCalls, Callers
<1>4. CleanShutdown /\ PanicNeverInTime
  BY DEF CleanShutdown, PanicNeverInTime
<1>. QED  BY <1>1, <1>2, <1>3, <1>4 DEF IInv

--------------------------------------------------------------------------------
(* A worker's loop.                                                        *)

InLoop == {"begin", "fetch", "write", "draw", "select", "serve"}
Lands  == {"begin", "fetch", "write", "draw", "select", "done"}

\* The step takes w to t, and out of the group when the goroutine ends.
Moves(w, t) ==
  /\ pc' = [pc EXCEPT ![w] = t]
  /\ wgDone' = IF t = "done" THEN wgDone \ {w} ELSE wgDone

\* The next stage of a pass is a stage.
LEMMA FollowingType ==
  ASSUME NEW w \in Workers, NEW s \in {"begin", "fetch", "write"}, Later(w, s) # {}
  PROVE  Following(w, s) \in {"fetch", "write", "draw"}
<1>1. Later(w, s) \subseteq {"fetch", "write", "draw"}
  BY WorkersAssumption DEF Later
<1>2. Rank["fetch"] = 1 /\ Rank["write"] = 2 /\ Rank["draw"] = 3
  BY DEF Rank
<1>3. \E t \in Later(w, s) : \A u \in Later(w, s) : Rank[t] <= Rank[u]
  <2>1. CASE "fetch" \in Later(w, s)
    BY <1>1, <1>2, <2>1
  <2>2. CASE "fetch" \notin Later(w, s) /\ "write" \in Later(w, s)
    BY <1>1, <1>2, <2>2
  <2>3. CASE "fetch" \notin Later(w, s) /\ "write" \notin Later(w, s)
    BY <1>1, <1>2, <2>3
  <2>. QED  BY <2>1, <2>2, <2>3
<1>4. Following(w, s) \in Later(w, s)
  BY <1>3 DEF Following
<1>. QED  BY <1>1, <1>4

LEMMA ReturnMoves ==
  ASSUME NEW w \in Workers, Return(w)
  PROVE  \E t \in Lands : Moves(w, t)
BY DEF Return, Moves, Lands

LEMMA AdvanceMoves ==
  ASSUME NEW w \in Workers, NEW s \in {"begin", "fetch", "write"}, Advance(w, s)
  PROVE  \E t \in Lands : Moves(w, t)
<1>1. CASE Later(w, s) = {}
  BY <1>1, ReturnMoves DEF Advance
<1>2. CASE Later(w, s) # {}
  <2>1. Following(w, s) \in {"fetch", "write", "draw"}
    BY <1>2, FollowingType
  <2>. QED  BY <1>2, <2>1 DEF Advance, Moves, Lands
<1>. QED  BY <1>1, <1>2

\* No stage of a loop disturbs the invariant.
LEMMA LoopInv ==
  ASSUME IInv, NEW w \in Workers, pc[w] \in InLoop, NEW t \in Lands, Moves(w, t),
         UNCHANGED <<panics, proc, others>>
  PROVE  IInv'
<1>. USE DEF IInv, Moves, Lands, InLoop, others
<1>0. \A v \in Workers : pc'[v] = IF v = w THEN t ELSE pc[v]
  BY DEF TypeOK
<1>1. TypeOK'
  BY DEF TypeOK
<1>2. GroupCounts'
  BY <1>0 DEF GroupCounts
<1>3. SpawnOrder'
  BY <1>0 DEF SpawnOrder
<1>4. StopCalls'
  <2>1. \A v \in Guarded : v \in Workers
    BY WorkersAssumption
  <2>. QED  BY <1>0, <2>1 DEF StopCalls, Callers
<1>6. CleanShutdown'
  BY <1>0 DEF CleanShutdown
<1>7. PanicNeverInTime'
  BY DEF PanicNeverInTime
<1>. QED  BY <1>1, <1>2, <1>3, <1>4, <1>6, <1>7

LEMMA WorkerLoopInv ==
  ASSUME IInv, NEW w \in Workers,
         \/ Begin(w) \/ Fetched(w) \/ Written(w) \/ Drawn(w) \/ Served(w)
         \/ Tick(w) \/ SelectStop(w) \/ ServeFails(w)
  PROVE  IInv'
<1>1. /\ pc[w] \in InLoop
      /\ UNCHANGED <<panics, proc, others>>
  BY DEF Begin, Fetched, Written, Drawn, Served, Tick, SelectStop, ServeFails, InLoop
<1>2. \E t \in Lands : Moves(w, t)
  <2>1. CASE Begin(w)
    BY <2>1, AdvanceMoves, ReturnMoves DEF Begin
  <2>2. CASE Fetched(w)
    BY <2>2, AdvanceMoves DEF Fetched
  <2>3. CASE Written(w)
    BY <2>3, AdvanceMoves DEF Written
  <2>4. CASE Drawn(w)
    BY <2>4, ReturnMoves DEF Drawn
  <2>5. CASE Served(w) \/ SelectStop(w) \/ ServeFails(w)
    BY <2>5 DEF Served, SelectStop, ServeFails, Moves, Lands
  <2>6. CASE Tick(w)
    BY <2>6 DEF Tick, Moves, Lands
  <2>. QED  BY <2>1, <2>2, <2>3, <2>4, <2>5, <2>6
<1>. QED  BY <1>1, <1>2, LoopInv

--------------------------------------------------------------------------------
(* Start and the display.                                                  *)

LEMMA SpawnInv ==
  ASSUME IInv, NEW w \in Workers, spawn(w)
  PROVE  IInv'
<1>. USE DEF IInv, spawn
<1>0. \A v \in Workers : v # w => pc'[v] = pc[v]
  BY DEF TypeOK
<1>a. pc'[w] \in {"serve", "begin", "select"}
  BY DEF TypeOK
<1>1. TypeOK'
  BY DEF TypeOK
<1>2. GroupCounts'
  BY <1>0, <1>a DEF GroupCounts
<1>3. SpawnOrder'
  BY <1>0, <1>a DEF SpawnOrder
<1>4. StopCalls'
  BY <1>0, <1>a, WorkersAssumption DEF StopCalls
<1>6. CleanShutdown'
  BY DEF CleanShutdown, StopCalls
<1>7. PanicNeverInTime'
  BY DEF PanicNeverInTime
<1>. QED  BY <1>1, <1>2, <1>3, <1>4, <1>6, <1>7

\* Steps that change only the phase of main, the display, the timers, the
\* websocket or the process.
LEMMA QuietInv ==
  ASSUME IInv,
         \/ DisplayStart \/ UiRun \/ UiFails \/ Quit \/ UiEnds \/ MainExit
         \/ Signal \/ WsEnds \/ (\E c \in Callers : Expire(c))
         \/ (\E w \in Guarded : Crash(w)) \/ UNCHANGED vars
  PROVE  IInv'
<1>. USE DEF IInv
<1>1. TypeOK'
  <2>1. CASE DisplayStart \/ MainExit \/ WsEnds
    BY <2>1 DEF TypeOK, DisplayStart, MainExit, WsEnds, others
  <2>5. CASE Signal
    BY <2>5, Zenon DEF TypeOK, Signal
  <2>6. CASE UNCHANGED vars
    BY <2>6 DEF TypeOK, vars
  <2>2. CASE UiRun \/ UiFails \/ Quit \/ UiEnds
    BY <2>2 DEF TypeOK, UiRun, UiFails, Quit, UiEnds, Ui
  <2>3. CASE \E c \in Callers : Expire(c)
    BY <2>3 DEF TypeOK, Expire
  <2>4. CASE \E w \in Guarded : Crash(w)
    BY <2>4 DEF TypeOK, Crash, others
  <2>. QED  BY <2>1, <2>2, <2>3, <2>4, <2>5, <2>6
<1>2. /\ UNCHANGED <<pc, wgDone, chStop, server, store, stop, inTime>>
      /\ main' = main \/ (main = "init" /\ main' = "display" /\ \A w \in Workers : pc[w] # "unborn")
      /\ ws # "running" => ws' # "running"
  BY DEF DisplayStart, UiRun, UiFails, Quit, UiEnds, Ui, MainExit, Signal,
         WsEnds, Expire, Crash, others, vars
<1>3. GroupCounts' /\ SpawnOrder' /\ CleanShutdown' /\ PanicNeverInTime'
  BY <1>2 DEF GroupCounts, SpawnOrder, CleanShutdown, PanicNeverInTime
<1>4. StopCalls'
  BY <1>2 DEF StopCalls
<1>. QED  BY <1>1, <1>3, <1>4

--------------------------------------------------------------------------------
(* Panics.                                                                 *)

LEMMA PanicInv ==
  ASSUME IInv, NEW w \in Workers, Panic(w) \/ ShutdownDisplay(w)
  PROVE  IInv'
<1>. USE DEF IInv, Panic, ShutdownDisplay, others
<1>0. /\ pc[w] \in {"fetch", "write", "panic"}
      /\ pc'[w] \in {"fetch", "write", "panic", "shutdown"}
      /\ \A v \in Workers : v # w => pc'[v] = pc[v]
  BY DEF TypeOK
<1>a. UNCHANGED <<main, wgDone, chStop, ws, server, store, stop, inTime>>
  OBVIOUS
<1>1. TypeOK'
  <2>1. panics' \in 0..MaxPanics
    BY WorkersAssumption DEF TypeOK
  <2>2. pc' \in [Workers -> {"unborn", "begin", "fetch", "write", "draw", "select",
                            "serve", "panic", "shutdown", "unwound", "done"}]
    BY DEF TypeOK
  <2>3. /\ ui' \in {"off", "running", "stopping", "stopped"}
        /\ proc' \in {"running", "exited", "crashed"}
        /\ UNCHANGED <<signalled, ctx>>
    BY DEF TypeOK
  <2>. QED  BY <1>a, <2>1, <2>2, <2>3, Zenon DEF TypeOK
<1>2. GroupCounts'
  BY <1>0, <1>a DEF GroupCounts
<1>3. SpawnOrder'
  <2>1. \A v \in Workers : pc'[v] = "unborn" <=> pc[v] = "unborn"
    BY <1>0
  <2>. QED  BY <1>a, <2>1, WorkersAssumption DEF SpawnOrder
<1>4. StopCalls'
  BY <1>0, <1>a, WorkersAssumption DEF StopCalls
<1>5. PanicNeverInTime'
  BY <1>a DEF PanicNeverInTime
<1>6. CleanShutdown'
  BY <1>0, <1>a DEF CleanShutdown
<1>. QED  BY <1>1, <1>2, <1>3, <1>4, <1>5, <1>6

LEMMA RepanicInv ==
  ASSUME IInv, NEW w \in Guarded, Repanic(w)
  PROVE  IInv'
<1>. USE DEF IInv, Repanic, others
<1>w. w \in Workers
  BY WorkersAssumption
<1>0. \A v \in Workers : pc'[v] = IF v = w THEN "unwound" ELSE pc[v]
  BY <1>w DEF TypeOK
<1>1. TypeOK'
  BY DEF TypeOK
<1>2. GroupCounts'
  BY <1>0 DEF GroupCounts
<1>3. SpawnOrder'
  BY <1>0 DEF SpawnOrder
<1>4. StopCalls'
  BY <1>0, WorkersAssumption DEF StopCalls
<1>5. PanicNeverInTime'
  BY DEF PanicNeverInTime
<1>6. CleanShutdown'
  BY <1>0 DEF CleanShutdown
<1>. QED  BY <1>1, <1>2, <1>3, <1>4, <1>5, <1>6

--------------------------------------------------------------------------------
(* Stop.                                                                   *)

\* Any of the callers enters Stop.
LEMMA StopBeginsInv ==
  ASSUME IInv, MainStop \/ SignalStop \/ (\E w \in Guarded : ShutdownStop(w))
  PROVE  IInv'
<1>. USE DEF IInv, StopBegins
<1>1. PICK c \in Callers :
        /\ stop[c] = "idle"
        /\ stop' = [stop EXCEPT ![c] = "fetcher"]
        /\ c = "main" => main' = "stopping"
        /\ c \in Guarded => pc[c] = "shutdown"
  BY WorkersAssumption DEF MainStop, SignalStop, ShutdownStop, Callers
<1>2. /\ chStop' /\ ws' # "running"
      /\ UNCHANGED <<pc, wgDone, server, store, inTime>>
      /\ main' = main \/ (main # "init" /\ main' = "stopping")
  BY DEF MainStop, SignalStop, ShutdownStop
<1>3. TypeOK'
  <2>1. /\ main' \in {"init", "display", "stopping"} /\ chStop' \in BOOLEAN
        /\ ws' \in {"running", "stopping", "closed"}
        /\ UNCHANGED <<ui, signalled, panics, proc>>
    BY DEF TypeOK, MainStop, SignalStop, ShutdownStop
  <2>2. \E d : ctx' = [ctx EXCEPT ![d] = "live"]
    BY DEF MainStop, SignalStop, ShutdownStop
  <2>3. ctx' \in [Callers -> {"none", "live", "expired"}]
    BY <2>2 DEF TypeOK
  <2>. QED  BY <1>1, <1>2, <2>1, <2>3 DEF TypeOK
<1>4. GroupCounts' /\ SpawnOrder' /\ CleanShutdown' /\ PanicNeverInTime'
  BY <1>2 DEF GroupCounts, SpawnOrder, CleanShutdown, PanicNeverInTime
<1>5. \A d \in Callers : stop'[d] = IF d = c THEN "fetcher" ELSE stop[d]
  BY <1>1 DEF TypeOK
<1>6. StopCalls'
  BY <1>1, <1>2, <1>5, WorkersAssumption DEF StopCalls, Callers
<1>. QED  BY <1>3, <1>4, <1>6

\* What all steps inside Stop have in common.
LEMMA StopStepInv ==
  ASSUME IInv, NEW c \in Callers,
         NEW from \in {"fetcher", "topology", "drain", "wait", "close"},
         NEW to \in {"topology", "drain", "wait", "close", "returned"},
         StopStep(c, from, to)
  PROVE  /\ GroupCounts' /\ SpawnOrder'
         /\ \A d \in Callers : stop'[d] = IF d = c THEN to ELSE stop[d]
         /\ stop[c] # "idle"
         /\ (("main" \in inTime' => main # "init") => StopCalls')
<1>. USE DEF IInv, StopStep
<1>1. \A d \in Callers : stop'[d] = IF d = c THEN to ELSE stop[d]
  BY DEF TypeOK
<1>2. GroupCounts' /\ SpawnOrder'
  BY DEF GroupCounts, SpawnOrder
<1>3. stop[c] # "idle" /\ stop[c] # "returned"
  OBVIOUS
<1>4. ASSUME "main" \in inTime' => main # "init"
      PROVE  StopCalls'
  <2>1. "main" \in Callers /\ \A w \in Guarded : w \in Callers
    BY DEF Callers
  <2>2. stop'["main"] # "idle" => main' = "stopping"
    BY <1>1, <1>3, <2>1 DEF StopCalls
  <2>3. \A d \in Callers : stop'[d] # "idle" => chStop' /\ ws' # "running"
    BY <1>1, <1>3 DEF StopCalls
  <2>4. \A w \in Guarded :
          /\ stop'[w] # "idle" => pc'[w] \in {"shutdown", "unwound"}
          /\ stop'[w] \notin {"idle", "returned"} => pc'[w] = "shutdown"
    BY <1>1, <1>3, <2>1 DEF StopCalls
  <2>. QED  BY <1>4, <2>2, <2>3, <2>4 DEF StopCalls
<1>. QED  BY <1>1, <1>2, <1>3, <1>4

LEMMA StopInv ==
  ASSUME IInv, NEW c \in Callers,
         \/ FetcherClosed(c) \/ StopServer(c) \/ DrainExpires(c) \/ Drained(c)
         \/ WaitDone(c) \/ WaitExpires(c) \/ CloseStore(c)
  PROVE  IInv'
<1>. USE DEF IInv
<1>1. CASE FetcherClosed(c)
  <2>1. /\ StopStep(c, "fetcher", "topology")
        /\ UNCHANGED <<server, store, inTime, pc, chStop, ws, main>>
    BY <1>1 DEF FetcherClosed, StopStep
  <2>2. TypeOK'
    BY <1>1 DEF TypeOK, FetcherClosed, StopStep
  <2>3. StopCalls' /\ GroupCounts' /\ SpawnOrder'
    BY <2>1, StopStepInv DEF StopCalls
  <2>. QED  BY <2>1, <2>2, <2>3 DEF CleanShutdown, PanicNeverInTime
<1>2. CASE StopServer(c)
  <2>1. PICK to \in {"drain", "wait"} : StopStep(c, "topology", to)
    BY <1>2 DEF StopServer
  <2>2. /\ UNCHANGED <<store, inTime, pc, chStop, ws, main>>
        /\ server' # "open"
    BY <1>2, <2>1 DEF StopServer, StopStep, TypeOK
  <2>3. TypeOK'
    BY <1>2, <2>1 DEF TypeOK, StopServer, StopStep
  <2>4. StopCalls' /\ GroupCounts' /\ SpawnOrder'
    BY <2>1, <2>2, StopStepInv DEF StopCalls
  <2>. QED  BY <2>2, <2>3, <2>4 DEF CleanShutdown, PanicNeverInTime
<1>3. CASE Drained(c) \/ DrainExpires(c)
  <2>1. /\ StopStep(c, "drain", "wait")
        /\ UNCHANGED <<server, store, inTime, pc, chStop, ws, main>>
    BY <1>3 DEF Drained, DrainExpires, StopStep
  <2>2. TypeOK'
    BY <2>1 DEF TypeOK, StopStep
  <2>3. StopCalls' /\ GroupCounts' /\ SpawnOrder'
    BY <2>1, StopStepInv DEF StopCalls
  <2>. QED  BY <2>1, <2>2, <2>3 DEF CleanShutdown, PanicNeverInTime
<1>4. CASE WaitDone(c)
  <2>1. /\ StopStep(c, "wait", "close")
        /\ wgDone = {} /\ inTime' = inTime \cup {c}
        /\ UNCHANGED <<server, store, pc, chStop, ws, main>>
    BY <1>4 DEF WaitDone, StopStep
  <2>2. TypeOK'
    BY <2>1 DEF TypeOK, StopStep
  <2>3. c = "main" => main = "stopping"
    BY <2>1 DEF StopCalls, StopStep
  <2>4. StopCalls' /\ GroupCounts' /\ SpawnOrder'
    BY <2>1, <2>3, StopStepInv DEF StopCalls
  <2>6. \A w \in Workers : pc[w] \in {"unborn", "unwound", "done"}
    BY <2>1 DEF GroupCounts
  <2>7. CleanShutdown'
    BY <2>1, <2>3, <2>6 DEF CleanShutdown, SpawnOrder
  <2>8. c \notin Guarded
    <3>1. ASSUME c \in Guarded PROVE pc[c] = "shutdown" /\ c \in Workers
      BY <2>1, <3>1, WorkersAssumption DEF StopCalls, StopStep
    <3>. QED  BY <2>6, <3>1
  <2>9. PanicNeverInTime'
    BY <2>1, <2>8 DEF PanicNeverInTime
  <2>. QED  BY <2>2, <2>4, <2>7, <2>9
<1>5. CASE WaitExpires(c)
  <2>1. /\ StopStep(c, "wait", "close")
        /\ UNCHANGED <<server, store, inTime, pc, chStop, ws, main>>
    BY <1>5 DEF WaitExpires, StopStep
  <2>2. TypeOK'
    BY <2>1 DEF TypeOK, StopStep
  <2>3. StopCalls' /\ GroupCounts' /\ SpawnOrder'
    BY <2>1, StopStepInv DEF StopCalls
  <2>. QED  BY <2>1, <2>2, <2>3 DEF CleanShutdown, PanicNeverInTime
<1>6. CASE CloseStore(c)
  <2>1. /\ StopStep(c, "close", "returned")
        /\ store' = "closed"
        /\ UNCHANGED <<server, inTime, pc, chStop, ws, main>>
    BY <1>6 DEF CloseStore, StopStep
  <2>2. TypeOK'
    BY <2>1 DEF TypeOK, StopStep
  <2>3. StopCalls' /\ GroupCounts' /\ SpawnOrder'
    BY <2>1, StopStepInv DEF StopCalls
  <2>. QED  BY <2>1, <2>2, <2>3 DEF CleanShutdown, PanicNeverInTime
<1>. QED  BY <1>1, <1>2, <1>3, <1>4, <1>5, <1>6

--------------------------------------------------------------------------------
\* The inductive invariant of start and shutdown.
THEOREM Invariance == Spec => []IInv
<1>1. IInv /\ [Next]_vars => IInv'
  <2>. SUFFICES ASSUME IInv, [Next]_vars PROVE IInv'
    OBVIOUS
  <2>1. ASSUME NEW w \in Workers, WorkerStep(w) PROVE IInv'
    BY <2>1, WorkerLoopInv, PanicInv, StopBeginsInv, RepanicInv, QuietInv DEF WorkerStep
  <2>2. CASE MainStep
    BY <2>2, SpawnInv, QuietInv, StopBeginsInv DEF MainStep
  <2>3. ASSUME NEW c \in Callers, StopProgress(c) \/ Drained(c) PROVE IInv'
    BY <2>3, StopInv, QuietInv DEF StopProgress
  <2>4. ASSUME NEW w \in Workers, Tick(w) \/ SelectStop(w) \/ ServeFails(w) \/ Panic(w)
        PROVE  IInv'
    BY <2>4, WorkerLoopInv, PanicInv
  <2>5. CASE Quit \/ WsEnds \/ Signal \/ SignalStop \/ UNCHANGED vars
    BY <2>5, QuietInv, StopBeginsInv
  <2>. QED  BY <2>1, <2>2, <2>3, <2>4, <2>5 DEF Next
<1>. QED  BY <1>1, InitInv, PTL DEF Spec

\* Type correctness of the lifecycle.
THEOREM TypeCorrect == Spec => []TypeOK
<1>1. IInv => TypeOK
  BY DEF IInv
<1>. QED  BY <1>1, Invariance, PTL

\* The topology server is made when its goroutine is spawned.
ServerMade ==
  /\ Topology = {} => server = "nil"
  /\ \A t \in Topology : pc[t] = "unborn" => server = "nil"

Draining == {"drain", "wait", "close", "returned"}

\* A call of Stop that will find, or found, the server.
Shut(c) ==
  /\ Topology # {} => server # "nil"
  /\ stop[c] \in Draining => server # "open"

\* What the steps do to the server and to the calls of Stop, apart from two of them.
LEMMA ServerFrame ==
  ASSUME TypeOK, [Next]_vars,
         \A w \in Workers : ~spawn(w), \A c \in Callers : ~StopServer(c)
  PROVE  /\ server' = server
         /\ \A w \in Workers : pc'[w] = "unborn" => pc[w] = "unborn"
         /\ \A c \in Callers : stop'[c] \in Draining => stop[c] \in Draining
<1>. DEFINE Frame ==
              /\ server' = server
              /\ \A w \in Workers : pc'[w] = "unborn" => pc[w] = "unborn"
              /\ \A c \in Callers : stop'[c] \in Draining => stop[c] \in Draining
<1>. SUFFICES Frame
  OBVIOUS
<1>t. /\ \A w \in Workers : w \in DOMAIN pc
      /\ \A c \in Callers : c \in DOMAIN stop
  BY DEF TypeOK
<1>1. ASSUME UNCHANGED <<server, stop>>, NEW w \in Workers, NEW v,
             v # "unborn", pc' = [pc EXCEPT ![w] = v] \/ pc' = pc
      PROVE  Frame
  BY <1>1, <1>t
<1>2. ASSUME UNCHANGED <<server, pc>>, NEW c \in Callers, NEW v,
             v \in Draining => stop[c] \in Draining, stop' = [stop EXCEPT ![c] = v]
      PROVE  Frame
  BY <1>2, <1>t
<1>3. ASSUME UNCHANGED <<server, pc, stop>> PROVE Frame
  BY <1>3
<1>4. ASSUME NEW w \in Workers, NEW s \in {"begin", "fetch", "write"},
             Advance(w, s) \/ Return(w), UNCHANGED <<server, stop>>
      PROVE  Frame
  <2>1. PICK v \in Lands : Moves(w, v)
    BY <1>4, AdvanceMoves, ReturnMoves
  <2>. QED  BY <1>1, <1>4, <2>1 DEF Moves, Lands
<1>5. ASSUME NEW w \in Workers, WorkerStep(w) PROVE Frame
  <2>1. CASE Begin(w) \/ Fetched(w) \/ Written(w) \/ Drawn(w)
    BY <1>4, <2>1 DEF Begin, Fetched, Written, Drawn, others
  <2>2. CASE Served(w) \/ ShutdownDisplay(w) \/ Repanic(w) \/ Crash(w)
    BY <1>1, <2>2 DEF Served, ShutdownDisplay, Repanic, Crash, others
  <2>3. CASE w \in Guarded /\ ShutdownStop(w)
    BY <1>2, <2>3 DEF ShutdownStop, StopBegins, Callers, Draining
  <2>. QED  BY <1>5, <2>1, <2>2, <2>3 DEF WorkerStep
<1>6. ASSUME NEW w \in Workers, Tick(w) \/ SelectStop(w) \/ ServeFails(w) \/ Panic(w)
      PROVE  Frame
  BY <1>1, <1>6 DEF Tick, SelectStop, ServeFails, Panic, others
<1>7. CASE MainStep
  <2>1. CASE MainStop
    BY <1>2, <2>1 DEF MainStop, StopBegins, Callers, Draining
  <2>2. CASE DisplayStart \/ UiRun \/ UiFails \/ UiEnds \/ MainExit
    BY <1>3, <2>2 DEF DisplayStart, UiRun, UiFails, UiEnds, MainExit, Ui, others
  <2>. QED  BY <1>7, <2>1, <2>2 DEF MainStep
<1>8. ASSUME NEW c \in Callers, StopProgress(c) \/ Drained(c) PROVE Frame
  <2>1. CASE FetcherClosed(c)
    BY <1>2, <2>1 DEF FetcherClosed, StopStep, Draining
  <2>2. CASE Drained(c) \/ DrainExpires(c) \/ WaitDone(c) \/ WaitExpires(c)
    BY <1>2, <2>2 DEF Drained, DrainExpires, WaitDone, WaitExpires, StopStep, Draining
  <2>3. CASE CloseStore(c)
    BY <1>2, <2>3 DEF CloseStore, StopStep, Draining
  <2>4. CASE Expire(c)
    BY <1>3, <2>4 DEF Expire
  <2>. QED  BY <1>8, <2>1, <2>2, <2>3, <2>4 DEF StopProgress
<1>9. CASE Quit \/ WsEnds \/ Signal \/ UNCHANGED vars
  BY <1>3, <1>9 DEF Quit, Ui, WsEnds, Signal, vars
<1>10. CASE SignalStop
  BY <1>2, <1>10 DEF SignalStop, StopBegins, Callers, Draining
<1>. HIDE DEF Frame
<1>. QED  BY <1>5, <1>6, <1>7, <1>8, <1>9, <1>10 DEF Next

LEMMA ServerMadeInv == Spec => []ServerMade
<1>1. Init => ServerMade
  BY DEF Init, ServerMade
<1>2. TypeOK /\ ServerMade /\ [Next]_vars => ServerMade'
  <2>. SUFFICES ASSUME TypeOK, ServerMade, [Next]_vars PROVE ServerMade'
    OBVIOUS
  <2>1. ASSUME NEW w \in Workers, spawn(w) PROVE ServerMade'
    BY <2>1, WorkersAssumption DEF spawn, ServerMade, TypeOK
  <2>2. ASSUME NEW c \in Callers, StopServer(c) PROVE ServerMade'
    BY <2>2 DEF StopServer, StopStep, ServerMade
  <2>3. CASE (\A w \in Workers : ~spawn(w)) /\ (\A c \in Callers : ~StopServer(c))
    BY <2>3, ServerFrame, WorkersAssumption DEF ServerMade
  <2>. QED  BY <2>1, <2>2, <2>3
<1>. QED  BY <1>1, <1>2, TypeCorrect, PTL DEF Spec

\* Whoever calls Stop once the topology server was made: the store is closed only
\* after the producers were told to stop.
THEOREM StoreClosesLast == Spec => ProducersStopFirst
<1>1. ASSUME NEW c \in Callers
      PROVE  Spec => [](stop[c] = "idle" /\ (Topology # {} => server # "nil")
                          => [](stop[c] \in {"close", "returned"} =>
                                  chStop /\ ws # "running" /\ server # "open"))
  <2>1. TypeOK /\ ServerMade /\ Shut(c) /\ [Next]_vars => Shut(c)'
    <3>. SUFFICES ASSUME TypeOK, ServerMade, Shut(c), [Next]_vars PROVE Shut(c)'
      OBVIOUS
    <3>1. ASSUME NEW w \in Workers, spawn(w) PROVE Shut(c)'
      <4>1. w \notin Topology
        BY <3>1 DEF spawn, ServerMade, Shut
      <4>. QED  BY <3>1, <4>1 DEF spawn, Shut
    <3>2. ASSUME NEW d \in Callers, StopServer(d) PROVE Shut(c)'
      BY <3>2 DEF StopServer, StopStep, Shut
    <3>3. CASE (\A w \in Workers : ~spawn(w)) /\ (\A d \in Callers : ~StopServer(d))
      BY <3>3, ServerFrame DEF Shut
    <3>. QED  BY <3>1, <3>2, <3>3
  <2>2. stop[c] = "idle" /\ (Topology # {} => server # "nil") => Shut(c)
    BY DEF Shut, Draining
  <2>3. IInv /\ Shut(c) => (stop[c] \in {"close", "returned"} =>
                              chStop /\ ws # "running" /\ server # "open")
    BY DEF IInv, StopCalls, Shut, Draining
  <2>. QED  BY <2>1, <2>2, <2>3, Invariance, TypeCorrect, ServerMadeInv, PTL DEF Spec
<1>. QED  BY <1>1 DEF ProducersStopFirst

\* A wait that ends in time leaves no writer behind.
THEOREM InTimeMeansStopped == Spec => []CleanShutdown
<1>1. IInv => CleanShutdown
  BY DEF IInv
<1>. QED  BY <1>1, Invariance, PTL

\* The Stop of a panicking worker always runs into its deadline.
THEOREM PanicWaitsForItself == Spec => []PanicNeverInTime
<1>1. IInv => PanicNeverInTime
  BY DEF IInv
<1>. QED  BY <1>1, Invariance, PTL

================================================================================
