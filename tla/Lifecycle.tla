------------------------------- MODULE Lifecycle -------------------------------
(***************************************************************************)
(* pkg/app.go, pkg/refresher, cmd/tmtop.go and the blocking parts of       *)
(* pkg/display/wrapper.go: how the process starts its goroutines and how   *)
(* it stops them.                                                          *)
(*                                                                         *)
(* A worker is a goroutine tracked by wgDone (App.spawn).  One pass of its *)
(* loop is some of: "fetch" (HTTP), "write" (the consensus store), "draw"  *)
(* (QueueUpdateDraw, which returns only once the tview event loop has run  *)
(* the update).  Stop has several callers, each with a context of its own: *)
(* main after the display ended, the signal goroutine, and every worker    *)
(* whose panic HandlePanic recovered.                                      *)
(***************************************************************************)
EXTENDS Naturals

CONSTANTS Workers,   \* the tracked goroutines
          Topology,  \* the worker that serves the topology API, if configured
          Body,      \* Body[w]: what one pass of w's loop does
          Eager,     \* workers that make a pass before their first select
          Pausable,  \* workers whose pass returns at once while paused
          OneShot,   \* refreshers with a non-positive interval
          Guarded,   \* workers that defer HandlePanic
          MaxPanics  \* panics in a behaviour (bound)

ASSUME WorkersAssumption ==
  /\ "main" \notin Workers /\ "signal" \notin Workers
  /\ Topology \subseteq Workers /\ \A s, t \in Topology : s = t
  /\ Body \in [Workers -> SUBSET {"fetch", "write", "draw"}]
  /\ Guarded \subseteq Workers \ Topology
  /\ MaxPanics \in Nat

VARIABLES main,      \* "init" (spawning), "display" or "stopping"
          pc,        \* where each worker is
          wgDone,    \* the goroutines that have called Add and not yet Done
          ui,        \* the tview application
          chStop,    \* chStop is closed
          ws,        \* the websocket: "running", told to stop, or "closed"
          server,    \* a.topologyServer: "nil", "open" or "shutdown"
          store,     \* the consensus store
          signalled, \* SIGINT or SIGTERM arrived
          stop,      \* where each caller is in Stop
          ctx,       \* each caller's context
          inTime,    \* callers whose wait for wgDone ended before ctx did
          panics,    \* panics so far
          proc       \* the process: "running", "exited" or "crashed"

vars == <<main, pc, wgDone, ui, chStop, ws, server, store, signalled,
          stop, ctx, inTime, panics, proc>>

\* What a worker's own loop leaves alone.
others == <<main, ui, chStop, ws, server, store, signalled, stop, ctx, inTime>>

Callers == Guarded \cup {"main", "signal"}

TypeOK ==
  /\ main \in {"init", "display", "stopping"}
  /\ pc \in [Workers -> {"unborn", "begin", "fetch", "write", "draw", "select",
                         "serve", "panic", "shutdown", "unwound", "done"}]
  /\ wgDone \in SUBSET Workers
  /\ ui \in {"off", "running", "stopping", "stopped"}
  /\ chStop \in BOOLEAN
  /\ ws \in {"running", "stopping", "closed"}
  /\ server \in {"nil", "open", "shutdown"}
  /\ store \in {"open", "closed"}
  /\ signalled \in BOOLEAN
  /\ stop \in [Callers -> {"idle", "fetcher", "topology", "drain", "wait",
                           "close", "returned"}]
  /\ ctx \in [Callers -> {"none", "live", "expired"}]
  /\ inTime \in SUBSET Callers
  /\ panics \in 0..MaxPanics
  /\ proc \in {"running", "exited", "crashed"}

\* NewApp has returned: the websocket runs and the store is open; the
\* signal handler is registered before app.Start() is called.
Init ==
  /\ main = "init"
  /\ pc = [w \in Workers |-> "unborn"]
  /\ wgDone = {}
  /\ ui = "off"
  /\ chStop = FALSE
  /\ ws = "running"
  /\ server = "nil"
  /\ store = "open"
  /\ signalled = FALSE
  /\ stop = [c \in Callers |-> "idle"]
  /\ ctx = [c \in Callers |-> "none"]
  /\ inTime = {}
  /\ panics = 0
  /\ proc = "running"

--------------------------------------------------------------------------------
(* App.Start, up to the display.                                           *)

\* Mutant of spawn: the goroutine is started without wgDone.Add(1).
spawnUntracked(w) ==
  /\ proc = "running"
  /\ main = "init" /\ pc[w] = "unborn"
  /\ \A t \in Topology : t = w \/ pc[t] # "unborn"
  /\ pc' = [pc EXCEPT ![w] = IF w \in Topology THEN "serve"
                             ELSE IF w \in Eager THEN "begin" ELSE "select"]
  /\ wgDone' = wgDone
  /\ server' = IF w \in Topology THEN "open" ELSE server
  /\ UNCHANGED <<main, ui, chStop, ws, store, signalled, stop, ctx,
                 inTime, panics, proc>>

\* wgDone.Add(1); go fn().  The topology server is built and spawned first,
\* the other goroutines follow in one of the orders this action allows.
spawn(w) ==
  /\ proc = "running"
  /\ main = "init" /\ pc[w] = "unborn"
  /\ \A t \in Topology : t = w \/ pc[t] # "unborn"
  /\ pc' = [pc EXCEPT ![w] = IF w \in Topology THEN "serve"
                             ELSE IF w \in Eager THEN "begin" ELSE "select"]
  /\ wgDone' = wgDone \cup {w}
  /\ server' = IF w \in Topology THEN "open" ELSE server
  /\ UNCHANGED <<main, ui, chStop, ws, store, signalled, stop, ctx,
                 inTime, panics, proc>>

\* All goroutines are spawned: main calls DisplayWrapper.Start.
DisplayStart ==
  /\ proc = "running"
  /\ main = "init" /\ \A w \in Workers : pc[w] # "unborn"
  /\ main' = "display"
  /\ UNCHANGED <<pc, wgDone, ui, chStop, ws, server, store, signalled,
                 stop, ctx, inTime, panics, proc>>

--------------------------------------------------------------------------------
(* The display: tview's event loop runs in main.                           *)

Ui(from, to) ==
  /\ proc = "running"
  /\ ui = from /\ ui' = to
  /\ UNCHANGED <<main, pc, wgDone, chStop, ws, server, store, signalled,
                 stop, ctx, inTime, panics, proc>>

\* App.Run takes the screen, or fails and DisplayWrapper.Start cleans up.
UiRun   == main = "display" /\ Ui("off", "running")
UiFails == main = "display" /\ Ui("off", "stopped")

\* 'q' or Ctrl-C: App.Stop, after which the event loop ends.
Quit   == Ui("running", "stopping")
UiEnds == Ui("stopping", "stopped")

--------------------------------------------------------------------------------
(* A worker's loop.                                                        *)

Rank == [begin |-> 0, fetch |-> 1, write |-> 2, draw |-> 3]

\* The stages of w's pass that follow stage s, and the first of them.
Later(w, s) == {t \in Body[w] : Rank[t] > Rank[s]}
Following(w, s) == CHOOSE t \in Later(w, s) : \A u \in Later(w, s) : Rank[t] <= Rank[u]

\* The pass is over: back to the select, or out of the goroutine.
Return(w) ==
  IF w \in OneShot
  THEN pc' = [pc EXCEPT ![w] = "done"] /\ wgDone' = wgDone \ {w}
  ELSE pc' = [pc EXCEPT ![w] = "select"] /\ wgDone' = wgDone

Advance(w, s) ==
  IF Later(w, s) = {} THEN Return(w)
  ELSE pc' = [pc EXCEPT ![w] = Following(w, s)] /\ wgDone' = wgDone

\* A tick or a mailbox notification.  Go picks either case of a select when
\* chStop is closed as well.
Tick(w) ==
  /\ proc = "running"
  /\ pc[w] = "select"
  /\ pc' = [pc EXCEPT ![w] = "begin"]
  /\ UNCHANGED <<wgDone, panics, proc, others>>

SelectStop(w) ==
  /\ proc = "running"
  /\ pc[w] = "select" /\ chStop
  /\ pc' = [pc EXCEPT ![w] = "done"]
  /\ wgDone' = wgDone \ {w}
  /\ UNCHANGED <<panics, proc, others>>

\* The pass starts; a refresh returns at once if the user paused the display.
Begin(w) ==
  /\ proc = "running"
  /\ pc[w] = "begin"
  /\ Advance(w, "begin") \/ (w \in Pausable /\ Return(w))
  /\ UNCHANGED <<panics, proc, others>>

\* The HTTP calls returned; after an error nothing is written.
Fetched(w) ==
  /\ proc = "running"
  /\ pc[w] = "fetch"
  /\ Advance(w, "fetch") \/ Advance(w, "write")
  /\ UNCHANGED <<panics, proc, others>>

\* The store call returned, with an error if the store is closed by now.
Written(w) ==
  /\ proc = "running"
  /\ pc[w] = "write"
  /\ Advance(w, "write")
  /\ UNCHANGED <<panics, proc, others>>

\* The event loop runs the queued update and SetState returns.  An update
\* queued after the loop ended is never run.
Drawn(w) ==
  /\ proc = "running"
  /\ pc[w] = "draw" /\ ui \in {"running", "stopping"}
  /\ Return(w)
  /\ UNCHANGED <<panics, proc, others>>

\* Serve returns after Shutdown.
Served(w) ==
  /\ proc = "running"
  /\ pc[w] = "serve" /\ server = "shutdown"
  /\ pc' = [pc EXCEPT ![w] = "done"]
  /\ wgDone' = wgDone \ {w}
  /\ UNCHANGED <<panics, proc, others>>

\* ListenAndServe fails at once: the error is logged.
ServeFails(w) ==
  /\ proc = "running"
  /\ pc[w] = "serve"
  /\ pc' = [pc EXCEPT ![w] = "done"]
  /\ wgDone' = wgDone \ {w}
  /\ UNCHANGED <<panics, proc, others>>

--------------------------------------------------------------------------------
(* App.Stop, for any caller c.                                             *)

\* The caller's context starts, chStop is closed once, and DataFetcher.Close
\* tells the websocket to stop.
StopBegins(c) ==
  /\ stop[c] = "idle"
  /\ stop' = [stop EXCEPT ![c] = "fetcher"]
  /\ ctx' = [ctx EXCEPT ![c] = "live"]
  /\ chStop' = TRUE
  /\ ws' = IF ws = "running" THEN "stopping" ELSE ws

StopStep(c, from, to) ==
  /\ proc = "running"
  /\ stop[c] = from
  /\ stop' = [stop EXCEPT ![c] = to]
  /\ UNCHANGED <<main, pc, wgDone, ui, chStop, ws, signalled, ctx, panics,
                 proc>>

\* DataFetcher.Close returns.
FetcherClosed(c) ==
  /\ ws = "closed" \/ ctx[c] = "expired"
  /\ StopStep(c, "fetcher", "topology")
  /\ UNCHANGED <<server, store, inTime>>

\* Mutant of StopServer: the topology server is left alone.
LeaveServer(c) ==
  /\ StopStep(c, "topology", IF server = "nil" THEN "wait" ELSE "drain")
  /\ UNCHANGED <<server, store, inTime>>

\* topologyServer.Shutdown(ctx), if there is a server by now.
StopServer(c) ==
  /\ StopStep(c, "topology", IF server = "nil" THEN "wait" ELSE "drain")
  /\ server' = IF server = "nil" THEN server ELSE "shutdown"
  /\ UNCHANGED <<store, inTime>>

\* Shutdown returns when the open requests are answered or ctx is done.
Drained(c) == StopStep(c, "drain", "wait") /\ UNCHANGED <<server, store, inTime>>
DrainExpires(c) == ctx[c] = "expired" /\ Drained(c)

WaitDone(c) ==
  /\ wgDone = {}
  /\ StopStep(c, "wait", "close")
  /\ inTime' = inTime \cup {c}
  /\ UNCHANGED <<server, store>>

\* Mutant of WaitExpires: Stop waits for wgDone whatever ctx says.
WaitForever(c) ==
  /\ wgDone = {} /\ ctx[c] = "expired"
  /\ StopStep(c, "wait", "close")
  /\ UNCHANGED <<server, store, inTime>>

WaitExpires(c) ==
  /\ ctx[c] = "expired"
  /\ StopStep(c, "wait", "close")
  /\ UNCHANGED <<server, store, inTime>>

CloseStore(c) ==
  /\ StopStep(c, "close", "returned")
  /\ store' = "closed"
  /\ UNCHANGED <<server, inTime>>

\* The context's timer fires.
Expire(c) ==
  /\ proc = "running"
  /\ ctx[c] = "live"
  /\ ctx' = [ctx EXCEPT ![c] = "expired"]
  /\ UNCHANGED <<main, pc, wgDone, ui, chStop, ws, server, store,
                 signalled, stop, inTime, panics, proc>>

\* The websocket's goroutine ends once it is told to and its read returns.
WsEnds ==
  /\ proc = "running"
  /\ ws = "stopping" /\ ws' = "closed"
  /\ UNCHANGED <<main, pc, wgDone, ui, chStop, server, store, signalled,
                 stop, ctx, inTime, panics, proc>>

--------------------------------------------------------------------------------
(* The callers of Stop.                                                    *)

MainStop ==
  /\ proc = "running"
  /\ main = "display" /\ ui = "stopped"
  /\ main' = "stopping"
  /\ StopBegins("main")
  /\ UNCHANGED <<pc, wgDone, ui, server, store, signalled, inTime, panics,
                 proc>>

MainExit ==
  /\ proc = "running"
  /\ stop["main"] = "returned"
  /\ proc' = "exited"
  /\ UNCHANGED <<pc, wgDone, panics, others>>

Signal ==
  /\ proc = "running"
  /\ ~signalled /\ signalled' = TRUE
  /\ UNCHANGED <<main, pc, wgDone, ui, chStop, ws, server, store, stop,
                 ctx, inTime, panics, proc>>

\* The signal goroutine calls app.Stop, and only that.
SignalStop ==
  /\ proc = "running"
  /\ signalled
  /\ StopBegins("signal")
  /\ UNCHANGED <<main, pc, wgDone, ui, server, store, signalled, inTime,
                 panics, proc>>

\* A pass panics.  Only a goroutine that defers HandlePanic recovers.
Panic(w) ==
  /\ proc = "running"
  /\ pc[w] \in {"fetch", "write"} /\ panics < MaxPanics
  /\ panics' = panics + 1
  /\ IF w \in Guarded THEN pc' = [pc EXCEPT ![w] = "panic"] /\ proc' = proc
                      ELSE pc' = pc /\ proc' = "crashed"
  /\ UNCHANGED <<wgDone, others>>

\* Mutant of ShutdownDisplay: wgDone.Done() runs before the recovery.
ShutdownAfterDone(w) ==
  /\ proc = "running"
  /\ pc[w] = "panic"
  /\ pc' = [pc EXCEPT ![w] = "shutdown"]
  /\ wgDone' = wgDone \ {w}
  /\ ui' = IF ui = "running" THEN "stopping" ELSE ui
  /\ UNCHANGED <<main, chStop, ws, server, store, signalled, stop, ctx, inTime,
                 panics, proc>>

\* shutdown: DisplayWrapper.Stop does nothing if App.Run has not begun.
ShutdownDisplay(w) ==
  /\ proc = "running"
  /\ pc[w] = "panic"
  /\ pc' = [pc EXCEPT ![w] = "shutdown"]
  /\ ui' = IF ui = "running" THEN "stopping" ELSE ui
  /\ UNCHANGED <<main, wgDone, chStop, ws, server, store, signalled, stop,
                 ctx, inTime, panics, proc>>

\* shutdown: Stop.  The caller itself is still counted by wgDone.
ShutdownStop(w) ==
  /\ proc = "running"
  /\ pc[w] = "shutdown"
  /\ StopBegins(w)
  /\ UNCHANGED <<main, pc, wgDone, ui, server, store, signalled, inTime,
                 panics, proc>>

\* panic(r) unwinds through spawn's deferred Done, then ends the process.
Repanic(w) ==
  /\ proc = "running"
  /\ pc[w] = "shutdown" /\ stop[w] = "returned"
  /\ pc' = [pc EXCEPT ![w] = "unwound"]
  /\ wgDone' = wgDone \ {w}
  /\ UNCHANGED <<panics, proc, others>>

Crash(w) ==
  /\ proc = "running"
  /\ pc[w] = "unwound"
  /\ proc' = "crashed"
  /\ UNCHANGED <<pc, wgDone, panics, others>>

--------------------------------------------------------------------------------
WorkerStep(w) == \/ Begin(w) \/ Fetched(w) \/ Written(w) \/ Drawn(w) \/ Served(w)
                 \/ ShutdownDisplay(w)
                 \/ (w \in Guarded /\ (ShutdownStop(w) \/ Repanic(w) \/ Crash(w)))

MainStep == \/ \E w \in Workers : spawn(w)
            \/ DisplayStart \/ UiRun \/ UiFails \/ UiEnds \/ MainStop \/ MainExit

\* What the code of Stop does without anybody's help.
StopProgress(c) == \/ FetcherClosed(c) \/ StopServer(c) \/ DrainExpires(c)
                   \/ WaitDone(c) \/ WaitExpires(c) \/ CloseStore(c) \/ Expire(c)

Next ==
  \/ MainStep \/ Quit
  \/ \E w \in Workers : WorkerStep(w) \/ Tick(w) \/ SelectStop(w)
                        \/ ServeFails(w) \/ Panic(w)
  \/ \E c \in Callers : StopProgress(c) \/ Drained(c)
  \/ WsEnds \/ Signal \/ SignalStop

Spec == Init /\ [][Next]_vars

\* The scheduler runs every goroutine, requests and timers end, and Go's
\* select, choosing uniformly, does not ignore chStop for ever.  The user
\* need not quit, requests need not drain and the websocket's read need not
\* return.
Fairness ==
  /\ WF_vars(MainStep)
  /\ WF_vars(SignalStop)
  /\ \A w \in Workers : /\ WF_vars(WorkerStep(w))
                        /\ SF_vars(SelectStop(w))
  /\ \A c \in Callers : WF_vars(StopProgress(c))

FairSpec == Spec /\ Fairness

--------------------------------------------------------------------------------
(* Properties.                                                             *)

\* Whoever calls Stop, main, the signal goroutine or a panicking worker, once the
\* topology server was made (if there is to be one): the call closes the store only
\* after every producer was told to stop: chStop is closed, the websocket closed or
\* closing and the topology server shut down (app.go, Stop: "websocket/HTTP producers
\* first [...], then the consensus store").
ProducersStopFirst ==
  \A c \in Callers :
    [](stop[c] = "idle" /\ (Topology # {} => server # "nil")
         => [](stop[c] \in {"close", "returned"} =>
                 chStop /\ ws # "running" /\ server # "open"))

\* Stop's comment without that condition: a call that closes the store, at any
\* time, leaves no HTTP server running.
StopOrder == \A c \in Callers : stop[c] \in {"close", "returned"} => server # "open"

\* When main's Stop ends its wait because wgDone reached zero, no goroutine
\* that could write to the store is left, so closing it loses nothing.
CleanShutdown ==
  "main" \in inTime => \A w \in Workers : pc[w] \in {"unwound", "done"}

\* A worker whose panic was recovered waits, in Stop, for a group that
\* counts the worker itself: that wait can only end by its deadline.
PanicNeverInTime == \A w \in Guarded : w \notin inTime

\* Stop is bounded by its context: whatever the goroutines, the websocket or the
\* topology server's clients do, it returns or the process is gone.  Once the display
\* ended, by the user's key or by a panic, and after a recovered panic, the process
\* ends, although updates queued by then are never drawn and hang their goroutine.
\* As long as the display runs, every loop leaves its goroutine after chStop closed:
\* no fetch, store call or draw keeps it for ever.
ShutdownEnds ==
  /\ \A c \in Callers : stop[c] # "idle" ~> (stop[c] = "returned" \/ proc # "running")
  /\ ui = "stopped" ~> proc # "running"
  /\ \A w \in Guarded : pc[w] = "panic" ~> proc # "running"
  /\ \A w \in Workers \ Topology :
       (chStop /\ pc[w] # "unborn") ~>
         (pc[w] = "done" \/ ui \in {"stopping", "stopped"} \/ proc # "running")

\* cmd/tmtop.go: "Trigger a graceful shutdown on SIGINT/SIGTERM": after the
\* signal the process ends.
SignalEnds == signalled ~> proc # "running"

================================================================================
