-------------------------------- MODULE Display --------------------------------
(***************************************************************************)
(* pkg/display: the event loop of the terminal application, which runs key *)
(* handlers and the updates that SetState queues one at a time, next to    *)
(* the goroutines that write State: the websocket consumer adds rounds,    *)
(* the poller replaces the validators.  Each then calls SetState, which    *)
(* waits until the loop has run its update.  An update reads State in      *)
(* several calls, and the rounds once for the header of the all-rounds     *)
(* table and once more for every row.                                      *)
(***************************************************************************)
EXTENDS Integers, Sequences, FiniteSets

CONSTANTS Rounds,        \* rounds that are heard of, a bound
          ValLists,      \* the validator lists a poll may bring
          MaxPolls, MaxKeys, MaxColumns, \* bounds
          DefaultColumnsCount,
          RowsAmount, DebugBlockHeight,
          Widths,        \* widths of the last-round table
          NULL

\* The elements of a list stand for the elements of a slice, so no two are the same and
\* none is an empty cell; the widest table is within the bound on the columns.
ASSUME DisplayAssumption ==
  /\ \A l \in ValLists :
       /\ l # <<>> /\ Len(l) \in Nat /\ DOMAIN l = 1..Len(l)
       /\ \A i \in DOMAIN l : l[i] # NULL /\ \A j \in DOMAIN l : l[i] = l[j] => i = j
  /\ MaxPolls \in Nat /\ MaxKeys \in Nat /\ MaxColumns \in Nat
  /\ DefaultColumnsCount \in 1..MaxColumns /\ Widths \subseteq Nat /\ Widths # {}
  /\ \A width \in Widths : width \div 50 <= MaxColumns
  /\ RowsAmount \in Nat /\ DebugBlockHeight \in Nat /\ RowsAmount >= 2

VARIABLES
  rounds,              \* State.VotesByRound: the rounds it holds
  validators, consensusError, \* State
  consumer, poller,    \* "run", "written" (State is changed), "wait" (in SetState)
  queue,               \* the callers whose update the loop has not run to its end
  paused, polls, keys,
  loop,                \* the event loop: "idle", or the step of the update it runs
  local,               \* the validators the update has read
  TMValidators, ConsensusError, lastCells, \* LastRoundTableData; NULL an empty cell
  ColumnsCount, Transpose,
  resized,             \* the columns changed under a transposed table (history)
  building, allCells,  \* AllRoundsTableData: rows being made, rows shown; a row is the set of its rounds
  Mode, overlays, InfoBlockWidth, grid, focus \* layout; grid lists the main widgets

stateVars  == <<rounds, validators, consensusError>>
callerVars == <<consumer, poller, queue>>
lastVars   == <<TMValidators, ConsensusError, lastCells, ColumnsCount, Transpose, resized>>
allVars    == <<building, allCells>>
layoutVars == <<Mode, overlays, InfoBlockWidth, grid, focus>>
vars == <<stateVars, callerVars, paused, polls, keys, loop, local, lastVars, allVars, layoutVars>>

Modes    == {"LastRound", "AllRounds", "NetInfo", "ValidatorHealth", "NetworkHealth"}
Overlays == {"debug", "help", "rpclist"}

\* The types of the variables; no caller is queued twice, the rows of the all-rounds
\* table are those of a validator list and a header, and whatever keys came before,
\* the mode's widget is on top of the grid and the RPC list has the focus exactly
\* while it is displayed.
TypeOK ==
  /\ rounds \subseteq Rounds /\ validators \in ValLists \cup {<<>>} /\ consensusError \in BOOLEAN
  /\ consumer \in {"run", "written", "wait"} /\ poller \in {"run", "written", "wait"}
  /\ queue \in {<<>>, <<"consumer">>, <<"poller">>, <<"consumer", "poller">>, <<"poller", "consumer">>}
  /\ paused \in BOOLEAN /\ polls \in 0..MaxPolls /\ keys \in 0..MaxKeys
  /\ loop \in {"idle", "lastRound", "allRounds"}
  /\ local \in ValLists \cup {<<>>}
  /\ TMValidators \in ValLists \cup {<<>>} /\ ConsensusError \in BOOLEAN
  /\ ColumnsCount \in 1..MaxColumns /\ Transpose \in BOOLEAN /\ resized \in BOOLEAN
  /\ Len(building) <= Len(local) + 1
  /\ allCells # <<>> => \E l \in ValLists : Len(allCells) = Len(l) + 1
  /\ Mode \in Modes /\ overlays \subseteq Overlays
  /\ InfoBlockWidth \in 1..RowsAmount /\ grid[Len(grid)] = Mode
  /\ focus = (IF "rpclist" \in overlays THEN "rpclist" ELSE Mode)

--------------------------------------------------------------------------------
(* The tables.                                                             *)

\* Mutant of RowsNeeded: the last, incomplete row is forgotten.
RowsFull(n, cols) == n \div cols

RowsNeeded(n, cols) == IF n % cols = 0 THEN n \div cols ELSE n \div cols + 1

\* makeCells: a transposed table is filled by columns of as many rows as the table
\* has now, before it is replaced.
makeCells(vals, err, cols, transpose, cells) ==
  IF err THEN <<<<NULL>>>>
  ELSE IF cols = 0 THEN <<>>
  ELSE [row \in 1..RowsNeeded(Len(vals), cols) |->
          [column \in 1..cols |->
             LET index == IF transpose THEN (column - 1) * Len(cells) + row
                                       ELSE (row - 1) * cols + column
             IN  IF index <= Len(vals) THEN vals[index] ELSE NULL]]

\* The columns that fit the table's width; a table without a width keeps its own.
ColumnsFor(width, cols) ==
  IF width = 0 THEN cols ELSE IF width \div 50 < 1 THEN 1 ELSE width \div 50

\* The rounds of a row of the all-rounds table, one column each, read under the lock.
ReverseIter == rounds

--------------------------------------------------------------------------------
(* The layout.                                                             *)

\* The main widgets a redraw leaves on the grid: the peer table, as often as it is there.
Kept == [i \in 1..Cardinality({j \in DOMAIN grid : grid[j] = "NetInfo"}) |-> "NetInfo"]

\* Mutant of Redraw: the focus stays on the list that was closed.
RedrawKeepsFocus(mode, overs) ==
  /\ grid' = Append(Kept, mode)
  /\ focus' = IF "rpclist" \in overs THEN "rpclist" ELSE focus

\* Redraw takes every main widget but the peer table off the grid, puts the mode's
\* on top and gives it, or the RPC list, the focus.
Redraw(mode, overs) ==
  /\ grid' = Append(Kept, mode)
  /\ focus' = IF "rpclist" \in overs THEN "rpclist" ELSE mode

\* NewWrapper, and Start up to its first draw, which gives the table its columns.
Init ==
  /\ rounds = {} /\ validators = <<>> /\ consensusError = FALSE
  /\ consumer = "run" /\ poller = "run" /\ queue = <<>>
  /\ paused = FALSE /\ polls = 0 /\ keys = 0
  /\ loop = "idle" /\ local = <<>>
  /\ TMValidators = <<>> /\ ConsensusError = FALSE /\ lastCells = <<>>
  /\ \E width \in Widths : ColumnsCount = ColumnsFor(width, DefaultColumnsCount)
  /\ Transpose = FALSE /\ resized = FALSE
  /\ building = <<>> /\ allCells = <<>>
  /\ Mode = "AllRounds" /\ overlays = {} /\ InfoBlockWidth = 2
  /\ grid = <<"AllRounds">> /\ focus = "AllRounds"

--------------------------------------------------------------------------------
(* The writers of State, and their calls of SetState.                      *)

\* AddCometBFTEvents: a vote or a new round makes the entry of a round not held yet;
\* a pause does not stop it.
AddCometBFTEvents(r) ==
  /\ consumer = "run" /\ r \notin rounds
  /\ rounds' = rounds \cup {r} /\ consumer' = "written"
  /\ UNCHANGED <<validators, consensusError, poller, queue, paused, polls, keys, loop, local,
                 lastVars, allVars, layoutVars>>

\* RefreshConsensus: validators without an error, and AddProposer for the current
\* round; or the error alone.
RefreshConsensus ==
  /\ poller = "run" /\ ~paused /\ polls < MaxPolls
  /\ polls' = polls + 1 /\ poller' = "written"
  /\ \/ /\ validators' \in ValLists /\ consensusError' = FALSE
        /\ \E r \in Rounds : rounds' \in {rounds, rounds \cup {r}}
     \/ consensusError' = TRUE /\ UNCHANGED <<validators, rounds>>
  /\ UNCHANGED <<consumer, queue, paused, keys, loop, local, lastVars, allVars, layoutVars>>

\* Both store what they read before they call SetState.
ConsumerSetState ==
  /\ consumer = "written" /\ consumer' = "wait" /\ queue' = Append(queue, "consumer")
  /\ UNCHANGED <<stateVars, poller, paused, polls, keys, loop, local, lastVars, allVars, layoutVars>>

PollerSetState ==
  /\ poller = "written" /\ poller' = "wait" /\ queue' = Append(queue, "poller")
  /\ UNCHANGED <<stateVars, consumer, paused, polls, keys, loop, local, lastVars, allVars, layoutVars>>

--------------------------------------------------------------------------------
(* The update that SetState queues.                                        *)

\* Mutant of SetStateBegin: a pause holds the updates back.
SetStateBeginUnlessPaused ==
  /\ loop = "idle" /\ queue # <<>> /\ ~paused
  /\ loop' = "lastRound" /\ local' = validators
  /\ UNCHANGED <<stateVars, callerVars, paused, polls, keys, lastVars, allVars, layoutVars>>

\* GetTMValidators and GetConsensusHeight.
SetStateBegin ==
  /\ loop = "idle" /\ queue # <<>>
  /\ loop' = "lastRound" /\ local' = validators
  /\ UNCHANGED <<stateVars, callerVars, paused, polls, keys, lastVars, allVars, layoutVars>>

\* SetTMValidators, SetRoundData and SetCurrentRound, each of which fills the table
\* again; the error is read here.
SetStateLastRound ==
  LET Fill(cells) == makeCells(local, consensusError, ColumnsCount, Transpose, cells)
  IN  /\ loop = "lastRound" /\ loop' = "allRounds"
      /\ TMValidators' = local /\ ConsensusError' = consensusError
      /\ lastCells' = Fill(Fill(Fill(lastCells))) /\ resized' = FALSE
      /\ UNCHANGED <<stateVars, callerVars, paused, polls, keys, local, ColumnsCount, Transpose,
                     allVars, layoutVars>>

\* The rows of the table when none is left to make.
AllRows == IF local = <<>> THEN 0 ELSE Len(local) + 1

\* The header first, then a row per validator.
createCells ==
  /\ loop = "allRounds" /\ Len(building) < AllRows
  /\ building' = Append(building, ReverseIter)
  /\ UNCHANGED <<stateVars, callerVars, paused, polls, keys, loop, local, lastVars, allCells,
                 layoutVars>>

\* Mutant of Update: a table that has as many rows already is left as it is.
UpdateIfResized == allCells' = IF Len(building) = Len(allCells) THEN allCells ELSE building

\* Update replaces the rows.
Update == allCells' = building

\* The end of the update: the text views print State, and the caller whose update it
\* is returns from SetState.
SetStateEnd ==
  /\ loop = "allRounds" /\ Len(building) = AllRows
  /\ Update /\ building' = <<>> /\ loop' = "idle" /\ local' = <<>>
  /\ queue' = Tail(queue)
  /\ consumer' = IF Head(queue) = "consumer" THEN "run" ELSE consumer
  /\ poller' = IF Head(queue) = "poller" THEN "run" ELSE poller
  /\ UNCHANGED <<stateVars, paused, polls, keys, lastVars, layoutVars>>

--------------------------------------------------------------------------------
(* Keys.                                                                   *)

Key == /\ loop = "idle" /\ keys < MaxKeys /\ keys' = keys + 1
       /\ UNCHANGED <<stateVars, callerVars, polls, loop, local, allVars>>

\* SetColumnsCount fills the table once.
SetColumnsCount(n) ==
  /\ ColumnsCount' = n
  /\ lastCells' = makeCells(TMValidators, ConsensusError, n, Transpose, lastCells)
  /\ resized' = (Transpose /\ n # ColumnsCount)
  /\ UNCHANGED <<TMValidators, ConsensusError, Transpose>>

\* Both sizes stop at one.
OneLess(n) == IF n - 1 >= 1 THEN n - 1 ELSE n

\* The keys d, h and r: ToggleDebug, ToggleHelp, ToggleRPCList.  An RPC selected in the
\* list closes it the same way.
Toggle(o) ==
  /\ Key
  /\ overlays' = IF o \in overlays THEN overlays \ {o} ELSE overlays \cup {o}
  /\ Redraw(Mode, overlays')
  /\ UNCHANGED <<paused, lastVars, Mode, InfoBlockWidth>>

\* The keys b and s.
ChangeInfoBlockHeight(increase) ==
  /\ Key
  /\ InfoBlockWidth' =
       IF increase /\ InfoBlockWidth + 1 <= RowsAmount - DebugBlockHeight - 1 THEN InfoBlockWidth + 1
       ELSE IF ~increase THEN OneLess(InfoBlockWidth) ELSE InfoBlockWidth
  /\ Redraw(Mode, overlays)
  /\ UNCHANGED <<paused, lastVars, Mode, overlays>>

\* The keys m and l.
ChangeColumnsCount(increase) ==
  /\ Key
  /\ increase => ColumnsCount < MaxColumns
  /\ SetColumnsCount(IF increase THEN ColumnsCount + 1 ELSE OneLess(ColumnsCount))
  /\ Redraw(Mode, overlays)
  /\ UNCHANGED <<paused, Mode, overlays, InfoBlockWidth>>

\* The key t; the all-rounds table takes no notice.
SetTranspose ==
  /\ Key
  /\ Transpose' = ~Transpose
  /\ lastCells' = makeCells(TMValidators, ConsensusError, ColumnsCount, Transpose', lastCells)
  /\ resized' = FALSE
  /\ UNCHANGED <<paused, TMValidators, ConsensusError, ColumnsCount, layoutVars>>

\* The key p.
Pause == Key /\ paused' = ~paused /\ UNCHANGED <<lastVars, layoutVars>>

NextMode == [AllRounds |-> "NetInfo", NetInfo |-> "ValidatorHealth",
             ValidatorHealth |-> "NetworkHealth", NetworkHealth |-> "LastRound",
             LastRound |-> "AllRounds"]

\* The tab key; a last-round table that comes up is given the columns that fit.
ChangeMode ==
  /\ Key
  /\ Mode' = NextMode[Mode]
  /\ Redraw(Mode', overlays)
  /\ IF Mode' = "LastRound"
     THEN \E width \in Widths : \/ width > 0 /\ SetColumnsCount(ColumnsFor(width, ColumnsCount))
                                \/ width = 0 /\ UNCHANGED lastVars
     ELSE UNCHANGED lastVars
  /\ UNCHANGED <<paused, overlays, InfoBlockWidth>>

--------------------------------------------------------------------------------
Draw == SetStateBegin \/ SetStateLastRound \/ createCells \/ SetStateEnd

Keys ==
  \/ \E o \in Overlays : Toggle(o)
  \/ \E increase \in BOOLEAN : ChangeInfoBlockHeight(increase) \/ ChangeColumnsCount(increase)
  \/ SetTranspose \/ Pause \/ ChangeMode

Next ==
  \/ \E r \in Rounds : AddCometBFTEvents(r)
  \/ RefreshConsensus \/ ConsumerSetState \/ PollerSetState \/ Draw \/ Keys

Spec == Init /\ [][Next]_vars

\* The writers reach SetState, and the loop runs what is queued.
FairSpec == Spec /\ WF_vars(ConsumerSetState) /\ WF_vars(PollerSetState) /\ WF_vars(Draw)

--------------------------------------------------------------------------------
(* Properties.                                                             *)

\* The last-round table (makeCells) shows every validator it was given exactly once,
\* in both orders of filling and whatever number of rows it had before, unless its
\* columns changed while it was transposed and no update has come since.
LastRoundComplete ==
  ~ConsensusError /\ ~resized =>
    \A i \in DOMAIN TMValidators :
      Cardinality({rc \in (DOMAIN lastCells) \X (1..ColumnsCount) :
                     lastCells[rc[1]][rc[2]] = TMValidators[i]}) = 1

\* When no writer is between its write and the return of SetState, the tables are
\* current: the rows of the all-rounds table are those of the validators, each lists the
\* rounds of the header, and those are the rounds State holds.
Settled ==
  consumer = "run" /\ poller = "run" =>
    /\ loop = "idle" /\ TMValidators = validators /\ ConsensusError = consensusError
    /\ allCells = IF validators = <<>> THEN <<>>
                  ELSE [i \in 1..(Len(validators) + 1) |-> rounds]

\* The header of the all-rounds table implements what the display promises for
\* rounds: none is made up or taken back, and each is shown in the end.
Scr == INSTANCE Screen WITH
         known <- IF validators = <<>> THEN {} ELSE rounds,
         shown <- IF allCells = <<>> THEN {} ELSE allCells[1]

ScreenSpec == Scr!Spec
================================================================================
