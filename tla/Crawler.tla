-------------------------------- MODULE Crawler --------------------------------
(***************************************************************************)
(* pkg/crawler/crawler.go, the RPC part of pkg/types/state.go, and the     *)
(* table of pkg/display that shows the known RPCs and picks one of them.   *)
(*                                                                         *)
(* Run takes a batch of URLs from its mailbox and probes them in parallel. *)
(* Each probe (fetchOne) reads the known entry of a URL, changes its copy  *)
(* and writes it back, first for its own URL and then for each peer, so    *)
(* that the probe of a URL and those of its neighbours race for its entry. *)
(***************************************************************************)
EXTENDS Naturals, Sequences

CONSTANTS URLs,     \* the RPC addresses of the network
          seed,     \* the address given by the user
          Answers   \* Answers[u]: the peer lists that u may answer with (none: a closed port)

ASSUME NetworkAssumption ==
  /\ seed \in URLs
  /\ Answers \in [URLs -> SUBSET SUBSET URLs]

VARIABLES run,        \* Run: "select", "wait" (for the batch) or "done"
          mailbox,    \* the URLs to probe
          lastSeen,   \* age of each URL's last probe: "never", "recent" or "old"
          pc,         \* where each URL's fetchOne is
          cur,        \* the URL whose entry fetchOne has copied
          copy,       \* that copy
          unvisited,  \* the peers that the loop has still to visit
          order,      \* knownRPCs, an ordered map: its keys in order ...
          entry,      \* ... and its entries, the zero value for other URLs
          rpcPeers,   \* the peers recorded of each URL
          table,      \* the rows of the RPC table as last drawn
          currentRPC, \* the RPC all requests of the monitor go to
          chStop      \* the stop channel is closed

fetchVars == <<pc, cur, copy, unvisited>>
rpcVars   == <<order, entry>>
uiVars    == <<table, currentRPC>>
crawlVars == <<run, mailbox, lastSeen, fetchVars, rpcVars, rpcPeers, uiVars, chStop>>

\* What an RPC's own /status adds to its entry (address, val), and what its
\* neighbours know of it (remote IP).
Entry == [val : BOOLEAN, ip : BOOLEAN]
Zero  == [val |-> FALSE, ip |-> FALSE]

Known == {order[i] : i \in DOMAIN order}

CrawlTypeOK ==
  /\ run \in {"select", "wait", "done"}
  /\ mailbox \in SUBSET URLs
  /\ lastSeen \in [URLs -> {"never", "recent", "old"}]
  /\ pc \in [URLs -> {"idle", "request", "copied", "added", "loop", "peer"}]
  /\ cur \in [URLs -> URLs]
  /\ copy \in [URLs -> Entry]
  /\ unvisited \in [URLs -> SUBSET URLs]
  /\ order \in Seq(URLs)
  /\ entry \in [URLs -> Entry]
  /\ rpcPeers \in [URLs -> SUBSET URLs]
  /\ table \in Seq(URLs)
  /\ currentRPC \in URLs
  /\ chStop \in BOOLEAN

\* NewState and New; Run begins by delivering the seed.
CrawlInit ==
  /\ run = "select"
  /\ mailbox = {seed}
  /\ lastSeen = [u \in URLs |-> "never"]
  /\ pc = [u \in URLs |-> "idle"]
  /\ cur = [u \in URLs |-> u]
  /\ copy = [u \in URLs |-> Zero]
  /\ unvisited = [u \in URLs |-> {}]
  /\ order = <<>>
  /\ entry = [u \in URLs |-> Zero]
  /\ rpcPeers = [u \in URLs |-> {}]
  /\ table = <<>>
  /\ currentRPC = seed
  /\ chStop = FALSE

--------------------------------------------------------------------------------
(* State.                                                                  *)

\* Mutant of AddKnownRPC: a written entry moves to the end of the map.
AddKnownRPCLast(u, e) ==
  /\ order' = Append(SelectSeq(order, LAMBDA w : w # u), u)
  /\ entry' = [entry EXCEPT ![u] = e]

\* OrderedMap.Set: a new key goes to the end, a known one keeps its place.
AddKnownRPC(u, e) ==
  /\ order' = IF u \in Known THEN order ELSE Append(order, u)
  /\ entry' = [entry EXCEPT ![u] = e]

--------------------------------------------------------------------------------
(* Run.                                                                    *)

\* A URL may be probed again once rescanInterval has passed.
Due(u) == lastSeen[u] # "recent"

\* The batch: duplicates and recently probed URLs are dropped, the others
\* get a goroutine each, and Run waits for all of them.
TakeBatch ==
  LET batch == {u \in mailbox : Due(u)}
  IN  /\ run = "select" /\ mailbox # {}
      /\ mailbox' = {}
      /\ lastSeen' = [u \in URLs |-> IF u \in batch THEN "recent" ELSE lastSeen[u]]
      /\ pc' = [u \in URLs |-> IF u \in batch THEN "request" ELSE pc[u]]
      /\ run' = "wait"
      /\ UNCHANGED <<cur, copy, unvisited, rpcVars, rpcPeers, uiVars, chStop>>

WaitBatch ==
  /\ run = "wait" /\ \A u \in URLs : pc[u] = "idle"
  /\ run' = "select"
  /\ UNCHANGED <<mailbox, lastSeen, fetchVars, rpcVars, rpcPeers, uiVars, chStop>>

\* Mutant of Rescan: only what was never probed is queued again.
RescanNew ==
  /\ run = "select"
  /\ mailbox' = mailbox \cup {u \in Known : lastSeen[u] = "never"}
  /\ UNCHANGED <<run, lastSeen, fetchVars, rpcVars, rpcPeers, uiVars, chStop>>

\* The ticker: every known URL that is due is queued.
Rescan ==
  /\ run = "select"
  /\ mailbox' = mailbox \cup {u \in Known : Due(u)}
  /\ UNCHANGED <<run, lastSeen, fetchVars, rpcVars, rpcPeers, uiVars, chStop>>

SelectStop ==
  /\ run = "select" /\ chStop
  /\ run' = "done"
  /\ UNCHANGED <<mailbox, lastSeen, fetchVars, rpcVars, rpcPeers, uiVars, chStop>>

--------------------------------------------------------------------------------
(* fetchOne.                                                               *)

\* /net_info or /status fails, or times out: logged, nothing is written.
Refused(u) ==
  /\ pc[u] = "request"
  /\ pc' = [pc EXCEPT ![u] = "idle"]
  /\ UNCHANGED <<run, mailbox, lastSeen, cur, copy, unvisited, rpcVars, rpcPeers, uiVars,
                 chStop>>

\* Both requests succeed; the URL's entry is copied, or a zero one made.
Answered(u) ==
  /\ pc[u] = "request"
  /\ pc' = [pc EXCEPT ![u] = "copied"]
  /\ \E peers \in Answers[u] : unvisited' = [unvisited EXCEPT ![u] = peers]
  /\ cur' = [cur EXCEPT ![u] = u]
  /\ copy' = [copy EXCEPT ![u] = entry[u]]
  /\ UNCHANGED <<run, mailbox, lastSeen, rpcVars, rpcPeers, uiVars, chStop>>

\* The copy, with what /status said, is written back.
AddSelf(u) ==
  /\ pc[u] = "copied"
  /\ pc' = [pc EXCEPT ![u] = "added"]
  /\ AddKnownRPC(u, [val |-> TRUE, ip |-> copy[u].ip])
  /\ copy' = [copy EXCEPT ![u] = Zero]
  /\ UNCHANGED <<run, mailbox, lastSeen, cur, unvisited, rpcPeers, uiVars, chStop>>

AddRPCPeers(u) ==
  /\ pc[u] = "added"
  /\ pc' = [pc EXCEPT ![u] = "loop"]
  /\ rpcPeers' = [rpcPeers EXCEPT ![u] = unvisited[u]]
  /\ UNCHANGED <<run, mailbox, lastSeen, cur, copy, unvisited, rpcVars, uiVars, chStop>>

\* The loop over the peers: the entry of the next one is copied ...
CopyPeer(u, p) ==
  /\ pc[u] = "loop" /\ p \in unvisited[u]
  /\ pc' = [pc EXCEPT ![u] = "peer"]
  /\ cur' = [cur EXCEPT ![u] = p]
  /\ copy' = [copy EXCEPT ![u] = entry[p]]
  /\ UNCHANGED <<run, mailbox, lastSeen, unvisited, rpcVars, rpcPeers, uiVars, chStop>>

\* ... and written back with what the neighbour knows; then it is queued.
AddPeer(u) ==
  /\ pc[u] = "peer"
  /\ pc' = [pc EXCEPT ![u] = "loop"]
  /\ AddKnownRPC(cur[u], [val |-> copy[u].val, ip |-> TRUE])
  /\ mailbox' = mailbox \cup {cur[u]}
  /\ unvisited' = [unvisited EXCEPT ![u] = @ \ {cur[u]}]
  /\ cur' = [cur EXCEPT ![u] = u]
  /\ copy' = [copy EXCEPT ![u] = Zero]
  /\ UNCHANGED <<run, lastSeen, rpcPeers, uiVars, chStop>>

\* Mutant of FetchDone: the loop breaks off when the crawler is stopped.
FetchDoneEarly(u) ==
  /\ pc[u] = "loop" /\ (unvisited[u] = {} \/ chStop)
  /\ pc' = [pc EXCEPT ![u] = "idle"]
  /\ unvisited' = [unvisited EXCEPT ![u] = {}]
  /\ UNCHANGED <<run, mailbox, lastSeen, cur, copy, rpcVars, rpcPeers, uiVars, chStop>>

\* Mutant of FetchDone: the goroutine reports to a reader that is gone once
\* the crawler is stopped.
FetchDoneReports(u) ==
  /\ pc[u] = "loop" /\ unvisited[u] = {} /\ ~chStop
  /\ pc' = [pc EXCEPT ![u] = "idle"]
  /\ UNCHANGED <<run, mailbox, lastSeen, cur, copy, unvisited, rpcVars, rpcPeers, uiVars,
                 chStop>>

FetchDone(u) ==
  /\ pc[u] = "loop" /\ unvisited[u] = {}
  /\ pc' = [pc EXCEPT ![u] = "idle"]
  /\ UNCHANGED <<run, mailbox, lastSeen, cur, copy, unvisited, rpcVars, rpcPeers, uiVars,
                 chStop>>

fetchOne(u) == \/ Refused(u) \/ Answered(u) \/ AddSelf(u) \/ AddRPCPeers(u)
               \/ (\E p \in URLs : CopyPeer(u, p)) \/ AddPeer(u) \/ FetchDone(u)

--------------------------------------------------------------------------------
(* The display and the rest of the world.                                  *)

\* Wrapper.SetState hands the table a copy of the known RPCs.
Draw ==
  /\ table' = order
  /\ UNCHANGED <<run, mailbox, lastSeen, fetchVars, rpcVars, rpcPeers, currentRPC,
                 chStop>>

\* The user picks a row; its index is looked up in the map as it is now.
SelectRPC(row) ==
  /\ row \in DOMAIN table
  /\ currentRPC' = IF row \in DOMAIN order THEN order[row] ELSE currentRPC
  /\ UNCHANGED <<run, mailbox, lastSeen, fetchVars, rpcVars, rpcPeers, table, chStop>>

\* rescanInterval passes since u was probed.
Elapse(u) ==
  /\ lastSeen[u] = "recent"
  /\ lastSeen' = [lastSeen EXCEPT ![u] = "old"]
  /\ UNCHANGED <<run, mailbox, fetchVars, rpcVars, rpcPeers, uiVars, chStop>>

\* App.Stop.
Stop ==
  /\ ~chStop /\ chStop' = TRUE
  /\ UNCHANGED <<run, mailbox, lastSeen, fetchVars, rpcVars, rpcPeers, uiVars>>

CrawlNext ==
  \/ TakeBatch \/ WaitBatch \/ Rescan \/ SelectStop
  \/ \E u \in URLs : fetchOne(u) \/ Elapse(u)
  \/ Draw \/ (\E row \in DOMAIN table : SelectRPC(row))
  \/ Stop

CrawlSpec == CrawlInit /\ [][CrawlNext]_crawlVars

\* Goroutines run, requests end, time passes, and Go's select, choosing
\* uniformly among what is ready, ignores no case for ever.
CrawlFairness ==
  /\ SF_crawlVars(TakeBatch) /\ SF_crawlVars(Rescan) /\ SF_crawlVars(SelectStop)
  /\ WF_crawlVars(WaitBatch)
  /\ \A u \in URLs : WF_crawlVars(fetchOne(u)) /\ WF_crawlVars(Elapse(u))

CrawlFairSpec == CrawlSpec /\ CrawlFairness

\* A node that is asked again and again answers in the end.
AnswerFairness == \A u \in URLs : SF_crawlVars(Answered(u))

--------------------------------------------------------------------------------
(* Properties.                                                             *)

\* A row of the table drawn last stays the row of the same RPC in the map,
\* however many RPCs are found or rewritten meanwhile: the user gets the RPC
\* the row shows (SetSelectedFunc looks up the index, not the URL).
RowsStayPut ==
  \A row \in DOMAIN table : row \in DOMAIN order /\ order[row] = table[row]

\* Once a probe has ended, every peer that the topology records of it is a
\* known RPC, although its neighbours write the same entries.
PeersKnown ==
  \A u \in URLs : pc[u] \in {"idle", "request", "copied"} => rpcPeers[u] \subseteq Known

\* The address of every known RPC is found, and found again if a neighbour's
\* stale copy overwrote it, provided that the node answers in the end.
AddressFound ==
  AnswerFairness =>
    \A u \in URLs : (u \in Known /\ ~entry[u].val /\ Answers[u] # {})
                      ~> (entry[u].val \/ chStop)

\* Run: "blocks until chStop closes" and then returns, although it waits for
\* its whole batch before it looks.
RunReturns == chStop ~> run = "done"

\* "Fetch errors don't kill the crawler": a node that answers in the end is
\* found, even if the first probe of the seed failed.
SeedFound == AnswerFairness => <>(seed \in Known \/ chStop)
================================================================================
