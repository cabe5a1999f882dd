------------------------------ MODULE MCLifecycle ------------------------------
(* Instances of Lifecycle for TLC: one goroutine of each shape.  consensus  *)
(* is RefreshConsensus, which fetches, writes and draws; cleanup is         *)
(* databaseCleanupRoutine, which only writes and recovers no panic; api is  *)
(* ServeTopology.                                                           *)
EXTENDS Lifecycle

MCWorkers  == {"consensus", "cleanup", "api"}
MCTopology == {"api"}
MCBody     == [consensus |-> {"fetch", "write", "draw"},
               cleanup |-> {"write"}, api |-> {}]
MCEager    == {"consensus", "cleanup"}
MCGuarded  == {"consensus"}
================================================================================
