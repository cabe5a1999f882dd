------------------------------ MODULE MCWebsocket ------------------------------
(* Instances of Websocket for TLC.  The application makes three Subscribe   *)
(* calls that differ in nothing the model sees; two of them interleave with *)
(* each other and with the manager.  Two faults let a reconnect fail while  *)
(* it replays the subscriptions.                                            *)
EXTENDS Websocket
================================================================================
