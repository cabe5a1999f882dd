----------------------------- MODULE Subscriptions -----------------------------
(***************************************************************************)
(* What the websocket promises its subscribers, without connections, locks *)
(* or replays: a session with the node starts out with every subscription  *)
(* asked for so far, takes nothing back while it lasts, and once the       *)
(* client has closed no session follows.                                   *)
(***************************************************************************)
CONSTANT Subs
VARIABLES asked,   \* the subscriptions whose Subscribe has returned
          session, \* "down", "up" or "closed"
          told     \* what the node has been told in this session

Init == asked = {} /\ session = "down" /\ told = {}

Ask(s) ==
  /\ s \notin asked
  /\ asked' = asked \cup {s}
  /\ told' = IF session = "up" THEN told \cup {s} ELSE told
  /\ UNCHANGED session

\* Subscriptions that are still being made may be part of the session already.
Open ==
  /\ session = "down" /\ session' = "up"
  /\ told' \in SUBSET Subs /\ asked \subseteq told'
  /\ UNCHANGED asked

Drop ==
  /\ session = "up" /\ session' = "down"
  /\ told' = {}
  /\ UNCHANGED asked

Close ==
  /\ session # "closed" /\ session' = "closed"
  /\ told' = {}
  /\ UNCHANGED asked

Next == (\E s \in Subs : Ask(s)) \/ Open \/ Drop \/ Close

Spec == Init /\ [][Next]_<<asked, session, told>>
================================================================================
