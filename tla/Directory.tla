----------------------------- MODULE Directory -----------------------------
(***************************************************************************)
(* What the service registry promises to its users, without saying how: a  *)
(* directory lists a node from the moment the cluster announces it until   *)
(* the moment the cluster announces that it is gone.  Registry.tla, the    *)
(* event handlers of svc/registry over a Go slice, implements it for the   *)
(* nodes whose announcements all carry meta data that can be parsed.       *)
(***************************************************************************)
CONSTANT Node     \* the node records of the cluster library

VARIABLES live,   \* the nodes announced and not yet withdrawn
          listed  \* the nodes a lookup can return

TypeOK == live \subseteq Node /\ listed \subseteq Node

Init == live = {} /\ listed = {}

\* A node comes up: it is listed in the step that announces it.
Announce(n) == /\ n \notin live
               /\ live' = live \cup {n}
               /\ listed' = listed \cup {n}

\* A node goes away: it is unlisted in the step that withdraws it.
Withdraw(n) == /\ n \in live
               /\ live' = live \ {n}
               /\ listed' = listed \ {n}

Next == \E n \in Node : Announce(n) \/ Withdraw(n)

Spec == Init /\ [][Next]_<<live, listed>>
============================================================================
