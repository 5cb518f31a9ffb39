---------------------------- MODULE MCVizServer ----------------------------
(***************************************************************************)
(* Constants for the model checking of VizServer: up to three requests and *)
(* what their clients put in them.                                         *)
(***************************************************************************)
EXTENDS VizServer

TwoReq   == {"a", "b"}
ThreeReq == {"a", "b", "c"}

\* Timestamps in the order of the names, or the same one for all.
Increasing == [q \in Req |-> CASE q = "a" -> 1 [] q = "b" -> 2 [] OTHER -> 3]
Constant   == [q \in Req |-> 1]
\* Clients with one request each.
OwnTask    == [q \in Req |-> CASE q = "a" -> 1 [] q = "b" -> 2 [] OTHER -> 3]
=============================================================================
