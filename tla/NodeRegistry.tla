---------------------------- MODULE NodeRegistry ----------------------------
(***************************************************************************)
(* What a provider promises about its nodes: a set of nodes that calls add *)
(* to, remove from and look up atomically, at some moment between the call *)
(* and its answer.                                                         *)
(***************************************************************************)
CONSTANTS
  Create,   (* calls that make a node; the call is the identity of its node *)
  Remove,   (* calls that close or destroy a node                           *)
  Lookup,   (* calls to a node                                              *)
  Unknown   (* a UUID no provider knows                                     *)

VARIABLES
  nodes,    (* the nodes of the provider                                    *)
  target,   (* target[c]: the node call c is about                          *)
  verdict,  (* verdict[c]: what became of call c                            *)
  answer    (* answer[c]: what its client was told                          *)

Calls == Create \cup Remove \cup Lookup

Init ==
  /\ nodes   = {}
  /\ target  = [c \in Calls |-> Unknown]
  /\ verdict = [c \in Calls |-> "idle"]
  /\ answer  = [c \in Calls |-> "none"]

\* A client makes call c, about a node it has been told of or none at all.
Issue(c, n) ==
  /\ verdict[c] = "idle"
  /\ n = c \/ n = Unknown \/ (n \in Create /\ answer[n] = "ok")
  /\ target'  = [target EXCEPT ![c] = n]
  /\ verdict' = [verdict EXCEPT ![c] = "called"]
  /\ UNCHANGED <<nodes, answer>>

Decide(c, ok) ==
  /\ verdict[c] = "called"
  /\ verdict' = [verdict EXCEPT ![c] = IF ok THEN "ok" ELSE "error"]
  /\ UNCHANGED <<target, answer>>

\* The call is refused: wrong token, bad configuration, unknown node type.
Refuse(c) == c \in Create \cup Remove /\ Decide(c, FALSE) /\ UNCHANGED nodes

Add(c) == c \in Create /\ Decide(c, TRUE) /\ nodes' = nodes \cup {c}

Delete(c) ==
  /\ c \in Remove
  /\ Decide(c, target[c] \in nodes)
  /\ nodes' = nodes \ {target[c]}

Find(c) == c \in Lookup /\ Decide(c, target[c] \in nodes) /\ UNCHANGED nodes

Answer(c) ==
  /\ verdict[c] \in {"ok", "error"}
  /\ answer[c] = "none"
  /\ answer' = [answer EXCEPT ![c] = verdict[c]]
  /\ UNCHANGED <<nodes, target, verdict>>

Next ==
  \E c \in Calls :
    \/ \E n \in Create \cup {c, Unknown} : Issue(c, n)
    \/ Refuse(c) \/ Add(c) \/ Delete(c) \/ Find(c)
    \/ Answer(c)

Spec == Init /\ [][Next]_<<nodes, target, verdict, answer>>
=============================================================================
