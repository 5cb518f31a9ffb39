---------------------------- MODULE PendingQueue ----------------------------
(***************************************************************************)
(* The priority queue a DummyNode keeps its visualization requests in:     *)
(*                                                                         *)
(*   std::priority_queue<ConduitNodeData, ..., Compare> pq;                *)
(*                                                                         *)
(* A queue is the set of the queued requests and the element top() returns.*)
(* A heap leaves the order of elements that Compare calls equivalent       *)
(* unspecified: a push moves the new element above its parent only when    *)
(* Compare(parent, new) holds, so a tie never displaces the top, and after *)
(* a pop any of the earliest elements left may be the new top.             *)
(***************************************************************************)
EXTENDS Naturals

CONSTANTS
  Req,    (* the requests clients make                                     *)
  Ts,     (* Ts[q], the timestamp m_ts of request q (an unsigned int)      *)
  None    (* no request: what top() of an empty queue would be             *)

ASSUME QueueAssumption ==
  /\ Ts \in [Req -> Nat]
  /\ None \notin Req

-----------------------------------------------------------------------------
\* Seeded fault: a comparator that keeps the latest request on top.
CompareReversed(a, b) == Ts[a] < Ts[b]

\* Compare()(a, b): a is served after b.
Compare(a, b) == Ts[a] > Ts[b]

\* The requests of S no other request of S must be served before.
Earliest(S) == {q \in S : \A p \in S : ~Compare(q, p)}

Queue == [items : SUBSET Req, top : Req \cup {None}]

EmptyQueue == [items |-> {}, top |-> None]

\* Seeded fault: the newest element becomes the top, as in a stack.
PushOnTop(pq, q) == [items |-> pq.items \cup {q}, top |-> q]

\* pq.push(q)
Push(pq, q) ==
  [items |-> pq.items \cup {q},
   top   |-> IF pq.items = {} \/ Compare(pq.top, q) THEN q ELSE pq.top]

\* Seeded fault: the request is read from the top and never removed.
PopsNothing(pq) == {pq}

\* pq.pop(): the queues it may leave, one for each element a tie may put on top.
Pops(pq) ==
  LET rest == pq.items \ {pq.top}
  IN  IF rest = {}
      THEN {EmptyQueue}
      ELSE {[items |-> rest, top |-> q] : q \in Earliest(rest)}

\* The top is an earliest element, and there is one unless the queue is empty.
WellFormed(pq) ==
  IF pq.items = {} THEN pq.top = None ELSE pq.top \in Earliest(pq.items)
=============================================================================
