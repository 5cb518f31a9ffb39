------------------------------ MODULE VizServer ------------------------------
(***************************************************************************)
(* One SERVIZ instance: `Size' server ranks that share an MPI communicator,*)
(* each with an Argobots pool of RPC handlers and one DummyNode.           *)
(*                                                                         *)
(* Every rank of a client sends its part of a visualization request to the *)
(* server rank with its own number.  The handler of that RPC               *)
(* (ProviderImpl::ams_open_publish_execute) answers at once and then calls *)
(* the node (DummyNode::ams_open_publish_execute), which pushes the        *)
(* request on the node's priority queue and, unless the server is LAZY,    *)
(* agrees with the other ranks by MPI collectives whether to run the       *)
(* request on top of the queues.  A second RPC                             *)
(* (ams_execute_pending_requests) runs what is left in the queue.          *)
(*                                                                         *)
(* One execution stream runs the handlers of a rank (`-t 0' or `-t 1'), so *)
(* a handler gives way to another one only where it yields: at the respond *)
(* of an RPC.  An MPI call blocks the stream, and with it the rank.        *)
(***************************************************************************)
EXTENDS PendingQueue, Integers, Sequences, FiniteSets, Functions

CONSTANTS
  Size,       (* MPI_Comm_size(comm)                                        *)
  TaskId,     (* TaskId[q], the "task_id" of the open options of request q  *)
  Pend,       (* calls of ams_execute_pending_requests                      *)
  Modes,      (* the values of AMS_SERVER_MODE considered                   *)
  PoolLimit,  (* the 5 of `pool_size < 5', less the runtime's own threads   *)
  Gate,       (* when clients call ams_execute_pending_requests, see below  *)
  Teardown    (* whether an admin may close or destroy the nodes            *)

ASSUME ServerAssumption ==
  /\ Size \in Nat \ {0}
  /\ TaskId \in [Req -> Int]
  /\ Pend \cap Req = {}
  /\ None \notin Pend
  /\ Modes \subseteq {"EAGER", "LAZY", "LAZYISH"}
  /\ PoolLimit \in Nat
  /\ Gate \in {"any", "responded", "pushed"}
  /\ Teardown \in BOOLEAN

Rank == 0 .. Size - 1
Root == 0

VARIABLES
  mode,     (* AMS_SERVER_MODE, the same for all ranks of a job             *)
  node,     (* node[r]: m_backends of rank r holds the node                 *)
  ope,      (* ope[r][q]: the part of request q that goes to rank r         *)
  pend,     (* pend[r][p]: the call p made to rank r                        *)
  running,  (* running[r]: the handler inside an MPI call on rank r         *)
  pq,       (* pq[r]: the priority queue of the node of rank r              *)
  calls     (* calls[r]: the collectives rank r entered on comm, in order   *)

vars == <<mode, node, ope, pend, running, pq, calls>>

OpeState  == {"unsent", "arrived", "responding", "pushed", "failed"}
PendState == {"unsent", "arrived", "started", "failed"}
Kind      == {"bcast", "allreduce", "viz"}
Call      == [kind : Kind, req : Req, exec : BOOLEAN]

-----------------------------------------------------------------------------
\* FIND_NODE(node): the node is in m_backends.
Found(r) == node[r]

\* The handler stream of rank r is free.
Idle(r) == running[r] = None

\* Rank r is inside a collective of this kind.
Inside(r, kind) ==
  /\ running[r] # None
  /\ calls[r] # <<>>
  /\ calls[r][Len(calls[r])].kind = kind

\* Rank r enters the next collective, on behalf of request q.
Enter(r, kind, q, exec) ==
  calls' = [calls EXCEPT ![r] =
              Append(@, [kind |-> kind, req |-> q, exec |-> exec])]

Return(r) == running' = [running EXCEPT ![r] = None]

\* Every rank has made its i-th collective, and they are of one kind: the
\* condition for a synchronizing collective to return.  Collectives of
\* different kinds never match.
Joined(i, kind) ==
  \A s \in Rank : Len(calls[s]) >= i /\ calls[s][i].kind = kind

\* Seeded fault: `recv < top_task_id * size' instead of `!='.
SumTestWeak(f, r) ==
  FoldFunction(+, 0, [s \in Rank |-> TaskId[f[s]]]) >= TaskId[f[r]] * Size

\* recv == top_task_id * size, where f[s] is the top request of rank s
SumTest(f, r) ==
  FoldFunction(+, 0, [s \in Rank |-> TaskId[f[s]]]) = TaskId[f[r]] * Size

\* What the server relies on: a rank passes the test only when the ranks are
\* working on the same task, or even on the same request.  a + b = 2 * a only if
\* a = b, but 1 + 2 + 3 = 3 * 2.
SumTestSound ==
  \A f \in [Rank -> Req], r \in Rank :
    SumTest(f, r) => \A s \in Rank : TaskId[f[s]] = TaskId[f[r]]

SumTestExact ==
  \A f \in [Rank -> Req], r \in Rank :
    SumTest(f, r) => \A s \in Rank : f[s] = f[r]

\* The requests the ranks reduced over in slot i.
Tops(i) == [s \in Rank |-> calls[s][i].req]

\* Rank r finds that its peers are working on the same request in slot i.
Agreed(r, i) == SumTest(Tops(i), r)

\* pool.total_size() as the handler of q sees it: the other handlers of rank r
\* that have not returned.
PoolSize(r, q) ==
  Cardinality({o \in Req \ {q} : ope[r][o] \in {"arrived", "responding"}})
    + Cardinality({p \in Pend : pend[r][p] = "arrived"})

\* Clients may ask for the pending requests
\*   "any"        whenever they like,
\*   "responded"  once every request has been answered,
\*   "pushed"     once every request is in a queue of the server.
GateOpen ==
  \/ Gate = "any"
  \/ /\ Gate = "responded"
     /\ \A r \in Rank, q \in Req : ope[r][q] \notin {"unsent", "arrived"}
  \/ /\ Gate = "pushed"
     /\ \A r \in Rank, q \in Req : ope[r][q] \in {"pushed", "failed"}

-----------------------------------------------------------------------------
Init ==
  /\ mode \in Modes
  /\ node    = [r \in Rank |-> TRUE]
  /\ ope     = [r \in Rank |-> [q \in Req |-> "unsent"]]
  /\ pend    = [r \in Rank |-> [p \in Pend |-> "unsent"]]
  /\ running = [r \in Rank |-> None]
  /\ pq      = [r \in Rank |-> EmptyQueue]
  /\ calls   = [r \in Rank |-> <<>>]

\* Rank r of a client sends its part of request q (rpc.on(ph).async(...)).
SendRequest(r, q) ==
  /\ ope[r][q] = "unsent"
  /\ ope' = [ope EXCEPT ![r][q] = "arrived"]
  /\ UNCHANGED <<mode, node, pend, running, pq, calls>>

\* Rank r of a client sends the one-way call p.
SendPending(r, p) ==
  /\ pend[r][p] = "unsent"
  /\ GateOpen
  /\ pend' = [pend EXCEPT ![r][p] = "arrived"]
  /\ UNCHANGED <<mode, node, ope, running, pq, calls>>

\* closeNode and destroyNode take the node out of m_backends.  A handler that
\* has looked the node up goes on using it through its shared_ptr; what is left
\* in the queue then is never run, since no later handler finds the node.
RemoveNode(r) ==
  /\ Teardown
  /\ Idle(r)
  /\ node[r]
  /\ node' = [node EXCEPT ![r] = FALSE]
  /\ UNCHANGED <<mode, ope, pend, running, pq, calls>>

\* FIND_NODE, then the respond of ams_open_publish_execute, which yields.
Acknowledge(r, q) ==
  /\ Idle(r)
  /\ ope[r][q] = "arrived"
  /\ ope' = [ope EXCEPT ![r][q] = IF Found(r) THEN "responding" ELSE "failed"]
  /\ UNCHANGED <<mode, node, pend, running, pq, calls>>

\* Seeded fault: the request is executed before it is queued.
PushRequestLost(r, q) ==
  /\ Idle(r)
  /\ ope[r][q] = "responding"
  /\ ope' = [ope EXCEPT ![r][q] = "pushed"]
  /\ UNCHANGED <<mode, node, pend, pq, running, calls>>

\* Seeded fault: a root with too much work returns before the broadcast.
PushRequestNoBcast(r, q) ==
  /\ Idle(r)
  /\ ope[r][q] = "responding"
  /\ ope' = [ope EXCEPT ![r][q] = "pushed"]
  /\ pq'  = [pq EXCEPT ![r] = Push(@, q)]
  /\ IF r = Root /\ PoolSize(r, q) >= PoolLimit
     THEN UNCHANGED <<running, calls>>
     ELSE /\ running' = [running EXCEPT ![r] = q]
          /\ Enter(r, "bcast", q, r = Root)
  /\ UNCHANGED <<mode, node, pend>>

\* DummyNode::ams_open_publish_execute up to its first collective.
PushRequest(r, q) ==
  /\ Idle(r)
  /\ ope[r][q] = "responding"
  /\ ope' = [ope EXCEPT ![r][q] = "pushed"]
  /\ pq'  = [pq EXCEPT ![r] = Push(@, q)]
  /\ \/ /\ mode = "LAZY"
        /\ UNCHANGED <<running, calls>>
     \/ /\ mode = "LAZYISH"
        /\ running' = [running EXCEPT ![r] = q]
        /\ Enter(r, "bcast", q, r = Root /\ PoolSize(r, q) < PoolLimit)
     \/ /\ mode = "EAGER"
        /\ running' = [running EXCEPT ![r] = q]
        /\ Enter(r, "allreduce", pq'[r].top, FALSE)
  /\ UNCHANGED <<mode, node, pend>>

\* MPI_Bcast of execute_ascent returns.  The root need not wait for the others.
LeaveBcast(r) ==
  LET i == Len(calls[r])
  IN  /\ Inside(r, "bcast")
      /\ Len(calls[Root]) >= i
      /\ calls[Root][i].kind = "bcast"
      /\ IF calls[Root][i].exec
         THEN /\ Enter(r, "allreduce", pq[r].top, FALSE)
              /\ UNCHANGED running
         ELSE /\ Return(r)
              /\ UNCHANGED calls
      /\ UNCHANGED <<mode, node, ope, pend, pq>>

\* MPI_Allreduce of the task ids returns.  A request handler skips unless its
\* peers agree; ams_execute_one_request only reports the disagreement.
LeaveAllreduce(r) ==
  LET i == Len(calls[r])
  IN  /\ Inside(r, "allreduce")
      /\ Joined(i, "allreduce")
      /\ IF Agreed(r, i) \/ running[r] \in Pend
         THEN /\ Enter(r, "viz", pq[r].top, FALSE)
              /\ UNCHANGED running
         ELSE /\ Return(r)
              /\ UNCHANGED calls
      /\ UNCHANGED <<mode, node, ope, pend, pq>>

\* Ascent has run the actions of the request on top (open, publish, execute and
\* close, with comm as its communicator); the request is popped.  The handler
\* of a pending call goes on with the next one.
FinishViz(r) ==
  LET i == Len(calls[r])
  IN  /\ Inside(r, "viz")
      /\ Joined(i, "viz")
      /\ \E rest \in Pops(pq[r]) :
           /\ pq' = [pq EXCEPT ![r] = rest]
           /\ IF running[r] \in Pend /\ rest.items # {}
              THEN /\ Enter(r, "allreduce", rest.top, FALSE)
                   /\ UNCHANGED running
              ELSE /\ Return(r)
                   /\ UNCHANGED calls
      /\ UNCHANGED <<mode, node, ope, pend>>

\* The handler of ams_execute_pending_requests up to its first collective.
StartPending(r, p) ==
  /\ Idle(r)
  /\ pend[r][p] = "arrived"
  /\ pend' = [pend EXCEPT ![r][p] = IF Found(r) THEN "started" ELSE "failed"]
  /\ IF Found(r) /\ pq[r].items # {}
     THEN /\ running' = [running EXCEPT ![r] = p]
          /\ Enter(r, "allreduce", pq[r].top, FALSE)
     ELSE UNCHANGED <<running, calls>>
  /\ UNCHANGED <<mode, node, ope, pq>>

\* Every call has been made and every handler has returned.
Quiet ==
  \A r \in Rank :
    /\ Idle(r)
    /\ \A q \in Req : ope[r][q] \in {"pushed", "failed"}
    /\ \A p \in Pend : pend[r][p] \in {"started", "failed"}

\* The server waits for more RPCs (engine.wait_for_finalize).
Rest == Quiet /\ UNCHANGED vars

HandlerStep(r) ==
  \/ \E q \in Req : Acknowledge(r, q) \/ PushRequest(r, q)
  \/ LeaveBcast(r) \/ LeaveAllreduce(r) \/ FinishViz(r)
  \/ \E p \in Pend : StartPending(r, p)

ClientStep(r) ==
  \/ \E q \in Req : SendRequest(r, q)
  \/ \E p \in Pend : SendPending(r, p)

Next ==
  \/ \E r \in Rank : ClientStep(r) \/ HandlerStep(r) \/ RemoveNode(r)
  \/ Rest

Spec == Init /\ [][Next]_vars

\* The scheduler of a rank runs every handler that is ready, a matched
\* collective returns, and every rank of a client makes the calls of its program.
Fairness ==
  \A r \in Rank :
    /\ \A q \in Req :
         /\ WF_vars(SendRequest(r, q))
         /\ WF_vars(Acknowledge(r, q))
         /\ WF_vars(PushRequest(r, q))
    /\ \A p \in Pend : WF_vars(SendPending(r, p)) /\ WF_vars(StartPending(r, p))
    /\ WF_vars(LeaveBcast(r))
    /\ WF_vars(LeaveAllreduce(r))
    /\ WF_vars(FinishViz(r))

FairSpec == Spec /\ Fairness

-----------------------------------------------------------------------------
\* The collectives of rank r that ran a visualization, the requests they were
\* for, and those of them that have been popped.
VizSlots(r) == {i \in 1 .. Len(calls[r]) : calls[r][i].kind = "viz"}

Started(r) == {calls[r][i].req : i \in VizSlots(r)}

Popped(r) ==
  {calls[r][i].req :
     i \in {j \in VizSlots(r) : Idle(r) \/ j < Len(calls[r])}}

\* Every variable has its type, and every queue keeps an earliest request on top.
TypeOK ==
  /\ mode    \in Modes
  /\ node    \in [Rank -> BOOLEAN]
  /\ ope     \in [Rank -> [Req -> OpeState]]
  /\ pend    \in [Rank -> [Pend -> PendState]]
  /\ running \in [Rank -> Req \cup Pend \cup {None}]
  /\ pq      \in [Rank -> Queue]
  /\ calls   \in [Rank -> Seq(Call)]
  /\ \A r \in Rank : WellFormed(pq[r])

\* The n-th collective of every rank is of the same kind: no rank waits in an
\* MPI_Allreduce of ams_open_publish_execute for a peer that is inside Ascent
\* or in the MPI_Bcast of its next request.
CollectivesMatch ==
  \A r, s \in Rank :
    \A i \in 1 .. Len(calls[r]) :
      i <= Len(calls[s]) => calls[r][i].kind = calls[s][i].kind

\* "Checking if all my peers are working on the same request. If not, skip!"
\* (DummyBackend.cpp): a rank visualizes the request that every rank had on top
\* of its queue when the ranks compared their task ids.
SameRequest ==
  \A r \in Rank : \A i \in VizSlots(r) :
    /\ i > 1
    /\ \A s \in Rank :
         /\ Len(calls[s]) >= i - 1
         /\ calls[s][i - 1].req = calls[r][i].req

\* A rank that prints "Skipping this request" does not visualize it: a
\* visualization follows a reduction in which the rank found its peers agreed.
SkipMeansSkip ==
  \A r \in Rank : \A i \in VizSlots(r) : i > 1 /\ Agreed(r, i - 1)

\* No request is lost or run twice on a rank: what was pushed is either in the
\* queue or has been run and popped, and nothing was run in two visualizations.
Accounted ==
  \A r \in Rank :
    /\ \A q \in Req :
         IF ope[r][q] = "pushed"
         THEN (q \in pq[r].items) # (q \in Popped(r))
         ELSE q \notin pq[r].items \cup Started(r)
    /\ \A i, j \in VizSlots(r) : calls[r][i].req = calls[r][j].req => i = j

\* Once every request has been handled, what is left for the pending call is the
\* same on all ranks, so that its reductions find them agreed.
QueuesAgree ==
  (\A r \in Rank :
     /\ Idle(r)
     /\ \A q \in Req : ope[r][q] \in {"pushed", "failed"}
     /\ \A p \in Pend : pend[r][p] # "started")
    => \A r, s \in Rank : pq[r] = pq[s]

\* The ranks of a LAZY server run their requests in the order of the client
\* timestamps, which "is virtually guaranteed" for pending requests
\* (DummyBackend.cpp).
TimestampOrder ==
  mode = "LAZY" =>
    \A r \in Rank : \A i, j \in VizSlots(r) :
      i < j => Ts[calls[r][i].req] <= Ts[calls[r][j].req]

\* A handler that has answered its client returns: it waits forever neither for
\* the handler stream nor inside a collective.
HandlersReturn ==
  \A r \in Rank, q \in Req :
    ope[r][q] = "responding" ~> (ope[r][q] = "pushed" /\ running[r] # q)

\* Every request is visualized on every rank, at the latest by the handler of
\* ams_execute_pending_requests.
EverythingRuns == \A r \in Rank, q \in Req : <>(q \in Popped(r))

\* The k-th smallest number of S, as a set of one.
Nth(S, k) == {i \in S : Cardinality({j \in S : j <= i}) = k}

TheOnly(S) == CHOOSE x \in S : TRUE

\* The requests rank r has begun to visualize, in order.
RanSeq(r) ==
  [k \in 1 .. Cardinality(VizSlots(r)) |-> calls[r][TheOnly(Nth(VizSlots(r), k))].req]

\* The ranks run one common sequence of visualizations, in step.
Log == INSTANCE VizLog WITH ran <- [r \in Rank |-> RanSeq(r)]

OneLog == Log!Spec
=============================================================================
