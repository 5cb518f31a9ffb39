------------------------------ MODULE NodeStreams ------------------------------
(***************************************************************************)
(* One DummyNode under the handlers of one rank, each call on the queue    *)
(* and on Ascent a step of its own.  The handlers run on `Streams' Argobots*)
(* execution streams (option -t of examples/server.cpp, or the pool that   *)
(* Bedrock passes); nothing in DummyNode excludes them from one another.   *)
(*                                                                         *)
(* VizServer has all ranks and one stream; here the other ranks are        *)
(* outcomes: the broadcast may tell the handler to return, the reduction   *)
(* may find the peers agreed or not.  A data race on the queue is undefined*)
(* behaviour: with more than one stream only its mildest outcome is        *)
(* modelled, where each access takes effect as a whole.                    *)
(***************************************************************************)
EXTENDS PendingQueue, Integers, FiniteSets

CONSTANTS
  Pend,     (* calls of ams_execute_pending_requests                        *)
  Streams   (* execution streams that run handlers                          *)

ASSUME StreamsAssumption ==
  /\ Pend \cap Req = {}
  /\ None \notin Pend
  /\ Streams \in Nat \ {0}

Handler == Req \cup Pend

VARIABLES
  pc,       (* pc[h]: where handler h is                                    *)
  pq,       (* the priority queue of the node                               *)
  touched,  (* touched[h]: the requests the present visualization of h read *)
  open      (* open[h]: the files h has opened and not closed               *)

vars == <<pc, pq, touched, open>>

Inside == {"queued", "testing", "nonempty", "reducing", "agreed",
           "opened", "published", "executed"}

-----------------------------------------------------------------------------
\* A stream is free to begin a handler, or to resume it after its respond.
StreamFree == Cardinality({h \in Handler : pc[h] \in Inside}) < Streams

Goto(h, label) == pc' = [pc EXCEPT ![h] = label]

\* The handler reads pq.top(), for the part `label' of its visualization.
Touch(h, label) ==
  /\ touched' = [touched EXCEPT ![h] = @ \cup {pq.top}]
  /\ Goto(h, label)
  /\ UNCHANGED pq

Init ==
  /\ pc      = [h \in Handler |-> "sent"]
  /\ pq      = EmptyQueue
  /\ touched = [h \in Handler |-> {}]
  /\ open    = [h \in Handler |-> 0]

\* The respond of ProviderImpl::ams_open_publish_execute, which yields.
Answer(q) ==
  /\ pc[q] = "sent"
  /\ StreamFree
  /\ Goto(q, "answered")
  /\ UNCHANGED <<pq, touched, open>>

\* DummyNode::ams_open_publish_execute: the files, and pq.push(c)
PushRequest(q) ==
  /\ pc[q] = "answered"
  /\ StreamFree
  /\ open' = [open EXCEPT ![q] = 4]
  /\ pq' = Push(pq, q)
  /\ Goto(q, "queued")
  /\ UNCHANGED touched

\* Return of the LAZY mode, or of the LAZYISH mode when the root has too much
\* work: the files are closed.
ReturnQueued(q) ==
  /\ q \in Req
  /\ pc[q] = "queued"
  /\ open' = [open EXCEPT ![q] = 0]
  /\ Goto(q, "returned")
  /\ UNCHANGED <<pq, touched>>

\* ams_execute_pending_requests: one file
StartPending(p) ==
  /\ pc[p] = "sent"
  /\ StreamFree
  /\ open' = [open EXCEPT ![p] = 1]
  /\ Goto(p, "testing")
  /\ UNCHANGED <<pq, touched>>

\* while(pq.size() != 0)
TestQueue(p) ==
  /\ pc[p] = "testing"
  /\ IF pq.items = {}
     THEN Goto(p, "returned") /\ open' = [open EXCEPT ![p] = 0]
     ELSE Goto(p, "nonempty") /\ UNCHANGED open
  /\ UNCHANGED <<pq, touched>>

\* int top_task_id = (pq.top()).m_task_id, for the reduction that follows
ReadTask(h) ==
  /\ pc[h] \in {"queued", "nonempty"}
  /\ touched' = [touched EXCEPT ![h] = {pq.top}]
  /\ Goto(h, "reducing")
  /\ UNCHANGED <<pq, open>>

\* The reduction finds the peers agreed, or ams_execute_one_request goes on
\* although it does not.
Agree(h) ==
  /\ pc[h] = "reducing"
  /\ Goto(h, "agreed")
  /\ UNCHANGED <<pq, touched, open>>

\* "Skipping this request": the handler returns, and its files stay open.
Skip(q) ==
  /\ q \in Req
  /\ pc[q] = "reducing"
  /\ Goto(q, "skipped")
  /\ UNCHANGED <<pq, touched, open>>

\* a_lib.open(n_open_opts), the options of the request that is on top
OpenViz(h) ==
  /\ pc[h] = "agreed"
  /\ Touch(h, "opened")
  /\ UNCHANGED open

\* Seeded fault: the data is that of the handler's own request.
PublishOwn(h) ==
  /\ pc[h] = "opened"
  /\ touched' = [touched EXCEPT ![h] = @ \cup {h}]
  /\ Goto(h, "published")
  /\ UNCHANGED <<pq, open>>

\* a_lib.publish(n_mesh), the data of the request that is on top
PublishViz(h) ==
  /\ pc[h] = "opened"
  /\ Touch(h, "published")
  /\ UNCHANGED open

\* a_lib.execute(n), the actions of the request that is on top
ExecuteViz(h) ==
  /\ pc[h] = "published"
  /\ Touch(h, "executed")
  /\ UNCHANGED open

\* Seeded fault: the files are not closed.
FinishLeaking(h) ==
  /\ pc[h] = "executed"
  /\ touched' = [touched EXCEPT ![h] = @ \cup {pq.top}]
  /\ pq' \in Pops(pq)
  /\ Goto(h, IF h \in Req THEN "returned" ELSE "testing")
  /\ UNCHANGED open

\* a_lib.close(), pq.pop(), and the end of the handler, or of one round of the
\* loop over the pending requests.
Finish(h) ==
  /\ pc[h] = "executed"
  /\ touched' = [touched EXCEPT ![h] = @ \cup {pq.top}]
  /\ pq' \in Pops(pq)
  /\ Goto(h, IF h \in Req THEN "returned" ELSE "testing")
  /\ open' = IF h \in Req THEN [open EXCEPT ![h] = 0] ELSE open

Rest ==
  /\ \A h \in Handler : pc[h] \in {"returned", "skipped"}
  /\ UNCHANGED vars

HandlerStep(h) ==
  \/ ReturnQueued(h) \/ ReadTask(h) \/ Agree(h) \/ Skip(h)
  \/ OpenViz(h) \/ PublishViz(h) \/ ExecuteViz(h) \/ Finish(h)

Next ==
  \/ \E q \in Req : Answer(q) \/ PushRequest(q)
  \/ \E p \in Pend : StartPending(p) \/ TestQueue(p)
  \/ \E h \in Handler : HandlerStep(h)
  \/ Rest

Spec == Init /\ [][Next]_vars

-----------------------------------------------------------------------------
\* Every variable has its type, and the queue keeps an earliest request on top.
TypeOK ==
  /\ pc \in [Handler -> Inside \cup {"sent", "answered", "returned", "skipped"}]
  /\ pq \in Queue
  /\ touched \in [Handler -> SUBSET (Req \cup {None})]
  /\ open \in [Handler -> 0 .. 4]
  /\ WellFormed(pq)

\* "Perform the ascent viz as a single, atomic operation within the context of
\* the RPC" (DummyBackend.cpp): the options, the data and the actions of a
\* visualization are those of one request, the one whose task the ranks compared
\* before and the one that is popped after it.
VizAtomic ==
  \A h \in Handler : touched[h] \subseteq Req /\ Cardinality(touched[h]) <= 1

\* No descriptor is lost but by a handler that skips its request: the files that
\* are open are four for each skip and at most four for each stream.
DescriptorsBounded ==
  LET skips == {h \in Handler : pc[h] = "skipped"}
      files == {f \in Handler \X (1 .. 4) : f[2] <= open[f[1]]}
  IN  Cardinality(files) <= 4 * (Cardinality(skips) + Streams)
=============================================================================
