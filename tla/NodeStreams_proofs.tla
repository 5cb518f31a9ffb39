-------------------------- MODULE NodeStreams_proofs --------------------------
(***************************************************************************)
(* Theorems about NodeStreams for any requests and pending calls: types and*)
(* descriptors for any number of streams, atomic visualizations for one.   *)
(***************************************************************************)
EXTENDS NodeStreams, FiniteSetTheorems, TLAPS

\* What std::priority_queue::push leaves is a queue with an earliest element on
\* top, whatever order the requests arrive in.
LEMMA PushLemma ==
  ASSUME NEW Q \in Queue, WellFormed(Q), NEW q \in Req
  PROVE  /\ Push(Q, q) \in Queue
         /\ WellFormed(Push(Q, q))
         /\ q \in Push(Q, q).items
         /\ Push(Q, q).top \in Req
<1>1. Push(Q, q) \in Queue /\ q \in Push(Q, q).items
  BY DEF Push, Queue
<1>2. CASE Q.items = {}
  BY <1>1, <1>2, QueueAssumption DEF Push, Queue, WellFormed, Earliest, Compare
<1>3. CASE Q.items # {}
  <2>1. Q.top \in Q.items /\ \A p \in Q.items : Ts[p] \in Nat /\ ~(Ts[Q.top] > Ts[p])
    BY <1>3, QueueAssumption DEF Queue, WellFormed, Earliest, Compare
  <2>2. CASE Ts[Q.top] > Ts[q]
    BY <1>1, <1>3, <2>1, <2>2, QueueAssumption
    DEF Push, Queue, WellFormed, Earliest, Compare
  <2>3. CASE ~(Ts[Q.top] > Ts[q])
    BY <1>1, <1>3, <2>1, <2>3, QueueAssumption
    DEF Push, Queue, WellFormed, Earliest, Compare
  <2>4. QED
    BY <2>2, <2>3
<1>4. QED
  BY <1>2, <1>3

\* The same for std::priority_queue::pop.
LEMMA PopLemma ==
  ASSUME NEW Q \in Queue, NEW R \in Pops(Q)
  PROVE  R \in Queue /\ WellFormed(R)
BY DEF Pops, Queue, EmptyQueue, WellFormed, Earliest

\* The top of a queue that is not empty is a request.
LEMMA TopLemma ==
  ASSUME NEW Q \in Queue, WellFormed(Q), Q.items # {}
  PROVE  Q.top \in Q.items /\ Q.top \in Req
BY DEF Queue, WellFormed, Earliest

-----------------------------------------------------------------------------
\* Everything of the types but the order of the queue holds by typed updates.
LEMMA InitType == Init => TypeOK
BY QueueAssumption
DEF Init, TypeOK, Inside, Queue, EmptyQueue, WellFormed

\* A handler step of any stream keeps the types, whatever the other streams do.
LEMMA NextType == TypeOK /\ [Next]_vars => TypeOK'
<1> SUFFICES ASSUME TypeOK, [Next]_vars PROVE TypeOK'
  OBVIOUS
<1> USE DEF Inside
<1>1. pq.top \in Req \cup {None}
  BY DEF TypeOK, Queue
<1>2. ASSUME NEW q \in Req, Answer(q) PROVE TypeOK'
  BY <1>2 DEF TypeOK, Answer, Goto, Handler
<1>3. ASSUME NEW q \in Req, PushRequest(q) PROVE TypeOK'
  <2>1. pq' \in Queue /\ WellFormed(pq')
    BY <1>3, PushLemma DEF TypeOK, PushRequest
  <2>2. WellFormed(pq)'
    BY <2>1 DEF WellFormed
  <2>3. QED
    BY <1>3, <2>1, <2>2 DEF TypeOK, PushRequest, Goto, Handler
<1>4. ASSUME NEW p \in Pend, StartPending(p) PROVE TypeOK'
  BY <1>4 DEF TypeOK, StartPending, Goto, Handler
<1>5. ASSUME NEW p \in Pend, TestQueue(p) PROVE TypeOK'
  BY <1>5 DEF TypeOK, TestQueue, Goto, Handler
<1>6. ASSUME NEW h \in Handler, HandlerStep(h) PROVE TypeOK'
  <2>1. CASE ReturnQueued(h)
    BY <2>1 DEF TypeOK, ReturnQueued, Goto
  <2>2. CASE ReadTask(h)
    BY <1>1, <2>2 DEF TypeOK, ReadTask, Goto
  <2>3. CASE Agree(h) \/ Skip(h)
    BY <2>3 DEF TypeOK, Agree, Skip, Goto
  <2>4. CASE OpenViz(h) \/ PublishViz(h) \/ ExecuteViz(h)
    BY <1>1, <2>4 DEF TypeOK, OpenViz, PublishViz, ExecuteViz, Touch, Goto
  <2>5. CASE Finish(h)
    <3>1. pq' \in Queue /\ WellFormed(pq')
      BY <2>5, PopLemma DEF TypeOK, Finish
    <3>2. WellFormed(pq)'
      BY <3>1 DEF WellFormed
    <3>3. QED
      BY <1>1, <2>5, <3>1, <3>2 DEF TypeOK, Finish, Goto
  <2>6. QED
    BY <1>6, <2>1, <2>2, <2>3, <2>4, <2>5 DEF HandlerStep
<1>7. CASE UNCHANGED vars
  BY <1>7 DEF vars, TypeOK, WellFormed
<1>8. QED
  BY <1>2, <1>3, <1>4, <1>5, <1>6, <1>7 DEF Next, Rest

\* The types, on any number of streams: no pop or push leaves a queue whose top
\* is not an earliest request.
THEOREM TypeCorrect == Spec => []TypeOK
BY InitType, NextType, PTL DEF Spec

-----------------------------------------------------------------------------
\* Who has read the task is at work on the request that is on top.
Working == {"reducing", "agreed", "opened", "published", "executed"}

\* One stream: at most one handler is at work.
Alone ==
  \A h, k \in Handler : pc[h] \in Inside /\ pc[k] \in Inside => h = k

\* What a handler at work relies on between two accesses to the queue.
Steady ==
  \A h \in Handler :
    /\ pc[h] \in Inside \ {"testing"} => pq.items # {}
    /\ pc[h] \in Working => touched[h] = {pq.top}

\* What a visualization has read is one request, also when it is over.
OneRead == \A h \in Handler : touched[h] = {} \/ \E q \in Req : touched[h] = {q}

AtomicInv == TypeOK /\ Alone /\ Steady /\ OneRead

LEMMA InitAtomic == Init => AtomicInv
BY InitType DEF Init, AtomicInv, Alone, Steady, OneRead, Inside, Working

\* On one stream a handler begins or goes on only when no other is at work.
LEMMA FreeMeansNobody ==
  ASSUME Streams = 1, Alone, StreamFree, NEW h \in Handler
  PROVE  pc[h] \notin Inside
<1> DEFINE S == {k \in Handler : pc[k] \in Inside}
<1>1. SUFFICES ASSUME pc[h] \in Inside PROVE FALSE
  OBVIOUS
<1>2. S = {h}
  BY <1>1 DEF Alone
<1>3. Cardinality(S) = 1
  BY <1>2, FS_Singleton
<1>4. QED
  BY <1>3 DEF StreamFree

\* Steps of a handler alone at work keep what it relies on.
LEMMA NextAtomic ==
  ASSUME Streams = 1, AtomicInv, [Next]_vars
  PROVE  AtomicInv'
<1>1. TypeOK /\ Alone /\ Steady /\ OneRead /\ TypeOK'
  BY NextType DEF AtomicInv
<1>2. SUFFICES Alone' /\ Steady' /\ OneRead'
  BY <1>1 DEF AtomicInv
<1> USE DEF Inside, Working
<1>3. ASSUME NEW q \in Req, Answer(q) PROVE Alone' /\ Steady' /\ OneRead'
  BY <1>1, <1>3 DEF TypeOK, Alone, Steady, OneRead, Answer, Goto, Handler
<1>4. ASSUME NEW q \in Req, PushRequest(q) PROVE Alone' /\ Steady' /\ OneRead'
  <2>1. \A k \in Handler : pc[k] \notin Inside
    BY <1>1, <1>4, FreeMeansNobody DEF PushRequest
  <2>2. pq'.items # {}
    BY <1>1, <1>4, PushLemma DEF TypeOK, PushRequest
  <2>3. QED
    BY <1>1, <1>4, <2>1, <2>2
    DEF TypeOK, Alone, Steady, OneRead, PushRequest, Goto, Handler
<1>5. ASSUME NEW p \in Pend, StartPending(p) PROVE Alone' /\ Steady' /\ OneRead'
  <2>1. \A k \in Handler : pc[k] \notin Inside
    BY <1>1, <1>5, FreeMeansNobody DEF StartPending
  <2>2. QED
    BY <1>1, <1>5, <2>1
    DEF TypeOK, Alone, Steady, OneRead, StartPending, Goto, Handler
<1>6. ASSUME NEW p \in Pend, TestQueue(p) PROVE Alone' /\ Steady' /\ OneRead'
  BY <1>1, <1>6 DEF TypeOK, Alone, Steady, OneRead, TestQueue, Goto, Handler
<1>7. ASSUME NEW h \in Handler, HandlerStep(h) PROVE Alone' /\ Steady' /\ OneRead'
  <2>1. pc[h] \in Inside \ {"testing"}
    BY <1>7 DEF HandlerStep, ReturnQueued, ReadTask, Agree, Skip, OpenViz,
                PublishViz, ExecuteViz, Touch, Finish
  <2>2. \A k \in Handler \ {h} : pc[k] \notin Inside
    BY <1>1, <2>1 DEF Alone
  <2>3. pq.items # {} /\ pq.top \in Req
    BY <1>1, <2>1, TopLemma DEF TypeOK, Steady
  <2>4. CASE ReturnQueued(h)
    BY <1>1, <2>2, <2>4 DEF TypeOK, Alone, Steady, OneRead, ReturnQueued, Goto
  <2>5. CASE ReadTask(h)
    BY <1>1, <2>2, <2>3, <2>5 DEF TypeOK, Alone, Steady, OneRead, ReadTask, Goto
  <2>6. CASE Agree(h) \/ Skip(h)
    BY <1>1, <2>2, <2>6 DEF TypeOK, Alone, Steady, OneRead, Agree, Skip, Goto
  <2>7. CASE OpenViz(h) \/ PublishViz(h) \/ ExecuteViz(h)
    <3>1. touched' = touched /\ pq' = pq
      BY <1>1, <2>7 DEF TypeOK, Steady, OpenViz, PublishViz, ExecuteViz, Touch
    <3>2. QED
      BY <1>1, <2>2, <2>3, <2>7, <3>1
      DEF TypeOK, Alone, Steady, OneRead, OpenViz, PublishViz, ExecuteViz, Touch,
          Goto
  <2>8. CASE Finish(h)
    <3>1. touched' = touched
      BY <1>1, <2>8 DEF TypeOK, Steady, Finish
    <3>2. QED
      BY <1>1, <2>2, <2>8, <3>1 DEF TypeOK, Alone, Steady, OneRead, Finish, Goto
  <2>9. QED
    BY <1>7, <2>4, <2>5, <2>6, <2>7, <2>8 DEF HandlerStep
<1>8. CASE UNCHANGED vars
  BY <1>1, <1>8 DEF vars, Alone, Steady, OneRead
<1>9. QED
  BY <1>3, <1>4, <1>5, <1>6, <1>7, <1>8 DEF Next, Rest

\* A visualization reads one request from its first access to its last, as long
\* as the handlers of the rank share one stream.
THEOREM AtomicOnOneStream == ASSUME Streams = 1 PROVE Spec => []VizAtomic
<1>1. Init => AtomicInv
  BY InitAtomic
<1>2. AtomicInv /\ [Next]_vars => AtomicInv'
  BY NextAtomic
<1>3. AtomicInv => VizAtomic
  <2> SUFFICES ASSUME AtomicInv, NEW h \in Handler
               PROVE  touched[h] \subseteq Req /\ Cardinality(touched[h]) <= 1
    BY DEF VizAtomic
  <2>1. CASE touched[h] = {}
    BY <2>1, FS_EmptySet
  <2>2. CASE touched[h] # {}
    <3>1. PICK q \in Req : touched[h] = {q}
      BY <2>2 DEF AtomicInv, OneRead
    <3>2. Cardinality({q}) = 1
      BY FS_Singleton
    <3>3. QED
      BY <3>1, <3>2
  <2>3. QED
    BY <2>1, <2>2
<1>4. QED
  BY <1>1, <1>2, <1>3, PTL DEF Spec
-----------------------------------------------------------------------------
\* The handlers that occupy a stream, and the ones that have skipped a request.
Busy == {h \in Handler : pc[h] \in Inside}

Skipped == {h \in Handler : pc[h] = "skipped"}

\* Files are open while a handler occupies a stream, or for good when it skips.
OpenInv ==
  /\ TypeOK
  /\ \A h \in Handler : open[h] > 0 => h \in Busy \cup Skipped
  /\ IsFiniteSet(Busy) /\ Cardinality(Busy) <= Streams
  /\ IsFiniteSet(Skipped)

LEMMA InitOpen == Init => OpenInv
<1> SUFFICES ASSUME Init PROVE OpenInv
  OBVIOUS
<1>1. Busy = {} /\ Skipped = {}
  BY DEF Init, Busy, Skipped, Inside
<1>2. \A h \in Handler : ~(open[h] > 0)
  BY DEF Init
<1>3. IsFiniteSet({}) /\ Cardinality({}) = 0
  BY FS_EmptySet
<1>4. QED
  BY <1>1, <1>2, <1>3, InitType, StreamsAssumption DEF OpenInv

\* A step is one of one handler, which begins or resumes only on a free stream and
\* leaves it with its files closed, unless it skips.
LEMMA OneMoves ==
  ASSUME TypeOK, [Next]_vars
  PROVE  \/ UNCHANGED vars
         \/ \E h \in Handler :
              /\ \A k \in Handler \ {h} : pc'[k] = pc[k] /\ open'[k] = open[k]
              /\ pc[h] # "skipped"
              /\ pc'[h] \in Inside => pc[h] \in Inside \/ StreamFree
              /\ \/ pc'[h] \in Inside \cup {"skipped"}
                 \/ open'[h] = 0
                 \/ open'[h] = open[h] /\ pc[h] \notin Inside
<1> USE DEF Inside
<1>1. ASSUME NEW q \in Req, Answer(q) \/ PushRequest(q)
      PROVE  /\ q \in Handler
             /\ \A k \in Handler \ {q} : pc'[k] = pc[k] /\ open'[k] = open[k]
             /\ pc[q] # "skipped" /\ StreamFree
             /\ pc'[q] \in Inside \/ (open'[q] = open[q] /\ pc[q] \notin Inside)
  BY <1>1 DEF TypeOK, Handler, Answer, PushRequest, Goto
<1>2. ASSUME NEW p \in Pend, StartPending(p) \/ TestQueue(p)
      PROVE  /\ p \in Handler
             /\ \A k \in Handler \ {p} : pc'[k] = pc[k] /\ open'[k] = open[k]
             /\ pc[p] # "skipped"
             /\ pc[p] \in Inside \/ StreamFree
             /\ pc'[p] \in Inside \/ open'[p] = 0
  BY <1>2 DEF TypeOK, Handler, StartPending, TestQueue, Goto
<1>3. ASSUME NEW h \in Handler, HandlerStep(h)
      PROVE  /\ \A k \in Handler \ {h} : pc'[k] = pc[k] /\ open'[k] = open[k]
             /\ pc[h] \in Inside
             /\ pc'[h] \in Inside \cup {"skipped"} \/ open'[h] = 0
  <2>1. CASE ReturnQueued(h) \/ Finish(h)
    BY <1>3, <2>1 DEF TypeOK, Handler, ReturnQueued, Finish, Goto
  <2>2. CASE ReadTask(h) \/ Agree(h) \/ Skip(h)
    BY <1>3, <2>2 DEF TypeOK, ReadTask, Agree, Skip, Goto
  <2>3. CASE OpenViz(h) \/ PublishViz(h) \/ ExecuteViz(h)
    BY <1>3, <2>3 DEF TypeOK, OpenViz, PublishViz, ExecuteViz, Touch, Goto
  <2>4. QED
    BY <1>3, <2>1, <2>2, <2>3 DEF HandlerStep
<1>4. QED
  BY <1>1, <1>2, <1>3 DEF Next, Rest

LEMMA NextOpen == OpenInv /\ [Next]_vars => OpenInv'
<1> SUFFICES ASSUME OpenInv, [Next]_vars PROVE OpenInv'
  OBVIOUS
<1>1. TypeOK /\ TypeOK'
  BY NextType DEF OpenInv
<1>2. CASE UNCHANGED vars
  BY <1>1, <1>2 DEF OpenInv, vars, Busy, Skipped
<1>3. ASSUME NEW h \in Handler,
             \A k \in Handler \ {h} : pc'[k] = pc[k] /\ open'[k] = open[k],
             pc[h] # "skipped",
             pc'[h] \in Inside => pc[h] \in Inside \/ StreamFree,
             \/ pc'[h] \in Inside \cup {"skipped"}
             \/ open'[h] = 0
             \/ open'[h] = open[h] /\ pc[h] \notin Inside
      PROVE  OpenInv'
  <2>1. \A k \in Handler : open'[k] > 0 => k \in (Busy \cup Skipped)'
    BY <1>1, <1>3 DEF OpenInv, TypeOK, Busy, Skipped
  <2>2. IsFiniteSet(Skipped')
    <3>1. Skipped' \subseteq Skipped \cup {h}
      BY <1>3 DEF Skipped
    <3>2. QED
      BY <3>1, FS_AddElement, FS_Subset DEF OpenInv
  <2>3. IsFiniteSet(Busy') /\ Cardinality(Busy') <= Streams
    <3>1. /\ IsFiniteSet(Busy) /\ Cardinality(Busy) <= Streams
          /\ Cardinality(Busy) \in Nat /\ Streams \in Nat
      BY FS_CardinalityType, StreamsAssumption DEF OpenInv
    <3>2. CASE Busy' \subseteq Busy
      <4>1. IsFiniteSet(Busy') /\ Cardinality(Busy') <= Cardinality(Busy)
        BY <3>1, <3>2, FS_Subset
      <4>2. Cardinality(Busy') \in Nat
        BY <4>1, FS_CardinalityType
      <4>3. QED
        BY <3>1, <4>1, <4>2
    <3>3. CASE ~(Busy' \subseteq Busy)
      <4>1. Busy' \subseteq Busy \cup {h} /\ StreamFree /\ h \notin Busy
        BY <1>3, <3>3 DEF Busy
      <4>2. Cardinality(Busy) < Streams
        BY <4>1 DEF StreamFree, Busy
      <4>3. IsFiniteSet(Busy \cup {h}) /\ Cardinality(Busy \cup {h}) = Cardinality(Busy) + 1
        BY <3>1, <4>1, FS_AddElement
      <4>4. IsFiniteSet(Busy') /\ Cardinality(Busy') <= Cardinality(Busy \cup {h})
        BY <4>1, <4>3, FS_Subset
      <4>5. Cardinality(Busy') \in Nat
        BY <4>4, FS_CardinalityType
      <4>6. QED
        BY <3>1, <4>2, <4>3, <4>4, <4>5
    <3>4. QED
      BY <3>2, <3>3
  <2>4. QED
    BY <1>1, <2>1, <2>2, <2>3 DEF OpenInv
<1>4. QED
  BY <1>1, <1>2, <1>3, OneMoves

\* Descriptors are lost only by handlers that skip: on any number of streams the
\* files that are open are at most four for each skip and for each stream.
THEOREM DescriptorsAlwaysBounded == Spec => []DescriptorsBounded
<1>1. OpenInv => DescriptorsBounded
  <2> SUFFICES ASSUME OpenInv PROVE DescriptorsBounded
    OBVIOUS
  <2> DEFINE files == {f \in Handler \X (1 .. 4) : f[2] <= open[f[1]]}
             owners == Busy \cup Skipped
  <2>1. /\ IsFiniteSet(Busy) /\ Cardinality(Busy) \in Nat
        /\ Cardinality(Busy) <= Streams /\ Streams \in Nat
        /\ IsFiniteSet(Skipped) /\ Cardinality(Skipped) \in Nat
    BY FS_CardinalityType, StreamsAssumption DEF OpenInv
  <2>2. IsFiniteSet(owners) /\ Cardinality(owners) <= Cardinality(Skipped) + Streams
    <3>1. /\ IsFiniteSet(owners)
          /\ Cardinality(owners) =
               Cardinality(Busy) + Cardinality(Skipped) - Cardinality(Busy \cap Skipped)
      BY <2>1, FS_Union
    <3>2. IsFiniteSet(Busy \cap Skipped)
      BY <2>1, FS_Intersection
    <3>3. Cardinality(Busy \cap Skipped) \in Nat
      BY <3>2, FS_CardinalityType
    <3>4. QED
      BY <2>1, <3>1, <3>3
  <2>3. files \subseteq owners \X (1 .. 4)
    BY DEF OpenInv, TypeOK
  <2>4. IsFiniteSet(1 .. 4) /\ Cardinality(1 .. 4) = 4
    <3>1. /\ IsFiniteSet(1 .. 4)
          /\ Cardinality(1 .. 4) = IF 1 > 4 THEN 0 ELSE 4 - 1 + 1
      BY FS_Interval, 1 \in Int, 4 \in Int
    <3>2. (IF 1 > 4 THEN 0 ELSE 4 - 1 + 1) = 4
      OBVIOUS
    <3>3. QED
      BY <3>1, <3>2
  <2>5. /\ IsFiniteSet(owners \X (1 .. 4))
        /\ Cardinality(owners \X (1 .. 4)) = Cardinality(owners) * 4
    BY <2>2, <2>4, FS_Product
  <2>6. IsFiniteSet(files) /\ Cardinality(files) <= Cardinality(owners \X (1 .. 4))
    BY <2>3, <2>5, FS_Subset
  <2>7. Cardinality(files) \in Nat /\ Cardinality(owners) \in Nat
    BY <2>2, <2>6, FS_CardinalityType
  <2>8. Cardinality(files) <= 4 * (Cardinality(Skipped) + Streams)
    BY <2>1, <2>2, <2>5, <2>6, <2>7
  <2>9. QED
    BY <2>8 DEF DescriptorsBounded, Skipped
<1>2. QED
  BY InitOpen, NextOpen, <1>1, PTL DEF Spec
=============================================================================
