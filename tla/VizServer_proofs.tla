--------------------------- MODULE VizServer_proofs ---------------------------
(***************************************************************************)
(* Theorems about VizServer for every number of ranks, requests and calls. *)
(***************************************************************************)
EXTENDS VizServer, FiniteSetTheorems, SequenceTheorems, TLAPS

\* What std::priority_queue::push leaves is a queue with an earliest element on
\* top, whatever order the requests arrive in.
LEMMA PushLemma ==
  ASSUME NEW Q \in Queue, WellFormed(Q), NEW q \in Req
  PROVE  /\ Push(Q, q) \in Queue
         /\ WellFormed(Push(Q, q))
         /\ q \in Push(Q, q).items
         /\ Push(Q, q).top \in Req
<1>1. Push(Q, q) \in Queue /\ q \in Push(Q, q).items
  BY DEF Push, Queue
<1>2. CASE Q.items = {}
  BY <1>1, <1>2, QueueAssumption DEF Push, Queue, WellFormed, Earliest, Compare
<1>3. CASE Q.items # {}
  <2>1. Q.top \in Q.items /\ \A p \in Q.items : Ts[p] \in Nat /\ ~(Ts[Q.top] > Ts[p])
    BY <1>3, QueueAssumption DEF Queue, WellFormed, Earliest, Compare
  <2>2. CASE Ts[Q.top] > Ts[q]
    BY <1>1, <1>3, <2>1, <2>2, QueueAssumption
    DEF Push, Queue, WellFormed, Earliest, Compare
  <2>3. CASE ~(Ts[Q.top] > Ts[q])
    BY <1>1, <1>3, <2>1, <2>3, QueueAssumption
    DEF Push, Queue, WellFormed, Earliest, Compare
  <2>4. QED
    BY <2>2, <2>3
<1>4. QED
  BY <1>2, <1>3

\* The same for std::priority_queue::pop.
LEMMA PopLemma ==
  ASSUME NEW Q \in Queue, NEW R \in Pops(Q)
  PROVE  R \in Queue /\ WellFormed(R)
BY DEF Pops, Queue, EmptyQueue, WellFormed, Earliest

\* The top of a queue that is not empty is a request.
LEMMA TopLemma ==
  ASSUME NEW Q \in Queue, WellFormed(Q), Q.items # {}
  PROVE  Q.top \in Q.items /\ Q.top \in Req
BY DEF Queue, WellFormed, Earliest

-----------------------------------------------------------------------------
(***************************************************************************)
(* Types.  top() of an empty queue would be undefined behaviour, so that   *)
(* the type of a collective's request rests on HoldsWork: whoever is       *)
(* inside a collective has a request in the queue.                         *)
(***************************************************************************)
HoldsWork == \A r \in Rank : running[r] # None => pq[r].items # {}

TypeInv == TypeOK /\ HoldsWork

LEMMA InitType == Init => TypeInv
BY ServerAssumption, QueueAssumption
DEF Init, TypeInv, TypeOK, HoldsWork, OpeState, PendState, Queue, EmptyQueue,
    WellFormed

\* A rank that enters one more collective has entered collectives.
LEMMA EnterType ==
  ASSUME calls \in [Rank -> Seq(Call)], NEW r \in Rank, NEW kind \in Kind,
         NEW q \in Req, NEW exec \in BOOLEAN, Enter(r, kind, q, exec)
  PROVE  calls' \in [Rank -> Seq(Call)]
<1>1. [kind |-> kind, req |-> q, exec |-> exec] \in Call
  BY DEF Call
<1>2. QED
  BY <1>1 DEF Enter

LEMMA NextType == TypeInv /\ [Next]_vars => TypeInv'
<1> SUFFICES ASSUME TypeInv, [Next]_vars PROVE TypeInv'
  OBVIOUS
<1> USE DEF TypeInv, TypeOK, HoldsWork
<1>1. ASSUME NEW r \in Rank, NEW q \in Req, SendRequest(r, q) PROVE TypeInv'
  BY <1>1 DEF SendRequest, OpeState
<1>2. ASSUME NEW r \in Rank, NEW p \in Pend, SendPending(r, p) PROVE TypeInv'
  BY <1>2 DEF SendPending, PendState
<1>3. ASSUME NEW r \in Rank, RemoveNode(r) PROVE TypeInv'
  BY <1>3 DEF RemoveNode
<1>4. ASSUME NEW r \in Rank, NEW q \in Req, Acknowledge(r, q) PROVE TypeInv'
  BY <1>4 DEF Acknowledge, OpeState
<1>5. ASSUME NEW r \in Rank, NEW q \in Req, PushRequest(r, q) PROVE TypeInv'
  <2> DEFINE Q == Push(pq[r], q)
  <2>1. /\ Q \in Queue
        /\ WellFormed(Q)
        /\ q \in Q.items
        /\ Q.top \in Req
    BY PushLemma
  <2>2. /\ pq' = [pq EXCEPT ![r] = Q]
        /\ ope' = [ope EXCEPT ![r][q] = "pushed"]
        /\ UNCHANGED <<mode, node, pend>>
    BY <1>5 DEF PushRequest
  <2>3. /\ pq' \in [Rank -> Queue]
        /\ pq'[r] = Q
        /\ \A s \in Rank : WellFormed(pq'[s])
        /\ \A s \in Rank : pq[s].items # {} => pq'[s].items # {}
    <3> HIDE DEF Q
    <3> QED  BY <2>1, <2>2
  <2>4. ope' \in [Rank -> [Req -> OpeState]]
    BY <2>2 DEF OpeState
  <2>5. /\ running' \in [Rank -> Req \cup Pend \cup {None}]
        /\ \A s \in Rank : running'[s] # None => running[s] # None \/ s = r
    BY <1>5 DEF PushRequest
  <2>6. calls' \in [Rank -> Seq(Call)]
    <3>1. CASE UNCHANGED calls
      BY <3>1
    <3>2. CASE Enter(r, "bcast", q, r = Root /\ PoolSize(r, q) < PoolLimit)
      BY <3>2, EnterType DEF Kind
    <3>3. CASE Enter(r, "allreduce", pq'[r].top, FALSE)
      BY <3>3, <2>1, <2>3, EnterType DEF Kind
    <3>4. QED
      BY <1>5, <3>1, <3>2, <3>3 DEF PushRequest
  <2>7. QED
    <3> HIDE DEF Q
    <3> QED  BY <2>1, <2>2, <2>3, <2>4, <2>5, <2>6
<1>6. ASSUME NEW r \in Rank, LeaveBcast(r) PROVE TypeInv'
  <2>1. pq[r].top \in Req
    BY <1>6, TopLemma DEF LeaveBcast, Inside
  <2>2. calls' \in [Rank -> Seq(Call)]
    BY <1>6, <2>1, EnterType DEF LeaveBcast, Kind
  <2>3. QED
    BY <1>6, <2>2 DEF LeaveBcast, Return
<1>7. ASSUME NEW r \in Rank, LeaveAllreduce(r) PROVE TypeInv'
  <2>1. pq[r].top \in Req
    BY <1>7, TopLemma DEF LeaveAllreduce, Inside
  <2>2. calls' \in [Rank -> Seq(Call)]
    BY <1>7, <2>1, EnterType DEF LeaveAllreduce, Kind
  <2>3. QED
    BY <1>7, <2>2 DEF LeaveAllreduce, Return
<1>8. ASSUME NEW r \in Rank, FinishViz(r) PROVE TypeInv'
  <2>1. PICK rest \in Pops(pq[r]) :
          /\ pq' = [pq EXCEPT ![r] = rest]
          /\ IF running[r] \in Pend /\ rest.items # {}
             THEN Enter(r, "allreduce", rest.top, FALSE) /\ UNCHANGED running
             ELSE Return(r) /\ UNCHANGED calls
    BY <1>8 DEF FinishViz
  <2>2. rest \in Queue /\ WellFormed(rest)
    BY PopLemma
  <2>3. CASE running[r] \in Pend /\ rest.items # {}
    <3>1. rest.top \in Req
      BY <2>2, <2>3, TopLemma
    <3>2. calls' \in [Rank -> Seq(Call)]
      BY <2>1, <2>3, <3>1, EnterType DEF Kind
    <3>3. QED
      BY <1>8, <2>1, <2>2, <2>3, <3>2 DEF FinishViz
  <2>4. CASE ~(running[r] \in Pend /\ rest.items # {})
    BY <1>8, <2>1, <2>2, <2>4 DEF FinishViz, Return
  <2>5. QED
    BY <2>3, <2>4
<1>9. ASSUME NEW r \in Rank, NEW p \in Pend, StartPending(r, p) PROVE TypeInv'
  <2>1. CASE Found(r) /\ pq[r].items # {}
    <3>1. pq[r].top \in Req
      BY <2>1, TopLemma
    <3>2. calls' \in [Rank -> Seq(Call)]
      BY <1>9, <2>1, <3>1, EnterType DEF StartPending, Kind
    <3>3. QED
      BY <1>9, <2>1, <3>2 DEF StartPending, PendState
  <2>2. CASE ~(Found(r) /\ pq[r].items # {})
    BY <1>9, <2>2 DEF StartPending, PendState
  <2>3. QED
    BY <2>1, <2>2
<1>10. CASE UNCHANGED vars
  BY <1>10 DEF vars
<1>11. QED
  BY <1>1, <1>2, <1>3, <1>4, <1>5, <1>6, <1>7, <1>8, <1>9, <1>10
  DEF Next, ClientStep, HandlerStep, Rest

\* Every queue of every rank keeps an earliest request on top, and top() is
\* never read from an empty queue.
THEOREM TypeCorrect == Spec => []TypeOK
<1>1. TypeInv => TypeOK
  BY DEF TypeInv
<1>2. QED
  BY InitType, NextType, <1>1, PTL DEF Spec

\* What one more collective leaves of the earlier ones.
LEMMA EnterSlots ==
  ASSUME calls \in [Rank -> Seq(Call)], NEW r \in Rank, NEW kind \in Kind,
         NEW q \in Req, NEW exec \in BOOLEAN, Enter(r, kind, q, exec)
  PROVE  /\ Len(calls[r]) \in Nat
         /\ Len(calls'[r]) = Len(calls[r]) + 1
         /\ calls'[r] # <<>>
         /\ calls'[r][Len(calls[r]) + 1] = [kind |-> kind, req |-> q, exec |-> exec]
         /\ \A i \in 1 .. Len(calls[r]) : calls'[r][i] = calls[r][i]
         /\ \A s \in Rank \ {r} : calls'[s] = calls[s]
         /\ kind = "viz" => VizSlots(r)' = VizSlots(r) \cup {Len(calls[r]) + 1}
         /\ kind # "viz" => VizSlots(r)' = VizSlots(r)
<1> DEFINE c == [kind |-> kind, req |-> q, exec |-> exec]
<1>1. c \in Call /\ calls[r] \in Seq(Call)
  BY DEF Call
<1>2. calls'[r] = Append(calls[r], c) /\ \A s \in Rank \ {r} : calls'[s] = calls[s]
  BY DEF Enter
<1>4. c.kind = kind
  OBVIOUS
<1> HIDE DEF c
<1>3. /\ Len(calls[r]) \in Nat
      /\ Len(calls'[r]) = Len(calls[r]) + 1
      /\ calls'[r] # <<>>
      /\ calls'[r][Len(calls[r]) + 1] = c
      /\ \A i \in 1 .. Len(calls[r]) : calls'[r][i] = calls[r][i]
  <2> DEFINE old == calls[r]
             new == calls'[r]
  <2>1. old \in Seq(Call) /\ new = Append(old, c)
    BY <1>1, <1>2
  <2> HIDE DEF old, new
  <2>2. /\ Len(old) \in Nat
        /\ Len(new) = Len(old) + 1
        /\ new[Len(old) + 1] = c
        /\ \A i \in 1 .. Len(old) : new[i] = old[i]
    BY <1>1, <2>1
  <2>3. new # <<>>
    BY <2>2
  <2>4. QED
    BY <2>2, <2>3 DEF old, new
<1>5. /\ kind = "viz" => VizSlots(r)' = VizSlots(r) \cup {Len(calls[r]) + 1}
      /\ kind # "viz" => VizSlots(r)' = VizSlots(r)
  BY <1>3, <1>4 DEF VizSlots
<1>6. QED
  BY <1>2, <1>3, <1>5 DEF c

LEMMA EnterCalls ==
  ASSUME calls \in [Rank -> Seq(Call)], NEW r \in Rank, NEW kind \in Kind,
         NEW q \in Req, NEW exec \in BOOLEAN, Enter(r, kind, q, exec)
  PROVE  /\ Len(calls[r]) \in Nat
         /\ Len(calls'[r]) = Len(calls[r]) + 1
         /\ calls'[r][Len(calls[r]) + 1].kind = kind
         /\ calls'[r][Len(calls[r]) + 1].req = q
         /\ \A i \in 1 .. Len(calls[r]) : calls'[r][i] = calls[r][i]
         /\ \A s \in Rank \ {r} : calls'[s] = calls[s]
<1> DEFINE c == [kind |-> kind, req |-> q, exec |-> exec]
<1>1. /\ Len(calls[r]) \in Nat
      /\ Len(calls'[r]) = Len(calls[r]) + 1
      /\ calls'[r][Len(calls[r]) + 1] = c
      /\ \A i \in 1 .. Len(calls[r]) : calls'[r][i] = calls[r][i]
      /\ \A s \in Rank \ {r} : calls'[s] = calls[s]
  BY EnterSlots, Zenon
<1>2. c.kind = kind /\ c.req = q
  OBVIOUS
<1> HIDE DEF c
<1>3. QED
  BY <1>1, <1>2

\* A collective that is entered leaves all earlier ones of all ranks.
LEMMA EnterPrefix ==
  ASSUME calls \in [Rank -> Seq(Call)], NEW r \in Rank, NEW kind \in Kind,
         NEW q \in Req, NEW exec \in BOOLEAN, Enter(r, kind, q, exec),
         NEW s \in Rank
  PROVE  /\ Len(calls[s]) \in Nat
         /\ Len(calls'[s]) \in Nat
         /\ Len(calls'[s]) >= Len(calls[s])
         /\ \A i \in 1 .. Len(calls[s]) : calls'[s][i] = calls[s][i]
         /\ calls[s] = <<>> <=> Len(calls[s]) = 0
         /\ \A i \in 1 .. Len(calls'[s]) :
              i \in 1 .. Len(calls[s]) \/ (s = r /\ i = Len(calls[r]) + 1)
<1>1. Len(calls[s]) \in Nat /\ (calls[s] = <<>> <=> Len(calls[s]) = 0)
  OBVIOUS
<1>2. CASE s = r
  BY <1>1, <1>2, EnterCalls
<1>3. CASE s # r
  <2>1. calls'[s] = calls[s]
    BY <1>3, EnterCalls
  <2>2. QED
    BY <1>1, <2>1
<1>4. QED
  BY <1>2, <1>3

\* The mode of a server never changes.
LEMMA SameMode == [Next]_vars => mode' = mode
<1>1. ASSUME NEW r \in Rank, HandlerStep(r) PROVE mode' = mode
  BY <1>1 DEF HandlerStep, Acknowledge, PushRequest, LeaveBcast, LeaveAllreduce,
              FinishViz, StartPending
<1>2. ASSUME NEW r \in Rank, ClientStep(r) \/ RemoveNode(r) PROVE mode' = mode
  BY <1>2 DEF ClientStep, SendRequest, SendPending, RemoveNode
<1>3. QED
  BY <1>1, <1>2 DEF Next, Rest, vars

\* No handler of ams_execute_pending_requests has begun to run the queue.
Unasked == \A r \in Rank, p \in Pend : pend[r][p] # "started"

\* A handler of a pending call that is inside a collective has begun.
PendRuns == \A r \in Rank : running[r] \in Pend => pend[r][running[r]] = "started"

LEMMA InitPendRuns == Init => PendRuns
BY ServerAssumption DEF Init, PendRuns

LEMMA NextPendRuns ==
  ASSUME TypeInv, PendRuns, [Next]_vars
  PROVE  PendRuns' /\ (Unasked' => Unasked)
<1> USE DEF TypeInv, TypeOK, PendRuns, Unasked
<1>1. CASE UNCHANGED <<pend, running>>
  BY <1>1
<1>2. ASSUME NEW r \in Rank, UNCHANGED pend,
             running'[r] = running[r] \/ running'[r] \notin Pend,
             \A s \in Rank \ {r} : running'[s] = running[s]
      PROVE  PendRuns' /\ (Unasked' => Unasked)
  <2>1. ASSUME NEW s \in Rank, running'[s] \in Pend
        PROVE  pend'[s][running'[s]] = "started"
    BY <1>2, <2>1
  <2>2. QED
    BY <1>2, <2>1
<1>3. ASSUME NEW r \in Rank, NEW q \in Req, PushRequest(r, q)
      PROVE  PendRuns' /\ (Unasked' => Unasked)
  <2>1. q \notin Pend
    BY ServerAssumption
  <2>2. QED
    BY <1>2, <1>3, <2>1 DEF PushRequest
<1>4. ASSUME NEW r \in Rank, LeaveBcast(r) \/ LeaveAllreduce(r) \/ FinishViz(r)
      PROVE  PendRuns' /\ (Unasked' => Unasked)
  <2>1. /\ UNCHANGED pend
        /\ running' = running \/ running' = [running EXCEPT ![r] = None]
    BY <1>4 DEF LeaveBcast, LeaveAllreduce, FinishViz, Return
  <2>2. QED
    BY <1>2, <2>1, ServerAssumption
<1>5. ASSUME NEW r \in Rank, NEW p \in Pend, StartPending(r, p)
      PROVE  PendRuns' /\ (Unasked' => Unasked)
  <2>1. CASE Found(r)
    <3>1. pend' = [pend EXCEPT ![r][p] = "started"]
      BY <1>5, <2>1 DEF StartPending
    <3>2. running' = running \/ running' = [running EXCEPT ![r] = p]
      BY <1>5 DEF StartPending
    <3>3. PendRuns'
      BY <3>1, <3>2
    <3>4. ~Unasked'
      BY <3>1
    <3>5. QED
      BY <3>3, <3>4
  <2>2. CASE ~Found(r)
    <3>1. UNCHANGED running /\ pend' = [pend EXCEPT ![r][p] = "failed"]
      BY <1>5, <2>2 DEF StartPending
    <3>2. pend[r][p] = "arrived"
      BY <1>5 DEF StartPending
    <3>3. PendRuns'
      BY <3>1, <3>2
    <3>4. Unasked' => Unasked
      BY <3>1, <3>2
    <3>5. QED
      BY <3>3, <3>4
  <2>3. QED
    BY <2>1, <2>2
<1>6. ASSUME NEW r \in Rank, NEW p \in Pend, SendPending(r, p)
      PROVE  PendRuns' /\ (Unasked' => Unasked)
  BY <1>6 DEF SendPending
<1>7. ASSUME NEW r \in Rank, NEW q \in Req, SendRequest(r, q) \/ Acknowledge(r, q)
      PROVE  PendRuns' /\ (Unasked' => Unasked)
  BY <1>1, <1>7 DEF SendRequest, Acknowledge
<1>8. CASE UNCHANGED vars \/ \E r \in Rank : RemoveNode(r)
  BY <1>1, <1>8 DEF RemoveNode, vars
<1>9. QED
  BY <1>3, <1>4, <1>5, <1>6, <1>7, <1>8 DEF Next, ClientStep, HandlerStep, Rest

-----------------------------------------------------------------------------
(***************************************************************************)
(* Collectives match, for every number of ranks, in two regimes: a LAZY    *)
(* server, where only ams_execute_pending_requests makes collectives; and  *)
(* a server in the other modes until the first handler of such a call runs *)
(* the queue, when the sum of task ids tells agreement from disagreement.  *)
(*                                                                         *)
(* The invariant is the protocol one rank follows: what the next           *)
(* collective is follows from the results of the last one, and a rank      *)
(* makes it, or returns, only when that one is complete.  The results are  *)
(* the same on all ranks, hence so is the next collective.                 *)
(***************************************************************************)

Regime == mode = "LAZY" \/ (Unasked /\ SumTestSound)

\* The kind of the first collective of a handler.
Opening == IF mode = "LAZYISH" THEN "bcast" ELSE "allreduce"

\* The i-th collective of rank r can return.
Done(r, i) ==
  IF calls[r][i].kind = "bcast"
  THEN Len(calls[Root]) >= i /\ calls[Root][i].kind = "bcast"
  ELSE Joined(i, calls[r][i].kind)

\* The kind of the collective rank r makes after its i-th.
Follow(r, i) ==
  CASE calls[r][i].kind = "bcast" ->
         IF calls[Root][i].exec THEN "allreduce" ELSE Opening
    [] calls[r][i].kind = "allreduce" ->
         IF mode = "LAZY" \/ Agreed(r, i) THEN "viz" ELSE Opening
    [] OTHER -> Opening

\* Rank r has made its collectives in the order of the protocol.
Protocol(r) ==
  /\ calls[r] # <<>> => calls[r][1].kind = Opening
  /\ \A i \in 1 .. Len(calls[r]) - 1 :
       Done(r, i) /\ calls[r][i + 1].kind = Follow(r, i)

\* Rank r is between two handlers: the next collective is an opening one.
Settled(r) ==
  calls[r] # <<>> =>
    Done(r, Len(calls[r])) /\ Follow(r, Len(calls[r])) = Opening

MatchInv ==
  /\ CollectivesMatch
  /\ \A r \in Rank : Protocol(r)
  /\ \A r \in Rank : Idle(r) => Settled(r)
  /\ mode = "LAZY" => \A r \in Rank : running[r] \in Pend \cup {None}

\* Two ranks draw the same conclusion from the same collective.
LEMMA SameFollow ==
  ASSUME mode = "LAZY" \/ SumTestSound, TypeInv, NEW r \in Rank, NEW s \in Rank,
         NEW n \in 1 .. Len(calls[r]), n \in 1 .. Len(calls[s]),
         calls[s][n].kind = calls[r][n].kind, Done(r, n)
  PROVE  Follow(s, n) = Follow(r, n)
<1> USE DEF TypeInv, TypeOK
<1>1. CASE calls[r][n].kind # "allreduce"
  BY <1>1 DEF Follow, Opening
<1>2. CASE calls[r][n].kind = "allreduce" /\ mode = "LAZY"
  BY <1>2 DEF Follow, Opening
<1>3. CASE calls[r][n].kind = "allreduce" /\ mode # "LAZY"
  <2>1. Joined(n, "allreduce")
    BY <1>3 DEF Done
  <2>2. Tops(n) \in [Rank -> Req]
    <3>1. \A t \in Rank : n \in 1 .. Len(calls[t])
      BY <2>1 DEF Joined
    <3>2. \A t \in Rank : calls[t][n] \in Call
      BY <3>1
    <3>3. QED
      BY <3>2 DEF Tops, Call
  <2>3. SumTestSound
    BY <1>3
  <2>4. Agreed(s, n) <=> Agreed(r, n)
    <3> DEFINE f == Tops(n)
    <3>1. SumTest(f, r) => TaskId[f[s]] = TaskId[f[r]]
      BY <2>2, <2>3 DEF SumTestSound
    <3>2. SumTest(f, s) => TaskId[f[r]] = TaskId[f[s]]
      BY <2>2, <2>3 DEF SumTestSound
    <3>3. SumTest(f, r) <=> SumTest(f, s)
      BY <3>1, <3>2 DEF SumTest
    <3>4. QED
      BY <3>3 DEF Agreed
  <2>5. QED
    BY <2>4 DEF Follow, Opening
<1>4. QED
  BY <1>1, <1>2, <1>3

\* What a rank concludes from a collective that is complete is not changed by
\* later ones.
LEMMA EnterDone ==
  ASSUME TypeInv, UNCHANGED mode, NEW r \in Rank,
         NEW kind \in Kind, NEW q \in Req, NEW exec \in BOOLEAN,
         Enter(r, kind, q, exec),
         NEW s \in Rank, NEW i \in 1 .. Len(calls[s]), Done(s, i)
  PROVE  Done(s, i)' /\ Follow(s, i)' = Follow(s, i)
<1> Opening' = Opening
  BY DEF Opening
<1>1. ASSUME NEW t \in Rank
      PROVE  /\ Len(calls[t]) \in Nat /\ Len(calls'[t]) \in Nat
             /\ Len(calls'[t]) >= Len(calls[t])
             /\ \A j \in 1 .. Len(calls[t]) : calls'[t][j] = calls[t][j]
  BY EnterPrefix DEF TypeInv, TypeOK
<1>2. Root \in Rank
  BY ServerAssumption DEF Root, Rank
<1>3. calls'[s][i] = calls[s][i] /\ i \in Nat \ {0}
  BY <1>1
<1>4. CASE calls[s][i].kind = "bcast"
  <2>1. Len(calls[Root]) >= i /\ calls[Root][i].kind = "bcast"
    BY <1>4 DEF Done
  <2>2. calls'[Root][i] = calls[Root][i] /\ Len(calls'[Root]) >= i
    BY <1>1, <1>2, <1>3, <2>1
  <2>3. QED
    BY <1>3, <1>4, <2>1, <2>2 DEF Done, Follow, Opening
<1>5. CASE calls[s][i].kind # "bcast"
  <2>1. Joined(i, calls[s][i].kind)
    BY <1>5 DEF Done
  <2>2. \A t \in Rank : calls'[t][i] = calls[t][i] /\ Len(calls'[t]) >= i
    BY <1>1, <1>3, <2>1 DEF Joined
  <2>3. Joined(i, calls[s][i].kind)'
    BY <1>3, <2>1, <2>2 DEF Joined
  <2>4. Tops(i)' = Tops(i)
    BY <2>2 DEF Tops
  <2>5. Agreed(s, i)' <=> Agreed(s, i)
    BY <2>4, Zenon DEF Agreed
  <2>6. QED
    BY <1>3, <1>5, <2>3, <2>5 DEF Done, Follow, Opening
<1>6. QED
  BY <1>4, <1>5

\* A settled rank stays so while others go on.
LEMMA EnterSettled ==
  ASSUME TypeInv, UNCHANGED mode, NEW r \in Rank,
         NEW kind \in Kind, NEW q \in Req, NEW exec \in BOOLEAN,
         Enter(r, kind, q, exec), NEW s \in Rank \ {r}, Settled(s)
  PROVE  Settled(s)'
<1> Opening' = Opening
  BY DEF Opening
<1>1. calls'[s] = calls[s] /\ Len(calls[s]) \in Nat
  BY EnterCalls DEF TypeInv, TypeOK
<1>2. CASE calls[s] = <<>>
  BY <1>1, <1>2 DEF Settled
<1>3. CASE calls[s] # <<>>
  <2>1. Len(calls[s]) \in 1 .. Len(calls[s])
    BY <1>1, <1>3, EnterPrefix DEF TypeInv, TypeOK
  <2>2. Done(s, Len(calls[s])) /\ Follow(s, Len(calls[s])) = Opening
    BY <1>3 DEF Settled
  <2>3. Done(s, Len(calls[s]))' /\ Follow(s, Len(calls[s]))' = Opening
    <3> DEFINE i == Len(calls[s])
    <3>1. i \in 1 .. Len(calls[s]) /\ Len(calls'[s]) = i
      BY <1>1, <2>1
    <3>2. ASSUME NEW j \in 1 .. Len(calls[s]), Done(s, j), Follow(s, j) = Opening
          PROVE  Done(s, j)' /\ Follow(s, j)' = Opening
      BY <3>2, EnterDone
    <3>3. QED
      BY <1>1, <2>1, <2>2, <3>2
  <2>4. QED
    BY <2>3 DEF Settled
<1>4. QED
  BY <1>2, <1>3

\* A rank that enters the kind of collective that those ahead of it have entered.
LEMMA EnterKind ==
  ASSUME TypeInv, CollectivesMatch, NEW r \in Rank,
         NEW kind \in Kind, NEW q \in Req, NEW exec \in BOOLEAN,
         Enter(r, kind, q, exec),
         \A s \in Rank \ {r} : Len(calls[s]) > Len(calls[r]) =>
           calls[s][Len(calls[r]) + 1].kind = kind
  PROVE  CollectivesMatch'
<1> SUFFICES ASSUME NEW s \in Rank, NEW t \in Rank,
                    NEW i \in 1 .. Len(calls'[s]), i <= Len(calls'[t])
             PROVE  calls'[s][i].kind = calls'[t][i].kind
  BY DEF CollectivesMatch
<1> DEFINE n == Len(calls[r])
<1>1. ASSUME NEW u \in Rank
      PROVE  /\ Len(calls[u]) \in Nat /\ Len(calls'[u]) \in Nat
             /\ \A j \in 1 .. Len(calls[u]) : calls'[u][j] = calls[u][j]
             /\ \A j \in 1 .. Len(calls'[u]) :
                  j \in 1 .. Len(calls[u]) \/ (u = r /\ j = n + 1)
  BY EnterPrefix DEF TypeInv, TypeOK
<1>2. calls'[r][n + 1].kind = kind /\ n \in Nat
  BY EnterCalls DEF TypeInv, TypeOK
<1>3. i \in 1 .. Len(calls'[t])
  BY <1>1
<1>4. CASE i \in 1 .. Len(calls[s]) /\ i \in 1 .. Len(calls[t])
  <2>1. i <= Len(calls[t])
    BY <1>1, <1>4
  <2>2. calls[s][i].kind = calls[t][i].kind
    BY <1>4, <2>1 DEF CollectivesMatch
  <2>3. calls'[s][i] = calls[s][i] /\ calls'[t][i] = calls[t][i]
    BY <1>1, <1>4
  <2>4. QED
    BY <2>2, <2>3
<1>5. CASE i \notin 1 .. Len(calls[s]) /\ t # r
  <2>1. s = r /\ i = n + 1 /\ i \in 1 .. Len(calls[t])
    BY <1>1, <1>3, <1>5
  <2>2. calls[t][i].kind = kind
    BY <1>2, <1>5, <2>1
  <2>3. QED
    BY <1>1, <1>2, <2>1, <2>2
<1>6. CASE i \notin 1 .. Len(calls[t]) /\ s # r
  <2>1. t = r /\ i = n + 1 /\ i \in 1 .. Len(calls[s])
    BY <1>1, <1>3, <1>6
  <2>2. calls[s][i].kind = kind
    BY <1>2, <1>6, <2>1
  <2>3. QED
    BY <1>1, <1>2, <2>1, <2>2
<1>7. CASE s = t
  BY <1>7
<1>8. QED
  BY <1>1, <1>3, <1>4, <1>5, <1>6, <1>7

\* A rank that enters the collective its last one calls for keeps the match.
LEMMA EnterMatch ==
  ASSUME Regime, TypeInv, MatchInv, UNCHANGED mode, NEW r \in Rank,
         NEW kind \in Kind, NEW q \in Req, NEW exec \in BOOLEAN,
         Enter(r, kind, q, exec),
         calls[r] = <<>> => kind = Opening,
         calls[r] # <<>> =>
           Done(r, Len(calls[r])) /\ kind = Follow(r, Len(calls[r]))
  PROVE  /\ CollectivesMatch'
         /\ \A s \in Rank : Protocol(s)'
         /\ \A s \in Rank \ {r} : Settled(s) => Settled(s)'
<1> DEFINE n == Len(calls[r])
<1> Opening' = Opening
  BY DEF Opening
<1>1. ASSUME NEW s \in Rank
      PROVE  /\ Len(calls[s]) \in Nat /\ Len(calls'[s]) \in Nat
             /\ \A i \in 1 .. Len(calls[s]) : calls'[s][i] = calls[s][i]
             /\ calls[s] = <<>> <=> Len(calls[s]) = 0
             /\ \A i \in 1 .. Len(calls'[s]) :
                  i \in 1 .. Len(calls[s]) \/ (s = r /\ i = n + 1)
  BY EnterPrefix DEF TypeInv, TypeOK
<1>2. /\ n \in Nat
      /\ Len(calls'[r]) = n + 1
      /\ calls'[r][n + 1].kind = kind
      /\ \A s \in Rank \ {r} : calls'[s] = calls[s]
  BY EnterCalls DEF TypeInv, TypeOK
<1>3. ASSUME NEW s \in Rank \ {r}, Len(calls[s]) > n
      PROVE  calls[s][n + 1].kind = kind
  <2>1. CASE n = 0
    <3>1. calls[s] # <<>> /\ Protocol(s)
      BY <1>1, <1>3, <2>1 DEF MatchInv
    <3>2. QED
      BY <1>1, <2>1, <3>1 DEF Protocol
  <2>2. CASE n # 0
    <3>1. n \in 1 .. Len(calls[s]) - 1 /\ n \in 1 .. Len(calls[s])
      BY <1>1, <1>2, <1>3, <2>2
    <3>2. Done(s, n) /\ calls[s][n + 1].kind = Follow(s, n)
      BY <3>1 DEF MatchInv, Protocol
    <3>3. calls[s][n].kind = calls[r][n].kind
      BY <1>2, <2>2, <3>1 DEF MatchInv, CollectivesMatch
    <3>4. Done(r, n) /\ kind = Follow(r, n)
      BY <1>1, <2>2
    <3>5. Follow(s, n) = Follow(r, n)
      BY <1>2, <2>2, <3>1, <3>3, <3>4, SameFollow DEF Regime
    <3>6. QED
      BY <3>2, <3>4, <3>5
  <2>3. QED
    BY <2>1, <2>2
<1>4. CollectivesMatch'
  BY <1>3, EnterKind DEF MatchInv
<1>5. ASSUME NEW s \in Rank PROVE Protocol(s)'
  <2>1. calls'[s] # <<>> => calls'[s][1].kind = Opening
    <3>1. CASE calls[s] # <<>>
      <4>1. 1 \in 1 .. Len(calls[s]) /\ calls[s][1].kind = Opening
        BY <1>1, <3>1 DEF MatchInv, Protocol
      <4>2. QED
        BY <1>1, <4>1
    <3>2. CASE calls[s] = <<>> /\ s = r
      BY <1>1, <1>2, <3>2
    <3>3. CASE calls[s] = <<>> /\ s # r
      BY <1>2, <3>3
    <3>4. QED
      BY <3>1, <3>2, <3>3
  <2>2. ASSUME NEW i \in 1 .. Len(calls'[s]) - 1
        PROVE  Done(s, i)' /\ calls'[s][i + 1].kind = Follow(s, i)'
    <3>1. CASE i \in 1 .. Len(calls[s]) - 1
      <4>1. Done(s, i) /\ calls[s][i + 1].kind = Follow(s, i)
        BY <3>1 DEF MatchInv, Protocol
      <4>2. i \in 1 .. Len(calls[s]) /\ i + 1 \in 1 .. Len(calls[s])
        BY <1>1, <3>1
      <4>3. Done(s, i)' /\ Follow(s, i)' = Follow(s, i)
        BY <4>1, <4>2, EnterDone
      <4>4. QED
        BY <1>1, <4>1, <4>2, <4>3
    <3>2. CASE i \notin 1 .. Len(calls[s]) - 1
      <4>1. s = r /\ i = n /\ n # 0 /\ i \in 1 .. Len(calls[s])
        BY <1>1, <1>2, <3>2
      <4>2. Done(s, i) /\ kind = Follow(s, i)
        BY <1>1, <4>1
      <4>3. Done(s, i)' /\ Follow(s, i)' = Follow(s, i)
        BY <4>1, <4>2, EnterDone
      <4>4. calls'[s][i + 1].kind = kind
        BY <1>2, <4>1
      <4>5. QED
        BY <4>2, <4>3, <4>4
    <3>3. QED
      BY <3>1, <3>2
  <2>3. QED
    BY <2>1, <2>2 DEF Protocol
<1>6. QED
  BY <1>4, <1>5, EnterSettled

\* A step that enters no collective leaves the protocol where it is.
LEMMA SameDone ==
  ASSUME UNCHANGED <<mode, calls>>, NEW s \in Rank
  PROVE  /\ Opening' = Opening
         /\ \A i : (Done(s, i)' <=> Done(s, i)) /\ Follow(s, i)' = Follow(s, i)
         /\ Settled(s)' <=> Settled(s)
<1>1. Opening' = Opening
  BY DEF Opening
<1>2. ASSUME NEW i PROVE (Done(s, i)' <=> Done(s, i)) /\ Follow(s, i)' = Follow(s, i)
  <2>1. Done(s, i)' <=> Done(s, i)
    BY DEF Done, Joined
  <2>2. Tops(i)' = Tops(i)
    BY DEF Tops
  <2>3. Agreed(s, i)' <=> Agreed(s, i)
    BY <2>2, Zenon DEF Agreed
  <2>4. QED
    BY <2>1, <2>3 DEF Follow, Opening
<1>3. Settled(s)' <=> Settled(s)
  <2>1. calls'[s] = calls[s] /\ Len(calls[s])' = Len(calls[s])
    OBVIOUS
  <2>2. Done(s, Len(calls[s]))' <=> Done(s, Len(calls[s]))
    BY DEF Done, Joined
  <2>3. Tops(Len(calls[s]))' = Tops(Len(calls[s]))
    BY DEF Tops
  <2>4. Agreed(s, Len(calls[s]))' <=> Agreed(s, Len(calls[s]))
    BY <2>3, Zenon DEF Agreed
  <2>5. Follow(s, Len(calls[s]))' = Follow(s, Len(calls[s]))
    BY <2>4 DEF Follow, Opening
  <2>6. QED
    BY <1>1, <2>1, <2>2, <2>5 DEF Settled
<1>4. QED
  BY <1>1, <1>2, <1>3

LEMMA SameCalls ==
  ASSUME MatchInv, UNCHANGED <<mode, calls>>
  PROVE  /\ CollectivesMatch'
         /\ \A s \in Rank : Protocol(s)'
         /\ \A s \in Rank : Settled(s)' <=> Settled(s)
<1>1. CollectivesMatch'
  BY DEF MatchInv, CollectivesMatch
<1>2. ASSUME NEW s \in Rank PROVE Protocol(s)'
  <2>1. /\ Opening' = Opening
        /\ \A i : (Done(s, i)' <=> Done(s, i)) /\ Follow(s, i)' = Follow(s, i)
    BY SameDone
  <2>2. QED
    BY <2>1 DEF MatchInv, Protocol
<1>3. \A s \in Rank : Settled(s)' <=> Settled(s)
  BY SameDone
<1>4. QED
  BY <1>1, <1>2, <1>3

LEMMA InitMatch == Init => MatchInv
BY DEF Init, MatchInv, CollectivesMatch, Protocol, Settled

\* A rank inside a collective has a handler running, and that handler is one of
\* ams_execute_pending_requests exactly when the server is LAZY.
LEMMA RunningHandler ==
  ASSUME Regime, PendRuns, MatchInv, NEW r \in Rank, running[r] # None
  PROVE  running[r] \in Pend <=> mode = "LAZY"
BY DEF Regime, Unasked, PendRuns, MatchInv

LEMMA NextMatch ==
  ASSUME Regime, Regime', PendRuns, TypeInv, MatchInv, [Next]_vars
  PROVE  MatchInv'
<1> USE DEF TypeInv, TypeOK
<1> UNCHANGED mode
  BY SameMode
<1>1. CASE UNCHANGED <<running, calls>>
  BY <1>1, SameCalls DEF MatchInv, Idle

\* A handler that enters a collective, and one that returns.
<1>2. ASSUME NEW r \in Rank, NEW kind \in Kind, NEW q \in Req,
             NEW exec \in BOOLEAN, Enter(r, kind, q, exec),
             calls[r] = <<>> => kind = Opening,
             calls[r] # <<>> =>
               Done(r, Len(calls[r])) /\ kind = Follow(r, Len(calls[r])),
             \A s \in Rank \ {r} : running'[s] = running[s],
             running'[r] # None,
             mode = "LAZY" => running'[r] \in Pend
      PROVE  MatchInv'
  <2>1. /\ CollectivesMatch'
        /\ \A s \in Rank : Protocol(s)'
        /\ \A s \in Rank \ {r} : Settled(s) => Settled(s)'
    BY <1>2, EnterMatch
  <2>2. ASSUME NEW s \in Rank, Idle(s)' PROVE Settled(s)'
    <3>1. s # r /\ Idle(s)
      BY <1>2, <2>2 DEF Idle
    <3>2. QED
      BY <2>1, <3>1 DEF MatchInv
  <2>3. mode = "LAZY" => \A s \in Rank : running'[s] \in Pend \cup {None}
    BY <1>2 DEF MatchInv
  <2>4. QED
    BY <2>1, <2>2, <2>3 DEF MatchInv
<1>3. ASSUME NEW r \in Rank, UNCHANGED calls, Return(r), calls[r] # <<>>,
             Done(r, Len(calls[r])), Follow(r, Len(calls[r])) = Opening
      PROVE  MatchInv'
  <2>1. Settled(r)
    BY <1>3 DEF Settled
  <2>2. running' = [running EXCEPT ![r] = None]
    BY <1>3 DEF Return
  <2>3. QED
    BY <1>3, <2>1, <2>2, SameCalls DEF MatchInv, Idle
<1>4. ASSUME NEW r \in Rank, NEW q \in Req, PushRequest(r, q) PROVE MatchInv'
  <2>1. CASE mode = "LAZY"
    BY <1>1, <1>4, <2>1 DEF PushRequest
  <2>2. CASE mode # "LAZY"
    <3>1. /\ running' = [running EXCEPT ![r] = q]
          /\ running'[r] # None
      BY <1>4, <2>2, QueueAssumption DEF PushRequest
    <3>2. Settled(r)
      BY <1>4 DEF PushRequest, MatchInv
    <3>3. CASE mode = "LAZYISH"
      <4>1. Enter(r, "bcast", q, r = Root /\ PoolSize(r, q) < PoolLimit)
        BY <1>4, <3>3 DEF PushRequest
      <4>2. QED
        BY <1>2, <3>1, <3>2, <3>3, <4>1 DEF Settled, Opening, Kind
    <3>4. CASE mode = "EAGER"
      <4>1. Enter(r, "allreduce", pq'[r].top, FALSE)
        BY <1>4, <3>4 DEF PushRequest
      <4>2. pq'[r] = Push(pq[r], q) /\ pq'[r].top \in Req
        BY <1>4, PushLemma DEF PushRequest
      <4>3. QED
        BY <1>2, <3>1, <3>2, <3>4, <4>1, <4>2 DEF Settled, Opening, Kind
    <3>5. QED
      BY <2>2, <3>3, <3>4, ServerAssumption
  <2>3. QED
    BY <2>1, <2>2
<1>5. ASSUME NEW r \in Rank, LeaveBcast(r) PROVE MatchInv'
  <2> DEFINE i == Len(calls[r])
  <2>1. /\ calls[r] # <<>>
        /\ running[r] # None
        /\ calls[r][i].kind = "bcast"
        /\ Done(r, i)
        /\ Follow(r, i) = IF calls[Root][i].exec THEN "allreduce" ELSE Opening
    BY <1>5 DEF LeaveBcast, Inside, Done, Follow
  <2>2. CASE calls[Root][i].exec
    <3>1. Enter(r, "allreduce", pq[r].top, FALSE) /\ UNCHANGED running
      BY <1>5, <2>2 DEF LeaveBcast
    <3>2. pq[r].top \in Req
      BY <2>1, TopLemma DEF HoldsWork
    <3>3. mode = "LAZY" => running'[r] \in Pend
      BY <2>1, <3>1, RunningHandler
    <3>4. QED
      BY <1>2, <2>1, <2>2, <3>1, <3>2, <3>3 DEF Kind
  <2>3. CASE ~calls[Root][i].exec
    <3>1. Return(r) /\ UNCHANGED calls
      BY <1>5, <2>3 DEF LeaveBcast
    <3>2. QED
      BY <1>3, <2>1, <2>3, <3>1
  <2>4. QED
    BY <2>2, <2>3
<1>6. ASSUME NEW r \in Rank, LeaveAllreduce(r) PROVE MatchInv'
  <2> DEFINE i == Len(calls[r])
  <2>1. /\ calls[r] # <<>>
        /\ running[r] # None
        /\ calls[r][i].kind = "allreduce"
        /\ Done(r, i)
        /\ Follow(r, i) =
             IF mode = "LAZY" \/ Agreed(r, i) THEN "viz" ELSE Opening
    BY <1>6 DEF LeaveAllreduce, Inside, Done, Follow
  <2>2. running[r] \in Pend <=> mode = "LAZY"
    BY <2>1, RunningHandler
  <2>3. CASE Agreed(r, i) \/ running[r] \in Pend
    <3>1. Enter(r, "viz", pq[r].top, FALSE) /\ UNCHANGED running
      BY <1>6, <2>3 DEF LeaveAllreduce
    <3>2. pq[r].top \in Req
      BY <2>1, TopLemma DEF HoldsWork
    <3>3. QED
      BY <1>2, <2>1, <2>2, <2>3, <3>1, <3>2 DEF Kind
  <2>4. CASE ~(Agreed(r, i) \/ running[r] \in Pend)
    <3>1. Return(r) /\ UNCHANGED calls
      BY <1>6, <2>4 DEF LeaveAllreduce
    <3>2. QED
      BY <1>3, <2>1, <2>2, <2>4, <3>1
  <2>5. QED
    BY <2>3, <2>4
<1>7. ASSUME NEW r \in Rank, FinishViz(r) PROVE MatchInv'
  <2> DEFINE i == Len(calls[r])
  <2>1. /\ calls[r] # <<>>
        /\ running[r] # None
        /\ Done(r, i)
        /\ Follow(r, i) = Opening
    BY <1>7 DEF FinishViz, Inside, Done, Follow
  <2>2. PICK rest \in Pops(pq[r]) :
          IF running[r] \in Pend /\ rest.items # {}
          THEN Enter(r, "allreduce", rest.top, FALSE) /\ UNCHANGED running
          ELSE Return(r) /\ UNCHANGED calls
    BY <1>7 DEF FinishViz
  <2>3. CASE running[r] \in Pend /\ rest.items # {}
    <3>1. rest.top \in Req
      BY <2>3, PopLemma, TopLemma
    <3>2. mode = "LAZY" /\ Opening = "allreduce"
      BY <2>1, <2>3, RunningHandler DEF Opening
    <3>3. QED
      BY <1>2, <2>1, <2>2, <2>3, <3>1, <3>2 DEF Kind
  <2>4. CASE ~(running[r] \in Pend /\ rest.items # {})
    BY <1>3, <2>1, <2>2, <2>4
  <2>5. QED
    BY <2>3, <2>4
<1>8. ASSUME NEW r \in Rank, NEW p \in Pend, StartPending(r, p) PROVE MatchInv'
  <2>1. CASE Found(r) /\ pq[r].items # {}
    <3>1. /\ running' = [running EXCEPT ![r] = p]
          /\ running'[r] = p
          /\ p # None
          /\ Enter(r, "allreduce", pq[r].top, FALSE)
          /\ Idle(r)
      BY <1>8, <2>1, ServerAssumption DEF StartPending
    <3>2. mode = "LAZY" /\ Opening = "allreduce"
      <4>1. ~Unasked'
        BY <1>8, <2>1 DEF StartPending, Unasked
      <4>2. QED
        BY <4>1 DEF Regime, Opening
    <3>3. Settled(r) /\ pq[r].top \in Req
      BY <2>1, <3>1, TopLemma DEF MatchInv
    <3>4. QED
      BY <1>2, <3>1, <3>2, <3>3 DEF Settled, Kind
  <2>2. CASE ~(Found(r) /\ pq[r].items # {})
    BY <1>1, <1>8, <2>2 DEF StartPending
  <2>3. QED
    BY <2>1, <2>2
<1>9. ASSUME NEW r \in Rank, ClientStep(r) \/ RemoveNode(r) PROVE MatchInv'
  BY <1>1, <1>9 DEF ClientStep, SendRequest, SendPending, RemoveNode
<1>10. ASSUME NEW r \in Rank, NEW q \in Req, Acknowledge(r, q) PROVE MatchInv'
  BY <1>1, <1>10 DEF Acknowledge
<1>11. CASE UNCHANGED vars
  BY <1>1, <1>11 DEF vars
<1>12. QED
  BY <1>4, <1>5, <1>6, <1>7, <1>8, <1>9, <1>10, <1>11
  DEF Next, HandlerStep, Rest

\* No rank ever waits in one collective for a peer that is in another: in either
\* regime the n-th collectives of any two ranks are of one kind.
THEOREM CollectivesAlwaysMatch == Spec => [](Regime => CollectivesMatch)
<1>1. MatchInv => CollectivesMatch
  BY DEF MatchInv
<1>2. TypeInv /\ PendRuns /\ [Next]_vars => PendRuns' /\ (Regime' => Regime)
  BY NextPendRuns, SameMode DEF Regime
<1>3. /\ TypeInv /\ PendRuns /\ (Regime => MatchInv)
      /\ [Next]_vars
      => (Regime => MatchInv)'
  BY <1>2, NextMatch
<1>4. QED
  BY InitType, NextType, InitPendRuns, InitMatch, <1>1, <1>2, <1>3, PTL DEF Spec

-----------------------------------------------------------------------------
(***************************************************************************)
(* The ranks visualize the same request, when the sum test tells apart not *)
(* only tasks but requests (one request per task) and no pending call has  *)
(* run the queue.  A rank inside a reduction or a visualization has the    *)
(* request it entered with on top of its queue still, since the call       *)
(* blocks the rank.                                                        *)
(***************************************************************************)
TopInv ==
  \A r \in Rank :
    Inside(r, "allreduce") => calls[r][Len(calls[r])].req = pq[r].top

LEMMA InitSame == Init => TopInv /\ SameRequest
BY DEF Init, TopInv, Inside, SameRequest, VizSlots

\* A rank that enters a collective other than a visualization, or one for the
\* request that all ranks reduced in the slot before.
LEMMA EnterSame ==
  ASSUME TypeInv, SameRequest, NEW r \in Rank, NEW kind \in Kind,
         NEW q \in Req, NEW exec \in BOOLEAN, Enter(r, kind, q, exec),
         kind = "viz" =>
           /\ calls[r] # <<>>
           /\ \A s \in Rank :
                /\ Len(calls[s]) >= Len(calls[r])
                /\ calls[s][Len(calls[r])].req = q
  PROVE  SameRequest'
<1> DEFINE n == Len(calls[r])
<1>1. calls'[r][n + 1].kind = kind /\ calls'[r][n + 1].req = q
  BY EnterCalls DEF TypeInv, TypeOK
<1>2. n \in Nat /\ (calls[r] = <<>> <=> n = 0)
  BY EnterPrefix DEF TypeInv, TypeOK
<1>3. ASSUME NEW s \in Rank
      PROVE  /\ Len(calls[s]) \in Nat
             /\ Len(calls'[s]) \in Nat
             /\ Len(calls'[s]) >= Len(calls[s])
             /\ \A i \in 1 .. Len(calls[s]) : calls'[s][i] = calls[s][i]
             /\ \A i \in 1 .. Len(calls'[s]) :
                  i \in 1 .. Len(calls[s]) \/ (s = r /\ i = n + 1)
  BY EnterPrefix DEF TypeInv, TypeOK
<1>4. SUFFICES ASSUME NEW t \in Rank, NEW i \in 1 .. Len(calls'[t]),
                      calls'[t][i].kind = "viz"
               PROVE  /\ i > 1
                      /\ \A s \in Rank :
                           /\ Len(calls'[s]) >= i - 1
                           /\ calls'[s][i - 1].req = calls'[t][i].req
  BY DEF SameRequest, VizSlots
<1>5. CASE i \in 1 .. Len(calls[t])
  <2>1. i \in VizSlots(t) /\ calls'[t][i] = calls[t][i]
    BY <1>3, <1>4, <1>5 DEF VizSlots
  <2>2. /\ i > 1
        /\ \A s \in Rank : /\ Len(calls[s]) >= i - 1
                           /\ calls[s][i - 1].req = calls[t][i].req
    BY <2>1 DEF SameRequest
  <2>3. ASSUME NEW s \in Rank
        PROVE  Len(calls'[s]) >= i - 1 /\ calls'[s][i - 1] = calls[s][i - 1]
    <3>1. i - 1 \in 1 .. Len(calls[s])
      BY <1>3, <2>2
    <3>2. QED
      BY <1>3, <3>1
  <2>4. QED
    BY <2>1, <2>2, <2>3
<1>6. CASE i \notin 1 .. Len(calls[t])
  <2>1. t = r /\ i = n + 1
    BY <1>3, <1>6
  <2>2. kind = "viz" /\ n # 0
    BY <1>1, <1>2, <1>4, <2>1
  <2>3. ASSUME NEW s \in Rank
        PROVE  Len(calls'[s]) >= i - 1 /\ calls'[s][i - 1].req = q
    <3>1. n \in 1 .. Len(calls[s]) /\ calls[s][n].req = q
      BY <1>2, <1>3, <2>2
    <3>2. QED
      BY <1>3, <2>1, <3>1
  <2>4. QED
    BY <1>1, <1>2, <2>1, <2>2, <2>3
<1>7. QED
  BY <1>5, <1>6

\* The handlers that go on to a visualization have the same request on all ranks.
Unanimous ==
  \A r \in Rank :
    LET i == Len(calls[r])
    IN  /\ Inside(r, "allreduce") /\ Joined(i, "allreduce")
        /\ Agreed(r, i) \/ running[r] \in Pend
        => \A s \in Rank : calls[s][i].req = calls[r][i].req

\* The reductions of a slot all ranks have reached are over requests.
LEMMA TopsType ==
  ASSUME TypeInv, NEW i \in Nat \ {0}, Joined(i, "allreduce")
  PROVE  Tops(i) \in [Rank -> Req]
<1>1. ASSUME NEW s \in Rank PROVE calls[s][i] \in Call
  <2>1. calls[s] \in Seq(Call) /\ Len(calls[s]) >= i
    BY DEF Joined, TypeInv, TypeOK
  <2>2. QED
    BY <2>1
<1>2. QED
  BY <1>1 DEF Tops, Call

\* Handlers of requests have compared the requests.
LEMMA AgreedSame ==
  ASSUME SumTestExact, TypeInv, NEW r \in Rank, Inside(r, "allreduce"),
         Joined(Len(calls[r]), "allreduce"), Agreed(r, Len(calls[r]))
  PROVE  \A s \in Rank : calls[s][Len(calls[r])].req = calls[r][Len(calls[r])].req
<1> DEFINE i == Len(calls[r])
<1>1. i \in Nat \ {0}
  BY DEF Inside, TypeInv, TypeOK
<1>2. Tops(i) \in [Rank -> Req]
  BY <1>1, TopsType
<1>3. \A s \in Rank : Tops(i)[s] = Tops(i)[r]
  BY <1>2 DEF SumTestExact, Agreed
<1>4. QED
  BY <1>3 DEF Tops

LEMMA UnaskedSame ==
  ASSUME SumTestExact, TypeInv, PendRuns, Unasked
  PROVE  Unanimous
BY AgreedSame DEF Unanimous, PendRuns, Unasked

LEMMA NextSame ==
  ASSUME Unanimous, TypeInv, TopInv, SameRequest, [Next]_vars
  PROVE  TopInv' /\ SameRequest'
<1> USE DEF TypeInv, TypeOK
<1>1. CASE UNCHANGED <<running, calls, pq>>
  BY <1>1 DEF TopInv, Inside, SameRequest, VizSlots

\* A handler that enters a collective: a reduction is for the request on top.
<1>2. ASSUME NEW r \in Rank, NEW kind \in Kind, NEW q \in Req,
             NEW exec \in BOOLEAN, Enter(r, kind, q, exec),
             kind = "allreduce" => q = pq'[r].top,
             \A s \in Rank \ {r} : running'[s] = running[s] /\ pq'[s] = pq[s]
      PROVE  TopInv'
  <2> DEFINE c == [kind |-> kind, req |-> q, exec |-> exec]
  <2>1. calls' = [calls EXCEPT ![r] = Append(@, c)] /\ c \in Call
        /\ c.kind = kind /\ c.req = q
    BY <1>2 DEF Enter, Call
  <2>2. /\ calls'[r][Len(calls'[r])] = c
        /\ \A s \in Rank \ {r} : calls'[s] = calls[s]
    <3> HIDE DEF c
    <3> QED  BY <2>1
  <2> HIDE DEF c
  <2>3. ASSUME NEW s \in Rank, Inside(s, "allreduce")'
        PROVE  (calls[s][Len(calls[s])].req)' = (pq[s].top)'
    <3>1. CASE s = r
      BY <1>2, <2>1, <2>2, <2>3, <3>1 DEF Inside
    <3>2. CASE s # r
      BY <1>2, <2>2, <2>3, <3>2 DEF Inside, TopInv
    <3>3. QED
      BY <3>1, <3>2
  <2>4. QED
    BY <2>3 DEF TopInv
<1>3. ASSUME NEW r \in Rank, UNCHANGED calls,
             \A s \in Rank \ {r} : running'[s] = running[s] /\ pq'[s] = pq[s],
             running'[r] = None
      PROVE  TopInv' /\ SameRequest'
  <2>1. SameRequest'
    BY <1>3 DEF SameRequest, VizSlots
  <2>2. ASSUME NEW s \in Rank, Inside(s, "allreduce")'
        PROVE  calls'[s][Len(calls'[s])].req = pq'[s].top
    <3>1. s # r
      BY <1>3, <2>2 DEF Inside
    <3>2. Inside(s, "allreduce") /\ pq'[s] = pq[s]
      BY <1>3, <2>2, <3>1 DEF Inside
    <3>3. QED
      BY <1>3, <3>2 DEF TopInv
  <2>3. QED
    BY <2>1, <2>2 DEF TopInv
<1>4. ASSUME NEW r \in Rank, NEW q \in Req, PushRequest(r, q)
      PROVE  TopInv' /\ SameRequest'
  <2>1. CASE mode = "LAZY"
    BY <1>3, <1>4, <2>1 DEF PushRequest, Idle
  <2>2. CASE mode = "LAZYISH"
    <3>1. Enter(r, "bcast", q, r = Root /\ PoolSize(r, q) < PoolLimit)
      BY <1>4, <2>2 DEF PushRequest
    <3>2. \A s \in Rank \ {r} : running'[s] = running[s] /\ pq'[s] = pq[s]
      BY <1>4, <2>2 DEF PushRequest
    <3>3. QED
      BY <1>2, <3>1, <3>2, EnterSame DEF Kind
  <2>3. CASE mode = "EAGER"
    <3>1. Enter(r, "allreduce", pq'[r].top, FALSE)
      BY <1>4, <2>3 DEF PushRequest
    <3>2. pq'[r] = Push(pq[r], q) /\ pq'[r].top \in Req
      BY <1>4, PushLemma DEF PushRequest
    <3>3. \A s \in Rank \ {r} : running'[s] = running[s] /\ pq'[s] = pq[s]
      BY <1>4, <2>3 DEF PushRequest
    <3>4. QED
      BY <1>2, <3>1, <3>2, <3>3, EnterSame DEF Kind
  <2>4. QED
    BY <2>1, <2>2, <2>3, ServerAssumption
<1>5. ASSUME NEW r \in Rank, LeaveBcast(r) PROVE TopInv' /\ SameRequest'
  <2>1. CASE Enter(r, "allreduce", pq[r].top, FALSE) /\ UNCHANGED <<running, pq>>
    <3>1. pq[r].top \in Req
      BY <1>5, TopLemma DEF LeaveBcast, Inside, HoldsWork
    <3>2. QED
      BY <1>2, <2>1, <3>1, EnterSame DEF Kind
  <2>2. CASE Return(r) /\ UNCHANGED <<calls, pq>>
    BY <1>3, <2>2 DEF Return
  <2>3. QED
    BY <1>5, <2>1, <2>2 DEF LeaveBcast
<1>6. ASSUME NEW r \in Rank, LeaveAllreduce(r) PROVE TopInv' /\ SameRequest'
  <2> DEFINE i == Len(calls[r])
  <2>1. CASE /\ Agreed(r, i) \/ running[r] \in Pend
             /\ Enter(r, "viz", pq[r].top, FALSE)
             /\ UNCHANGED <<running, pq>>
    <3>1. pq[r].top \in Req
      BY <1>6, TopLemma DEF LeaveAllreduce, Inside, HoldsWork
    <3>2. /\ Inside(r, "allreduce")
          /\ Joined(i, "allreduce")
          /\ calls[r] # <<>>
          /\ calls[r][i].req = pq[r].top
      BY <1>6 DEF LeaveAllreduce, TopInv, Inside
    <3>3. \A s \in Rank : Len(calls[s]) >= i
      BY <3>2 DEF Joined
    <3>4. \A s \in Rank : calls[s][i].req = pq[r].top
      BY <2>1, <3>2 DEF Unanimous
    <3>5. QED
      BY <1>2, <2>1, <3>1, <3>2, <3>3, <3>4, EnterSame DEF Kind
  <2>2. CASE Return(r) /\ UNCHANGED <<calls, pq>>
    BY <1>3, <2>2 DEF Return
  <2>3. QED
    BY <1>6, <2>1, <2>2 DEF LeaveAllreduce
<1>7. ASSUME NEW r \in Rank, FinishViz(r) PROVE TopInv' /\ SameRequest'
  <2>1. PICK rest \in Pops(pq[r]) :
          /\ pq' = [pq EXCEPT ![r] = rest]
          /\ IF running[r] \in Pend /\ rest.items # {}
             THEN Enter(r, "allreduce", rest.top, FALSE) /\ UNCHANGED running
             ELSE Return(r) /\ UNCHANGED calls
    BY <1>7 DEF FinishViz
  <2>2. CASE running[r] \in Pend /\ rest.items # {}
    <3>1. rest.top \in Req /\ pq'[r].top = rest.top
      BY <2>1, <2>2, PopLemma, TopLemma
    <3>2. /\ Enter(r, "allreduce", rest.top, FALSE)
          /\ \A s \in Rank \ {r} : running'[s] = running[s] /\ pq'[s] = pq[s]
      BY <2>1, <2>2
    <3>3. QED
      BY <1>2, <3>1, <3>2, EnterSame DEF Kind
  <2>3. CASE ~(running[r] \in Pend /\ rest.items # {})
    BY <1>3, <2>1, <2>3 DEF Return
  <2>4. QED
    BY <2>2, <2>3
<1>8. ASSUME NEW r \in Rank, ClientStep(r) \/ RemoveNode(r)
      PROVE  TopInv' /\ SameRequest'
  BY <1>1, <1>8 DEF ClientStep, SendRequest, SendPending, RemoveNode
<1>9. ASSUME NEW r \in Rank, NEW q \in Req, Acknowledge(r, q)
      PROVE  TopInv' /\ SameRequest'
  BY <1>1, <1>9 DEF Acknowledge
<1>10. ASSUME NEW r \in Rank, NEW p \in Pend, StartPending(r, p)
       PROVE  TopInv' /\ SameRequest'
  <2>1. CASE Found(r) /\ pq[r].items # {}
    <3>1. pq[r].top \in Req
      BY <2>1, TopLemma
    <3>2. /\ Enter(r, "allreduce", pq[r].top, FALSE)
          /\ \A s \in Rank \ {r} : running'[s] = running[s]
          /\ UNCHANGED pq
      BY <1>10, <2>1 DEF StartPending
    <3>3. QED
      BY <1>2, <3>1, <3>2, EnterSame DEF Kind
  <2>2. CASE ~(Found(r) /\ pq[r].items # {})
    BY <1>1, <1>10, <2>2 DEF StartPending
  <2>3. QED
    BY <2>1, <2>2
<1>11. CASE UNCHANGED vars
  BY <1>1, <1>11 DEF vars
<1>12. QED
  BY <1>4, <1>5, <1>6, <1>7, <1>8, <1>9, <1>10, <1>11 DEF Next, HandlerStep, Rest

\* "Checking if all my peers are working on the same request": until a pending
\* call runs the queue, a rank visualizes only the request that all ranks had on
\* top when they compared their task ids, provided that the comparison is exact.
THEOREM AlwaysSameRequest ==
  SumTestExact /\ Spec => [](Unasked => SameRequest)
<1>1. TypeInv /\ PendRuns /\ [Next]_vars => PendRuns' /\ (Unasked' => Unasked)
  BY NextPendRuns
<1>2. /\ SumTestExact /\ TypeInv /\ PendRuns
      /\ Unasked => TopInv /\ SameRequest
      /\ [Next]_vars
      => (Unasked => TopInv /\ SameRequest)'
  BY <1>1, UnaskedSame, NextSame
<1>3. SumTestExact => []SumTestExact
  BY DEF SumTestExact
<1>4. QED
  BY InitType, NextType, InitPendRuns, InitSame, <1>1, <1>2, <1>3, PTL DEF Spec

-----------------------------------------------------------------------------
(***************************************************************************)
(* No request is lost or run twice, for any modes, pending calls at any    *)
(* time and nodes removed at any time.  The invariant concerns one rank:   *)
(* what is under way on it is the request on top of its queue (OnTop),     *)
(* since the queue does not change while a handler is inside a collective. *)
(***************************************************************************)
OnTop(r) ==
  running[r] # None =>
    /\ calls[r] # <<>>
    /\ LET last == calls[r][Len(calls[r])]
       IN  last.kind = "viz" => last.req = pq[r].top

\* Where request q of rank r is: in the queue or popped, once it was pushed.
Placed(r, q) ==
  IF ope[r][q] = "pushed"
  THEN (q \in pq[r].items) # (q \in Popped(r))
  ELSE q \notin pq[r].items \cup Started(r)

\* No two visualizations of rank r are of one request.
RanOnce(r) ==
  \A i, j \in VizSlots(r) : calls[r][i].req = calls[r][j].req => i = j

AccountedAt(r) == OnTop(r) /\ (\A q \in Req : Placed(r, q)) /\ RanOnce(r)

AccountInv == \A r \in Rank : AccountedAt(r)

LEMMA InitAccount == Init => AccountInv
BY DEF Init, AccountInv, AccountedAt, OnTop, Placed, RanOnce, Popped, Started,
       VizSlots, EmptyQueue

\* A collective that is no visualization leaves the visualizations alone.
LEMMA EnterOther ==
  ASSUME calls \in [Rank -> Seq(Call)], NEW r \in Rank, NEW kind \in Kind \ {"viz"},
         NEW q \in Req, NEW exec \in BOOLEAN, Enter(r, kind, q, exec)
  PROVE  /\ Len(calls'[r]) = Len(calls[r]) + 1
         /\ \A i \in 1 .. Len(calls[r]) : calls'[r][i] = calls[r][i]
         /\ VizSlots(r)' = VizSlots(r)
<1>1. kind \in Kind /\ kind # "viz"
  OBVIOUS
<1>2. /\ Len(calls'[r]) = Len(calls[r]) + 1
      /\ \A i \in 1 .. Len(calls[r]) : calls'[r][i] = calls[r][i]
      /\ kind # "viz" => VizSlots(r)' = VizSlots(r)
  BY <1>1, EnterSlots
<1>3. QED
  BY <1>1, <1>2

\* A handler in a collective that is no visualization.
LEMMA EnterOnTop ==
  ASSUME TypeOK, NEW r \in Rank, NEW kind \in Kind \ {"viz"}, NEW q \in Req,
         NEW exec \in BOOLEAN, Enter(r, kind, q, exec)
  PROVE  OnTop(r)'
<1>1. /\ Len(calls'[r]) = Len(calls[r]) + 1
      /\ calls'[r] # <<>>
      /\ calls'[r][Len(calls[r]) + 1] = [kind |-> kind, req |-> q, exec |-> exec]
  BY EnterSlots DEF TypeOK
<1>2. calls'[r][Len(calls'[r])].kind = kind
  BY <1>1
<1>3. QED
  BY <1>1, <1>2 DEF OnTop

\* A rank on which nothing of this changes.
LEMMA SameAccount ==
  ASSUME NEW r \in Rank, AccountedAt(r),
         ope'[r] = ope[r], pq'[r] = pq[r], running'[r] = running[r],
         calls'[r] = calls[r]
  PROVE  AccountedAt(r)'
BY DEF AccountedAt, OnTop, Placed, RanOnce, Popped, Started, VizSlots, Idle

\* A rank that enters a collective which is no visualization, or returns from one,
\* has run what it had run before.
LEMMA SamePopped ==
  ASSUME TypeOK, NEW r \in Rank, AccountedAt(r),
         Idle(r) \/ calls[r][Len(calls[r])].kind # "viz",
         \/ /\ Idle(r)'
            /\ calls' = calls
         \/ /\ ~Idle(r)'
            /\ \E kind \in Kind \ {"viz"}, q \in Req, exec \in BOOLEAN :
                 Enter(r, kind, q, exec)
  PROVE  /\ Popped(r)' = Started(r)
         /\ Popped(r) = Started(r)
         /\ Started(r)' = Started(r)
         /\ RanOnce(r)'
<1>1. calls \in [Rank -> Seq(Call)] /\ Len(calls[r]) \in Nat
  BY DEF TypeOK
<1>2. Popped(r) = Started(r)
  BY <1>1 DEF Popped, Started, VizSlots, AccountedAt, OnTop, Idle
<1>3. CASE Idle(r)' /\ calls' = calls
  BY <1>2, <1>3 DEF Popped, Started, VizSlots, AccountedAt, RanOnce, Idle
<1>4. ASSUME ~Idle(r)', NEW kind \in Kind \ {"viz"}, NEW q \in Req,
             NEW exec \in BOOLEAN, Enter(r, kind, q, exec)
      PROVE  Popped(r)' = Started(r) /\ Started(r)' = Started(r) /\ RanOnce(r)'
  <2>1. /\ VizSlots(r)' = VizSlots(r)
        /\ Len(calls'[r]) = Len(calls[r]) + 1
        /\ \A i \in VizSlots(r) : calls'[r][i] = calls[r][i] /\ i < Len(calls'[r])
    <3>1. /\ Len(calls'[r]) = Len(calls[r]) + 1
          /\ \A i \in 1 .. Len(calls[r]) : calls'[r][i] = calls[r][i]
          /\ VizSlots(r)' = VizSlots(r)
      BY <1>1, <1>4, EnterOther
    <3>2. VizSlots(r) \subseteq 1 .. Len(calls[r])
      BY DEF VizSlots
    <3>3. \A i \in 1 .. Len(calls[r]) : i < Len(calls'[r])
      BY <1>1, <3>1
    <3>4. QED
      BY <3>1, <3>2, <3>3
  <2>2. QED
    BY <1>4, <2>1 DEF Popped, Started, AccountedAt, RanOnce
<1>5. QED
  BY <1>2, <1>3, <1>4

LEMMA NextAccount ==
  ASSUME TypeInv, AccountInv, [Next]_vars
  PROVE  AccountInv'
<1>1. TypeOK /\ \A r \in Rank : pq[r] \in Queue /\ WellFormed(pq[r])
  BY DEF TypeInv, TypeOK
<1>2. TypeInv'
  BY NextType
<1> USE DEF AccountInv
<1>3. ASSUME NEW r \in Rank, NEW q \in Req,
             SendRequest(r, q) \/ Acknowledge(r, q)
      PROVE  AccountInv'
  <2>1. /\ UNCHANGED <<pq, running, calls>>
        /\ \A s \in Rank \ {r} : ope'[s] = ope[s]
        /\ \A p \in Req : ope'[r][p] = ope[r][p]
             \/ (p = q /\ ope[r][p] # "pushed" /\ ope'[r][p] # "pushed")
    BY <1>1, <1>3 DEF SendRequest, Acknowledge, TypeOK
  <2>2. AccountedAt(r)'
    BY <2>1 DEF AccountedAt, OnTop, Placed, RanOnce, Popped, Started, VizSlots, Idle
  <2>3. QED
    BY <2>1, <2>2, SameAccount
<1>4. ASSUME NEW r \in Rank, NEW p \in Pend, SendPending(r, p)
      PROVE  AccountInv'
  BY <1>4, SameAccount DEF SendPending
<1>5. ASSUME NEW r \in Rank, RemoveNode(r) PROVE AccountInv'
  BY <1>5, SameAccount DEF RemoveNode
<1>6. ASSUME NEW r \in Rank, NEW q \in Req, PushRequest(r, q) PROVE AccountInv'
  <2>1. /\ Idle(r)
        /\ ope[r][q] = "responding"
        /\ ope' = [ope EXCEPT ![r][q] = "pushed"]
        /\ pq' = [pq EXCEPT ![r] = Push(@, q)]
    BY <1>6 DEF PushRequest
  <2>2. /\ pq'[r].items = pq[r].items \cup {q}
        /\ pq'[r].top \in Req
        /\ \A s \in Rank \ {r} : pq'[s] = pq[s] /\ ope'[s] = ope[s]
        /\ ope'[r][q] = "pushed"
        /\ \A p \in Req \ {q} : ope'[r][p] = ope[r][p]
    BY <1>1, <2>1, PushLemma DEF TypeOK, Push
  <2>3. /\ \A s \in Rank \ {r} : running'[s] = running[s] /\ calls'[s] = calls[s]
        /\ \/ Idle(r)' /\ calls' = calls
           \/ ~Idle(r)' /\ \E kind \in Kind \ {"viz"}, p \in Req, exec \in BOOLEAN :
                             Enter(r, kind, p, exec)
    <3>1. CASE mode = "LAZY" /\ UNCHANGED <<running, calls>>
      BY <2>1, <3>1 DEF Idle
    <3>2. CASE /\ running' = [running EXCEPT ![r] = q]
               /\ Enter(r, "bcast", q, r = Root /\ PoolSize(r, q) < PoolLimit)
      <4> DEFINE exec == r = Root /\ PoolSize(r, q) < PoolLimit
      <4>1. exec \in BOOLEAN /\ "bcast" \in Kind \ {"viz"}
        BY DEF Kind
      <4>2. Enter(r, "bcast", q, exec)
        BY <3>2
      <4> HIDE DEF exec
      <4>3. ~Idle(r)' /\ \A s \in Rank \ {r} : running'[s] = running[s]
        BY <1>1, <3>2, QueueAssumption DEF TypeOK, Idle
      <4>4. \A s \in Rank \ {r} : calls'[s] = calls[s]
        BY <1>1, <4>2 DEF TypeOK, Enter
      <4>5. QED
        BY <4>1, <4>2, <4>3, <4>4
    <3>3. CASE /\ running' = [running EXCEPT ![r] = q]
               /\ Enter(r, "allreduce", pq'[r].top, FALSE)
      BY <1>1, <2>2, <3>3, QueueAssumption DEF TypeOK, Idle, Kind, Enter
    <3>4. QED
      BY <1>6, <3>1, <3>2, <3>3 DEF PushRequest
  <2>4. /\ Popped(r)' = Started(r)
        /\ Popped(r) = Started(r)
        /\ Started(r)' = Started(r)
        /\ RanOnce(r)'
    BY <1>1, <2>1, <2>3, SamePopped
  <2>5. OnTop(r)'
    <3>1. CASE Idle(r)'
      BY <3>1 DEF OnTop, Idle
    <3>2. ASSUME NEW kind \in Kind \ {"viz"}, NEW p \in Req, NEW exec \in BOOLEAN,
                 Enter(r, kind, p, exec)
          PROVE  OnTop(r)'
      BY <1>1, <3>2, EnterOnTop
    <3>3. QED
      BY <2>3, <3>1, <3>2
  <2>6. \A p \in Req : Placed(r, p)'
    BY <2>1, <2>2, <2>4 DEF Placed, AccountedAt
  <2>7. QED
    BY <2>2, <2>3, <2>4, <2>5, <2>6, SameAccount DEF AccountedAt
<1>7. ASSUME NEW r \in Rank, LeaveBcast(r) \/ (LeaveAllreduce(r) /\ Idle(r)')
      PROVE  AccountInv'
  <2>1. /\ UNCHANGED <<ope, pq>>
        /\ \A s \in Rank \ {r} : running'[s] = running[s] /\ calls'[s] = calls[s]
        /\ ~Idle(r) /\ calls[r][Len(calls[r])].kind # "viz"
    BY <1>1, <1>7 DEF LeaveBcast, LeaveAllreduce, Inside, Return, Enter, TypeOK, Idle
  <2>2. pq[r].top \in Req
    BY <1>1, <2>1, TopLemma DEF TypeInv, HoldsWork, Idle
  <2>3. \/ Idle(r)' /\ calls' = calls
        \/ ~Idle(r)' /\ \E kind \in Kind \ {"viz"}, p \in Req, exec \in BOOLEAN :
                          Enter(r, kind, p, exec)
    BY <1>1, <1>7, <2>1, <2>2
    DEF LeaveBcast, LeaveAllreduce, Inside, Return, TypeOK, Idle, Kind
  <2>4. /\ Popped(r)' = Started(r)
        /\ Popped(r) = Started(r)
        /\ Started(r)' = Started(r)
        /\ RanOnce(r)'
    BY <1>1, <2>1, <2>3, SamePopped
  <2>5. OnTop(r)'
    <3>1. CASE Idle(r)'
      BY <3>1 DEF OnTop, Idle
    <3>2. ASSUME NEW kind \in Kind \ {"viz"}, NEW p \in Req, NEW exec \in BOOLEAN,
                 Enter(r, kind, p, exec)
          PROVE  OnTop(r)'
      BY <1>1, <3>2, EnterOnTop
    <3>3. QED
      BY <2>3, <3>1, <3>2
  <2>6. \A p \in Req : Placed(r, p)'
    BY <2>1, <2>4 DEF Placed, AccountedAt
  <2>7. QED
    BY <2>1, <2>4, <2>5, <2>6, SameAccount DEF AccountedAt
<1>8. ASSUME NEW r \in Rank, LeaveAllreduce(r), ~Idle(r)' PROVE AccountInv'
  <2> DEFINE n == Len(calls[r])
             t == pq[r].top
  <2>1. /\ Inside(r, "allreduce")
        /\ Enter(r, "viz", t, FALSE)
        /\ UNCHANGED <<ope, pq, running>>
    BY <1>1, <1>8 DEF LeaveAllreduce, Return, Idle, TypeOK
  <2>2. t \in pq[r].items /\ t \in Req
    BY <1>1, <2>1, TopLemma DEF TypeInv, HoldsWork, Inside
  <2>3. /\ n \in Nat
        /\ Len(calls'[r]) = n + 1
        /\ calls'[r] # <<>>
        /\ calls'[r][n + 1].kind = "viz" /\ calls'[r][n + 1].req = t
        /\ \A i \in 1 .. n : calls'[r][i] = calls[r][i]
        /\ \A s \in Rank \ {r} : calls'[s] = calls[s]
        /\ VizSlots(r)' = VizSlots(r) \cup {n + 1}
    <3>1. calls \in [Rank -> Seq(Call)] /\ "viz" \in Kind
      BY <1>1 DEF TypeOK, Kind
    <3> DEFINE c == [kind |-> "viz", req |-> t, exec |-> FALSE]
    <3>2. c.kind = "viz" /\ c.req = t
      OBVIOUS
    <3>3. /\ n \in Nat
          /\ Len(calls'[r]) = n + 1
          /\ calls'[r] # <<>>
          /\ calls'[r][n + 1] = c
          /\ \A i \in 1 .. n : calls'[r][i] = calls[r][i]
          /\ \A s \in Rank \ {r} : calls'[s] = calls[s]
          /\ VizSlots(r)' = VizSlots(r) \cup {n + 1}
      <4> HIDE DEF t
      <4>1. QED
        BY <2>1, <2>2, <3>1, EnterSlots
    <3>4. QED
      BY <3>2, <3>3
  <2>4. VizSlots(r) \subseteq 1 .. n - 1
    BY <2>1, <2>3 DEF Inside, VizSlots
  <2>5. Popped(r) = Started(r)
    <3>1. VizSlots(r) = {j \in VizSlots(r) : Idle(r) \/ j < n}
      BY <2>3, <2>4
    <3>2. QED
      BY <3>1 DEF Popped, Started
  <2>6. Popped(r)' = Started(r)
    <3>1. VizSlots(r) = {j \in VizSlots(r)' : Idle(r)' \/ j < Len(calls'[r])}
      BY <1>8, <2>3, <2>4
    <3>2. \A j \in VizSlots(r) : calls'[r][j].req = calls[r][j].req
      BY <2>3, <2>4
    <3>3. Popped(r)' = {calls'[r][i].req : i \in VizSlots(r)}
      BY <3>1 DEF Popped
    <3>4. QED
      BY <3>2, <3>3 DEF Started
  <2>7. Started(r)' = Started(r) \cup {t}
    <3>1. \A j \in VizSlots(r) : calls'[r][j].req = calls[r][j].req
      BY <2>3, <2>4
    <3>2. calls'[r][n + 1].req = t
      BY <2>3
    <3>3. Started(r)' = {calls'[r][i].req : i \in VizSlots(r) \cup {n + 1}}
      BY <2>3 DEF Started
    <3> DEFINE old == calls[r]
               new == calls'[r]
    <3>4. \A j \in VizSlots(r) : new[j].req = old[j].req
      BY <3>1
    <3>5. {new[i].req : i \in VizSlots(r) \cup {n + 1}}
            = {old[i].req : i \in VizSlots(r)} \cup {new[n + 1].req}
      <4> HIDE DEF old, new, n
      <4> QED  BY <3>4, Zenon
    <3>6. QED
      BY <3>2, <3>3, <3>5 DEF Started
  <2>8. ope[r][t] = "pushed" /\ t \notin Started(r)
    BY <2>2, <2>5 DEF AccountedAt, Placed
  <2>9. RanOnce(r)'
    <3>1. \A i \in VizSlots(r) : calls'[r][i].req = calls[r][i].req /\ calls[r][i].req # t
      BY <2>3, <2>4, <2>8 DEF Started
    <3>2. QED
      BY <2>3, <3>1 DEF AccountedAt, RanOnce
  <2>10. OnTop(r)'
    BY <2>1, <2>3 DEF OnTop
  <2>11. \A p \in Req : Placed(r, p)'
    BY <2>1, <2>5, <2>6, <2>7, <2>8 DEF AccountedAt, Placed
  <2>12. QED
    BY <2>1, <2>3, <2>9, <2>10, <2>11, SameAccount DEF AccountedAt
<1>9. ASSUME NEW r \in Rank, FinishViz(r) PROVE AccountInv'
  <2> DEFINE n == Len(calls[r])
             t == pq[r].top
  <2>1. PICK rest \in Pops(pq[r]) :
          /\ Inside(r, "viz")
          /\ UNCHANGED ope
          /\ pq' = [pq EXCEPT ![r] = rest]
          /\ IF running[r] \in Pend /\ rest.items # {}
             THEN Enter(r, "allreduce", rest.top, FALSE) /\ UNCHANGED running
             ELSE Return(r) /\ UNCHANGED calls
    BY <1>9 DEF FinishViz
  <2>2. rest.items = pq[r].items \ {t} /\ rest \in Queue /\ WellFormed(rest)
    <3>1. rest \in Queue /\ WellFormed(rest)
      BY <1>1, <2>1, PopLemma
    <3>2. rest.items = pq[r].items \ {t}
      BY <2>1 DEF Pops, EmptyQueue
    <3>3. QED
      BY <3>1, <3>2
  <2>3. t \in pq[r].items /\ t \in Req
    BY <1>1, <2>1, TopLemma DEF TypeInv, HoldsWork, Inside
  <2>4. n \in VizSlots(r) /\ n \in Nat /\ VizSlots(r) \subseteq 1 .. n
        /\ calls[r][n].req = t
    BY <1>1, <2>1 DEF Inside, VizSlots, AccountedAt, OnTop, TypeOK
  <2>5. Started(r) = Popped(r) \cup {t}
    <3> HIDE DEF n, t
    <3>1. Started(r) = {calls[r][i].req : i \in VizSlots(r) \ {n}} \cup {t}
      BY <2>4 DEF Started
    <3>2. VizSlots(r) \ {n} = {j \in VizSlots(r) : Idle(r) \/ j < n}
      BY <2>1, <2>4 DEF Inside, Idle
    <3>3. QED
      BY <3>1, <3>2 DEF Popped, n
  <2>6. /\ \A s \in Rank \ {r} : /\ running'[s] = running[s]
                                 /\ calls'[s] = calls[s]
                                 /\ pq'[s] = pq[s]
        /\ pq'[r] = rest
    BY <1>1, <2>1 DEF TypeOK, Return, Enter
  <2>7. Popped(r)' = Started(r) /\ Started(r)' = Started(r) /\ RanOnce(r)' /\ OnTop(r)'
    <3>1. CASE running[r] \in Pend /\ rest.items # {}
      <4>1. rest.top \in Req
        BY <2>2, <3>1, TopLemma
      <4>2. /\ Len(calls'[r]) = n + 1
            /\ calls'[r] # <<>>
            /\ calls'[r][n + 1].kind = "allreduce"
            /\ \A i \in 1 .. n : calls'[r][i] = calls[r][i]
            /\ VizSlots(r)' = VizSlots(r)
        <5>1. Enter(r, "allreduce", rest.top, FALSE)
          BY <2>1, <3>1
        <5>2. /\ calls \in [Rank -> Seq(Call)]
              /\ "allreduce" \in Kind \ {"viz"}
          BY <1>1 DEF TypeOK, Kind
        <5>3. /\ Len(calls'[r]) = n + 1
              /\ \A i \in 1 .. n : calls'[r][i] = calls[r][i]
              /\ VizSlots(r)' = VizSlots(r)
          BY <4>1, <5>1, <5>2, EnterOther
        <5>4. /\ calls'[r] # <<>>
              /\ calls'[r][n + 1] =
                   [kind |-> "allreduce", req |-> rest.top, exec |-> FALSE]
          BY <4>1, <5>1, <5>2, EnterSlots
        <5>5. QED
          BY <5>3, <5>4
      <4>3. ~Idle(r)'
        BY <2>1, <3>1 DEF Inside, Idle
      <4>4. \A j \in VizSlots(r) : calls'[r][j].req = calls[r][j].req
        BY <2>4, <4>2
      <4>5. VizSlots(r) = {j \in VizSlots(r)' : Idle(r)' \/ j < Len(calls'[r])}
        BY <2>4, <4>2
      <4>6. Popped(r)' = {calls'[r][i].req : i \in VizSlots(r)}
        BY <4>5 DEF Popped
      <4>7. Popped(r)' = Started(r) /\ Started(r)' = Started(r) /\ RanOnce(r)'
        <5>1. Popped(r)' = Started(r)
          BY <4>4, <4>6 DEF Started
        <5>2. Started(r)' = Started(r)
          BY <4>2, <4>4 DEF Started
        <5>3. RanOnce(r)'
          BY <4>2, <4>4 DEF AccountedAt, RanOnce
        <5>4. QED
          BY <5>1, <5>2, <5>3
      <4>8. OnTop(r)'
        BY <4>2 DEF OnTop
      <4>9. QED
        BY <4>7, <4>8
    <3>2. CASE ~(running[r] \in Pend /\ rest.items # {})
      <4>1. Idle(r)' /\ calls' = calls
        BY <1>1, <2>1, <3>2 DEF Return, Idle, TypeOK
      <4>2. QED
        BY <4>1 DEF Popped, Started, VizSlots, AccountedAt, RanOnce, OnTop, Idle
    <3>3. QED
      BY <3>1, <3>2
  <2>8. \A p \in Req : Placed(r, p)'
    BY <2>1, <2>2, <2>3, <2>5, <2>6, <2>7 DEF AccountedAt, Placed
  <2>9. QED
    BY <2>1, <2>6, <2>7, <2>8, SameAccount DEF AccountedAt
<1>10. ASSUME NEW r \in Rank, NEW p \in Pend, StartPending(r, p) PROVE AccountInv'
  <2>1. CASE Found(r) /\ pq[r].items # {}
    <3>1. /\ Idle(r)
          /\ Enter(r, "allreduce", pq[r].top, FALSE)
          /\ running' = [running EXCEPT ![r] = p]
          /\ UNCHANGED <<ope, pq>>
      BY <1>10, <2>1 DEF StartPending
    <3>2. pq[r].top \in Req
      BY <1>1, <2>1, TopLemma
    <3>3. /\ ~Idle(r)'
          /\ \A s \in Rank \ {r} : running'[s] = running[s] /\ calls'[s] = calls[s]
      BY <1>1, <3>1, ServerAssumption DEF TypeOK, Idle, Enter
    <3>4. /\ Popped(r)' = Started(r)
          /\ Popped(r) = Started(r)
          /\ Started(r)' = Started(r)
          /\ RanOnce(r)'
      BY <1>1, <3>1, <3>2, <3>3, SamePopped DEF Kind
    <3>5. OnTop(r)'
      BY <1>1, <3>1, <3>2, EnterOnTop DEF Kind
    <3>6. \A q \in Req : Placed(r, q)'
      BY <3>1, <3>4 DEF Placed, AccountedAt
    <3>7. QED
      BY <3>1, <3>3, <3>4, <3>5, <3>6, SameAccount DEF AccountedAt
  <2>2. CASE ~(Found(r) /\ pq[r].items # {})
    BY <1>10, <2>2, SameAccount DEF StartPending
  <2>3. QED
    BY <2>1, <2>2
<1>11. CASE UNCHANGED vars
  BY <1>11, SameAccount DEF vars
<1>12. QED
  BY <1>3, <1>4, <1>5, <1>6, <1>7, <1>8, <1>9, <1>10, <1>11
  DEF Next, ClientStep, HandlerStep, Rest

\* What was pushed is in the queue or has been run and popped, and nothing is run
\* twice, whatever the mode, the answers of the peers and the order of the calls.
THEOREM AlwaysAccounted == Spec => []Accounted
<1>1. AccountInv => Accounted
  BY DEF AccountInv, AccountedAt, Placed, RanOnce, Accounted
<1>2. Init => TypeInv /\ AccountInv
  BY InitType, InitAccount
<1>3. TypeInv /\ AccountInv /\ [Next]_vars => (TypeInv /\ AccountInv)'
  BY NextType, NextAccount
<1>4. QED
  BY <1>1, <1>2, <1>3, PTL DEF Spec

-----------------------------------------------------------------------------
(***************************************************************************)
(* "Ordering is virtually guaranteed" on a LAZY server whose clients make  *)
(* the pending call after all requests are queued.  Nothing is pushed once *)
(* a rank has entered a collective (Closed), so that what is visualized    *)
(* stays at least as early as everything that is still queued (Ordered).   *)
(***************************************************************************)
AllQueued == \A r \in Rank, q \in Req : ope[r][q] \in {"pushed", "failed"}

Closed ==
  /\ \A r \in Rank, p \in Pend : pend[r][p] # "unsent" => AllQueued
  /\ \A r \in Rank : calls[r] # <<>> => AllQueued

Ordered(r) ==
  \A i \in VizSlots(r) :
    /\ \A q \in pq[r].items : Ts[calls[r][i].req] <= Ts[q]
    /\ \A j \in VizSlots(r) : i < j => Ts[calls[r][i].req] <= Ts[calls[r][j].req]

OrderInv == mode = "LAZY" => Closed /\ \A r \in Rank : Ordered(r)

LEMMA InitOrder == Init => OrderInv
BY DEF Init, OrderInv, Closed, Ordered, VizSlots

\* A rank on which no request is pushed, and which enters at most a collective
\* that is no visualization.
LEMMA SameOrder ==
  ASSUME TypeOK, NEW r \in Rank, Ordered(r), pq'[r].items \subseteq pq[r].items,
         \/ calls'[r] = calls[r]
         \/ \E kind \in Kind \ {"viz"}, q \in Req, exec \in BOOLEAN :
              Enter(r, kind, q, exec)
  PROVE  Ordered(r)'
<1>1. CASE calls'[r] = calls[r]
  BY <1>1 DEF Ordered, VizSlots
<1>2. ASSUME NEW kind \in Kind \ {"viz"}, NEW q \in Req, NEW exec \in BOOLEAN,
             Enter(r, kind, q, exec)
      PROVE  Ordered(r)'
  <2>1. /\ VizSlots(r)' = VizSlots(r)
        /\ \A i \in VizSlots(r) : calls'[r][i] = calls[r][i]
    <3>1. VizSlots(r) \subseteq 1 .. Len(calls[r])
      BY DEF VizSlots
    <3>2. /\ \A i \in 1 .. Len(calls[r]) : calls'[r][i] = calls[r][i]
          /\ VizSlots(r)' = VizSlots(r)
      BY <1>2, EnterOther DEF TypeOK
    <3>3. QED
      BY <3>1, <3>2
  <2>2. QED
    BY <2>1 DEF Ordered
<1>3. QED
  BY <1>1, <1>2

\* A step that pushes nothing and begins no visualization.
LEMMA QuietOrder ==
  ASSUME TypeOK, mode = "LAZY", OrderInv, UNCHANGED <<mode, ope>>,
         NEW r \in Rank, AllQueued,
         \A s \in Rank \ {r} : pq'[s] = pq[s] /\ calls'[s] = calls[s],
         pq'[r].items \subseteq pq[r].items,
         \/ calls'[r] = calls[r]
         \/ \E kind \in Kind \ {"viz"}, q \in Req, exec \in BOOLEAN :
              Enter(r, kind, q, exec)
  PROVE  OrderInv'
<1>1. \A s \in Rank : Ordered(s)'
  BY SameOrder DEF OrderInv
<1>2. AllQueued'
  BY DEF AllQueued
<1>3. QED
  BY <1>1, <1>2 DEF OrderInv, Closed

LEMMA NextOrder ==
  ASSUME Gate = "pushed", TypeInv, OrderInv, [Next]_vars
  PROVE  OrderInv'
<1>1. TypeOK /\ \A r \in Rank : pq[r] \in Queue /\ WellFormed(pq[r])
  BY DEF TypeInv, TypeOK
<1>2. mode' = mode
  BY SameMode
<1>3. SUFFICES ASSUME mode = "LAZY" PROVE OrderInv'
  BY <1>2 DEF OrderInv
<1>4. Closed /\ \A r \in Rank : Ordered(r)
  BY <1>3 DEF OrderInv
<1>5. ASSUME NEW r \in Rank, NEW q \in Req,
             SendRequest(r, q) \/ Acknowledge(r, q) \/ PushRequest(r, q)
      PROVE  OrderInv'
  <2>1. ~AllQueued /\ UNCHANGED <<pend, calls>>
    BY <1>3, <1>5 DEF SendRequest, Acknowledge, PushRequest, AllQueued
  <2>2. /\ \A s \in Rank, p \in Pend : pend[s][p] = "unsent"
        /\ \A s \in Rank : calls[s] = <<>>
    BY <1>4, <2>1 DEF Closed
  <2>3. QED
    BY <2>1, <2>2 DEF OrderInv, Closed, Ordered, VizSlots
<1>6. ASSUME NEW r \in Rank, NEW p \in Pend, SendPending(r, p) PROVE OrderInv'
  <2>1. AllQueued /\ UNCHANGED <<mode, ope, pq, calls>>
    BY <1>6 DEF SendPending, GateOpen, AllQueued
  <2>2. QED
    BY <1>1, <1>3, <2>1, QuietOrder
<1>7. ASSUME NEW r \in Rank, RemoveNode(r) PROVE OrderInv'
  BY <1>4, <1>7 DEF RemoveNode, OrderInv, Closed, AllQueued, Ordered, VizSlots
<1>8. ASSUME NEW r \in Rank, LeaveBcast(r) PROVE OrderInv'
  <2>1. AllQueued /\ pq[r].top \in Req
    BY <1>1, <1>4, <1>8, TopLemma DEF LeaveBcast, Inside, Closed, TypeInv, HoldsWork
  <2>2. /\ UNCHANGED <<ope, pq>>
        /\ Enter(r, "allreduce", pq[r].top, FALSE) \/ calls' = calls
    BY <1>8 DEF LeaveBcast
  <2>3. \A s \in Rank \ {r} : calls'[s] = calls[s]
    BY <1>1, <2>2 DEF Enter, TypeOK
  <2>4. QED
    BY <1>1, <1>2, <1>3, <2>1, <2>2, <2>3, QuietOrder DEF Kind
<1>9. ASSUME NEW r \in Rank, LeaveAllreduce(r), calls' = calls PROVE OrderInv'
  BY <1>2, <1>4, <1>9 DEF LeaveAllreduce, OrderInv, Closed, AllQueued, Ordered, VizSlots
<1>10. ASSUME NEW r \in Rank, LeaveAllreduce(r), Enter(r, "viz", pq[r].top, FALSE)
       PROVE  OrderInv'
  <2> DEFINE n == Len(calls[r])
             t == pq[r].top
  <2>1. AllQueued /\ UNCHANGED <<ope, pend, pq>>
    BY <1>4, <1>10 DEF LeaveAllreduce, Inside, Closed
  <2>2. t \in pq[r].items /\ t \in Req
    BY <1>1, <1>10, TopLemma DEF LeaveAllreduce, Inside, TypeInv, HoldsWork
  <2>3. \A q \in pq[r].items : Ts[t] <= Ts[q]
    BY <1>1, <2>2, QueueAssumption DEF WellFormed, Earliest, Compare, Queue
  <2>4. /\ n \in Nat
        /\ calls'[r][n + 1].req = t
        /\ \A i \in 1 .. n : calls'[r][i] = calls[r][i]
        /\ \A s \in Rank \ {r} : calls'[s] = calls[s]
        /\ VizSlots(r)' = VizSlots(r) \cup {n + 1}
    <3>1. calls \in [Rank -> Seq(Call)] /\ "viz" \in Kind
      BY <1>1 DEF TypeOK, Kind
    <3> DEFINE c == [kind |-> "viz", req |-> t, exec |-> FALSE]
    <3>2. c.req = t
      OBVIOUS
    <3>3. /\ n \in Nat
          /\ calls'[r][n + 1] = c
          /\ \A i \in 1 .. n : calls'[r][i] = calls[r][i]
          /\ \A s \in Rank \ {r} : calls'[s] = calls[s]
          /\ VizSlots(r)' = VizSlots(r) \cup {n + 1}
      <4> HIDE DEF t
      <4>1. Enter(r, "viz", t, FALSE)
        BY <1>10 DEF t
      <4>2. QED
        BY <2>2, <3>1, <4>1, EnterSlots
    <3>4. QED
      BY <3>2, <3>3
  <2>5. VizSlots(r) \subseteq 1 .. n
    BY DEF VizSlots
  <2>6. Ordered(r)'
    <3> HIDE DEF n, t
    <3>1. \A i \in VizSlots(r) :
            /\ calls'[r][i] = calls[r][i]
            /\ Ts[calls[r][i].req] <= Ts[t]
            /\ i < n + 1
      BY <1>4, <2>2, <2>4, <2>5 DEF Ordered
    <3>2. \A q \in pq'[r].items : Ts[calls'[r][n + 1].req] <= Ts[q]
      BY <2>1, <2>3, <2>4
    <3>3. ASSUME NEW i \in VizSlots(r)'
          PROVE  /\ \A q \in pq'[r].items : Ts[calls'[r][i].req] <= Ts[q]
                 /\ \A j \in VizSlots(r)' :
                      i < j => Ts[calls'[r][i].req] <= Ts[calls'[r][j].req]
      <4>1. CASE i = n + 1
        BY <2>4, <3>1, <3>2, <4>1
      <4>2. CASE i \in VizSlots(r)
        BY <1>4, <2>1, <2>4, <3>1, <4>2 DEF Ordered
      <4>3. QED
        BY <2>4, <4>1, <4>2
    <3>4. QED
      BY <3>3 DEF Ordered
  <2>7. \A s \in Rank \ {r} : Ordered(s)'
    BY <1>1, <1>4, <2>1, <2>4, SameOrder
  <2>8. Closed'
    BY <2>1 DEF Closed, AllQueued
  <2>9. QED
    BY <2>6, <2>7, <2>8 DEF OrderInv
<1>11. ASSUME NEW r \in Rank, FinishViz(r) PROVE OrderInv'
  <2>1. PICK rest \in Pops(pq[r]) :
          /\ UNCHANGED ope
          /\ pq' = [pq EXCEPT ![r] = rest]
          /\ \/ rest.items # {} /\ Enter(r, "allreduce", rest.top, FALSE)
             \/ calls' = calls
    BY <1>11 DEF FinishViz
  <2>2. /\ rest \in Queue
        /\ WellFormed(rest)
        /\ rest.items # {} => rest.top \in Req
        /\ rest.items \subseteq pq[r].items
    <3>1. rest \in Queue /\ WellFormed(rest)
      BY <1>1, PopLemma
    <3>2. rest.items \subseteq pq[r].items
      BY DEF Pops, EmptyQueue
    <3>3. QED
      BY <3>1, <3>2, TopLemma
  <2>3. AllQueued
    BY <1>4, <1>11 DEF FinishViz, Inside, Closed
  <2>4. /\ \A s \in Rank \ {r} : pq'[s] = pq[s] /\ calls'[s] = calls[s]
        /\ pq'[r].items \subseteq pq[r].items
    BY <1>1, <2>1, <2>2 DEF TypeOK, Enter
  <2>5. \/ calls'[r] = calls[r]
        \/ \E kind \in Kind \ {"viz"}, q \in Req, exec \in BOOLEAN :
             Enter(r, kind, q, exec)
    BY <2>1, <2>2 DEF Kind
  <2>6. QED
    BY <1>1, <1>2, <1>3, <2>1, <2>3, <2>4, <2>5, QuietOrder
<1>12. ASSUME NEW r \in Rank, NEW p \in Pend, StartPending(r, p) PROVE OrderInv'
  <2>1. /\ AllQueued
        /\ UNCHANGED <<ope, pq>>
        /\ \/ pq[r].items # {} /\ Enter(r, "allreduce", pq[r].top, FALSE)
           \/ calls' = calls
    BY <1>4, <1>12 DEF StartPending, Closed
  <2>2. \A s \in Rank \ {r} : calls'[s] = calls[s]
    BY <1>1, <2>1 DEF Enter, TypeOK
  <2>3. \/ calls'[r] = calls[r]
        \/ \E kind \in Kind \ {"viz"}, q \in Req, exec \in BOOLEAN :
             Enter(r, kind, q, exec)
    BY <1>1, <2>1, TopLemma DEF Kind
  <2>4. QED
    BY <1>1, <1>2, <1>3, <2>1, <2>2, <2>3, QuietOrder
<1>13. CASE UNCHANGED vars
  BY <1>4, <1>13 DEF vars, OrderInv, Closed, AllQueued, Ordered, VizSlots
<1>14. QED
  <2>1. ASSUME NEW r \in Rank, LeaveAllreduce(r)
        PROVE  calls' = calls \/ Enter(r, "viz", pq[r].top, FALSE)
    BY <2>1 DEF LeaveAllreduce
  <2>2. QED
    BY <1>5, <1>6, <1>7, <1>8, <1>9, <1>10, <1>11, <1>12, <1>13, <2>1
    DEF Next, ClientStep, HandlerStep, Rest

\* The ranks of a LAZY server run their requests in the order of the timestamps,
\* for any number of pending calls, if those come after the requests are queued.
THEOREM AlwaysTimestampOrder ==
  Gate = "pushed" /\ Spec => []TimestampOrder
<1>1. OrderInv => TimestampOrder
  BY DEF OrderInv, Ordered, TimestampOrder
<1>2. Gate = "pushed" /\ TypeInv /\ OrderInv /\ [Next]_vars => OrderInv'
  BY NextOrder
<1>3. Gate = "pushed" => [](Gate = "pushed")
  OBVIOUS
<1>4. QED
  BY InitType, NextType, InitOrder, <1>1, <1>2, <1>3, PTL DEF Spec

-----------------------------------------------------------------------------
(***************************************************************************)
(* What is left in the queues is the same on all ranks, once every request *)
(* has been handled and before a pending call runs the queue.  A rank may  *)
(* be many collectives ahead of another on the way there; at the end it is *)
(* not, because the handler of each request opens one round (CountInv), so *)
(* that the ranks, whose collectives match, have made equally many.  Then  *)
(* they have run the same requests (SameRequest), and each has the others  *)
(* left (Accounted), the earliest of them on top.                          *)
(***************************************************************************)
OpenSlots(r) == {i \in 1 .. Len(calls[r]) : calls[r][i].kind = Opening}

Handled(r) == {q \in Req : ope[r][q] = "pushed"}

\* The handler of each request that was pushed on rank r has opened a round.
Counted(r) ==
  /\ IsFiniteSet(Handled(r))
  /\ Cardinality(Handled(r)) = Cardinality(OpenSlots(r))
  /\ mode = "EAGER" =>
       \A i \in 1 .. Len(calls[r]) : calls[r][i].kind # "bcast"

CountInv ==
  \A r \in Rank : IF mode = "LAZY" THEN calls[r] = <<>> ELSE Counted(r)

LEMMA InitCount == Init => CountInv
<1> SUFFICES ASSUME Init PROVE CountInv
  OBVIOUS
<1>1. \A r \in Rank : Handled(r) = {} /\ OpenSlots(r) = {} /\ calls[r] = <<>>
  BY DEF Init, Handled, OpenSlots
<1>2. ASSUME NEW r \in Rank PROVE Counted(r)
  <2>1. /\ IsFiniteSet(Handled(r))
        /\ Cardinality(Handled(r)) = Cardinality(OpenSlots(r))
    BY <1>1, FS_EmptySet
  <2>2. \A i \in 1 .. Len(calls[r]) : calls[r][i].kind # "bcast"
    BY <1>1
  <2>3. QED
    BY <2>1, <2>2 DEF Counted
<1>3. QED
  BY <1>1, <1>2 DEF CountInv

\* One more collective opens one more round, or none.
LEMMA EnterOpen ==
  ASSUME TypeOK, UNCHANGED mode, NEW r \in Rank, NEW kind \in Kind, NEW q \in Req,
         NEW exec \in BOOLEAN, Enter(r, kind, q, exec)
  PROVE  /\ IsFiniteSet(OpenSlots(r)) /\ Cardinality(OpenSlots(r)) \in Nat
         /\ kind = Opening =>
              Cardinality(OpenSlots(r)') = Cardinality(OpenSlots(r)) + 1
         /\ kind # Opening => OpenSlots(r)' = OpenSlots(r)
         /\ (mode = "EAGER" /\ kind # "bcast"
              /\ \A i \in 1 .. Len(calls[r]) : calls[r][i].kind # "bcast")
              => \A i \in 1 .. Len(calls'[r]) : calls'[r][i].kind # "bcast"
<1> DEFINE n == Len(calls[r])
           c == [kind |-> kind, req |-> q, exec |-> exec]
<1>1. /\ n \in Nat
      /\ Len(calls'[r]) = n + 1
      /\ calls'[r][n + 1] = c
      /\ \A i \in 1 .. n : calls'[r][i] = calls[r][i]
  BY EnterSlots DEF TypeOK
<1>2. c.kind = kind
  OBVIOUS
<1>3. Opening' = Opening
  BY DEF Opening
<1> HIDE DEF n, c
<1>4. /\ OpenSlots(r) = {i \in 1 .. n : calls[r][i].kind = Opening}
      /\ OpenSlots(r)' = {i \in 1 .. n + 1 : calls'[r][i].kind = Opening}
  BY <1>1, <1>3 DEF OpenSlots, n
<1>5. /\ OpenSlots(r) \subseteq 1 .. n
      /\ kind = Opening => OpenSlots(r)' = OpenSlots(r) \cup {n + 1}
      /\ kind # Opening => OpenSlots(r)' = OpenSlots(r)
  BY <1>1, <1>2, <1>4
<1>6. IsFiniteSet(OpenSlots(r)) /\ n + 1 \notin OpenSlots(r)
  <2>1. IsFiniteSet(1 .. n)
    BY <1>1, FS_Interval
  <2>2. IsFiniteSet(OpenSlots(r))
    BY <1>5, <2>1, FS_Subset
  <2>3. QED
    BY <1>1, <1>5, <2>2
<1>7. kind = Opening => Cardinality(OpenSlots(r)') = Cardinality(OpenSlots(r)) + 1
  BY <1>5, <1>6, FS_AddElement
<1>8. Cardinality(OpenSlots(r)) \in Nat
  BY <1>6, FS_CardinalityType
<1>9. (kind # "bcast" /\ \A i \in 1 .. n : calls[r][i].kind # "bcast")
        => \A i \in 1 .. n + 1 : calls'[r][i].kind # "bcast"
  BY <1>1, <1>2
<1>10. QED
  BY <1>1, <1>5, <1>6, <1>7, <1>8, <1>9 DEF n

\* A rank on which nothing is pushed and no round opened.
LEMMA SameCount ==
  ASSUME UNCHANGED mode, NEW r \in Rank, Counted(r), Handled(r)' = Handled(r),
         \/ calls'[r] = calls[r]
         \/ /\ TypeOK
            /\ \E kind \in Kind \ {"bcast", Opening}, q \in Req, exec \in BOOLEAN :
                 Enter(r, kind, q, exec)
  PROVE  Counted(r)'
<1>1. CASE calls'[r] = calls[r]
  BY <1>1 DEF Counted, OpenSlots, Opening
<1>2. ASSUME TypeOK, NEW kind \in Kind \ {"bcast", Opening}, NEW q \in Req,
             NEW exec \in BOOLEAN, Enter(r, kind, q, exec)
      PROVE  Counted(r)'
  <2>1. /\ OpenSlots(r)' = OpenSlots(r)
        /\ mode = "EAGER" =>
             \A i \in 1 .. Len(calls'[r]) : calls'[r][i].kind # "bcast"
    BY <1>2, EnterOpen DEF Counted
  <2>2. QED
    BY <2>1 DEF Counted
<1>3. QED
  BY <1>1, <1>2

LEMMA NextCount ==
  ASSUME Unasked, Unasked', PendRuns, TypeInv, CountInv, [Next]_vars
  PROVE  CountInv'
<1>1. TypeOK /\ \A r \in Rank : pq[r] \in Queue /\ WellFormed(pq[r])
  BY DEF TypeInv, TypeOK
<1>2. mode' = mode /\ Opening' = Opening
  BY SameMode DEF Opening
<1>3. \A r \in Rank : running[r] \notin Pend
  BY DEF Unasked, PendRuns

\* A step of rank r that leaves the others alone.
<1>4. ASSUME NEW r \in Rank,
             \A s \in Rank \ {r} : calls'[s] = calls[s] /\ Handled(s)' = Handled(s),
             IF mode = "LAZY" THEN calls'[r] = <<>> ELSE Counted(r)'
      PROVE  CountInv'
  BY <1>2, <1>4, SameCount DEF CountInv
<1>5. ASSUME NEW r \in Rank, NEW q \in Req, PushRequest(r, q) PROVE CountInv'
  <2>1. /\ ope' = [ope EXCEPT ![r][q] = "pushed"]
        /\ pq' = [pq EXCEPT ![r] = Push(@, q)]
        /\ ope[r][q] = "responding"
    BY <1>5 DEF PushRequest
  <2>2. /\ Handled(r)' = Handled(r) \cup {q}
        /\ q \notin Handled(r)
        /\ \A s \in Rank \ {r} : Handled(s)' = Handled(s)
    BY <1>1, <2>1 DEF Handled, TypeOK
  <2>3. CASE mode = "LAZY"
    BY <1>4, <1>5, <2>2, <2>3 DEF PushRequest, CountInv
  <2>4. ASSUME mode # "LAZY",
               NEW kind \in Kind, kind = Opening, mode = "EAGER" => kind # "bcast",
               NEW p \in Req, NEW exec \in BOOLEAN, Enter(r, kind, p, exec)
        PROVE  CountInv'
    <3>1. Counted(r)
      BY <2>4 DEF CountInv
    <3>2. /\ Cardinality(OpenSlots(r)') = Cardinality(OpenSlots(r)) + 1
          /\ mode = "EAGER" =>
               \A i \in 1 .. Len(calls'[r]) : calls'[r][i].kind # "bcast"
      BY <1>1, <1>2, <2>4, <3>1, EnterOpen DEF Counted
    <3>3. /\ IsFiniteSet(Handled(r)')
          /\ Cardinality(Handled(r)') = Cardinality(Handled(r)) + 1
      BY <2>2, <3>1, FS_AddElement DEF Counted
    <3>4. Counted(r)'
      BY <1>2, <3>1, <3>2, <3>3 DEF Counted
    <3>5. \A s \in Rank \ {r} : calls'[s] = calls[s]
      BY <1>1, <2>4 DEF Enter, TypeOK
    <3>6. QED
      BY <1>4, <2>2, <2>4, <3>4, <3>5
  <2>5. CASE mode = "LAZYISH"
    <3> DEFINE exec == r = Root /\ PoolSize(r, q) < PoolLimit
    <3>1. Enter(r, "bcast", q, exec) /\ exec \in BOOLEAN
      BY <1>5, <2>5 DEF PushRequest
    <3> HIDE DEF exec
    <3>2. "bcast" \in Kind /\ "bcast" = Opening
      BY <2>5 DEF Kind, Opening
    <3>3. QED
      BY <2>4, <2>5, <3>1, <3>2
  <2>6. CASE mode = "EAGER"
    <3>1. Enter(r, "allreduce", pq'[r].top, FALSE)
      BY <1>5, <2>6 DEF PushRequest
    <3>2. pq'[r].top \in Req
      BY <1>1, <2>1, PushLemma DEF TypeOK
    <3>3. "allreduce" \in Kind /\ "allreduce" = Opening
      BY <2>6 DEF Kind, Opening
    <3>4. QED
      BY <2>4, <2>6, <3>1, <3>2, <3>3
  <2>7. QED
    BY <1>1, <2>3, <2>5, <2>6, ServerAssumption DEF TypeOK
<1>6. ASSUME NEW r \in Rank, LeaveBcast(r) \/ LeaveAllreduce(r) \/ FinishViz(r)
      PROVE  CountInv'
  <2>1. /\ mode # "LAZY"
        /\ Counted(r)
        /\ pq[r].top \in Req
    BY <1>1, <1>6, TopLemma
    DEF LeaveBcast, LeaveAllreduce, FinishViz, Inside, CountInv, TypeInv, HoldsWork
  <2>2. UNCHANGED ope /\ \A s \in Rank : Handled(s)' = Handled(s)
    BY <1>6 DEF LeaveBcast, LeaveAllreduce, FinishViz, Handled
  <2>3. LeaveBcast(r) => mode # "EAGER"
    <3>1. SUFFICES ASSUME LeaveBcast(r), mode = "EAGER" PROVE FALSE
      OBVIOUS
    <3>2. Len(calls[r]) \in 1 .. Len(calls[r])
      BY <1>1, <3>1 DEF LeaveBcast, Inside, TypeOK
    <3>3. QED
      BY <2>1, <3>1, <3>2 DEF LeaveBcast, Inside, Counted
  <2>4. \/ calls' = calls
        \/ \E kind \in Kind \ {"bcast", Opening} : Enter(r, kind, pq[r].top, FALSE)
    <3>1. CASE LeaveBcast(r)
      <4>1. "allreduce" \in Kind \ {"bcast", Opening}
        BY <1>1, <2>1, <2>3, <3>1, ServerAssumption DEF Kind, Opening, TypeOK
      <4>2. QED
        BY <3>1, <4>1 DEF LeaveBcast
    <3>2. CASE LeaveAllreduce(r)
      <4>1. "viz" \in Kind \ {"bcast", Opening}
        BY DEF Kind, Opening
      <4>2. QED
        BY <3>2, <4>1 DEF LeaveAllreduce
    <3>3. CASE FinishViz(r)
      BY <1>3, <3>3 DEF FinishViz
    <3>4. QED
      BY <1>6, <3>1, <3>2, <3>3
  <2>5. \A s \in Rank \ {r} : calls'[s] = calls[s]
    BY <1>1, <2>4 DEF Enter, TypeOK
  <2>6. Counted(r)'
    BY <1>1, <1>2, <2>1, <2>2, <2>4, SameCount
  <2>7. QED
    BY <1>4, <2>1, <2>2, <2>5, <2>6
<1>7. ASSUME NEW r \in Rank, NEW q \in Req, SendRequest(r, q) \/ Acknowledge(r, q)
      PROVE  CountInv'
  <2>1. UNCHANGED <<mode, calls>> /\ \A s \in Rank : Handled(s)' = Handled(s)
    <3>1. UNCHANGED <<mode, calls>> /\ ope[r][q] # "pushed"
      BY <1>7 DEF SendRequest, Acknowledge
    <3>2. ASSUME NEW x, x # "pushed", ope' = [ope EXCEPT ![r][q] = x]
          PROVE  \A s \in Rank, p \in Req : ope'[s][p] = "pushed" <=> ope[s][p] = "pushed"
      <4>1. ope \in [Rank -> [Req -> OpeState]]
        BY <1>1 DEF TypeOK
      <4>2. ASSUME NEW s \in Rank, NEW p \in Req
            PROVE  ope'[s][p] = IF s = r /\ p = q THEN x ELSE ope[s][p]
        BY <3>2, <4>1
      <4>3. QED
        BY <3>1, <3>2, <4>2
    <3>3. \A s \in Rank, p \in Req : ope'[s][p] = "pushed" <=> ope[s][p] = "pushed"
      BY <1>7, <3>2 DEF SendRequest, Acknowledge
    <3>4. QED
      BY <3>1, <3>3 DEF Handled
  <2>2. QED
    BY <2>1, SameCount DEF CountInv
<1>8. ASSUME UNCHANGED <<ope, calls>> PROVE CountInv'
  <2>1. \A s \in Rank : Handled(s)' = Handled(s)
    BY <1>8 DEF Handled
  <2>2. QED
    BY <1>2, <1>8, <2>1, SameCount DEF CountInv
<1>9. ASSUME NEW r \in Rank, NEW p \in Pend, StartPending(r, p) PROVE CountInv'
  <2>1. ~Found(r)
    BY <1>1, <1>9 DEF StartPending, Unasked, TypeOK
  <2>2. QED
    BY <1>8, <1>9, <2>1 DEF StartPending
<1>10. QED
  BY <1>5, <1>6, <1>7, <1>8, <1>9
  DEF Next, ClientStep, HandlerStep, Rest, SendPending, RemoveNode, vars

\* While no admin removes a node, every request finds it.
NodesStay == \A r \in Rank : node[r] /\ \A q \in Req : ope[r][q] # "failed"

LEMMA InitNodes == Init => NodesStay
BY DEF Init, NodesStay

LEMMA NextNodes ==
  ASSUME Teardown = FALSE, TypeOK, NodesStay, [Next]_vars
  PROVE  NodesStay'
<1>1. ASSUME NEW r \in Rank, NEW q \in Req, NEW x, x # "failed",
             ope' = [ope EXCEPT ![r][q] = x], UNCHANGED node
      PROVE  NodesStay'
  <2>1. ASSUME NEW s \in Rank, NEW p \in Req
        PROVE  ope'[s][p] = IF s = r /\ p = q THEN x ELSE ope[s][p]
    BY <1>1 DEF TypeOK
  <2>2. QED
    BY <1>1, <2>1 DEF NodesStay
<1>2. ASSUME NEW r \in Rank, NEW q \in Req,
             SendRequest(r, q) \/ Acknowledge(r, q) \/ PushRequest(r, q)
      PROVE  NodesStay'
  BY <1>1, <1>2 DEF SendRequest, Acknowledge, PushRequest, NodesStay, Found
<1>3. CASE UNCHANGED <<node, ope>>
  BY <1>3 DEF NodesStay
<1>4. QED
  BY <1>2, <1>3
  DEF Next, ClientStep, HandlerStep, Rest, SendPending, StartPending, LeaveBcast,
      LeaveAllreduce, FinishViz, RemoveNode, vars

\* Of two ranks between handlers that have handled the same requests, neither has
\* made fewer collectives.
LEMMA NotShorter ==
  ASSUME Regime, mode # "LAZY", TypeInv, MatchInv, CountInv,
         NEW r \in Rank, NEW s \in Rank, Idle(r), Handled(r) = Handled(s)
  PROVE  Len(calls[s]) <= Len(calls[r])
<1> DEFINE n == Len(calls[r])
           m == Len(calls[s])
<1>1. /\ n \in Nat
      /\ m \in Nat
      /\ calls[r] = <<>> <=> n = 0
      /\ calls[s] = <<>> <=> m = 0
  BY DEF TypeInv, TypeOK
<1>2. SUFFICES ASSUME n < m PROVE FALSE
  BY <1>1
<1>3. calls[s][n + 1].kind = Opening
  <2>1. Protocol(s)
    BY DEF MatchInv
  <2>2. CASE n = 0
    BY <1>1, <1>2, <2>1, <2>2 DEF Protocol
  <2>3. CASE n # 0
    <3>1. n \in 1 .. m - 1 /\ n \in 1 .. m /\ n \in 1 .. n
      BY <1>1, <1>2, <2>3
    <3>2. calls[s][n + 1].kind = Follow(s, n)
      BY <2>1, <3>1 DEF Protocol
    <3>3. Done(r, n) /\ Follow(r, n) = Opening
      BY <1>1, <2>3 DEF MatchInv, Settled
    <3>4. calls[s][n].kind = calls[r][n].kind
      BY <3>1 DEF MatchInv, CollectivesMatch
    <3>5. Follow(s, n) = Follow(r, n)
      BY <3>1, <3>3, <3>4, SameFollow DEF Regime
    <3>6. QED
      BY <3>2, <3>3, <3>5
  <2>4. QED
    BY <2>2, <2>3
<1>4. OpenSlots(r) \subseteq OpenSlots(s)
  <2>1. ASSUME NEW i \in 1 .. n PROVE i \in 1 .. m /\ calls[r][i].kind = calls[s][i].kind
    BY <1>1, <1>2 DEF MatchInv, CollectivesMatch
  <2>2. QED
    BY <2>1 DEF OpenSlots
<1>5. n + 1 \in OpenSlots(s) /\ n + 1 \notin OpenSlots(r)
  BY <1>1, <1>2, <1>3 DEF OpenSlots
<1>6. IsFiniteSet(OpenSlots(s))
  <2>1. IsFiniteSet(1 .. m)
    BY <1>1, FS_Interval
  <2>2. OpenSlots(s) \subseteq 1 .. m
    BY DEF OpenSlots
  <2>3. QED
    BY <2>1, <2>2, FS_Subset
<1>7. Cardinality(OpenSlots(s)) = Cardinality(OpenSlots(r))
  BY DEF CountInv, Counted
<1>8. OpenSlots(s) = OpenSlots(r)
  BY <1>4, <1>6, <1>7, FS_Subset
<1>9. QED
  BY <1>5, <1>8

\* The requests rank r has visualized in its first n collectives.
VizReqs(r, n) == {calls[r][i].req : i \in {j \in VizSlots(r) : j <= n}}

\* A visualization of one rank is one of every rank that has made as many
\* collectives.
LEMMA SameViz ==
  ASSUME TypeInv, CollectivesMatch, SameRequest,
         NEW r \in Rank, NEW s \in Rank, NEW n \in Nat, n <= Len(calls[s])
  PROVE  VizReqs(r, n) \subseteq VizReqs(s, n)
<1>0. Len(calls[r]) \in Nat /\ Len(calls[s]) \in Nat
  BY DEF TypeInv, TypeOK
<1>1. ASSUME NEW i \in VizSlots(r), i <= n
      PROVE  i \in VizSlots(s) /\ calls[s][i].req = calls[r][i].req
  <2>1. i \in 1 .. Len(calls[r]) /\ i \in 1 .. Len(calls[s])
    BY <1>0, <1>1 DEF VizSlots
  <2>2. calls[s][i].kind = calls[r][i].kind
    BY <1>0, <2>1 DEF CollectivesMatch
  <2>3. i \in VizSlots(s)
    BY <2>1, <2>2 DEF VizSlots
  <2>4. /\ calls[r][i - 1].req = calls[r][i].req
        /\ calls[r][i - 1].req = calls[s][i].req
    BY <2>3 DEF SameRequest
  <2>5. QED
    BY <2>3, <2>4
<1>2. QED
  BY <1>1 DEF VizReqs

LEMMA AllViz ==
  ASSUME TypeInv, NEW r \in Rank
  PROVE  Started(r) = VizReqs(r, Len(calls[r]))
<1>1. \A j \in VizSlots(r) : j <= Len(calls[r])
  BY DEF VizSlots
<1>2. VizSlots(r) = {j \in VizSlots(r) : j <= Len(calls[r])}
  BY <1>1
<1>3. QED
  BY <1>2 DEF Started, VizReqs

LEMMA SameStarted ==
  ASSUME TypeInv, CollectivesMatch, SameRequest,
         NEW r \in Rank, NEW s \in Rank, Len(calls[r]) = Len(calls[s])
  PROVE  Started(r) \subseteq Started(s)
<1>1. Len(calls[r]) \in Nat
  BY DEF TypeInv, TypeOK
<1>2. VizReqs(r, Len(calls[r])) \subseteq VizReqs(s, Len(calls[r]))
  BY <1>1, SameViz
<1>3. QED
  BY <1>2, AllViz

\* Requests with timestamps of their own have one earliest, so that a queue is
\* known by what it holds.
DistinctTs == \A a, b \in Req : Ts[a] = Ts[b] => a = b

LEMMA OneQueue ==
  ASSUME DistinctTs, NEW Q \in Queue, NEW R \in Queue, WellFormed(Q), WellFormed(R),
         Q.items = R.items
  PROVE  Q = R
<1>1. Q = [items |-> Q.items, top |-> Q.top] /\ R = [items |-> R.items, top |-> R.top]
  BY DEF Queue
<1>2. CASE Q.items = {}
  BY <1>1, <1>2 DEF WellFormed
<1>3. CASE Q.items # {}
  <2>1. /\ Q.top \in Q.items /\ R.top \in Q.items
        /\ ~(Ts[Q.top] > Ts[R.top]) /\ ~(Ts[R.top] > Ts[Q.top])
    BY <1>3 DEF WellFormed, Earliest, Compare
  <2>2. /\ Q.top \in Req /\ R.top \in Req
        /\ Ts[Q.top] \in Nat /\ Ts[R.top] \in Nat
    BY <2>1, QueueAssumption DEF Queue
  <2>3. Q.top = R.top
    BY <2>1, <2>2 DEF DistinctTs
  <2>4. QED
    BY <1>1, <2>3
<1>4. QED
  BY <1>2, <1>3

LEMMA AgreeLemma ==
  ASSUME Teardown = FALSE, SumTestExact, DistinctTs, TypeInv, PendRuns, NodesStay,
         AccountInv, Regime => MatchInv, Unasked => SameRequest, Unasked => CountInv
  PROVE  QueuesAgree
<1> SUFFICES ASSUME Unasked, \A r \in Rank : Idle(r),
                    \A r \in Rank, q \in Req : ope[r][q] \in {"pushed", "failed"}
             PROVE  \A r, s \in Rank : pq[r] = pq[s]
  BY DEF QueuesAgree, Unasked
<1>1. \A r \in Rank : Handled(r) = Req
  BY DEF Handled, NodesStay
<1>2. SumTestSound
  BY DEF SumTestExact, SumTestSound
<1>3. Regime /\ MatchInv
  BY <1>2 DEF Regime
<1>4. \A r, s \in Rank : Started(r) = Started(s)
  <2>1. CASE mode = "LAZY"
    <3>1. \A r \in Rank : Started(r) = {}
      BY <2>1 DEF CountInv, Started, VizSlots
    <3>2. QED
      BY <3>1
  <2>2. CASE mode # "LAZY"
    <3>1. \A r, s \in Rank : Len(calls[r]) = Len(calls[s])
      <4>1. \A r, s \in Rank : Len(calls[s]) <= Len(calls[r])
        BY <1>1, <1>3, <2>2, NotShorter
      <4>2. \A r \in Rank : Len(calls[r]) \in Nat
        BY DEF TypeInv, TypeOK
      <4>3. QED
        BY <4>1, <4>2
    <3>2. CollectivesMatch
      BY <1>3 DEF MatchInv
    <3>3. \A r, s \in Rank : Started(r) \subseteq Started(s)
      BY <3>1, <3>2, SameStarted
    <3>4. QED
      BY <3>3
  <2>3. QED
    BY <2>1, <2>2
<1>5. \A r \in Rank : pq[r].items = Req \ Started(r)
  <2> SUFFICES ASSUME NEW r \in Rank PROVE pq[r].items = Req \ Started(r)
    OBVIOUS
  <2>1. Popped(r) = Started(r)
    BY DEF Popped, Started
  <2>2. pq[r].items \subseteq Req
    BY DEF TypeInv, TypeOK, Queue
  <2>3. \A q \in Req : (q \in pq[r].items) # (q \in Started(r))
    BY <1>1, <2>1 DEF AccountInv, AccountedAt, Placed, Handled
  <2>4. QED
    BY <2>2, <2>3
<1>6. ASSUME NEW r \in Rank, NEW s \in Rank PROVE pq[r] = pq[s]
  <2>1. /\ pq[r] \in Queue /\ WellFormed(pq[r])
        /\ pq[s] \in Queue /\ WellFormed(pq[s])
    BY DEF TypeInv, TypeOK
  <2>2. pq[r].items = pq[s].items
    BY <1>4, <1>5
  <2>3. QED
    BY <2>1, <2>2, OneQueue
<1>7. QED
  BY <1>6

\* Once every request has been handled, what a pending call will find in the queues
\* is the same on all ranks, whatever the mode and the order the requests came in.
THEOREM QueuesAlwaysAgree ==
  Teardown = FALSE /\ SumTestExact /\ DistinctTs /\ Spec => []QueuesAgree
<1> DEFINE Facts == Teardown = FALSE /\ SumTestExact /\ DistinctTs
           IInv == /\ TypeInv /\ PendRuns /\ AccountInv /\ NodesStay
                   /\ Regime => MatchInv
                   /\ Unasked => TopInv /\ SameRequest /\ CountInv
<1>1. Init => IInv
  BY InitType, InitPendRuns, InitAccount, InitNodes, InitMatch, InitSame, InitCount
<1>2. Facts /\ IInv /\ [Next]_vars => IInv'
  <2> SUFFICES ASSUME Facts, IInv, [Next]_vars PROVE IInv'
    OBVIOUS
  <2>1. /\ TypeInv' /\ PendRuns' /\ AccountInv' /\ NodesStay'
        /\ Unasked' => Unasked
    BY NextType, NextPendRuns, NextAccount, NextNodes DEF TypeInv
  <2>2. (Regime => MatchInv)'
    BY <2>1, NextMatch, SameMode DEF Regime
  <2>3. (Unasked => TopInv /\ SameRequest)'
    BY <2>1, UnaskedSame, NextSame
  <2>4. (Unasked => CountInv)'
    BY <2>1, NextCount
  <2>5. QED
    BY <2>1, <2>2, <2>3, <2>4
<1>3. Facts /\ IInv => QueuesAgree
  BY AgreeLemma
<1>4. Facts => []Facts
  BY DEF SumTestExact, DistinctTs
<1>5. QED
  <2> HIDE DEF IInv
  <2> QED  BY <1>1, <1>2, <1>3, <1>4, PTL DEF Spec

-----------------------------------------------------------------------------
(***************************************************************************)
(* Pending calls, when they are made after all requests are queued.  The   *)
(* ranks of a server make the first B collectives for the handlers of the  *)
(* requests (Base), and those after them for the handlers of the pending   *)
(* calls, which reduce and visualize in turn (Beyond).  Which handler it   *)
(* is makes no difference before B, and after B neither do its answers: a  *)
(* rank in A has begun its pending calls, the others are still on the way  *)
(* to B, and never get past it on their own because the ranks in A did not.*)
(***************************************************************************)
Asked(r) == \E p \in Pend : pend[r][p] = "started"

\* Up to B the collectives follow the protocol of the requests' handlers.
Rounds(r, B) ==
  /\ B > 0 /\ calls[r] # <<>> => calls[r][1].kind = Opening
  /\ \A i \in 1 .. Len(calls[r]) - 1 :
       i < B => Done(r, i) /\ calls[r][i + 1].kind = Follow(r, i)
  /\ mode = "EAGER" =>
       \A i \in 1 .. Len(calls[r]) : calls[r][i].kind # "bcast"

\* A rank that has begun its pending calls finished those of the requests at B.
Ahead(r, B) ==
  /\ Len(calls[r]) >= B
  /\ B > 0 => Done(r, B) /\ Follow(r, B) = Opening

\* The others are in the last round before B: ranks in A opened no later one.
Behind(r, A, B) ==
  /\ Len(calls[r]) <= B
  /\ \A a \in A : \A i \in Len(calls[r]) + 1 .. B : calls[a][i].kind # Opening

Base(A, B) ==
  /\ mode = "LAZY" => B = 0
  /\ \A r \in Rank : Rounds(r, B)
  /\ \A r \in A : Ahead(r, B)
  /\ \A r \in Rank \ A : Behind(r, A, B)

\* The kind of the collective a handler of a pending call makes after n ones.
Turn(r, B, n) ==
  IF n > B /\ calls[r][n].kind = "allreduce" THEN "viz" ELSE "allreduce"

\* After B ranks reduce and visualize in turn, always the earliest request left.
Beyond(B) ==
  \A r \in Rank : \A i \in 1 .. Len(calls[r]) :
    i > B =>
      /\ calls[r][i].kind = Turn(r, B, i - 1)
      /\ calls[r][i].kind = "allreduce" =>
           calls[r][i].req \in Earliest(Req \ VizReqs(r, i - 1))

\* Where the handlers of rank r are.
Place(r, A, B) ==
  /\ r \in A => running[r] \notin Req /\ (Idle(r) => pq[r].items = {})
  /\ r \notin A /\ Idle(r) => Settled(r)
  /\ running[r] \in Pend => r \in A /\ Len(calls[r]) > B

PendInv ==
  /\ AllQueued
  /\ \E A \in SUBSET Rank, B \in Nat :
       /\ A # {}
       /\ \A r \in Rank : r \in A <=> Asked(r)
       /\ Base(A, B)
       /\ Beyond(B)
       /\ \A r \in Rank : Place(r, A, B)

\* A rank that has not begun its pending calls goes on to a collective that the
\* ranks in A have made.
LEMMA EnterBase ==
  ASSUME SumTestSound, TypeInv, UNCHANGED mode, CollectivesMatch,
         NEW A \in SUBSET Rank, A # {}, NEW B \in Nat, Base(A, B), Beyond(B),
         NEW r \in Rank \ A, calls[r] # <<>>,
         NEW kind \in Kind \ {Opening, "bcast"}, NEW q \in Req, NEW exec \in BOOLEAN,
         Enter(r, kind, q, exec),
         Done(r, Len(calls[r])), kind = Follow(r, Len(calls[r]))
  PROVE  Base(A, B)' /\ Beyond(B)' /\ CollectivesMatch'
<1> DEFINE n == Len(calls[r])
<1> Opening' = Opening
  BY DEF Opening
<1>0. kind \in Kind /\ kind # Opening /\ kind # "bcast"
  OBVIOUS
<1>1. ASSUME NEW s \in Rank
      PROVE  /\ Len(calls[s]) \in Nat /\ Len(calls'[s]) \in Nat
             /\ Len(calls'[s]) >= Len(calls[s])
             /\ \A i \in 1 .. Len(calls[s]) : calls'[s][i] = calls[s][i]
             /\ calls[s] = <<>> <=> Len(calls[s]) = 0
             /\ \A i \in 1 .. Len(calls'[s]) :
                  i \in 1 .. Len(calls[s]) \/ (s = r /\ i = n + 1)
  BY <1>0, EnterPrefix DEF TypeInv, TypeOK
<1>2. /\ n \in Nat
      /\ Len(calls'[r]) = n + 1
      /\ calls'[r][n + 1].kind = kind
      /\ \A s \in Rank \ {r} : calls'[s] = calls[s]
  BY <1>0, EnterCalls DEF TypeInv, TypeOK
<1>3. n > 0 /\ n <= B /\ n \in 1 .. n
  BY <1>1, <1>2 DEF Base, Behind
<1>4. PICK a \in A : TRUE
  OBVIOUS
<1>5. ASSUME NEW s \in Rank, n \in 1 .. Len(calls[s])
      PROVE  Follow(s, n) = kind
  <2>1. calls[s][n].kind = calls[r][n].kind
    BY <1>1, <1>3, <1>5 DEF CollectivesMatch
  <2>2. QED
    BY <1>2, <1>3, <1>5, <2>1, SameFollow
<1>6. n < B
  <2>1. Len(calls[a]) >= B /\ Follow(a, B) = Opening
    BY <1>3, <1>4 DEF Base, Ahead
  <2>2. CASE n = B
    <3>1. n \in 1 .. Len(calls[a])
      BY <1>1, <1>3, <1>4, <2>1
    <3>2. QED
      BY <1>0, <1>5, <2>1, <2>2, <3>1
  <2>3. QED
    BY <1>2, <1>3, <2>2
<1>7. CollectivesMatch'
  <2>1. ASSUME NEW s \in Rank \ {r}, Len(calls[s]) > n
        PROVE  calls[s][n + 1].kind = kind
    <3>1. n \in 1 .. Len(calls[s]) - 1 /\ n \in 1 .. Len(calls[s])
      BY <1>1, <1>3, <2>1
    <3>2. calls[s][n + 1].kind = Follow(s, n)
      BY <1>6, <3>1 DEF Base, Rounds
    <3>3. QED
      BY <1>5, <3>1, <3>2
  <2>2. QED
    BY <1>0, <2>1, EnterKind
<1>8. Beyond(B)'
  <2> SUFFICES ASSUME NEW s \in Rank, NEW i \in 1 .. Len(calls'[s]), i > B
               PROVE  /\ calls'[s][i].kind = Turn(s, B, i - 1)'
                      /\ calls'[s][i].kind = "allreduce" =>
                           calls'[s][i].req \in Earliest(Req \ VizReqs(s, i - 1)')
    BY DEF Beyond, Earliest
  <2>1. s # r
    BY <1>1, <1>2, <1>6
  <2>2. calls'[s] = calls[s] /\ i \in 1 .. Len(calls[s])
    BY <1>2, <2>1
  <2>3. VizReqs(s, i - 1)' = VizReqs(s, i - 1)
    BY <2>2 DEF VizReqs, VizSlots
  <2>4. Turn(s, B, i - 1)' = Turn(s, B, i - 1)
    BY <2>2 DEF Turn
  <2>5. QED
    BY <2>2, <2>3, <2>4 DEF Beyond
<1>9. ASSUME NEW s \in Rank, NEW i \in 1 .. Len(calls'[s]) - 1, i < B
      PROVE  Done(s, i)' /\ calls'[s][i + 1].kind = Follow(s, i)'
  <2>1. ASSUME NEW t \in Rank, NEW j \in 1 .. Len(calls[t]), Done(t, j)
        PROVE  Done(t, j)' /\ Follow(t, j)' = Follow(t, j)
    BY <1>0, <2>1, EnterDone
  <2>2. CASE i \in 1 .. Len(calls[s]) - 1
    <3>1. Done(s, i) /\ calls[s][i + 1].kind = Follow(s, i)
      BY <1>9, <2>2 DEF Base, Rounds
    <3>2. i \in 1 .. Len(calls[s]) /\ i + 1 \in 1 .. Len(calls[s])
      BY <1>1, <2>2
    <3>3. Done(s, i)' /\ Follow(s, i)' = Follow(s, i)
      BY <2>1, <3>1, <3>2
    <3>4. calls'[s][i + 1] = calls[s][i + 1]
      BY <1>1, <3>2
    <3>5. QED
      BY <3>1, <3>3, <3>4
  <2>3. CASE i \notin 1 .. Len(calls[s]) - 1
    <3>1. s = r /\ i = n
      BY <1>1, <1>2, <1>9, <2>3
    <3>2. i \in 1 .. Len(calls[s]) /\ Done(s, i) /\ kind = Follow(s, i)
      BY <1>3, <3>1
    <3>3. Done(s, i)' /\ Follow(s, i)' = Follow(s, i)
      BY <2>1, <3>2
    <3>4. calls'[s][i + 1].kind = kind
      BY <1>2, <3>1
    <3>5. QED
      BY <3>2, <3>3, <3>4
  <2>4. QED
    BY <2>2, <2>3
<1>10. ASSUME NEW s \in Rank PROVE Rounds(s, B)'
  <2>1. calls'[s] # <<>> => calls'[s][1].kind = Opening
    <3>1. CASE calls'[s] # <<>>
      <4>1. calls[s] # <<>> /\ 1 \in 1 .. Len(calls[s])
        BY <1>1, <1>2, <1>3, <3>1
      <4>2. calls[s][1].kind = Opening
        BY <1>6, <1>2, <4>1 DEF Base, Rounds
      <4>3. QED
        BY <1>1, <4>1, <4>2
    <3>2. QED
      BY <3>1
  <2>2. ASSUME mode = "EAGER", NEW i \in 1 .. Len(calls'[s])
        PROVE  calls'[s][i].kind # "bcast"
    <3>1. CASE i \in 1 .. Len(calls[s])
      <4>1. calls[s][i].kind # "bcast"
        BY <2>2, <3>1 DEF Base, Rounds
      <4>2. QED
        BY <1>1, <3>1, <4>1
    <3>2. CASE s = r /\ i = n + 1
      BY <1>0, <1>2, <3>2
    <3>3. QED
      BY <1>1, <3>1, <3>2
  <2>3. QED
    BY <1>9, <2>1, <2>2 DEF Rounds
<1>11. ASSUME NEW s \in A PROVE Ahead(s, B)'
  <2>1. /\ Len(calls[s]) >= B /\ B \in 1 .. Len(calls[s])
        /\ Done(s, B) /\ Follow(s, B) = Opening
    BY <1>1, <1>6, <1>2 DEF Base, Ahead
  <2>2. Done(s, B)' /\ Follow(s, B)' = Follow(s, B)
    BY <1>0, <2>1, EnterDone
  <2>3. QED
    BY <1>1, <2>1, <2>2 DEF Ahead
<1>12. ASSUME NEW s \in Rank \ A PROVE Behind(s, A, B)'
  <2>1. Len(calls'[s]) <= B
    BY <1>2, <1>6 DEF Base, Behind
  <2>2. ASSUME NEW b \in A, NEW i \in Len(calls'[s]) + 1 .. B
        PROVE  calls'[b][i].kind # Opening
    <3>1. i \in Len(calls[s]) + 1 .. B
      BY <1>1
    <3>2. calls[b][i].kind # Opening
      BY <3>1 DEF Base, Behind
    <3>3. b # r /\ b \in Rank
      OBVIOUS
    <3>4. QED
      BY <1>2, <3>2, <3>3
  <2>3. QED
    BY <2>1, <2>2 DEF Behind
<1>13. (mode = "LAZY" => B = 0)'
  BY DEF Base
<1>14. Base(A, B)'
  BY <1>10, <1>11, <1>12, <1>13 DEF Base
<1>15. QED
  BY <1>7, <1>8, <1>14

\* What a rank has visualized up to some collective is settled.
LEMMA EnterViz ==
  ASSUME TypeInv, NEW r \in Rank, NEW kind \in Kind, NEW q \in Req,
         NEW exec \in BOOLEAN, Enter(r, kind, q, exec),
         NEW s \in Rank, NEW n \in Nat, n <= Len(calls[s])
  PROVE  VizReqs(s, n)' = VizReqs(s, n)
<1>1. /\ Len(calls[s]) \in Nat /\ Len(calls'[s]) \in Nat
      /\ Len(calls'[s]) >= Len(calls[s])
      /\ \A i \in 1 .. Len(calls[s]) : calls'[s][i] = calls[s][i]
  BY EnterPrefix DEF TypeInv, TypeOK
<1> DEFINE V == {j \in VizSlots(s) : j <= n}
           W == {j \in 1 .. Len(calls'[s]) : calls'[s][j].kind = "viz" /\ j <= n}
<1>2. \A j : j \in V <=> j \in W
  BY <1>1 DEF VizSlots
<1>3. V = W /\ \A j \in V : calls'[s][j] = calls[s][j]
  BY <1>1, <1>2 DEF VizSlots
<1>4. /\ VizReqs(s, n) = {calls[s][i].req : i \in V}
      /\ VizReqs(s, n)' = {calls'[s][i].req : i \in {j \in VizSlots(s)' : j <= n}}
  BY DEF VizReqs
<1>5. {j \in VizSlots(s)' : j <= n} = W
  BY DEF VizSlots
<1>6. QED
  BY <1>3, <1>4, <1>5

\* A rank that has begun its pending calls goes on in turn.
LEMMA EnterBeyond ==
  ASSUME TypeInv, UNCHANGED mode, CollectivesMatch,
         NEW A \in SUBSET Rank, NEW B \in Nat, Base(A, B), Beyond(B), NEW r \in A,
         NEW kind \in Kind, NEW q \in Req, NEW exec \in BOOLEAN,
         Enter(r, kind, q, exec), kind = Turn(r, B, Len(calls[r])),
         kind = "allreduce" => q \in Earliest(Req \ Started(r))
  PROVE  Base(A, B)' /\ Beyond(B)' /\ CollectivesMatch'
<1> DEFINE n == Len(calls[r])
<1> Opening' = Opening
  BY DEF Opening
<1>1. ASSUME NEW s \in Rank
      PROVE  /\ Len(calls[s]) \in Nat /\ Len(calls'[s]) \in Nat
             /\ Len(calls'[s]) >= Len(calls[s])
             /\ \A i \in 1 .. Len(calls[s]) : calls'[s][i] = calls[s][i]
             /\ calls[s] = <<>> <=> Len(calls[s]) = 0
             /\ \A i \in 1 .. Len(calls'[s]) :
                  i \in 1 .. Len(calls[s]) \/ (s = r /\ i = n + 1)
  BY EnterPrefix DEF TypeInv, TypeOK
<1>2. /\ n \in Nat
      /\ Len(calls'[r]) = n + 1
      /\ calls'[r][n + 1].kind = kind
      /\ calls'[r][n + 1].req = q
      /\ \A s \in Rank \ {r} : calls'[s] = calls[s]
  BY EnterCalls DEF TypeInv, TypeOK
<1>3. n >= B /\ r \in Rank
  BY DEF Base, Ahead
<1>4. kind # "bcast"
  BY DEF Turn
<1>5. ASSUME NEW s \in A PROVE Len(calls[s]) >= B /\ Ahead(s, B)
  BY DEF Base, Ahead
<1>6. CollectivesMatch'
  <2>1. ASSUME NEW s \in Rank \ {r}, Len(calls[s]) > n
        PROVE  calls[s][n + 1].kind = kind
    <3>1. n + 1 \in 1 .. Len(calls[s]) /\ n + 1 > B /\ (n + 1) - 1 = n
      BY <1>1, <1>2, <1>3, <2>1
    <3>2. calls[s][n + 1].kind = Turn(s, B, n)
      BY <3>1 DEF Beyond
    <3>3. n > B => calls[s][n].kind = calls[r][n].kind
      BY <1>1, <1>2, <1>3, <2>1 DEF CollectivesMatch
    <3>4. QED
      BY <3>2, <3>3 DEF Turn
  <2>2. QED
    BY <1>3, <2>1, EnterKind
<1>7. Beyond(B)'
  <2> SUFFICES ASSUME NEW s \in Rank, NEW i \in 1 .. Len(calls'[s]), i > B
               PROVE  /\ calls'[s][i].kind = Turn(s, B, i - 1)'
                      /\ calls'[s][i].kind = "allreduce" =>
                           calls'[s][i].req \in Earliest(Req \ VizReqs(s, i - 1)')
    BY DEF Beyond, Earliest
  <2>1. i - 1 \in Nat /\ i - 1 <= Len(calls[s])
    BY <1>1, <1>2
  <2>2. VizReqs(s, i - 1)' = VizReqs(s, i - 1)
    <3>1. ASSUME NEW m \in Nat, m <= Len(calls[s])
          PROVE  VizReqs(s, m)' = VizReqs(s, m)
      BY <1>3, <3>1, EnterViz
    <3>2. QED
      BY <2>1, <3>1
  <2>3. Turn(s, B, i - 1)' = Turn(s, B, i - 1)
    <3>1. CASE i - 1 > B
      <4>1. i - 1 \in 1 .. Len(calls[s])
        BY <2>1, <3>1
      <4>2. QED
        BY <1>1, <4>1 DEF Turn
    <3>2. CASE ~(i - 1 > B)
      BY <3>2 DEF Turn
    <3>3. QED
      BY <3>1, <3>2
  <2>4. CASE i \in 1 .. Len(calls[s])
    <3>1. /\ calls[s][i].kind = Turn(s, B, i - 1)
          /\ calls[s][i].kind = "allreduce" =>
               calls[s][i].req \in Earliest(Req \ VizReqs(s, i - 1))
      BY <2>4 DEF Beyond
    <3>2. calls'[s][i] = calls[s][i]
      BY <1>1, <2>4
    <3>3. QED
      BY <2>2, <2>3, <3>1, <3>2
  <2>5. CASE s = r /\ i = n + 1
    <3>1. i - 1 = n
      BY <1>2, <2>5
    <3>2. Started(r) = VizReqs(r, n)
      BY <1>3, AllViz
    <3>3. QED
      BY <1>2, <2>2, <2>3, <2>5, <3>1, <3>2
  <2>6. QED
    BY <1>1, <2>4, <2>5
<1>8. ASSUME NEW s \in Rank PROVE Rounds(s, B)'
  <2>1. B > 0 /\ calls'[s] # <<>> => calls'[s][1].kind = Opening
    <3>1. CASE B > 0 /\ calls'[s] # <<>>
      <4>1. calls[s] # <<>> /\ 1 \in 1 .. Len(calls[s])
        BY <1>1, <1>2, <1>3, <3>1
      <4>2. calls[s][1].kind = Opening
        BY <3>1, <4>1 DEF Base, Rounds
      <4>3. QED
        BY <1>1, <4>1, <4>2
    <3>2. QED
      BY <3>1
  <2>2. ASSUME NEW i \in 1 .. Len(calls'[s]) - 1, i < B
        PROVE  Done(s, i)' /\ calls'[s][i + 1].kind = Follow(s, i)'
    <3>1. i \in 1 .. Len(calls[s]) - 1 /\ i \in 1 .. Len(calls[s])
                                      /\ i + 1 \in 1 .. Len(calls[s])
      BY <1>1, <1>2, <1>3, <2>2
    <3>2. Done(s, i) /\ calls[s][i + 1].kind = Follow(s, i)
      BY <2>2, <3>1 DEF Base, Rounds
    <3>3. Done(s, i)' /\ Follow(s, i)' = Follow(s, i)
      BY <1>3, <3>1, <3>2, EnterDone
    <3>4. QED
      BY <1>1, <3>1, <3>2, <3>3
  <2>3. ASSUME mode = "EAGER", NEW i \in 1 .. Len(calls'[s])
        PROVE  calls'[s][i].kind # "bcast"
    <3>1. CASE i \in 1 .. Len(calls[s])
      <4>1. calls[s][i].kind # "bcast"
        BY <2>3, <3>1 DEF Base, Rounds
      <4>2. QED
        BY <1>1, <3>1, <4>1
    <3>2. CASE s = r /\ i = n + 1
      BY <1>2, <1>4, <3>2
    <3>3. QED
      BY <1>1, <3>1, <3>2
  <2>4. QED
    BY <2>1, <2>2, <2>3 DEF Rounds
<1>9. ASSUME NEW s \in A PROVE Ahead(s, B)'
  <2>1. CASE B > 0
    <3>1. B \in 1 .. Len(calls[s]) /\ Done(s, B) /\ Follow(s, B) = Opening
      BY <1>1, <1>5, <2>1 DEF Ahead
    <3>2. Done(s, B)' /\ Follow(s, B)' = Follow(s, B)
      BY <1>3, <3>1, EnterDone
    <3>3. QED
      BY <1>1, <1>5, <3>1, <3>2 DEF Ahead
  <2>2. CASE ~(B > 0)
    BY <1>1, <1>5, <2>2 DEF Ahead
  <2>3. QED
    BY <2>1, <2>2
<1>10. ASSUME NEW s \in Rank \ A PROVE Behind(s, A, B)'
  <2>1. calls'[s] = calls[s] /\ Behind(s, A, B)
    BY <1>2 DEF Base
  <2>2. ASSUME NEW b \in A, NEW i \in Len(calls[s]) + 1 .. B
        PROVE  calls'[b][i].kind # Opening
    <3>1. i \in 1 .. Len(calls[b])
      BY <1>1, <1>5
    <3>2. calls[b][i].kind # Opening
      BY <2>1 DEF Behind
    <3>3. QED
      BY <1>1, <3>1, <3>2
  <2>3. QED
    BY <2>1, <2>2 DEF Behind
<1>11. (mode = "LAZY" => B = 0)'
  BY DEF Base
<1>12. Base(A, B)'
  BY <1>8, <1>9, <1>10, <1>11 DEF Base
<1>13. QED
  BY <1>6, <1>7, <1>12

\* A step that enters no collective.
LEMMA SameBase ==
  ASSUME UNCHANGED <<mode, calls>>, NEW A \in SUBSET Rank, NEW B,
         Base(A, B), Beyond(B)
  PROVE  Base(A, B)' /\ Beyond(B)'
<1>1. ASSUME NEW s \in Rank
      PROVE  /\ Opening' = Opening
             /\ \A i : (Done(s, i)' <=> Done(s, i)) /\ Follow(s, i)' = Follow(s, i)
  BY SameDone
<1>2. ASSUME NEW s \in Rank PROVE Rounds(s, B)'
  BY <1>1 DEF Base, Rounds
<1>3. ASSUME NEW s \in A PROVE Ahead(s, B)'
  BY <1>1 DEF Base, Ahead
<1>4. ASSUME NEW s \in Rank \ A PROVE Behind(s, A, B)'
  BY <1>1 DEF Base, Behind
<1>5. (mode = "LAZY" => B = 0)'
  BY DEF Base
<1>6. Base(A, B)'
  BY <1>2, <1>3, <1>4, <1>5 DEF Base
<1>7. Beyond(B)'
  BY DEF Beyond, Turn, VizReqs, VizSlots, Earliest
<1>8. QED
  BY <1>6, <1>7

\* A rank that has handled all requests is at B, and may begin its pending calls.
LEMMA Arrive ==
  ASSUME SumTestSound, TypeInv, CollectivesMatch,
         NEW A \in SUBSET Rank, A # {}, NEW B \in Nat, Base(A, B),
         NEW r \in Rank \ A, Settled(r)
  PROVE  Len(calls[r]) = B /\ Base(A \cup {r}, B)
<1> DEFINE n == Len(calls[r])
<1>1. \A s \in Rank : Len(calls[s]) \in Nat /\ (calls[s] = <<>> <=> Len(calls[s]) = 0)
  BY DEF TypeInv, TypeOK
<1>2. n <= B /\ \A a \in A : \A i \in n + 1 .. B : calls[a][i].kind # Opening
  BY DEF Base, Behind
<1>3. \A a \in A : Len(calls[a]) >= B
  BY DEF Base, Ahead
<1>4. n = B
  <2>1. SUFFICES ASSUME n < B PROVE FALSE
    BY <1>1, <1>2
  <2>2. PICK a \in A : TRUE
    OBVIOUS
  <2>3. n + 1 \in n + 1 .. B /\ a \in Rank /\ Len(calls[a]) >= n + 1
    BY <1>1, <1>3, <2>1
  <2>4. calls[a][n + 1].kind # Opening
    BY <1>2, <2>3
  <2>5. CASE n = 0
    <3>1. calls[a] # <<>> /\ B > 0
      BY <1>1, <2>1, <2>3, <2>5
    <3>2. QED
      BY <2>3, <2>4, <2>5, <3>1 DEF Base, Rounds
  <2>6. CASE n # 0
    <3>1. n \in 1 .. Len(calls[a]) - 1 /\ n \in 1 .. n /\ n \in 1 .. Len(calls[a])
      BY <1>1, <2>3, <2>6
    <3>2. calls[a][n + 1].kind = Follow(a, n)
      BY <2>1, <2>3, <3>1 DEF Base, Rounds
    <3>3. Done(r, n) /\ Follow(r, n) = Opening
      BY <1>1, <2>6 DEF Settled
    <3>4. calls[a][n].kind = calls[r][n].kind
      BY <1>1, <2>3, <3>1 DEF CollectivesMatch
    <3>5. Follow(a, n) = Follow(r, n)
      BY <2>3, <3>1, <3>3, <3>4, SameFollow
    <3>6. QED
      BY <2>4, <3>2, <3>3, <3>5
  <2>7. QED
    BY <2>5, <2>6
<1>5. Ahead(r, B)
  BY <1>1, <1>4 DEF Ahead, Settled
<1>6. ASSUME NEW s \in Rank \ (A \cup {r}) PROVE Behind(s, A \cup {r}, B)
  <2>1. Behind(s, A, B)
    BY DEF Base
  <2>2. ASSUME NEW i \in Len(calls[s]) + 1 .. B PROVE calls[r][i].kind # Opening
    <3>1. PICK a \in A : TRUE
      OBVIOUS
    <3>2. a \in Rank /\ i \in 1 .. Len(calls[r]) /\ i <= Len(calls[a])
      BY <1>1, <1>3, <1>4
    <3>3. calls[r][i].kind = calls[a][i].kind
      BY <3>2 DEF CollectivesMatch
    <3>4. QED
      BY <2>1, <3>3 DEF Behind
  <2>3. QED
    BY <2>1, <2>2 DEF Behind
<1>7. QED
  BY <1>4, <1>5, <1>6 DEF Base

\* The first pending call to start finds its rank ahead of the others, in a round
\* that they have opened too.
LEMMA First ==
  ASSUME SumTestSound, Unasked, TypeInv, MatchInv, CountInv,
         \A s \in Rank : Handled(s) = Req, NEW r \in Rank, Idle(r),
         NEW B, B = Len(calls[r])
  PROVE  Base({r}, B) /\ Beyond(B)
<1>1. \A s \in Rank : Len(calls[s]) \in Nat /\ (calls[s] = <<>> <=> Len(calls[s]) = 0)
  BY DEF TypeInv, TypeOK
<1>2. mode = "LAZY" => \A s \in Rank : calls[s] = <<>>
  BY DEF CountInv
<1>3. \A s \in Rank : Len(calls[s]) <= B
  <2>1. CASE mode = "LAZY"
    BY <1>1, <1>2, <2>1
  <2>2. CASE mode # "LAZY"
    BY <2>2, NotShorter DEF Regime
  <2>3. QED
    BY <2>1, <2>2
<1>4. ASSUME NEW s \in Rank PROVE Rounds(s, B)
  <2>1. CASE mode = "LAZY"
    BY <1>1, <1>2, <2>1 DEF Rounds
  <2>2. CASE mode # "LAZY"
    BY <2>2 DEF Rounds, MatchInv, Protocol, CountInv, Counted
  <2>3. QED
    BY <2>1, <2>2
<1>5. Ahead(r, B)
  <2>1. Settled(r)
    BY DEF MatchInv
  <2>2. QED
    BY <1>1, <2>1 DEF Ahead, Settled
<1>6. ASSUME NEW s \in Rank \ {r} PROVE Behind(s, {r}, B)
  <2>1. CASE mode = "LAZY"
    BY <1>1, <1>2, <2>1 DEF Behind
  <2>2. CASE mode # "LAZY"
    <3>1. \A t \in Rank : Counted(t)
      BY <2>2 DEF CountInv
    <3>2. OpenSlots(s) \subseteq OpenSlots(r)
      <4>1. ASSUME NEW i \in 1 .. Len(calls[s])
            PROVE  i \in 1 .. Len(calls[r]) /\ calls[s][i].kind = calls[r][i].kind
        BY <1>1, <1>3 DEF MatchInv, CollectivesMatch
      <4>2. QED
        BY <4>1 DEF OpenSlots
    <3>3. IsFiniteSet(OpenSlots(r))
      <4>1. B \in Nat /\ OpenSlots(r) \subseteq 1 .. B
        BY <1>1 DEF OpenSlots
      <4>2. IsFiniteSet(1 .. B)
        BY <4>1, FS_Interval
      <4>3. QED
        BY <4>1, <4>2, FS_Subset
    <3>4. Cardinality(OpenSlots(s)) = Cardinality(OpenSlots(r))
      BY <3>1 DEF Counted
    <3>5. OpenSlots(s) = OpenSlots(r)
      BY <3>2, <3>3, <3>4, FS_Subset
    <3>6. ASSUME NEW i \in Len(calls[s]) + 1 .. B PROVE calls[r][i].kind # Opening
      <4>1. i \in 1 .. Len(calls[r]) /\ i \notin 1 .. Len(calls[s])
        BY <1>1
      <4>2. i \notin OpenSlots(r)
        BY <3>5, <4>1 DEF OpenSlots
      <4>3. QED
        BY <4>1, <4>2 DEF OpenSlots
    <3>7. QED
      BY <1>3, <3>6 DEF Behind
  <2>3. QED
    BY <2>1, <2>2
<1>7. Base({r}, B)
  BY <1>1, <1>2, <1>4, <1>5, <1>6 DEF Base
<1>8. Beyond(B)
  BY <1>1, <1>3 DEF Beyond
<1>9. QED
  BY <1>7, <1>8

\* The reductions of the pending calls are over one request: the earliest of what
\* all ranks have left.
LEMMA SameReduction ==
  ASSUME DistinctTs, TypeInv, CollectivesMatch, SameRequest,
         NEW B \in Nat, Beyond(B), NEW r \in Rank, NEW s \in Rank,
         NEW i \in 1 .. Len(calls[r]), i \in 1 .. Len(calls[s]), i > B,
         calls[r][i].kind = "allreduce"
  PROVE  calls[s][i].req = calls[r][i].req
<1>1. /\ i - 1 \in Nat
      /\ i - 1 <= Len(calls[r]) /\ i <= Len(calls[s]) /\ i - 1 <= Len(calls[s])
  BY DEF TypeInv, TypeOK
<1>2. VizReqs(r, i - 1) = VizReqs(s, i - 1)
  <2>1. /\ VizReqs(r, i - 1) \subseteq VizReqs(s, i - 1)
        /\ VizReqs(s, i - 1) \subseteq VizReqs(r, i - 1)
    BY <1>1, SameViz
  <2>2. QED
    BY <2>1
<1>3. calls[s][i].kind = "allreduce"
  BY <1>1 DEF CollectivesMatch
<1>4. /\ calls[r][i].req \in Earliest(Req \ VizReqs(r, i - 1))
      /\ calls[s][i].req \in Earliest(Req \ VizReqs(r, i - 1))
  BY <1>2, <1>3 DEF Beyond
<1>5. ASSUME NEW S \in SUBSET Req, NEW a \in Earliest(S), NEW b \in Earliest(S)
      PROVE  a = b
  <2>1. a \in Req /\ b \in Req /\ ~(Ts[a] > Ts[b]) /\ ~(Ts[b] > Ts[a])
    BY DEF Earliest, Compare
  <2>2. Ts[a] \in Nat /\ Ts[b] \in Nat
    BY <2>1, QueueAssumption
  <2>3. QED
    BY <2>1, <2>2 DEF DistinctTs
<1>6. QED
  BY <1>4, <1>5

\* Hence a handler of a pending call, which goes on whatever its reduction says,
\* has the same request as its peers.
LEMMA PendUnanimous ==
  ASSUME SumTestExact, DistinctTs, TypeInv, CollectivesMatch, SameRequest,
         NEW A, NEW B \in Nat, Beyond(B), \A r \in Rank : Place(r, A, B)
  PROVE  Unanimous
<1> SUFFICES ASSUME NEW r \in Rank, Inside(r, "allreduce"),
                    Joined(Len(calls[r]), "allreduce"),
                    Agreed(r, Len(calls[r])) \/ running[r] \in Pend, NEW s \in Rank
             PROVE  calls[s][Len(calls[r])].req = calls[r][Len(calls[r])].req
  BY DEF Unanimous
<1>1. CASE running[r] \in Pend
  <2>1. Len(calls[r]) > B
    BY <1>1 DEF Place
  <2>2. Len(calls[s]) >= Len(calls[r]) /\ Len(calls[s]) \in Nat /\ Len(calls[r]) \in Nat
    BY DEF Joined, TypeInv, TypeOK
  <2>3. Len(calls[r]) \in 1 .. Len(calls[r]) /\ Len(calls[r]) \in 1 .. Len(calls[s])
    BY <2>1, <2>2
  <2>4. calls[r][Len(calls[r])].kind = "allreduce"
    BY DEF Inside
  <2>5. QED
    BY <2>1, <2>3, <2>4, SameReduction
<1>2. CASE Agreed(r, Len(calls[r]))
  BY <1>2, AgreedSame
<1>3. QED
  BY <1>1, <1>2

\* What a rank has left when all requests are queued.
LEMMA LeftItems ==
  ASSUME TypeInv, AccountInv, NodesStay, AllQueued, NEW r \in Rank
  PROVE  pq[r].items = Req \ Popped(r)
<1>1. \A q \in Req : (q \in pq[r].items) # (q \in Popped(r))
  BY DEF AllQueued, NodesStay, AccountInv, AccountedAt, Placed
<1>2. pq[r].items \subseteq Req
  BY DEF TypeInv, TypeOK, Queue
<1>3. QED
  BY <1>1, <1>2

LEMMA IdleLeft ==
  ASSUME TypeInv, AccountInv, NodesStay, AllQueued, NEW r \in Rank, Idle(r),
         pq[r].items # {}
  PROVE  pq[r].top \in Earliest(Req \ Started(r)) /\ pq[r].top \in Req
<1>1. Popped(r) = Started(r)
  BY DEF Popped, Started
<1>2. pq[r].items = Req \ Started(r)
  BY <1>1, LeftItems
<1>3. WellFormed(pq[r]) /\ pq[r] \in Queue
  BY DEF TypeInv, TypeOK
<1>4. QED
  BY <1>2, <1>3, TopLemma DEF WellFormed

LEMMA VizLeft ==
  ASSUME TypeInv, AccountInv, NodesStay, AllQueued, NEW r \in Rank, Inside(r, "viz"),
         NEW rest \in Pops(pq[r]), rest.items # {}
  PROVE  rest.top \in Earliest(Req \ Started(r)) /\ rest.top \in Req
<1> DEFINE n == Len(calls[r])
<1>1. n \in VizSlots(r) /\ calls[r][n].req = pq[r].top /\ ~Idle(r) /\ n \in Nat
  BY DEF Inside, VizSlots, AccountInv, AccountedAt, OnTop, Idle, TypeInv, TypeOK
<1>2. \A j \in VizSlots(r) : j < n \/ j = n
  BY <1>1 DEF VizSlots
<1>3. Started(r) = Popped(r) \cup {pq[r].top}
  BY <1>1, <1>2 DEF Started, Popped
<1>4. pq[r].items \ {pq[r].top} = Req \ Started(r)
  BY <1>3, LeftItems
<1>5. rest.top \in Earliest(pq[r].items \ {pq[r].top})
  BY DEF Pops, EmptyQueue
<1>6. QED
  BY <1>4, <1>5 DEF Earliest

\* A step of rank r leaves the handlers of the others where they are.
LEMMA OthersPlace ==
  ASSUME TypeInv, UNCHANGED mode, NEW r \in Rank,
         \/ calls' = calls
         \/ \E kind \in Kind, q \in Req, exec \in BOOLEAN : Enter(r, kind, q, exec),
         NEW A, NEW B, NEW s \in Rank \ {r}, Place(s, A, B),
         running'[s] = running[s], pq'[s] = pq[s]
  PROVE  Place(s, A, B)'
<1>1. calls'[s] = calls[s] /\ (Settled(s) => Settled(s)')
  <2>1. CASE calls' = calls
    <3>1. UNCHANGED <<mode, calls>>
      BY <2>1
    <3>2. QED
      BY <3>1, SameDone
  <2>2. ASSUME NEW kind \in Kind, NEW q \in Req, NEW exec \in BOOLEAN,
               Enter(r, kind, q, exec)
        PROVE  calls'[s] = calls[s] /\ (Settled(s) => Settled(s)')
    BY <2>2, EnterCalls, EnterSettled DEF TypeInv, TypeOK
  <2>3. QED
    BY <2>1, <2>2
<1>2. QED
  BY <1>1 DEF Place, Idle

LEMMA QueuedStay ==
  ASSUME AllQueued, [Next]_vars
  PROVE  UNCHANGED ope /\ AllQueued'
<1>1. UNCHANGED ope
  BY DEF AllQueued, Next, ClientStep, HandlerStep, SendRequest, SendPending, Acknowledge,
         PushRequest, LeaveBcast, LeaveAllreduce, FinishViz, StartPending, RemoveNode,
         Rest, vars
<1>2. QED
  BY <1>1 DEF AllQueued

\* A pending call that starts on a rank that has just reached B.
LEMMA BeginPending ==
  ASSUME TypeInv, AccountInv, NodesStay, AllQueued, CollectivesMatch,
         NEW A \in SUBSET Rank, NEW B \in Nat, Base(A, B), Beyond(B),
         NEW r \in A, Len(calls[r]) = B, NEW p \in Pend, StartPending(r, p),
         \A s \in Rank \ {r} : Place(s, A, B) /\ (s \in A <=> Asked(s))
  PROVE  PendInv' /\ CollectivesMatch'
<1>1. /\ Idle(r) /\ r \in Rank
      /\ pend' = [pend EXCEPT ![r][p] = "started"]
      /\ IF pq[r].items # {}
         THEN /\ running' = [running EXCEPT ![r] = p]
              /\ Enter(r, "allreduce", pq[r].top, FALSE)
         ELSE UNCHANGED <<running, calls>>
      /\ UNCHANGED <<mode, ope, pq>>
  BY DEF StartPending, NodesStay, Found
<1>2. ASSUME NEW s \in Rank PROVE s \in A <=> Asked(s)'
  BY <1>1, <1>2 DEF Asked, TypeInv, TypeOK
<1>3. AllQueued'
  BY <1>1 DEF AllQueued
<1>4. \A s \in Rank \ {r} : running'[s] = running[s] /\ pq'[s] = pq[s]
  BY <1>1 DEF TypeInv, TypeOK
<1>5. CASE pq[r].items = {}
  <2>1. UNCHANGED <<mode, calls, running, pq>>
    BY <1>1, <1>5
  <2>2. Base(A, B)' /\ Beyond(B)'
    BY <2>1, SameBase
  <2>3. ASSUME NEW s \in Rank PROVE Place(s, A, B)'
    <3>1. CASE s # r
      BY <1>1, <1>4, <2>1, <3>1, OthersPlace
    <3>2. CASE s = r
      BY <1>1, <1>5, <2>1, <3>2, ServerAssumption, QueueAssumption DEF Place, Idle
    <3>3. QED
      BY <3>1, <3>2
  <2>4. CollectivesMatch'
    BY <2>1 DEF CollectivesMatch
  <2>5. QED
    BY <1>2, <1>3, <2>2, <2>3, <2>4 DEF PendInv
<1>6. CASE pq[r].items # {}
  <2>1. /\ running' = [running EXCEPT ![r] = p]
        /\ Enter(r, "allreduce", pq[r].top, FALSE)
    BY <1>1, <1>6
  <2>2. pq[r].top \in Earliest(Req \ Started(r)) /\ pq[r].top \in Req
    BY <1>1, <1>6, IdleLeft
  <2>3. "allreduce" = Turn(r, B, Len(calls[r])) /\ "allreduce" \in Kind
    BY DEF Turn, Kind
  <2>4. Base(A, B)' /\ Beyond(B)' /\ CollectivesMatch'
    BY <1>1, <2>1, <2>2, <2>3, EnterBeyond
  <2>5. ASSUME NEW s \in Rank PROVE Place(s, A, B)'
    <3>1. CASE s # r
      BY <1>1, <1>4, <2>1, <2>2, <2>3, <3>1, OthersPlace
    <3>2. CASE s = r
      <4>1. running'[r] = p /\ p # None /\ p \notin Req
        BY <1>1, <2>1, ServerAssumption DEF TypeInv, TypeOK
      <4>2. Len(calls'[r]) = B + 1
        BY <1>1, <2>1, <2>2, <2>3, EnterCalls DEF TypeInv, TypeOK
      <4>3. QED
        BY <3>2, <4>1, <4>2 DEF Place, Idle
    <3>3. QED
      BY <3>1, <3>2
  <2>6. QED
    BY <1>2, <1>3, <2>4, <2>5 DEF PendInv
<1>7. QED
  BY <1>5, <1>6

\* The first one.
LEMMA FirstPending ==
  ASSUME SumTestSound, Unasked, PendRuns, TypeInv, AccountInv, NodesStay, AllQueued,
         MatchInv, CountInv, NEW r \in Rank, NEW p \in Pend, StartPending(r, p)
  PROVE  PendInv' /\ CollectivesMatch'
<1>1. \A s \in Rank : Handled(s) = Req
  BY DEF Handled, AllQueued, NodesStay
<1>2. Idle(r) /\ Len(calls[r]) \in Nat
  BY DEF StartPending, TypeInv, TypeOK
<1>3. \A B : B = Len(calls[r]) => Base({r}, B) /\ Beyond(B)
  BY <1>1, <1>2, First
<1>4. PICK B \in Nat : B = Len(calls[r])
  BY <1>2
<1>5. ASSUME NEW s \in Rank \ {r} PROVE Place(s, {r}, B) /\ (s \in {r} <=> Asked(s))
  <2>1. running[s] \notin Pend /\ ~Asked(s)
    BY DEF PendRuns, Unasked, Asked
  <2>2. Idle(s) => Settled(s)
    BY DEF MatchInv
  <2>3. QED
    BY <2>1, <2>2 DEF Place
<1>6. {r} \in SUBSET Rank /\ r \in {r} /\ CollectivesMatch
  BY DEF MatchInv
<1>7. QED
  BY <1>3, <1>4, <1>5, <1>6, BeginPending

LEMMA NextPending ==
  ASSUME Teardown = FALSE, SumTestSound, TypeInv, AccountInv, NodesStay,
         CollectivesMatch, PendInv, [Next]_vars
  PROVE  PendInv' /\ CollectivesMatch'
<1>1. PICK A \in SUBSET Rank, B \in Nat :
        /\ A # {}
        /\ \A r \in Rank : r \in A <=> Asked(r)
        /\ Base(A, B)
        /\ Beyond(B)
        /\ \A r \in Rank : Place(r, A, B)
  BY DEF PendInv
<1>2. AllQueued /\ AllQueued' /\ UNCHANGED <<mode, ope>>
  BY QueuedStay, SameMode DEF PendInv
<1>3. \A r \in Rank : Len(calls[r]) \in Nat /\ (calls[r] # <<>> => Len(calls[r]) > 0)
  BY DEF TypeInv, TypeOK

\* A step of rank r that makes no pending call start.
<1>4. ASSUME NEW r \in Rank, UNCHANGED pend,
             \A s \in Rank \ {r} : running'[s] = running[s] /\ pq'[s] = pq[s],
             \/ calls' = calls
             \/ \E kind \in Kind, q \in Req, exec \in BOOLEAN : Enter(r, kind, q, exec),
             Base(A, B)' /\ Beyond(B)' /\ CollectivesMatch', Place(r, A, B)'
      PROVE  PendInv' /\ CollectivesMatch'
  <2>1. ASSUME NEW s \in Rank PROVE Place(s, A, B)'
    <3>1. CASE s # r
      BY <1>1, <1>2, <1>4, <3>1, OthersPlace
    <3>2. QED
      BY <1>4, <3>1
  <2>2. \A s \in Rank : s \in A <=> Asked(s)'
    BY <1>1, <1>4 DEF Asked
  <2>3. QED
    BY <1>1, <1>2, <1>4, <2>1, <2>2 DEF PendInv
<1>5. ASSUME NEW r \in Rank, UNCHANGED <<pend, calls>>, Return(r),
             \A s \in Rank \ {r} : pq'[s] = pq[s],
             r \in A => pq'[r].items = {},
             r \notin A => Settled(r)
      PROVE  PendInv' /\ CollectivesMatch'
  <2>1. Base(A, B)' /\ Beyond(B)' /\ CollectivesMatch' /\ (Settled(r) => Settled(r)')
    BY <1>1, <1>2, <1>5, SameBase, SameDone DEF CollectivesMatch
  <2>2. running'[r] = None /\ \A s \in Rank \ {r} : running'[s] = running[s]
    BY <1>5 DEF Return, TypeInv, TypeOK
  <2>3. Place(r, A, B)'
    BY <1>5, <2>1, <2>2, ServerAssumption, QueueAssumption DEF Place
  <2>4. QED
    BY <1>4, <1>5, <2>1, <2>2, <2>3

\* A handler of a request goes on.
<1>6. ASSUME NEW r \in Rank \ A, running[r] # None, calls[r] # <<>>
      PROVE  /\ mode # "LAZY" /\ Opening # "viz"
             /\ running[r] \notin Pend
             /\ mode = "EAGER" => calls[r][Len(calls[r])].kind # "bcast"
  <2>1. Len(calls[r]) <= B /\ Len(calls[r]) \in 1 .. Len(calls[r])
    BY <1>1, <1>3, <1>6 DEF Base, Behind
  <2>2. mode # "LAZY"
    BY <1>1, <1>3, <2>1 DEF Base
  <2>3. mode = "EAGER" => calls[r][Len(calls[r])].kind # "bcast"
    BY <1>1, <2>1 DEF Base, Rounds
  <2>4. running[r] \notin Pend
    BY <1>1 DEF Place
  <2>5. QED
    BY <2>2, <2>3, <2>4 DEF Opening
<1>7. ASSUME NEW r \in Rank \ A, running[r] # None, calls[r] # <<>>,
             NEW kind \in Kind \ {Opening, "bcast"}, pq[r].top \in Req,
             Enter(r, kind, pq[r].top, FALSE), UNCHANGED <<pend, running, pq>>,
             Done(r, Len(calls[r])), kind = Follow(r, Len(calls[r]))
      PROVE  PendInv' /\ CollectivesMatch'
  <2>1. Base(A, B)' /\ Beyond(B)' /\ CollectivesMatch'
    BY <1>1, <1>2, <1>7, EnterBase
  <2>2. Place(r, A, B)'
    BY <1>6, <1>7 DEF Place, Idle
  <2>3. QED
    BY <1>4, <1>7, <2>1, <2>2

\* A handler of a pending call goes on.
<1>8. ASSUME NEW r \in A, running[r] # None
      PROVE  running[r] \in Pend /\ Len(calls[r]) > B /\ r \in Rank
  BY <1>1, <1>8 DEF Place, TypeInv, TypeOK
<1>9. ASSUME NEW r \in A, running[r] # None, NEW kind \in Kind, NEW q \in Req,
             Enter(r, kind, q, FALSE), UNCHANGED <<pend, running>>,
             \A s \in Rank \ {r} : pq'[s] = pq[s],
             kind = Turn(r, B, Len(calls[r])),
             kind = "allreduce" => q \in Earliest(Req \ Started(r))
      PROVE  PendInv' /\ CollectivesMatch'
  <2>1. Base(A, B)' /\ Beyond(B)' /\ CollectivesMatch'
    BY <1>1, <1>2, <1>9, EnterBeyond
  <2>2. Len(calls'[r]) = Len(calls[r]) + 1
    BY <1>8, <1>9, EnterCalls DEF TypeInv, TypeOK
  <2>3. Place(r, A, B)'
    BY <1>3, <1>8, <1>9, <2>2, ServerAssumption DEF Place, Idle
  <2>4. QED
    BY <1>4, <1>8, <1>9, <2>1, <2>3
<1>10. ASSUME NEW r \in Rank, LeaveBcast(r) PROVE PendInv' /\ CollectivesMatch'
  <2> DEFINE n == Len(calls[r])
  <2>1. /\ running[r] # None /\ calls[r] # <<>> /\ pq[r].top \in Req
        /\ calls[r][n].kind = "bcast" /\ Done(r, n)
        /\ Follow(r, n) = IF calls[Root][n].exec THEN "allreduce" ELSE Opening
        /\ UNCHANGED <<pend, pq>>
    BY <1>10, TopLemma
    DEF LeaveBcast, Inside, Done, Follow, TypeInv, TypeOK, HoldsWork
  <2>2. r \notin A
    <3>1. SUFFICES ASSUME r \in A PROVE FALSE
      OBVIOUS
    <3>2. n > B /\ n \in 1 .. n
      BY <1>3, <1>8, <2>1, <3>1
    <3>3. calls[r][n].kind = Turn(r, B, n - 1)
      BY <1>1, <3>2 DEF Beyond
    <3>4. QED
      BY <2>1, <3>3 DEF Turn
  <2>3. Opening = "bcast"
    BY <1>6, <2>1, <2>2, ServerAssumption DEF Opening, TypeInv, TypeOK
  <2>4. CASE calls[Root][n].exec
    <3>1. Enter(r, "allreduce", pq[r].top, FALSE) /\ UNCHANGED running
      BY <1>10, <2>4 DEF LeaveBcast
    <3>2. "allreduce" \in Kind \ {Opening, "bcast"} /\ "allreduce" = Follow(r, n)
      BY <2>1, <2>3, <2>4 DEF Kind
    <3>3. QED
      BY <1>7, <2>1, <2>2, <3>1, <3>2
  <2>5. CASE ~calls[Root][n].exec
    <3>1. Return(r) /\ UNCHANGED calls /\ Settled(r)
      BY <1>10, <2>1, <2>5 DEF LeaveBcast, Settled
    <3>2. QED
      BY <1>5, <2>1, <2>2, <3>1
  <2>6. QED
    BY <2>4, <2>5
<1>11. ASSUME NEW r \in Rank, LeaveAllreduce(r) PROVE PendInv' /\ CollectivesMatch'
  <2> DEFINE n == Len(calls[r])
  <2>1. /\ running[r] # None /\ calls[r] # <<>> /\ pq[r].top \in Req
        /\ calls[r][n].kind = "allreduce" /\ Done(r, n)
        /\ Follow(r, n) = IF mode = "LAZY" \/ Agreed(r, n) THEN "viz" ELSE Opening
        /\ UNCHANGED <<pend, pq>>
    BY <1>11, TopLemma
    DEF LeaveAllreduce, Inside, Done, Follow, TypeInv, TypeOK, HoldsWork
  <2>2. CASE r \in A
    <3>1. Enter(r, "viz", pq[r].top, FALSE) /\ UNCHANGED running
      BY <1>8, <1>11, <2>1, <2>2 DEF LeaveAllreduce
    <3>2. "viz" = Turn(r, B, n) /\ "viz" \in Kind
      BY <1>8, <2>1, <2>2 DEF Turn, Kind
    <3>3. QED
      BY <1>9, <2>1, <2>2, <3>1, <3>2
  <2>3. CASE r \notin A /\ Agreed(r, n)
    <3>1. Enter(r, "viz", pq[r].top, FALSE) /\ UNCHANGED running
      BY <1>11, <2>3 DEF LeaveAllreduce
    <3>2. "viz" \in Kind \ {Opening, "bcast"} /\ "viz" = Follow(r, n)
      BY <1>6, <2>1, <2>3 DEF Kind
    <3>3. QED
      BY <1>7, <2>1, <2>3, <3>1, <3>2
  <2>4. CASE r \notin A /\ ~Agreed(r, n)
    <3>1. mode # "LAZY" /\ running[r] \notin Pend
      BY <1>6, <2>1, <2>4
    <3>2. Return(r) /\ UNCHANGED calls /\ Settled(r)
      BY <1>11, <2>1, <2>4, <3>1 DEF LeaveAllreduce, Settled
    <3>3. QED
      BY <1>5, <2>1, <2>4, <3>2
  <2>5. QED
    BY <2>2, <2>3, <2>4
<1>12. ASSUME NEW r \in Rank, FinishViz(r) PROVE PendInv' /\ CollectivesMatch'
  <2> DEFINE n == Len(calls[r])
  <2>1. /\ running[r] # None /\ calls[r] # <<>> /\ Inside(r, "viz")
        /\ calls[r][n].kind = "viz" /\ Done(r, n)
        /\ Follow(r, n) = Opening
        /\ UNCHANGED pend
    BY <1>12 DEF FinishViz, Inside, Done, Follow
  <2>2. PICK rest \in Pops(pq[r]) :
          /\ pq' = [pq EXCEPT ![r] = rest]
          /\ IF running[r] \in Pend /\ rest.items # {}
             THEN Enter(r, "allreduce", rest.top, FALSE) /\ UNCHANGED running
             ELSE Return(r) /\ UNCHANGED calls
    BY <1>12 DEF FinishViz
  <2>3. pq'[r] = rest /\ \A s \in Rank \ {r} : pq'[s] = pq[s]
    BY <2>2 DEF TypeInv, TypeOK
  <2>4. CASE r \in A /\ rest.items # {}
    <3>1. Enter(r, "allreduce", rest.top, FALSE) /\ UNCHANGED running
      BY <1>8, <2>1, <2>2, <2>4
    <3>2. rest.top \in Earliest(Req \ Started(r)) /\ rest.top \in Req
      BY <1>2, <2>1, <2>4, VizLeft
    <3>3. "allreduce" = Turn(r, B, n) /\ "allreduce" \in Kind
      BY <2>1 DEF Turn, Kind
    <3>4. QED
      BY <1>9, <2>1, <2>3, <2>4, <3>1, <3>2, <3>3
  <2>5. CASE r \in A /\ rest.items = {}
    BY <1>5, <2>1, <2>2, <2>3, <2>5
  <2>6. CASE r \notin A
    <3>1. Return(r) /\ UNCHANGED calls /\ Settled(r)
      BY <1>6, <2>1, <2>2, <2>6 DEF Settled
    <3>2. QED
      BY <1>5, <2>1, <2>3, <2>6, <3>1
  <2>7. QED
    BY <2>4, <2>5, <2>6
<1>13. ASSUME NEW r \in Rank, NEW p \in Pend, StartPending(r, p)
       PROVE  PendInv' /\ CollectivesMatch'
  <2>1. CASE r \in A
    <3>1. pq[r].items = {} /\ Idle(r)
      BY <1>1, <1>13, <2>1 DEF StartPending, Place
    <3>2. /\ UNCHANGED <<running, calls, pq, mode>>
          /\ pend' = [pend EXCEPT ![r][p] = "started"]
      BY <1>13, <3>1 DEF StartPending, NodesStay, Found
    <3>3. \A s \in Rank : s \in A <=> Asked(s)'
      BY <1>1, <2>1, <3>2 DEF Asked, TypeInv, TypeOK
    <3>4. Base(A, B)' /\ Beyond(B)' /\ CollectivesMatch'
      BY <1>1, <3>2, SameBase DEF CollectivesMatch
    <3>5. \A s \in Rank : Place(s, A, B)'
      BY <1>1, <3>2, SameDone DEF Place, Idle
    <3>6. QED
      BY <1>1, <1>2, <3>3, <3>4, <3>5 DEF PendInv
  <2>2. CASE r \notin A
    <3>1. Settled(r)
      BY <1>1, <1>13, <2>2 DEF StartPending, Place
    <3>2. Len(calls[r]) = B /\ Base(A \cup {r}, B)
      BY <1>1, <2>2, <3>1, Arrive
    <3>3. \A s \in Rank \ {r} : Place(s, A \cup {r}, B) /\ (s \in A \cup {r} <=> Asked(s))
      BY <1>1 DEF Place
    <3>4. A \cup {r} \in SUBSET Rank /\ r \in A \cup {r}
      OBVIOUS
    <3>5. QED
      BY <1>1, <1>2, <1>13, <3>2, <3>3, <3>4, BeginPending
  <2>3. QED
    BY <2>1, <2>2
<1>14. CASE /\ UNCHANGED <<running, pq, calls>>
            /\ \/ UNCHANGED pend
               \/ \E r \in Rank, p \in Pend : SendPending(r, p)
  <2>1. \A s \in Rank : Asked(s)' <=> Asked(s)
    <3>1. CASE UNCHANGED pend
      BY <3>1 DEF Asked
    <3>2. ASSUME NEW r \in Rank, NEW p \in Pend, SendPending(r, p)
          PROVE  \A s \in Rank : Asked(s)' <=> Asked(s)
      <4>1. pend[r][p] = "unsent" /\ pend' = [pend EXCEPT ![r][p] = "arrived"]
        BY <3>2 DEF SendPending
      <4>2. \A s \in Rank, c \in Pend :
              pend'[s][c] = IF s = r /\ c = p THEN "arrived" ELSE pend[s][c]
        BY <4>1 DEF TypeInv, TypeOK
      <4>3. QED
        BY <4>1, <4>2 DEF Asked
    <3>3. QED
      BY <1>14, <3>1, <3>2
  <2>2. Base(A, B)' /\ Beyond(B)' /\ CollectivesMatch'
    BY <1>1, <1>2, <1>14, SameBase DEF CollectivesMatch
  <2>3. \A s \in Rank : Place(s, A, B)'
    BY <1>1, <1>2, <1>14, SameDone DEF Place, Idle
  <2>4. QED
    BY <1>1, <1>2, <2>1, <2>2, <2>3 DEF PendInv
<1>15. ASSUME NEW r \in Rank, NEW q \in Req, PushRequest(r, q)
       PROVE  FALSE
  BY <1>2, <1>15 DEF PushRequest, AllQueued
<1>16. QED
  BY <1>10, <1>11, <1>12, <1>13, <1>14, <1>15
  DEF Next, ClientStep, HandlerStep, SendRequest, SendPending, Acknowledge, RemoveNode,
      Rest, vars

\* Clients that wait until every request is queued call no earlier.
Gated == \A r \in Rank, p \in Pend : pend[r][p] # "unsent" => AllQueued

LEMMA InitGated == Init => Gated
BY DEF Init, Gated

LEMMA NextGated ==
  ASSUME Gate = "pushed", TypeOK, Gated, [Next]_vars
  PROVE  Gated'
<1>1. CASE AllQueued
  BY <1>1, QueuedStay DEF Gated
<1>2. CASE ~AllQueued
  <2>1. \A r \in Rank, p \in Pend : pend[r][p] = "unsent"
    BY <1>2 DEF Gated
  <2>2. UNCHANGED pend
    <3>1. \A r \in Rank, p \in Pend : ~SendPending(r, p)
      BY <1>2 DEF SendPending, GateOpen, AllQueued
    <3>2. \A r \in Rank, p \in Pend : ~StartPending(r, p)
      BY <2>1 DEF StartPending
    <3>3. QED
      BY <3>1, <3>2
      DEF Next, ClientStep, HandlerStep, SendRequest, Acknowledge, PushRequest,
          LeaveBcast, LeaveAllreduce, FinishViz, RemoveNode, Rest, vars
  <2>3. QED
    BY <2>1, <2>2 DEF Gated
<1>3. QED
  BY <1>1, <1>2

\* The state of a server whose clients wait with the pending calls, before the
\* first of them starts and after it.
WaitInv ==
  /\ TypeInv /\ PendRuns /\ AccountInv /\ NodesStay /\ Gated
  /\ TopInv /\ SameRequest /\ CollectivesMatch
  /\ IF Unasked THEN MatchInv /\ CountInv ELSE PendInv

Waiting == Gate = "pushed" /\ Teardown = FALSE /\ SumTestExact /\ DistinctTs

LEMMA InitWait == Init => WaitInv
<1>1. Init => Unasked
  BY DEF Init, Unasked
<1>2. MatchInv => CollectivesMatch
  BY DEF MatchInv
<1>3. QED
  BY <1>1, <1>2, InitType, InitPendRuns, InitAccount, InitNodes, InitGated, InitMatch,
     InitSame, InitCount DEF WaitInv

LEMMA NextWait ==
  ASSUME Waiting, WaitInv, [Next]_vars
  PROVE  WaitInv'
<1>1. SumTestSound
  BY DEF Waiting, SumTestExact, SumTestSound
<1>2. /\ TypeInv' /\ PendRuns' /\ AccountInv' /\ NodesStay' /\ Gated'
      /\ Unasked' => Unasked
  BY NextType, NextPendRuns, NextAccount, NextNodes, NextGated
  DEF WaitInv, TypeInv, Waiting
<1>3. Unanimous
  <2>1. CASE Unasked
    BY <2>1, UnaskedSame DEF WaitInv, Waiting
  <2>2. CASE ~Unasked
    BY <2>2, PendUnanimous DEF WaitInv, Waiting, PendInv
  <2>3. QED
    BY <2>1, <2>2
<1>4. TopInv' /\ SameRequest'
  BY <1>3, NextSame DEF WaitInv
<1>5. CASE Unasked /\ Unasked'
  <2>1. Regime /\ Regime'
    BY <1>1, <1>5 DEF Regime, SumTestSound
  <2>2. MatchInv' /\ CountInv'
    BY <1>5, <2>1, NextMatch, NextCount DEF WaitInv
  <2>3. QED
    BY <1>2, <1>4, <1>5, <2>2 DEF WaitInv, MatchInv
<1>6. CASE Unasked /\ ~Unasked'
  <2>1. PICK r \in Rank, p \in Pend : pend'[r][p] = "started"
    BY <1>6 DEF Unasked
  <2>2. pend[r][p] # "started"
    BY <1>6 DEF Unasked
  <2>3. PICK s \in Rank, c \in Pend : StartPending(s, c)
    <3>1. ASSUME NEW s \in Rank, NEW c \in Pend, SendPending(s, c) PROVE FALSE
      BY <2>1, <2>2, <3>1 DEF SendPending, WaitInv, TypeInv, TypeOK
    <3>2. QED
      BY <2>1, <2>2, <3>1
      DEF Next, ClientStep, HandlerStep, SendRequest, Acknowledge, PushRequest,
          LeaveBcast, LeaveAllreduce, FinishViz, RemoveNode, Rest, vars
  <2>4. AllQueued
    BY <2>3 DEF StartPending, WaitInv, Gated
  <2>5. PendInv' /\ CollectivesMatch'
    BY <1>1, <1>6, <2>3, <2>4, FirstPending DEF WaitInv
  <2>6. QED
    BY <1>2, <1>4, <1>6, <2>5 DEF WaitInv
<1>7. CASE ~Unasked
  <2>1. PendInv' /\ CollectivesMatch'
    BY <1>1, <1>7, NextPending DEF WaitInv, Waiting
  <2>2. QED
    BY <1>2, <1>4, <1>7, <2>1 DEF WaitInv
<1>8. QED
  BY <1>5, <1>6, <1>7

\* Clients that make the pending calls once every request is queued can do so in
\* every mode: the handlers of these calls, which go on without the agreement of
\* their peers, still reduce and visualize the same requests in the same slots, on
\* the ranks that started and on those still busy with the last requests.
THEOREM PendingCallsMatch == Waiting /\ Spec => [](CollectivesMatch /\ SameRequest)
<1>1. WaitInv => CollectivesMatch /\ SameRequest
  BY DEF WaitInv
<1>2. Waiting => []Waiting
  BY DEF Waiting, SumTestExact, DistinctTs
<1>3. QED
  BY InitWait, NextWait, <1>1, <1>2, PTL DEF Spec

-----------------------------------------------------------------------------
(***************************************************************************)
(* The refinement of VizLog: the k-th visualization of a rank is found in  *)
(* the k-th of its slots of that kind, which later collectives leave where *)
(* it is.                                                                  *)
(***************************************************************************)

\* The element of T that follows those up to m, when it is m + 1.
LEMMA NthNext ==
  ASSUME NEW T \in SUBSET Nat, IsFiniteSet(T), NEW m \in Nat, m + 1 \in T,
         NEW S, S = {j \in T : j <= m}
  PROVE  Cardinality(S) \in Nat /\ Nth(T, Cardinality(S) + 1) = {m + 1}
<1> DEFINE Upto(i) == {j \in T : j <= i}
<1>1. IsFiniteSet(S) /\ Cardinality(S) \in Nat
  BY FS_Subset, FS_CardinalityType
<1>2. \A i \in T : IsFiniteSet(Upto(i)) /\ Cardinality(Upto(i)) \in Nat
  BY FS_Subset, FS_CardinalityType
<1>3. Upto(m + 1) = S \cup {m + 1} /\ m + 1 \notin S
  <2>1. \A j \in T : j <= m + 1 <=> j <= m \/ j = m + 1
    OBVIOUS
  <2>2. ~(m + 1 <= m)
    OBVIOUS
  <2>3. QED
    BY <2>1, <2>2
<1>4. Cardinality(Upto(m + 1)) = Cardinality(S) + 1
  BY <1>1, <1>3, FS_AddElement
<1>5. ASSUME NEW i \in T, i <= m PROVE Cardinality(Upto(i)) <= Cardinality(S)
  <2>1. Upto(i) \subseteq S
    <3>1. \A j \in T : j <= i => j <= m
      BY <1>5
    <3>2. QED
      BY <3>1
  <2>2. QED
    BY <1>1, <2>1, FS_Subset
<1>6. ASSUME NEW i \in T, i > m + 1 PROVE Cardinality(Upto(i)) # Cardinality(S) + 1
  <2>1. Upto(m + 1) \subseteq Upto(i) /\ i \in Upto(i) /\ i \notin Upto(m + 1)
    <3>1. \A j \in T : j <= m + 1 => j <= i
      BY <1>6
    <3>2. i <= i /\ ~(i <= m + 1)
      BY <1>6
    <3>3. QED
      BY <3>1, <3>2
  <2>2. Upto(m + 1) # Upto(i)
    BY <2>1
  <2>3. IsFiniteSet(Upto(i))
    BY <1>2
  <2>4. Cardinality(Upto(m + 1)) # Cardinality(Upto(i))
    <3> HIDE DEF Upto
    <3>1. QED
      BY <2>1, <2>2, <2>3, FS_Subset
  <2>5. QED
    BY <1>4, <2>4
<1>7. ASSUME NEW i \in T
      PROVE  Cardinality(Upto(i)) = Cardinality(S) + 1 <=> i = m + 1
  <2>1. i <= m \/ i = m + 1 \/ i > m + 1
    OBVIOUS
  <2>2. CASE i <= m
    <3>1. Cardinality(Upto(i)) <= Cardinality(S)
      BY <1>5, <2>2
    <3>2. QED
      BY <1>1, <1>2, <2>2, <3>1
  <2>3. CASE i > m + 1
    BY <1>6, <2>3
  <2>4. QED
    BY <1>4, <2>1, <2>2, <2>3
<1>8. QED
  BY <1>1, <1>7 DEF Nth

\* One more element above all others.
LEMMA NthNew ==
  ASSUME NEW S \in SUBSET Nat, IsFiniteSet(S), NEW m \in Nat, \A j \in S : j <= m,
         NEW T, T = S \cup {m + 1}
  PROVE  /\ Cardinality(S) \in Nat /\ Cardinality(T) = Cardinality(S) + 1
         /\ \A k \in 1 .. Cardinality(S) : Nth(T, k) = Nth(S, k)
         /\ Nth(T, Cardinality(S) + 1) = {m + 1}
<1>1. IsFiniteSet(T) /\ T \in SUBSET Nat /\ Cardinality(S) \in Nat
  BY FS_AddElement, FS_CardinalityType
<1>2. m + 1 \notin S
  OBVIOUS
<1>3. Cardinality(T) = Cardinality(S) + 1
  BY <1>2, FS_AddElement
<1>4. S = {j \in T : j <= m} /\ m + 1 \in T
  <2>1. ~(m + 1 <= m)
    OBVIOUS
  <2>2. QED
    BY <2>1
<1>5. Nth(T, Cardinality(S) + 1) = {m + 1}
  BY <1>1, <1>4, NthNext
<1>6. ASSUME NEW k \in 1 .. Cardinality(S) PROVE Nth(T, k) = Nth(S, k)
  <2>1. ASSUME NEW i \in S PROVE {j \in T : j <= i} = {j \in S : j <= i}
    <3>1. ~(m + 1 <= i)
      OBVIOUS
    <3>2. QED
      BY <3>1
  <2>2. {j \in T : j <= m + 1} = T
    <3>1. \A j \in T : j <= m + 1
      OBVIOUS
    <3>2. QED
      BY <3>1
  <2>3. m + 1 \notin Nth(T, k)
    <3>1. Cardinality(T) # k
      BY <1>1, <1>3
    <3>2. QED
      BY <2>2, <3>1 DEF Nth
  <2>4. \A i \in S : i \in Nth(T, k) <=> i \in Nth(S, k)
    BY <2>1 DEF Nth
  <2>5. QED
    BY <2>3, <2>4 DEF Nth
<1>7. QED
  BY <1>1, <1>3, <1>5, <1>6

\* The same for the collectives C of a rank.
VizIn(C) == {i \in 1 .. Len(C) : C[i].kind = "viz"}

RunsIn(C) ==
  [k \in 1 .. Cardinality(VizIn(C)) |-> C[TheOnly(Nth(VizIn(C), k))].req]

\* Its visualizations can be counted through.
Numbered(C) == \A k \in 1 .. Cardinality(VizIn(C)) : Nth(VizIn(C), k) # {}

LEMMA VizInType ==
  ASSUME NEW C \in Seq(Call)
  PROVE  /\ Len(C) \in Nat
         /\ VizIn(C) \in SUBSET Nat
         /\ IsFiniteSet(VizIn(C))
         /\ Cardinality(VizIn(C)) \in Nat
         /\ \A i \in VizIn(C) : i \in 1 .. Len(C) /\ C[i].req \in Req
<1>1. Len(C) \in Nat /\ VizIn(C) \subseteq 1 .. Len(C)
  BY DEF VizIn
<1>2. IsFiniteSet(1 .. Len(C))
  BY <1>1, FS_Interval
<1>3. IsFiniteSet(VizIn(C)) /\ Cardinality(VizIn(C)) \in Nat
  BY <1>1, <1>2, FS_Subset, FS_CardinalityType
<1>4. \A i \in 1 .. Len(C) : C[i].req \in Req
  <2>1. \A i \in 1 .. Len(C) : C[i] \in Call
    BY <1>1
  <2>2. QED
    BY <2>1 DEF Call
<1>5. QED
  BY <1>1, <1>3, <1>4

\* The k-th visualization.
LEMMA RunsAt ==
  ASSUME NEW C \in Seq(Call), Numbered(C)
  PROVE  /\ RunsIn(C) \in Seq(Req)
         /\ Len(RunsIn(C)) = Cardinality(VizIn(C))
         /\ \A k \in 1 .. Cardinality(VizIn(C)) :
              /\ TheOnly(Nth(VizIn(C), k)) \in VizIn(C)
              /\ RunsIn(C)[k] = C[TheOnly(Nth(VizIn(C), k))].req
<1> DEFINE c == Cardinality(VizIn(C))
           slot(k) == TheOnly(Nth(VizIn(C), k))
<1>1. c \in Nat
  BY VizInType
<1>2. ASSUME NEW k \in 1 .. c PROVE slot(k) \in VizIn(C)
  <2>1. Nth(VizIn(C), k) # {} /\ Nth(VizIn(C), k) \subseteq VizIn(C)
    BY DEF Numbered, Nth
  <2>2. QED
    BY <2>1 DEF TheOnly
<1>3. \A k \in 1 .. c : C[slot(k)].req \in Req
  BY <1>2, VizInType
<1>4. RunsIn(C) = [k \in 1 .. c |-> C[slot(k)].req]
  BY DEF RunsIn
<1> HIDE DEF c, slot
<1>5. /\ RunsIn(C) \in Seq(Req) /\ Len(RunsIn(C)) = c
      /\ \A k \in 1 .. c : RunsIn(C)[k] = C[slot(k)].req
  BY <1>1, <1>3, <1>4
<1>6. QED
  BY <1>2, <1>5 DEF c, slot

\* One more collective.
LEMMA RunsAppend ==
  ASSUME NEW C \in Seq(Call), Numbered(C), NEW c \in Call, NEW D, D = Append(C, c)
  PROVE  /\ Numbered(D)
         /\ c.kind # "viz" => RunsIn(D) = RunsIn(C)
         /\ c.kind = "viz" => RunsIn(D) = Append(RunsIn(C), c.req)
<1> DEFINE m == Len(C)
           n == Cardinality(VizIn(C))
           slot(E, k) == TheOnly(Nth(VizIn(E), k))
<1>1. /\ D \in Seq(Call) /\ Len(D) = m + 1 /\ m \in Nat /\ D[m + 1] = c
      /\ \A i \in 1 .. m : D[i] = C[i]
  OBVIOUS
<1>2. /\ VizIn(C) \in SUBSET Nat /\ IsFiniteSet(VizIn(C)) /\ n \in Nat
      /\ \A i \in VizIn(C) : i \in 1 .. m
  BY VizInType
<1>3. /\ c.kind # "viz" => VizIn(D) = VizIn(C)
      /\ c.kind = "viz" => VizIn(D) = VizIn(C) \cup {m + 1}
  <2>1. 1 .. m + 1 = (1 .. m) \cup {m + 1}
    BY <1>1
  <2>2. QED
    BY <1>1, <2>1 DEF VizIn
<1>4. \A k \in 1 .. n : slot(C, k) \in 1 .. m /\ RunsIn(C)[k] = C[slot(C, k)].req
  BY <1>2, RunsAt
<1>5. Numbered(D) => \A k \in 1 .. Cardinality(VizIn(D)) : RunsIn(D)[k] = D[slot(D, k)].req
  BY <1>1, RunsAt
<1>6. CASE c.kind # "viz"
  <2>1. VizIn(D) = VizIn(C) /\ Numbered(D)
    BY <1>3, <1>6 DEF Numbered
  <2>2. /\ RunsIn(C) \in Seq(Req) /\ RunsIn(D) \in Seq(Req)
        /\ Len(RunsIn(C)) = n /\ Len(RunsIn(D)) = n
    BY <1>1, <2>1, RunsAt
  <2>3. ASSUME NEW k \in 1 .. n PROVE RunsIn(D)[k] = RunsIn(C)[k]
    <3>1. slot(D, k) = slot(C, k) /\ RunsIn(D)[k] = D[slot(D, k)].req
      BY <1>5, <2>1
    <3> HIDE DEF slot, m, n
    <3>2. D[slot(C, k)] = C[slot(C, k)]
      BY <1>1, <1>4
    <3>3. QED
      BY <1>4, <3>1, <3>2
  <2>4. RunsIn(D) = RunsIn(C)
    BY <2>2, <2>3, SeqEqual
  <2>5. QED
    BY <1>6, <2>1, <2>4
<1>7. CASE c.kind = "viz"
  <2>1. VizIn(D) = VizIn(C) \cup {m + 1}
    BY <1>3, <1>7
  <2>2. /\ Cardinality(VizIn(D)) = n + 1
        /\ \A k \in 1 .. n : Nth(VizIn(D), k) = Nth(VizIn(C), k)
        /\ Nth(VizIn(D), n + 1) = {m + 1}
    <3>1. \A j \in VizIn(C) : j <= m
      BY <1>1, <1>2
    <3>2. m \in Nat
      BY <1>1
    <3>3. VizIn(C) \in SUBSET Nat /\ IsFiniteSet(VizIn(C))
      BY <1>2
    <3> HIDE DEF m
    <3>4. ASSUME NEW S \in SUBSET Nat, IsFiniteSet(S), \A j \in S : j <= m,
                 NEW T, T = S \cup {m + 1}
          PROVE  /\ Cardinality(T) = Cardinality(S) + 1
                 /\ \A k \in 1 .. Cardinality(S) : Nth(T, k) = Nth(S, k)
                 /\ Nth(T, Cardinality(S) + 1) = {m + 1}
      BY <3>2, <3>4, NthNew
    <3>5. QED
      BY <2>1, <3>1, <3>3, <3>4, Zenon
  <2>3. \A k \in 1 .. n + 1 : k \in 1 .. n \/ k = n + 1
    BY <1>2
  <2>4. Numbered(D)
    BY <2>2, <2>3 DEF Numbered
  <2>5. slot(D, n + 1) = m + 1 /\ \A k \in 1 .. n : slot(D, k) = slot(C, k)
    <3>1. \A x : TheOnly({x}) = x
      BY DEF TheOnly
    <3>2. QED
      BY <2>2, <3>1
  <2>6. /\ RunsIn(C) \in Seq(Req) /\ RunsIn(D) \in Seq(Req)
        /\ Len(RunsIn(C)) = n /\ Len(RunsIn(D)) = n + 1
    BY <1>1, <2>2, <2>4, RunsAt
  <2>7. \A k \in 1 .. n + 1 : RunsIn(D)[k] = D[slot(D, k)].req
    BY <1>5, <2>2, <2>4
  <2>8. c.req \in Req
    BY DEF Call
  <2> HIDE DEF slot, m, n
  <2>9. ASSUME NEW k \in 1 .. n PROVE RunsIn(D)[k] = RunsIn(C)[k]
    <3>1. D[slot(C, k)] = C[slot(C, k)]
      BY <1>1, <1>4
    <3>2. k \in 1 .. n + 1
      BY <1>2
    <3>3. RunsIn(D)[k] = D[slot(D, k)].req /\ slot(D, k) = slot(C, k)
      BY <2>5, <2>7, <3>2
    <3>4. QED
      BY <1>4, <3>1, <3>3
  <2>10. RunsIn(D)[n + 1] = c.req
    BY <1>1, <1>2, <2>5, <2>7
  <2> DEFINE R == Append(RunsIn(C), c.req)
  <2>11. /\ R \in Seq(Req) /\ Len(R) = n + 1 /\ R[n + 1] = c.req
         /\ \A k \in 1 .. n : R[k] = RunsIn(C)[k]
    BY <1>2, <2>6, <2>8
  <2> HIDE DEF R
  <2>12. \A k \in 1 .. n + 1 : RunsIn(D)[k] = R[k]
    BY <2>3, <2>9, <2>10, <2>11
  <2>13. RunsIn(D) = R
    BY <2>6, <2>11, <2>12, SeqEqual
  <2>14. QED
    BY <1>7, <2>4, <2>13 DEF R
<1>8. QED
  BY <1>6, <1>7

LEMMA RanIsRuns ==
  ASSUME NEW r \in Rank
  PROVE  /\ RanSeq(r) = RunsIn(calls[r]) /\ RanSeq(r)' = RunsIn(calls'[r])
         /\ VizSlots(r) = VizIn(calls[r]) /\ VizSlots(r)' = VizIn(calls'[r])
BY DEF RanSeq, RunsIn, VizSlots, VizIn

\* A step enters at most one collective, a visualization only from a reduction
\* that all ranks have reached.
LEMMA NextEnter ==
  ASSUME TypeInv, [Next]_vars
  PROVE  \/ calls' = calls
         \/ \E r \in Rank, kind \in Kind, q \in Req, exec \in BOOLEAN :
              /\ Enter(r, kind, q, exec)
              /\ kind = "viz" =>
                   Inside(r, "allreduce") /\ Joined(Len(calls[r]), "allreduce")
<1> DEFINE Goal ==
      \/ calls' = calls
      \/ \E r \in Rank, kind \in Kind, q \in Req, exec \in BOOLEAN :
           /\ Enter(r, kind, q, exec)
           /\ kind = "viz" =>
                Inside(r, "allreduce") /\ Joined(Len(calls[r]), "allreduce")
<1>1. ASSUME NEW r \in Rank
      PROVE  /\ pq[r] \in Queue /\ WellFormed(pq[r])
             /\ pq[r].items # {} => pq[r].top \in Req
             /\ running[r] # None => pq[r].top \in Req
  BY TopLemma DEF TypeInv, TypeOK, HoldsWork
<1>2. "bcast" \in Kind /\ "allreduce" \in Kind /\ "viz" \in Kind
  BY DEF Kind
<1>3. ASSUME NEW r \in Rank, NEW kind \in Kind, NEW q \in Req, NEW exec \in BOOLEAN,
             Enter(r, kind, q, exec),
             kind = "viz" =>
               Inside(r, "allreduce") /\ Joined(Len(calls[r]), "allreduce")
      PROVE  Goal
  BY <1>3
<1> HIDE DEF Goal
<1>4. ASSUME calls' = calls PROVE Goal
  BY <1>4 DEF Goal
<1>5. ASSUME NEW r \in Rank, NEW q \in Req, PushRequest(r, q) PROVE Goal
  <2>1. pq'[r] = Push(pq[r], q)
    BY <1>5 DEF PushRequest, TypeInv, TypeOK
  <2>2. pq'[r].top \in Req
    BY <1>1, <2>1, PushLemma
  <2>3. CASE calls' = calls
    BY <1>4, <2>3
  <2>4. CASE Enter(r, "bcast", q, r = Root /\ PoolSize(r, q) < PoolLimit)
    <3> DEFINE exec == r = Root /\ PoolSize(r, q) < PoolLimit
    <3>1. exec \in BOOLEAN /\ Enter(r, "bcast", q, exec)
      BY <2>4
    <3> HIDE DEF exec
    <3>2. QED
      BY <1>2, <1>3, <3>1
  <2>5. CASE Enter(r, "allreduce", pq'[r].top, FALSE)
    BY <1>2, <1>3, <2>2, <2>5
  <2>6. QED
    BY <1>5, <2>3, <2>4, <2>5 DEF PushRequest
<1>6. ASSUME NEW r \in Rank, LeaveBcast(r) PROVE Goal
  BY <1>1, <1>2, <1>3, <1>4, <1>6 DEF LeaveBcast, Inside
<1>7. ASSUME NEW r \in Rank, LeaveAllreduce(r) PROVE Goal
  BY <1>1, <1>2, <1>3, <1>4, <1>7 DEF LeaveAllreduce, Inside
<1>8. ASSUME NEW r \in Rank, FinishViz(r) PROVE Goal
  <2>1. PICK rest \in Pops(pq[r]) :
          \/ rest.items # {} /\ Enter(r, "allreduce", rest.top, FALSE)
          \/ UNCHANGED calls
    BY <1>8 DEF FinishViz
  <2>2. rest.items # {} => rest.top \in Req
    BY <1>1, PopLemma, TopLemma
  <2>3. QED
    BY <1>2, <1>3, <1>4, <2>1, <2>2
<1>9. ASSUME NEW r \in Rank, NEW p \in Pend, StartPending(r, p) PROVE Goal
  BY <1>1, <1>2, <1>3, <1>4, <1>9 DEF StartPending
<1>10. Goal
  BY <1>4, <1>5, <1>6, <1>7, <1>8, <1>9
  DEF Next, ClientStep, HandlerStep, SendRequest, SendPending, Acknowledge, RemoveNode,
      Rest, vars
<1>11. QED
  BY <1>10 DEF Goal

\* A rank that begins a visualization takes the next step of the common log.
LEMMA LogRun ==
  ASSUME TypeInv, CollectivesMatch, CollectivesMatch', SameRequest', AccountInv',
         \A s \in Rank : Numbered(calls[s]),
         NEW r \in Rank, NEW q \in Req, NEW exec \in BOOLEAN,
         Enter(r, "viz", q, exec), Joined(Len(calls[r]), "allreduce")
  PROVE  Log!Run(r, q)
<1> DEFINE m == Len(calls[r])
           n == Cardinality(VizIn(calls[r]))
           c == [kind |-> "viz", req |-> q, exec |-> exec]
<1>1. /\ calls' = [calls EXCEPT ![r] = Append(@, c)]
      /\ c \in Call /\ c.kind = "viz" /\ c.req = q
  BY DEF Enter, Call, Kind
<1> HIDE DEF c
<1>2. ASSUME NEW s \in Rank
      PROVE  calls[s] \in Seq(Call) /\ Len(calls[s]) \in Nat /\ Len(calls[s]) >= m
  BY DEF TypeInv, TypeOK, Joined
<1>3. /\ calls'[r] = Append(calls[r], c)
      /\ \A s \in Rank \ {r} : calls'[s] = calls[s]
      /\ Len(calls'[r]) = m + 1 /\ calls'[r][m + 1] = c
      /\ \A i \in 1 .. m : calls'[r][i] = calls[r][i]
  BY <1>1, <1>2 DEF TypeInv, TypeOK
<1>4. RunsIn(calls'[r]) = Append(RunsIn(calls[r]), q)
  <2>1. calls[r] \in Seq(Call) /\ Numbered(calls[r])
    BY <1>2
  <2>2. ASSUME NEW D, D = Append(calls[r], c)
        PROVE  RunsIn(D) = Append(RunsIn(calls[r]), c.req)
    BY <1>1, <2>1, <2>2, RunsAppend
  <2>3. QED
    BY <1>1, <1>3, <2>2
<1>5. ASSUME NEW s \in Rank
      PROVE  /\ VizIn(calls[s]) \in SUBSET Nat /\ IsFiniteSet(VizIn(calls[s]))
             /\ Cardinality(VizIn(calls[s])) \in Nat
             /\ Len(RunsIn(calls[s])) = Cardinality(VizIn(calls[s]))
             /\ \A k \in 1 .. Cardinality(VizIn(calls[s])) :
                  /\ TheOnly(Nth(VizIn(calls[s]), k)) \in VizIn(calls[s])
                  /\ RunsIn(calls[s])[k] =
                       calls[s][TheOnly(Nth(VizIn(calls[s]), k))].req
  BY <1>2, VizInType, RunsAt
<1>6. m + 1 \in VizSlots(r)'
  BY <1>1, <1>2, <1>3 DEF VizSlots

\* The request is new to the rank.
<1>7. ASSUME NEW k \in 1 .. n PROVE RunsIn(calls[r])[k] # q
  <2> DEFINE i == TheOnly(Nth(VizIn(calls[r]), k))
  <2>1. i \in VizIn(calls[r]) /\ RunsIn(calls[r])[k] = calls[r][i].req
    BY <1>5
  <2> HIDE DEF i
  <2>2. i \in 1 .. m /\ calls[r][i].kind = "viz"
    BY <2>1 DEF VizIn
  <2>3. i \in VizSlots(r)' /\ i # m + 1 /\ calls'[r][i] = calls[r][i]
    BY <1>2, <1>3, <2>2 DEF VizSlots
  <2>4. \A a, b \in VizSlots(r)' : calls'[r][a].req = calls'[r][b].req => a = b
    BY DEF AccountInv, AccountedAt, RanOnce
  <2>5. calls'[r][i].req # calls'[r][m + 1].req
    BY <1>6, <2>3, <2>4
  <2>6. QED
    BY <1>1, <1>3, <2>1, <2>3, <2>5

\* Up to the reduction all ranks have visualized in the same slots.
<1>8. ASSUME NEW s \in Rank PROVE VizIn(calls[r]) = {j \in VizIn(calls[s]) : j <= m}
  <2>1. ASSUME NEW j \in 1 .. m
        PROVE  j \in 1 .. Len(calls[s]) /\ calls[s][j].kind = calls[r][j].kind
    BY <1>2 DEF CollectivesMatch
  <2>2. QED
    BY <1>2, <2>1 DEF VizIn
<1>9. ASSUME NEW s \in Rank PROVE Cardinality(VizIn(calls[s])) >= n
  <2>1. VizIn(calls[r]) \subseteq VizIn(calls[s])
    BY <1>8
  <2>2. n <= Cardinality(VizIn(calls[s]))
    BY <1>5, <2>1, FS_Subset
  <2>3. QED
    BY <1>5, <2>2

\* A rank that is ahead has begun to visualize this request next.
<1>10. ASSUME NEW s \in Rank, Cardinality(VizIn(calls[s])) > n
       PROVE  RunsIn(calls[s])[n + 1] = q
  <2>1. VizIn(calls[s]) # VizIn(calls[r]) /\ s # r
    BY <1>5, <1>10
  <2>2. PICK j \in VizIn(calls[s]) : ~(j <= m)
    BY <1>8, <2>1
  <2>3. j \in 1 .. Len(calls[s])
    BY DEF VizIn
  <2>4. m + 1 \in 1 .. Len(calls[s])
    BY <1>2, <2>2, <2>3
  <2>5. calls'[s] = calls[s] /\ m + 1 \in 1 .. Len(calls'[r])
    BY <1>2, <1>3, <2>1
  <2>6. calls[s][m + 1].kind = "viz"
    <3>1. calls'[s][m + 1].kind = calls'[r][m + 1].kind
      BY <2>4, <2>5 DEF CollectivesMatch
    <3>2. QED
      BY <1>1, <1>3, <2>5, <3>1
  <2>7. m + 1 \in VizIn(calls[s]) /\ m + 1 \in VizSlots(s)'
    BY <2>4, <2>5, <2>6 DEF VizIn, VizSlots
  <2>8. Nth(VizIn(calls[s]), n + 1) = {m + 1}
    <3>1. VizIn(calls[s]) \in SUBSET Nat /\ IsFiniteSet(VizIn(calls[s])) /\ m \in Nat
      BY <1>2, <1>5
    <3>2. VizIn(calls[r]) = {x \in VizIn(calls[s]) : x <= m}
      BY <1>8
    <3> HIDE DEF m
    <3>3. QED
      BY <2>7, <3>1, <3>2, NthNext
  <2>9. TheOnly({m + 1}) = m + 1
    BY DEF TheOnly
  <2>10. n + 1 \in 1 .. Cardinality(VizIn(calls[s]))
    BY <1>5, <1>10
  <2>11. RunsIn(calls[s])[n + 1] = calls[s][m + 1].req
    BY <1>5, <2>8, <2>9, <2>10
  <2>12. \A a \in Rank : \A i \in VizSlots(a)' :
           \A b \in Rank : calls'[b][i - 1].req = calls'[a][i].req
    BY DEF SameRequest
  <2>13. calls'[s][m + 1].req = calls'[r][m + 1].req
    <3>1. /\ calls'[s][(m + 1) - 1].req = calls'[r][m + 1].req
          /\ calls'[s][(m + 1) - 1].req = calls'[s][m + 1].req
      BY <1>6, <2>7, <2>12
    <3>2. QED
      BY <3>1
  <2>14. QED
    BY <1>1, <1>3, <2>5, <2>11, <2>13
<1>11. /\ Len(RanSeq(r)) = n
       /\ RanSeq(r)' = Append(RanSeq(r), q)
       /\ \A k \in 1 .. n : RanSeq(r)[k] # q
  BY <1>4, <1>5, <1>7, RanIsRuns
<1>12. ASSUME NEW s \in Rank
       PROVE  /\ Len(RanSeq(s)) >= n
              /\ Len(RanSeq(s)) > n => RanSeq(s)[n + 1] = q
              /\ s # r => RanSeq(s)' = RanSeq(s)
  <2>1. RanSeq(s) = RunsIn(calls[s]) /\ RanSeq(s)' = RunsIn(calls'[s])
    BY RanIsRuns
  <2>2. QED
    BY <1>3, <1>5, <1>9, <1>10, <2>1
<1> HIDE DEF n
<1>13. QED
  <2> DEFINE R == [s \in Rank |-> RanSeq(s)]
  <2>1. R' = [R EXCEPT ![r] = Append(@, q)]
    BY <1>11, <1>12
  <2>2. QED
    BY <1>11, <1>12, <2>1 DEF Log!Run

LEMMA InitLog == Init => Log!Init /\ \A r \in Rank : Numbered(calls[r])
<1> SUFFICES ASSUME Init PROVE Log!Init /\ \A r \in Rank : Numbered(calls[r])
  OBVIOUS
<1>1. ASSUME NEW r \in Rank PROVE Numbered(calls[r]) /\ RanSeq(r) = <<>>
  <2>1. calls[r] = <<>> /\ calls[r] \in Seq(Call) /\ VizIn(calls[r]) = {}
    BY DEF Init, VizIn
  <2>2. Cardinality(VizIn(calls[r])) = 0
    BY <2>1, FS_EmptySet
  <2>3. Numbered(calls[r])
    BY <2>2 DEF Numbered
  <2>4. RunsIn(calls[r]) \in Seq(Req) /\ Len(RunsIn(calls[r])) = 0
    BY <2>1, <2>2, <2>3, RunsAt
  <2>5. RunsIn(calls[r]) = <<>>
    BY <2>4
  <2>6. QED
    BY <2>3, <2>5, RanIsRuns
<1>2. QED
  BY <1>1 DEF Log!Init

LEMMA NextLog ==
  ASSUME WaitInv, WaitInv', \A r \in Rank : Numbered(calls[r]), [Next]_vars
  PROVE  /\ [Log!Next]_[r \in Rank |-> RanSeq(r)]
         /\ \A r \in Rank : Numbered(calls'[r])
<1>1. CASE calls' = calls
  <2>1. \A r \in Rank : RanSeq(r)' = RanSeq(r) /\ calls'[r] = calls[r]
    BY <1>1, RanIsRuns
  <2>2. QED
    BY <2>1
<1>2. ASSUME NEW r \in Rank, NEW kind \in Kind, NEW q \in Req, NEW exec \in BOOLEAN,
             Enter(r, kind, q, exec),
             kind = "viz" => Joined(Len(calls[r]), "allreduce")
      PROVE  /\ [Log!Next]_[s \in Rank |-> RanSeq(s)]
             /\ \A s \in Rank : Numbered(calls'[s])
  <2> DEFINE c == [kind |-> kind, req |-> q, exec |-> exec]
  <2>1. /\ calls' = [calls EXCEPT ![r] = Append(@, c)]
        /\ c \in Call /\ c.kind = kind /\ c.req = q
    BY <1>2 DEF Enter, Call
  <2> HIDE DEF c
  <2>2. calls \in [Rank -> Seq(Call)]
    BY DEF WaitInv, TypeInv, TypeOK
  <2>3. /\ calls'[r] = Append(calls[r], c) /\ calls[r] \in Seq(Call)
        /\ \A s \in Rank \ {r} : calls'[s] = calls[s]
    BY <2>1, <2>2
  <2>4. ASSUME NEW D, D = Append(calls[r], c)
        PROVE  Numbered(D) /\ (kind # "viz" => RunsIn(D) = RunsIn(calls[r]))
    BY <2>1, <2>3, <2>4, RunsAppend
  <2>5. /\ \A s \in Rank : Numbered(calls'[s])
        /\ kind # "viz" => \A s \in Rank : RanSeq(s)' = RanSeq(s)
    BY <2>3, <2>4, RanIsRuns
  <2>6. CASE kind = "viz"
    <3>1. Log!Run(r, q)
      BY <1>2, <2>6, LogRun DEF WaitInv
    <3>2. QED
      BY <2>5, <3>1 DEF Log!Next
  <2>7. CASE kind # "viz"
    BY <2>5, <2>7
  <2>8. QED
    BY <2>6, <2>7
<1>3. QED
  BY <1>1, <1>2, NextEnter DEF WaitInv

\* The ranks run one common sequence of visualizations, each request at most once,
\* and in step: with clients that wait for their requests to be queued, the server
\* implements VizLog in every mode, whatever the number of ranks and requests and
\* the order they arrive in.
THEOREM ServerRunsOneLog == Waiting /\ Spec => OneLog
<1> DEFINE IInv == WaitInv /\ \A r \in Rank : Numbered(calls[r])
<1>1. Init => IInv /\ Log!Init
  BY InitWait, InitLog
<1>2. Waiting /\ IInv /\ [Next]_vars => IInv' /\ [Log!Next]_[r \in Rank |-> RanSeq(r)]
  BY NextWait, NextLog
<1>3. Waiting => []Waiting
  BY DEF Waiting, SumTestExact, DistinctTs
<1> HIDE DEF IInv
<1>4. QED
  BY <1>1, <1>2, <1>3, PTL DEF Spec, OneLog, Log!Spec
=============================================================================
