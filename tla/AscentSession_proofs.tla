------------------------- MODULE AscentSession_proofs -------------------------
(***************************************************************************)
(* Theorems about AscentSession for any ranks, clients and programs.       *)
(***************************************************************************)
EXTENDS AscentSession, FiniteSetTheorems, TLAPS

\* The handlers that are inside Ascent on rank r.
Busy(r) == {c \in Clients : handler[r][c] \in {"published", "executing"}}

\* A handler is one of a call that is not answered yet.
Active(r, c) ==
  /\ handler[r][c] # "none" => step[c][r] < Len(Program[c])
  /\ handler[r][c] = "published" => Present(c, r) = "publish_and_execute"
  /\ handler[r][c] = "executing" => Present(c, r) \in {"execute", "publish_and_execute"}

TypeInv ==
  /\ TypeOK
  /\ \A r \in Rank : IsFiniteSet(Busy(r))
  /\ \A r \in Rank, c \in Clients : Active(r, c)

\* Clients that take turns: who has begun on a rank has all before it done there.
InTurns ==
  regime.turns =>
    \A r \in Rank, c \in Clients :
      handler[r][c] # "none" \/ step[c][r] > 0
        => \A d \in Clients : d < c => Done(d, r)

\* Between the two calls of ams_publish_and_execute the mesh stays.
MeshHeld ==
  regime.streams = 1 \/ regime.turns =>
    \A r \in Rank, c \in Clients :
      handler[r][c] = "published" =>
        session[r].owner = None \/ session[r].mesh = c

\* What ams_publish_and_execute has executed so far.
AtomicExec(e) ==
  Program[e.client][e.call] = "publish_and_execute" => e.mesh = e.client

AtomicSoFar ==
  regime.streams = 1 \/ regime.turns =>
    \A r \in Rank : \A k \in 1 .. Len(execs[r]) : AtomicExec(execs[r][k])

AtomicInv == TypeInv /\ InTurns /\ MeshHeld /\ AtomicSoFar

-----------------------------------------------------------------------------
\* Client c has published a mesh in its first n calls, and not opened since.
Published(c, n) ==
  \E j \in 1 .. n :
    /\ Program[c][j] \in {"publish", "publish_and_execute"}
    /\ \A m \in j .. n : Program[c][m] # "open"

\* Programs that open a session of their own before anything else, publish in it
\* before they execute and close it at the end, like those of examples/client.cpp.
OwnPrograms ==
  \A c \in Clients :
    /\ Program[c] # <<>> =>
         Program[c][1] = "open" /\ Program[c][Len(Program[c])] = "close"
    /\ \A k \in 1 .. Len(Program[c]) :
         Program[c][k] = "execute" => Published(c, k - 1)

\* Whose session and whose mesh it is, is at work: who ends has closed the session.
NothingLeft(r) ==
  /\ session[r].owner # None => AtWork(session[r].owner, r)
  /\ session[r].mesh # None => AtWork(session[r].mesh, r)

\* A client that still has the session it opened finds a mesh where it published one.
MeshThere(r, c) ==
  AtWork(c, r) /\ session[r].owner = c =>
    /\ Published(c, step[c][r]) => session[r].mesh # None
    /\ handler[r][c] \in {"published", "executing"}
         /\ Present(c, r) = "publish_and_execute" => session[r].mesh # None

OwnInv ==
  /\ \A r \in Rank : NothingLeft(r)
  /\ \A r \in Rank, c \in Clients : MeshThere(r, c)
-----------------------------------------------------------------------------
(***************************************************************************)
(* Types.  A step is one of one client on one rank.                        *)
(***************************************************************************)
Label == {"none", "arrived", "published", "executing"}

\* Nothing but the handler of client c on rank r moves.
OnlyHere(r, c) ==
  /\ regime' = regime
  /\ step'    \in [Clients -> [Rank -> Nat]]
  /\ handler' \in [Rank -> [Clients -> Label]]
  /\ \A s \in Rank, d \in Clients :
       s # r \/ d # c =>
         step'[d][s] = step[d][s] /\ handler'[s][d] = handler[s][d]

LEMMA GotoHere ==
  ASSUME TypeOK, NEW r \in Rank, NEW c \in Clients, NEW label \in Label,
         Goto(r, c, label), UNCHANGED <<regime, step>>
  PROVE  /\ OnlyHere(r, c)
         /\ handler'[r][c] = label /\ step'[c][r] = step[c][r]
<1>1. handler' \in [Rank -> [Clients -> Label]] /\ handler'[r][c] = label
  BY DEF TypeOK, Goto, Label
<1>2. \A s \in Rank, d \in Clients :
        s # r \/ d # c => handler'[s][d] = handler[s][d]
  BY DEF TypeOK, Goto
<1>3. QED
  BY <1>1, <1>2 DEF TypeOK, OnlyHere

LEMMA RespondHere ==
  ASSUME TypeOK, NEW r \in Rank, NEW c \in Clients, Respond(r, c), UNCHANGED regime
  PROVE  /\ OnlyHere(r, c)
         /\ handler'[r][c] = "none" /\ step'[c][r] = step[c][r] + 1
<1>1. /\ handler' \in [Rank -> [Clients -> Label]]
      /\ handler'[r][c] = "none"
  BY DEF TypeOK, Respond, Goto, Label
<1>2. \A s \in Rank, d \in Clients :
        s # r \/ d # c => handler'[s][d] = handler[s][d]
  BY DEF TypeOK, Respond, Goto
<1>3. /\ step' \in [Clients -> [Rank -> Nat]]
      /\ step'[c][r] = step[c][r] + 1
      /\ \A s \in Rank, d \in Clients : s # r \/ d # c => step'[d][s] = step[d][s]
  BY DEF TypeOK, Respond
<1>4. QED
  BY <1>1, <1>2, <1>3 DEF OnlyHere

\* What the steps of a client on a rank do to the handler, the session and the log.
Effect(r, c) ==
  /\ OnlyHere(r, c)
  /\ \A s \in Rank \ {r} : session'[s] = session[s] /\ execs'[s] = execs[s]
  /\ \/ /\ handler[r][c] = "none" /\ handler'[r][c] = "arrived"
        /\ ~Done(c, r)
        /\ regime.turns => \A d \in Clients : d < c => Done(d, r)
        /\ step'[c][r] = step[c][r]
        /\ session'[r] = session[r] /\ execs'[r] = execs[r]
     \/ /\ handler[r][c] = "arrived" /\ handler'[r][c] = "none" /\ StreamFree(r)
        /\ step'[c][r] = step[c][r] + 1
        /\ execs'[r] = execs[r]
        /\ \/ /\ Present(c, r) = "open"
              /\ session'[r] = [owner |-> c, mesh |-> None]
           \/ /\ Present(c, r) = "close"
              /\ session'[r] = Closed
           \/ /\ Present(c, r) = "publish"
              /\ session'[r] = [session[r] EXCEPT
                                  !.mesh = IF session[r].owner = None THEN @ ELSE c]
           \/ /\ Present(c, r) = "execute"
              /\ session[r].owner = None
              /\ session'[r] = session[r]
     \/ /\ handler[r][c] = "arrived" /\ handler'[r][c] = "published" /\ StreamFree(r)
        /\ Present(c, r) = "publish_and_execute"
        /\ step'[c][r] = step[c][r]
        /\ execs'[r] = execs[r]
        /\ session'[r] = [session[r] EXCEPT
                            !.mesh = IF session[r].owner = None THEN @ ELSE c]
     \/ /\ \/ handler[r][c] = "arrived" /\ StreamFree(r) /\ Present(c, r) = "execute"
           \/ handler[r][c] = "published"
        /\ handler'[r][c] = "executing"
        /\ session[r].owner # None
        /\ step'[c][r] = step[c][r]
        /\ session'[r] = session[r]
        /\ execs'[r] = Append(execs[r], [client |-> c,
                                         call   |-> step[c][r] + 1,
                                         owner  |-> session[r].owner,
                                         mesh   |-> session[r].mesh])
     \/ /\ \/ handler[r][c] = "published" /\ session[r].owner = None
           \/ handler[r][c] = "executing"
        /\ handler'[r][c] = "none"
        /\ step'[c][r] = step[c][r] + 1
        /\ session'[r] = session[r] /\ execs'[r] = execs[r]

LEMMA StepEffect ==
  ASSUME TypeOK, NEW r \in Rank, NEW c \in Clients, Send(c, r) \/ HandlerStep(r, c)
  PROVE  Effect(r, c)
<1>1. CASE Send(c, r)
  BY <1>1, GotoHere DEF Send, Effect, Label
<1>2. CASE Open(r, c) \/ Close(r, c) \/ Publish(r, c)
  <2>1. /\ OnlyHere(r, c)
        /\ handler'[r][c] = "none" /\ step'[c][r] = step[c][r] + 1
        /\ UNCHANGED execs
        /\ handler[r][c] = "arrived" /\ StreamFree(r)
    BY <1>2, RespondHere DEF Open, Close, Publish, Arrived
  <2>2. \A s \in Rank \ {r} : session'[s] = session[s]
    BY <1>2 DEF TypeOK, Open, Close, Publish, PublishMesh
  <2>3. \/ Present(c, r) = "open" /\ session'[r] = [owner |-> c, mesh |-> None]
        \/ Present(c, r) = "close" /\ session'[r] = Closed
        \/ /\ Present(c, r) = "publish"
           /\ session'[r] = [session[r] EXCEPT
                               !.mesh = IF session[r].owner = None THEN @ ELSE c]
    BY <1>2 DEF TypeOK, Open, Close, Publish, PublishMesh, Arrived
  <2>4. QED
    BY <2>1, <2>2, <2>3 DEF Effect
<1>3. CASE BeginPublishAndExecute(r, c)
  <2>1. /\ OnlyHere(r, c)
        /\ handler'[r][c] = "published" /\ step'[c][r] = step[c][r]
        /\ UNCHANGED execs
        /\ handler[r][c] = "arrived" /\ StreamFree(r)
        /\ Present(c, r) = "publish_and_execute"
    BY <1>3, GotoHere DEF BeginPublishAndExecute, Arrived, Label
  <2>2. /\ \A s \in Rank \ {r} : session'[s] = session[s]
        /\ session'[r] = [session[r] EXCEPT
                            !.mesh = IF session[r].owner = None THEN @ ELSE c]
    BY <1>3 DEF TypeOK, BeginPublishAndExecute, PublishMesh
  <2>3. QED
    BY <2>1, <2>2 DEF Effect
<1>4. CASE Execute(r, c) \/ EndPublishAndExecute(r, c)
  <2>1. /\ \/ handler[r][c] = "arrived" /\ StreamFree(r) /\ Present(c, r) = "execute"
           \/ handler[r][c] = "published"
        /\ ExecuteActions(r, c)
        /\ UNCHANGED <<regime, session>>
    BY <1>4 DEF Execute, EndPublishAndExecute, Arrived, ExecuteActions
  <2>2. CASE session[r].owner = None
    <3>1. Respond(r, c) /\ UNCHANGED execs
      BY <2>1, <2>2 DEF ExecuteActions
    <3>2. OnlyHere(r, c) /\ handler'[r][c] = "none" /\ step'[c][r] = step[c][r] + 1
      BY <2>1, <3>1, RespondHere
    <3>3. QED
      BY <2>1, <2>2, <3>1, <3>2 DEF Effect
  <2>3. CASE session[r].owner # None
    <3> DEFINE e == [client |-> c, call |-> step[c][r] + 1,
                     owner |-> session[r].owner, mesh |-> session[r].mesh]
    <3>1. /\ execs' = [execs EXCEPT ![r] = Append(@, e)]
          /\ Goto(r, c, "executing")
          /\ UNCHANGED step
      BY <2>1, <2>3 DEF ExecuteActions
    <3>2. OnlyHere(r, c) /\ handler'[r][c] = "executing" /\ step'[c][r] = step[c][r]
      BY <2>1, <3>1, GotoHere DEF Label
    <3>3. execs'[r] = Append(execs[r], e) /\ \A s \in Rank \ {r} : execs'[s] = execs[s]
      <4> HIDE DEF e
      <4> QED  BY <3>1 DEF TypeOK
    <3>4. QED
      BY <2>1, <2>3, <3>2, <3>3 DEF Effect
  <2>4. QED
    BY <2>2, <2>3
<1>5. CASE FinishExecute(r, c)
  BY <1>5, RespondHere DEF FinishExecute, Effect
<1>6. QED
  BY <1>1, <1>2, <1>3, <1>4, <1>5 DEF HandlerStep

\* Everything is idle and closed at first.
LEMMA InitType == Init => TypeInv
<1> SUFFICES ASSUME Init PROVE TypeInv
  OBVIOUS
<1>1. \A r \in Rank : Busy(r) = {}
  BY DEF Init, Busy
<1>2. \A r \in Rank : IsFiniteSet(Busy(r)) /\ Cardinality(Busy(r)) <= regime.streams
  <2>1. regime.streams \in Nat
    BY SessionAssumption DEF Init
  <2>2. QED
    BY <1>1, <2>1, FS_EmptySet
<1>3. \A c \in Clients : Len(Program[c]) \in Nat
  BY SessionAssumption
<1>4. TypeOK
  <2>1. /\ regime \in Regimes
        /\ step \in [Clients -> [Rank -> Nat]]
        /\ handler \in [Rank -> [Clients -> {"none", "arrived", "published", "executing"}]]
    BY DEF Init
  <2>2. /\ session \in [Rank -> [owner : Clients \cup {None}, mesh : Clients \cup {None}]]
        /\ \A r \in Rank : session[r].owner = None => session[r].mesh = None
    BY DEF Init, Closed
  <2>3. execs \in [Rank -> Seq(Exec)]
    BY DEF Init
  <2>4. \A c \in Clients, r \in Rank : step[c][r] <= Len(Program[c])
    BY <1>3 DEF Init
  <2>5. \A r \in Rank :
          Cardinality({c \in Clients : handler[r][c] \in {"published", "executing"}})
            <= regime.streams
    BY <1>2 DEF Busy
  <2>6. QED
    BY <2>1, <2>2, <2>3, <2>4, <2>5 DEF TypeOK
<1>5. \A r \in Rank, c \in Clients : Active(r, c)
  BY DEF Init, Active
<1>6. QED
  BY <1>2, <1>4, <1>5 DEF TypeInv

\* No rank has more handlers inside Ascent than it has streams.
LEMMA BusyBound ==
  ASSUME TypeInv, NEW r \in Rank, NEW c \in Clients, Effect(r, c), NEW s \in Rank
  PROVE  IsFiniteSet(Busy(s)') /\ Cardinality(Busy(s)') <= regime.streams
<1>1. /\ IsFiniteSet(Busy(s))
      /\ Cardinality(Busy(s)) <= regime.streams
      /\ Cardinality(Busy(s)) \in Nat
      /\ regime.streams \in Nat
  <2>1. IsFiniteSet(Busy(s)) /\ Cardinality(Busy(s)) <= regime.streams
    BY DEF TypeInv, TypeOK, Busy
  <2>2. QED
    BY <2>1, FS_CardinalityType, SessionAssumption DEF TypeInv, TypeOK
<1>2. Busy(s)' \subseteq Busy(s) \cup {c}
  BY DEF Busy, Effect, OnlyHere
<1>3. CASE Busy(s)' \subseteq Busy(s)
  <2>1. IsFiniteSet(Busy(s)') /\ Cardinality(Busy(s)') <= Cardinality(Busy(s))
    BY <1>1, <1>3, FS_Subset
  <2>2. Cardinality(Busy(s)') \in Nat
    BY <2>1, FS_CardinalityType
  <2>3. QED
    BY <1>1, <2>1, <2>2
<1>4. CASE ~(Busy(s)' \subseteq Busy(s))
  <2>1. s = r /\ handler[r][c] = "arrived" /\ StreamFree(r)
    BY <1>2, <1>4 DEF Busy, Effect, OnlyHere
  <2>2. Cardinality(Busy(s)) < regime.streams
    BY <2>1 DEF StreamFree, Busy
  <2>3. IsFiniteSet(Busy(s) \cup {c}) /\ Cardinality(Busy(s) \cup {c}) <= regime.streams
    <3> DEFINE B == Busy(s)
    <3>1. IsFiniteSet(B) /\ Cardinality(B) \in Nat /\ Cardinality(B) < regime.streams
      BY <1>1, <2>2
    <3> HIDE DEF B
    <3>2. /\ IsFiniteSet(B \cup {c})
          /\ \/ Cardinality(B \cup {c}) = Cardinality(B)
             \/ Cardinality(B \cup {c}) = Cardinality(B) + 1
      BY <3>1, FS_AddElement
    <3>3. Cardinality(B \cup {c}) <= regime.streams
      BY <1>1, <3>1, <3>2
    <3>4. QED
      BY <3>2, <3>3 DEF B
  <2>4. /\ IsFiniteSet(Busy(s)')
        /\ Cardinality(Busy(s)') <= Cardinality(Busy(s) \cup {c})
    BY <1>2, <2>3, FS_Subset
  <2>5. Cardinality(Busy(s)') \in Nat /\ Cardinality(Busy(s) \cup {c}) \in Nat
    BY <2>3, <2>4, FS_CardinalityType
  <2>6. QED
    BY <1>1, <2>3, <2>4, <2>5
<1>5. QED
  BY <1>3, <1>4

LEMMA NextType == TypeInv /\ [Next]_vars => TypeInv'
<1> SUFFICES ASSUME TypeInv, [Next]_vars PROVE TypeInv'
  OBVIOUS
<1>1. ASSUME NEW r \in Rank, NEW c \in Clients, Send(c, r) \/ HandlerStep(r, c)
      PROVE  TypeInv'
  <2>1. TypeOK /\ Effect(r, c)
    BY <1>1, StepEffect DEF TypeInv
  <2>2. \A s \in Rank : IsFiniteSet(Busy(s)') /\ Cardinality(Busy(s)') <= regime.streams
    BY <2>1, BusyBound
  <2>3. Len(Program[c]) \in Nat /\ step[c][r] \in Nat
    BY <2>1, SessionAssumption DEF TypeOK
  \* The call that was under way is at most the last one.
  <2>4. Active(r, c)' /\ step'[c][r] <= Len(Program[c])
    <3>1. /\ Active(r, c)
          /\ step[c][r] <= Len(Program[c])
      BY <2>1 DEF TypeInv, TypeOK
    <3>2. handler[r][c] = "none" /\ handler'[r][c] = "arrived"
            => step[c][r] < Len(Program[c])
      BY <2>1, <2>3, <3>1 DEF Effect, Done
    <3>3. \/ step'[c][r] = step[c][r]
          \/ step'[c][r] = step[c][r] + 1 /\ handler[r][c] # "none"
               /\ handler'[r][c] = "none"
      BY <2>1 DEF Effect
    <3>4. step'[c][r] <= Len(Program[c])
      BY <2>3, <3>1, <3>3 DEF Active
    <3>5. handler'[r][c] = "published" =>
            Present(c, r) = "publish_and_execute" /\ step'[c][r] = step[c][r]
              /\ handler[r][c] = "arrived"
      BY <2>1 DEF Effect
    <3>6. handler'[r][c] = "executing" =>
            /\ Present(c, r) \in {"execute", "publish_and_execute"}
            /\ step'[c][r] = step[c][r]
      BY <2>1, <3>1 DEF Effect, Active
    <3>7. handler'[r][c] # "none" =>
            step'[c][r] = step[c][r] /\ step[c][r] < Len(Program[c])
      <4>1. handler'[r][c] # "none" => step'[c][r] = step[c][r]
        BY <2>1 DEF Effect
      <4>2. handler'[r][c] # "none" /\ handler[r][c] = "none" => handler'[r][c] = "arrived"
        BY <2>1 DEF Effect
      <4>3. QED
        BY <3>1, <3>2, <4>1, <4>2 DEF Active
    <3>8. QED
      BY <3>4, <3>5, <3>6, <3>7 DEF Active, Present
  <2>5. \A s \in Rank, d \in Clients : Active(s, d)' /\ step'[d][s] <= Len(Program[d])
    <3> SUFFICES ASSUME NEW s \in Rank, NEW d \in Clients
                 PROVE  Active(s, d)' /\ step'[d][s] <= Len(Program[d])
      OBVIOUS
    <3>1. CASE s = r /\ d = c
      BY <2>4, <3>1
    <3>2. CASE s # r \/ d # c
      <4>1. step'[d][s] = step[d][s] /\ handler'[s][d] = handler[s][d]
        BY <2>1, <3>2 DEF Effect, OnlyHere
      <4>2. Active(s, d) /\ step[d][s] <= Len(Program[d])
        BY DEF TypeInv, TypeOK
      <4>3. QED
        BY <4>1, <4>2 DEF Active, Present
    <3>3. QED
      BY <3>1, <3>2
  <2>6. /\ session' \in [Rank -> [owner : Clients \cup {None}, mesh : Clients \cup {None}]]
        /\ \A s \in Rank : session'[s].owner = None => session'[s].mesh = None
    <3>1. /\ session'[r] \in [owner : Clients \cup {None}, mesh : Clients \cup {None}]
          /\ session'[r].owner = None => session'[r].mesh = None
      <4>1. session[r] \in [owner : Clients \cup {None}, mesh : Clients \cup {None}]
            /\ (session[r].owner = None => session[r].mesh = None)
        BY <2>1 DEF TypeOK
      <4>2. \/ session'[r] = session[r]
            \/ session'[r] = [owner |-> c, mesh |-> None]
            \/ session'[r] = [owner |-> None, mesh |-> None]
            \/ session'[r] = [session[r] EXCEPT
                                !.mesh = IF session[r].owner = None THEN @ ELSE c]
        BY <2>1 DEF Effect, Closed
      <4>3. c # None
        BY SessionAssumption
      <4>4. QED
        BY <4>1, <4>2, <4>3
    <3>2. \A s \in Rank \ {r} : session'[s] = session[s]
      BY <2>1 DEF Effect
    <3>3. DOMAIN session' = Rank /\ session' = [s \in Rank |-> session'[s]]
      BY <1>1, <2>1 DEF TypeOK, Send, HandlerStep, Open, Close, Publish, Execute,
          BeginPublishAndExecute, EndPublishAndExecute, ExecuteActions, FinishExecute,
          PublishMesh
    <3>4. QED
      BY <2>1, <3>1, <3>2, <3>3 DEF TypeOK
  <2>7. execs' \in [Rank -> Seq(Exec)]
    <3> DEFINE e == [client |-> c, call |-> step[c][r] + 1,
                     owner |-> session[r].owner, mesh |-> session[r].mesh]
    <3>1. \/ UNCHANGED execs
          \/ execs' = [execs EXCEPT ![r] = Append(@, e)] /\ session[r].owner # None
      BY <1>1 DEF Send, HandlerStep, Open, Close, Publish, Execute,
          BeginPublishAndExecute, EndPublishAndExecute, ExecuteActions, FinishExecute
    <3>2. session[r].owner # None => e \in Exec
      BY <2>1, <2>3 DEF TypeOK, Exec
    <3> HIDE DEF e
    <3>3. CASE UNCHANGED execs
      BY <2>1, <3>3 DEF TypeOK
    <3>4. CASE execs' = [execs EXCEPT ![r] = Append(@, e)] /\ session[r].owner # None
      <4>1. execs \in [Rank -> Seq(Exec)] /\ execs[r] \in Seq(Exec) /\ e \in Exec
        BY <2>1, <3>2, <3>4 DEF TypeOK
      <4>2. Append(execs[r], e) \in Seq(Exec)
        BY <4>1
      <4>3. QED
        BY <3>4, <4>1, <4>2
    <3>5. QED
      BY <3>1, <3>3, <3>4
  <2>8. TypeOK'
    <3>1. regime' = regime /\ regime \in Regimes
      BY <2>1 DEF Effect, OnlyHere, TypeOK
    <3>2. \A s \in Rank :
            Cardinality({d \in Clients : handler'[s][d] \in {"published", "executing"}})
              <= regime'.streams
      BY <2>2, <3>1 DEF Busy
    <3>3. step' \in [Clients -> [Rank -> Nat]]
          /\ handler' \in [Rank -> [Clients -> Label]]
      BY <2>1 DEF Effect, OnlyHere
    <3>4. QED
      BY <2>5, <2>6, <2>7, <3>1, <3>2, <3>3 DEF TypeOK, Label
  <2>9. QED
    BY <2>2, <2>5, <2>8 DEF TypeInv
<1>2. CASE UNCHANGED vars
  BY <1>2 DEF vars, TypeInv, TypeOK, Busy, Active, Present
<1>3. QED
  BY <1>1, <1>2 DEF Next, Rest

\* Types, and the handlers inside Ascent, for any number of ranks and streams.
THEOREM TypeCorrect == Spec => []TypeOK
<1>1. TypeInv => TypeOK
  BY DEF TypeInv
<1>2. QED
  BY InitType, NextType, <1>1, PTL DEF Spec
-----------------------------------------------------------------------------
(***************************************************************************)
(* Publish and execute.                                                    *)
(***************************************************************************)

\* A client that is done on a rank has no step left there.
LEMMA DoneIsIdle ==
  ASSUME TypeInv, NEW r \in Rank, NEW c \in Clients, Effect(r, c)
  PROVE  ~Done(c, r)
<1>1. handler[r][c] # "none" => step[c][r] < Len(Program[c])
  BY DEF TypeInv, Active
<1>2. step[c][r] \in Nat /\ Len(Program[c]) \in Nat
  BY SessionAssumption DEF TypeInv, TypeOK
<1>3. handler[r][c] # "none" \/ ~Done(c, r)
  BY DEF Effect
<1>4. QED
  BY <1>1, <1>2, <1>3 DEF Done

LEMMA NextInTurns ==
  ASSUME TypeInv, InTurns, NEW r \in Rank, NEW c \in Clients, Effect(r, c)
  PROVE  InTurns'
<1> SUFFICES ASSUME regime'.turns, NEW s \in Rank, NEW d \in Clients,
                    handler'[s][d] # "none" \/ step'[d][s] > 0,
                    NEW b \in Clients, b < d
             PROVE  Done(b, s)'
  BY DEF InTurns
<1>1. regime' = regime /\ regime.turns
  BY DEF Effect, OnlyHere
<1>2. b # d
  BY SessionAssumption
<1>3. s # r \/ b # c => (Done(b, s)' <=> Done(b, s))
  BY DEF Effect, OnlyHere, Done
<1>4. CASE s # r \/ d # c
  <2>1. handler[s][d] # "none" \/ step[d][s] > 0
    BY <1>4 DEF Effect, OnlyHere
  <2>2. Done(b, s)
    BY <1>1, <2>1 DEF InTurns
  <2>3. s # r \/ b # c
    BY <2>2, DoneIsIdle
  <2>4. QED
    BY <1>3, <2>2, <2>3
<1>5. CASE s = r /\ d = c
  <2>1. handler[r][c] # "none" => Done(b, r)
    BY <1>1, <1>5 DEF InTurns
  <2>2. handler[r][c] = "none" => Done(b, r)
    BY <1>1, <1>5 DEF Effect
  <2>3. QED
    BY <1>2, <1>3, <1>5, <2>1, <2>2
<1>6. QED
  BY <1>4, <1>5

\* On one stream, and in turns, a session stays as it is while another client is
\* between publish and execute.
LEMMA NobodyElse ==
  ASSUME TypeInv, InTurns, regime.streams = 1 \/ regime.turns,
         NEW r \in Rank, NEW c \in Clients, Effect(r, c),
         NEW d \in Clients, d # c, handler[r][d] = "published"
  PROVE  session'[r] = session[r]
<1> SUFFICES ASSUME handler[r][c] = "arrived", StreamFree(r)
             PROVE  FALSE
  BY DEF Effect
<1>1. CASE regime.streams = 1
  <2>1. IsFiniteSet(Busy(r)) /\ {d} \subseteq Busy(r)
    BY DEF TypeInv, Busy
  <2>2. Cardinality({d}) = 1 /\ Cardinality({d}) <= Cardinality(Busy(r))
    BY <2>1, FS_Subset, FS_Singleton
  <2>3. Cardinality(Busy(r)) \in Nat /\ Cardinality(Busy(r)) < 1
    BY <1>1, <2>1, FS_CardinalityType DEF StreamFree, Busy
  <2>4. QED
    BY <2>2, <2>3
<1>2. CASE regime.turns
  <2>1. c < d \/ d < c
    BY SessionAssumption
  <2>2. Done(c, r) \/ Done(d, r)
    BY <1>2, <2>1 DEF InTurns
  <2>3. step[d][r] < Len(Program[d]) /\ step[c][r] < Len(Program[c])
    BY DEF TypeInv, Active
  <2>4. /\ step[d][r] \in Nat /\ Len(Program[d]) \in Nat
        /\ step[c][r] \in Nat /\ Len(Program[c]) \in Nat
    BY SessionAssumption DEF TypeInv, TypeOK
  <2>5. QED
    BY <2>2, <2>3, <2>4 DEF Done
<1>3. QED
  BY <1>1, <1>2

LEMMA NextMeshHeld ==
  ASSUME TypeInv, InTurns, MeshHeld, NEW r \in Rank, NEW c \in Clients, Effect(r, c)
  PROVE  MeshHeld'
<1> SUFFICES ASSUME regime'.streams = 1 \/ regime'.turns,
                    NEW s \in Rank, NEW d \in Clients, handler'[s][d] = "published"
             PROVE  session'[s].owner = None \/ session'[s].mesh = d
  BY DEF MeshHeld
<1>1. regime' = regime /\ (regime.streams = 1 \/ regime.turns)
  BY DEF Effect, OnlyHere
<1>2. CASE s # r \/ d # c
  <2>1. handler[s][d] = "published"
    BY <1>2 DEF Effect, OnlyHere
  <2>2. session[s].owner = None \/ session[s].mesh = d
    BY <1>1, <2>1 DEF MeshHeld
  <2>3. session'[s] = session[s]
    BY <1>1, <1>2, <2>1, NobodyElse DEF Effect
  <2>4. QED
    BY <2>2, <2>3
<1>3. CASE s = r /\ d = c
  <2>1. session'[r] = [session[r] EXCEPT
                         !.mesh = IF session[r].owner = None THEN @ ELSE c]
    BY <1>3 DEF Effect
  <2>2. session[r] \in [owner : Clients \cup {None}, mesh : Clients \cup {None}]
    BY DEF TypeInv, TypeOK
  <2>3. QED
    BY <1>3, <2>1, <2>2
<1>4. QED
  BY <1>2, <1>3

\* An execution is logged by the handler that has published, or by one of ams_execute.
LEMMA NextLog ==
  ASSUME TypeInv, NEW r \in Rank, NEW c \in Clients, Effect(r, c),
         NEW s \in Rank, NEW k \in 1 .. Len(execs'[s])
  PROVE  \/ k \in 1 .. Len(execs[s]) /\ execs'[s][k] = execs[s][k]
         \/ /\ s = r /\ session[r].owner # None
            /\ \/ handler[r][c] = "arrived" /\ Present(c, r) = "execute"
               \/ handler[r][c] = "published"
            /\ execs'[s][k] = [client |-> c, call |-> step[c][r] + 1,
                               owner |-> session[r].owner, mesh |-> session[r].mesh]
<1> DEFINE e == [client |-> c, call |-> step[c][r] + 1,
                 owner |-> session[r].owner, mesh |-> session[r].mesh]
<1>1. execs[s] \in Seq(Exec)
  BY DEF TypeInv, TypeOK
<1>2. \/ execs'[s] = execs[s]
      \/ /\ s = r /\ session[r].owner # None
         /\ \/ handler[r][c] = "arrived" /\ Present(c, r) = "execute"
            \/ handler[r][c] = "published"
         /\ execs'[s] = Append(execs[s], e)
  BY DEF Effect
<1> HIDE DEF e
<1>3. execs'[s] = Append(execs[s], e) =>
        execs'[s][k] = e \/ (k \in 1 .. Len(execs[s]) /\ execs'[s][k] = execs[s][k])
  BY <1>1
<1>4. QED
  BY <1>2, <1>3 DEF e

LEMMA NextAtomic == AtomicInv /\ [Next]_vars => AtomicInv'
<1> SUFFICES ASSUME AtomicInv, [Next]_vars PROVE AtomicInv'
  OBVIOUS
<1>1. TypeInv'
  BY NextType DEF AtomicInv
<1>2. ASSUME NEW r \in Rank, NEW c \in Clients, Send(c, r) \/ HandlerStep(r, c)
      PROVE  InTurns' /\ MeshHeld' /\ AtomicSoFar'
  <2>1. TypeInv /\ InTurns /\ MeshHeld /\ AtomicSoFar /\ Effect(r, c)
    BY <1>2, StepEffect DEF AtomicInv, TypeInv
  <2>2. InTurns' /\ MeshHeld'
    BY <2>1, NextInTurns, NextMeshHeld
  <2>3. AtomicSoFar'
    <3> SUFFICES ASSUME regime'.streams = 1 \/ regime'.turns,
                        NEW s \in Rank, NEW k \in 1 .. Len(execs'[s])
                 PROVE  AtomicExec(execs'[s][k])
      BY DEF AtomicSoFar, AtomicExec
    <3>1. regime' = regime /\ (regime.streams = 1 \/ regime.turns)
      BY <2>1 DEF Effect, OnlyHere
    <3>2. CASE k \in 1 .. Len(execs[s]) /\ execs'[s][k] = execs[s][k]
      BY <2>1, <3>1, <3>2 DEF AtomicSoFar
    <3>3. CASE /\ s = r /\ session[r].owner # None
               /\ \/ handler[r][c] = "arrived" /\ Present(c, r) = "execute"
                  \/ handler[r][c] = "published"
               /\ execs'[s][k] = [client |-> c, call |-> step[c][r] + 1,
                                  owner |-> session[r].owner, mesh |-> session[r].mesh]
      BY <2>1, <3>1, <3>3 DEF MeshHeld, AtomicExec, Present
    <3>4. QED
      BY <2>1, <3>2, <3>3, NextLog
  <2>4. QED
    BY <2>2, <2>3
<1>3. ASSUME UNCHANGED vars PROVE InTurns' /\ MeshHeld' /\ AtomicSoFar'
  BY <1>3 DEF vars, AtomicInv, InTurns, Done, MeshHeld, AtomicSoFar, AtomicExec
<1>4. InTurns' /\ MeshHeld' /\ AtomicSoFar'
  BY <1>2, <1>3 DEF Next, Rest, AtomicInv
<1>5. QED
  BY <1>1, <1>4 DEF AtomicInv

LEMMA InitAtomic == Init => AtomicInv
<1> SUFFICES ASSUME Init PROVE AtomicInv
  OBVIOUS
<1>1. InTurns /\ MeshHeld
  BY DEF Init, InTurns, MeshHeld
<1>2. AtomicSoFar
  BY DEF Init, AtomicSoFar
<1>3. QED
  BY <1>1, <1>2, InitType DEF AtomicInv

\* What is executed is in one of the logs.
LEMMA InSomeLog ==
  ASSUME TypeInv, NEW e \in Executed
  PROVE  \E r \in Rank : \E k \in 1 .. Len(execs[r]) : e = execs[r][k]
<1>1. PICK r \in Rank : e \in Range(execs[r])
  BY DEF Executed
<1>2. execs[r] \in Seq(Exec)
  BY DEF TypeInv, TypeOK
<1>3. QED
  BY <1>1, <1>2 DEF Range

\* "as a single atomic operation" (DummyBackend.cpp): on one stream, or with clients
\* that take turns, ams_publish_and_execute runs its actions on its own mesh.
THEOREM AtomicOnOneStreamOrInTurns == Spec => []PublishExecuteAtomic
<1>1. AtomicInv => PublishExecuteAtomic
  <2> SUFFICES ASSUME AtomicInv, regime.streams = 1 \/ regime.turns, NEW e \in Executed
               PROVE  AtomicExec(e)
    BY DEF PublishExecuteAtomic, AtomicExec
  <2>1. PICK r \in Rank : \E k \in 1 .. Len(execs[r]) : e = execs[r][k]
    BY InSomeLog DEF AtomicInv
  <2>2. QED
    BY <2>1 DEF AtomicInv, AtomicSoFar
<1>2. QED
  BY InitAtomic, NextAtomic, <1>1, PTL DEF Spec
-----------------------------------------------------------------------------
(***************************************************************************)
(* Sessions that overlap.                                                  *)
(***************************************************************************)

\* One more call publishes a mesh, or leaves what has been published.
LEMMA PublishedNext ==
  ASSUME NEW c \in Clients, NEW n \in Nat, Published(c, n + 1)
  PROVE  /\ Program[c][n + 1] # "open"
         /\ \/ n > 0 /\ Published(c, n)
            \/ Program[c][n + 1] \in {"publish", "publish_and_execute"}
<1>1. PICK j \in 1 .. n + 1 :
        /\ Program[c][j] \in {"publish", "publish_and_execute"}
        /\ \A m \in j .. n + 1 : Program[c][m] # "open"
  BY DEF Published
<1>2. Program[c][n + 1] # "open"
  BY <1>1
<1>3. CASE j = n + 1
  BY <1>1, <1>2, <1>3
<1>4. CASE j # n + 1
  <2>1. j \in 1 .. n /\ n > 0
    BY <1>1, <1>4
  <2>2. \A m \in j .. n : Program[c][m] # "open"
    BY <1>1, <2>1
  <2>3. QED
    BY <1>1, <1>2, <2>1, <2>2 DEF Published
<1>5. QED
  BY <1>3, <1>4

\* The call under way is one of the program; the first of them opens a session.
LEMMA UnderWay ==
  ASSUME TypeInv, OwnPrograms, NEW r \in Rank, NEW c \in Clients, handler[r][c] # "none"
  PROVE  /\ step[c][r] \in Nat
         /\ step[c][r] + 1 \in 1 .. Len(Program[c])
         /\ ~Done(c, r)
         /\ Present(c, r) # "open" => step[c][r] > 0
         /\ Present(c, r) # "close" => step[c][r] + 1 # Len(Program[c])
<1>1. /\ step[c][r] \in Nat /\ Len(Program[c]) \in Nat
      /\ step[c][r] < Len(Program[c])
  BY SessionAssumption DEF TypeInv, TypeOK, Active
<1>2. Program[c] # <<>>
  BY <1>1
<1>3. Program[c][1] = "open" /\ Program[c][Len(Program[c])] = "close"
  BY <1>2 DEF OwnPrograms
<1>4. Present(c, r) # "open" => step[c][r] # 0
  BY <1>3 DEF Present
<1>5. Present(c, r) # "close" => step[c][r] + 1 # Len(Program[c])
  BY <1>3 DEF Present
<1>6. QED
  BY <1>1, <1>4, <1>5 DEF Done

\* Clients stay at work until they close, and begin with a call that opens.
LEMMA StayAtWork ==
  ASSUME TypeInv, OwnPrograms, NEW r \in Rank, NEW c \in Clients, Effect(r, c)
  PROVE  /\ \A s \in Rank, d \in Clients :
              s # r \/ d # c => (AtWork(d, s)' <=> AtWork(d, s))
         /\ handler[r][c] # "none" /\ Present(c, r) \notin {"open", "close"}
              => AtWork(c, r) /\ AtWork(c, r)'
         /\ handler[r][c] # "none" /\ Present(c, r) # "close" /\ step'[c][r] = step[c][r] + 1
              => AtWork(c, r)'
         /\ step'[c][r] = step[c][r] => (AtWork(c, r)' <=> AtWork(c, r))
<1>1. \A s \in Rank, d \in Clients :
        s # r \/ d # c => (AtWork(d, s)' <=> AtWork(d, s))
  BY DEF Effect, OnlyHere, AtWork, Done
<1>2. step[c][r] \in Nat /\ Len(Program[c]) \in Nat
  BY SessionAssumption DEF TypeInv, TypeOK
<1>3. step'[c][r] = step[c][r] => (AtWork(c, r)' <=> AtWork(c, r))
  BY DEF AtWork, Done
<1>4. handler[r][c] # "none" /\ Present(c, r) # "close" /\ step'[c][r] = step[c][r] + 1
        => AtWork(c, r)'
  BY <1>2, UnderWay DEF AtWork, Done
<1>5. handler[r][c] # "none" /\ Present(c, r) # "open" => AtWork(c, r)
  BY <1>2, UnderWay DEF AtWork
<1>6. step'[c][r] = step[c][r] \/ step'[c][r] = step[c][r] + 1
  BY DEF Effect
<1>7. QED
  BY <1>1, <1>3, <1>4, <1>5, <1>6

LEMMA NextNothingLeft ==
  ASSUME TypeInv, OwnPrograms, OwnInv, NEW r \in Rank, NEW c \in Clients, Effect(r, c),
         NEW s \in Rank
  PROVE  NothingLeft(s)'
<1>1. /\ session[s] \in [owner : Clients \cup {None}, mesh : Clients \cup {None}]
      /\ session[s].owner = None => session[s].mesh = None
      /\ c # None
      /\ NothingLeft(s)
  BY SessionAssumption DEF TypeInv, TypeOK, OwnInv
\* Who is at work stays so unless it is the one that closes.
<1>2. ASSUME session'[s] = session[s],
             s # r \/ handler[r][c] = "none" \/ Present(c, r) # "close"
      PROVE  NothingLeft(s)'
  <2>1. \A d \in Clients : AtWork(d, s) => AtWork(d, s)'
    <3> SUFFICES ASSUME NEW d \in Clients, AtWork(d, s) PROVE AtWork(d, s)'
      OBVIOUS
    <3>1. CASE s # r \/ d # c
      BY <3>1, StayAtWork
    <3>2. CASE s = r /\ d = c
      <4>1. \/ step'[c][r] = step[c][r]
            \/ step'[c][r] = step[c][r] + 1 /\ handler[r][c] # "none"
        BY DEF Effect
      <4>2. QED
        BY <1>2, <3>2, <4>1, StayAtWork
    <3>3. QED
      BY <3>1, <3>2
  <2>2. QED
    BY <1>1, <1>2, <2>1 DEF NothingLeft, AtWork
<1>3. CASE s # r
  BY <1>2, <1>3 DEF Effect
<1>4. CASE s = r /\ Present(c, r) = "open" /\ session'[r] = [owner |-> c, mesh |-> None]
          /\ handler[r][c] = "arrived" /\ step'[c][r] = step[c][r] + 1
  <2>1. AtWork(c, r)'
    BY <1>4, StayAtWork
  <2>2. QED
    BY <1>4, <2>1 DEF NothingLeft, AtWork
<1>5. CASE s = r /\ session'[r] = Closed
  BY <1>5 DEF NothingLeft, Closed
<1>6. CASE /\ s = r /\ handler[r][c] = "arrived"
           /\ Present(c, r) \in {"publish", "publish_and_execute"}
           /\ session'[r] = [session[r] EXCEPT
                               !.mesh = IF session[r].owner = None THEN @ ELSE c]
  <2>1. AtWork(c, r)'
    BY <1>6, StayAtWork
  <2>2. session'[r].owner = session[r].owner
        /\ session'[r].mesh \in {None, c}
    BY <1>1, <1>6
  <2>3. CASE session[r].owner = None
    BY <1>1, <1>6, <2>2, <2>3 DEF NothingLeft
  <2>4. CASE session[r].owner # None
    <3>1. PICK d \in Clients : d = session[r].owner
      BY <1>1, <1>6, <2>4
    <3>2. AtWork(d, r)
      BY <1>1, <1>6, <2>4, <3>1 DEF NothingLeft
    <3>3. AtWork(d, r)'
      BY <2>1, <3>2, StayAtWork
    <3>4. step'[d][r] > 0 /\ step'[d][r] # Len(Program[d]) /\ session'[r].owner = d
      BY <2>2, <3>1, <3>3 DEF AtWork, Done
    <3>5. step'[session'[r].owner][r] > 0
          /\ step'[session'[r].owner][r] # Len(Program[session'[r].owner])
      BY <3>4
    <3>6. QED
      BY <1>6, <2>1, <2>2, <3>5 DEF NothingLeft, AtWork, Done
  <2>5. QED
    BY <2>3, <2>4
<1>7. CASE s = r /\ session[r].owner = None /\ session'[r] = session[r]
  BY <1>1, <1>7 DEF NothingLeft
<1>8. CASE s = r /\ handler[r][c] = "none" /\ session'[r] = session[r]
  BY <1>2, <1>8
<1>9. CASE /\ s = r /\ session'[r] = session[r]
           /\ \/ handler[r][c] = "arrived" /\ Present(c, r) = "execute"
              \/ handler[r][c] \in {"published", "executing"}
  <2>1. Present(c, r) # "close"
    BY <1>9 DEF TypeInv, Active
  <2>2. QED
    BY <1>2, <1>9, <2>1
<1>10. QED
  BY <1>3, <1>4, <1>5, <1>6, <1>7, <1>8, <1>9 DEF Effect

LEMMA NextMeshThere ==
  ASSUME TypeInv, OwnPrograms, OwnInv, NEW r \in Rank, NEW c \in Clients, Effect(r, c),
         NEW s \in Rank, NEW d \in Clients
  PROVE  MeshThere(s, d)'
<1> SUFFICES ASSUME AtWork(d, s)', session'[s].owner = d
             PROVE  /\ Published(d, step'[d][s]) => session'[s].mesh # None
                    /\ handler'[s][d] \in {"published", "executing"}
                         /\ Present(d, s)' = "publish_and_execute"
                           => session'[s].mesh # None
  BY DEF MeshThere
<1>1. /\ session[s] \in [owner : Clients \cup {None}, mesh : Clients \cup {None}]
      /\ c # None /\ d # None
      /\ NothingLeft(s) /\ MeshThere(s, d)
      /\ step[d][s] \in Nat
  BY SessionAssumption DEF TypeInv, TypeOK, OwnInv
\* Whoever moves, the owner keeps a mesh that was there.
<1>2. CASE s # r
  <2>1. /\ step'[d][s] = step[d][s] /\ handler'[s][d] = handler[s][d]
        /\ session'[s] = session[s]
    BY <1>2 DEF Effect, OnlyHere
  <2>2. QED
    BY <1>1, <2>1 DEF MeshThere, AtWork, Done, Present
<1>4. CASE s = r /\ d # c
  <2>1. step'[d][r] = step[d][r] /\ handler'[r][d] = handler[r][d]
    BY <1>4 DEF Effect, OnlyHere
  <2>2. /\ session'[r] # [owner |-> c, mesh |-> None]
        /\ session'[r] # Closed
    BY <1>1, <1>4 DEF Closed
  <2>3. /\ session[r].owner = d
        /\ session[r].mesh # None => session'[r].mesh # None
    BY <1>1, <1>4, <2>2 DEF Effect
  <2>4. QED
    BY <1>1, <1>4, <2>1, <2>3 DEF MeshThere, AtWork, Done, Present
<1>5. CASE s = r /\ d = c
  <2> DEFINE n == step[c][r]
  <2>1. handler[r][c] # "none" =>
          n + 1 \in 1 .. Len(Program[c]) /\ (Present(c, r) # "open" => n > 0)
    BY UnderWay
  <2>2. n \in Nat /\ ~Done(c, r)
    BY <1>1, <1>5, DoneIsIdle
  \* What it knew before this step.
  <2>3. n > 0 /\ session[r].owner = c =>
          /\ Published(c, n) => session[r].mesh # None
          /\ handler[r][c] \in {"published", "executing"}
               /\ Present(c, r) = "publish_and_execute" => session[r].mesh # None
    BY <1>1, <1>5, <2>2 DEF MeshThere, AtWork
  <2>4. CASE /\ handler[r][c] = "none" /\ handler'[r][c] = "arrived"
             /\ step'[c][r] = n /\ session'[r] = session[r]
    <3>1. n > 0
      BY <1>5, <2>4 DEF AtWork
    <3>2. QED
      BY <1>5, <2>3, <2>4, <3>1
  <2>5. CASE /\ handler'[r][c] = "none" /\ step'[c][r] = n + 1 /\ Present(c, r) = "open"
    <3>1. ~Published(c, n + 1)
      BY <2>2, <2>5, PublishedNext DEF Present
    <3>2. QED
      BY <1>5, <2>5, <3>1
  <2>6. CASE session'[r] = Closed
    BY <1>1, <1>5, <2>6 DEF Closed
  <2>7. CASE /\ handler[r][c] = "arrived"
             /\ Present(c, r) \in {"publish", "publish_and_execute"}
             /\ session'[r] = [session[r] EXCEPT
                                 !.mesh = IF session[r].owner = None THEN @ ELSE c]
    <3>1. session'[r].owner = session[r].owner
          /\ (session[r].owner # None => session'[r].mesh = c)
      BY <1>1, <1>5, <2>7
    <3>2. QED
      BY <1>1, <1>5, <3>1
  <2>8. CASE session[r].owner = None /\ session'[r] = session[r]
    BY <1>1, <1>5, <2>8
  <2>9. CASE /\ \/ handler[r][c] = "arrived" /\ Present(c, r) = "execute"
                \/ handler[r][c] = "published"
             /\ handler'[r][c] = "executing"
             /\ step'[c][r] = n /\ session'[r] = session[r]
    <3>1. n > 0
      BY <1>5, <2>9 DEF AtWork
    <3>2. Present(c, r)' = Present(c, r)
      BY <2>9 DEF Present
    <3>3. handler[r][c] = "published" => Present(c, r) = "publish_and_execute"
      BY DEF TypeInv, Active
    <3>4. QED
      BY <1>5, <2>3, <2>9, <3>1, <3>2, <3>3
  <2>10. CASE /\ handler[r][c] = "executing" /\ handler'[r][c] = "none"
              /\ step'[c][r] = n + 1 /\ session'[r] = session[r]
    <3>1. Present(c, r) \in {"execute", "publish_and_execute"}
      BY <2>10 DEF TypeInv, Active
    <3>2. n > 0
      BY <2>1, <2>10, <3>1
    <3>3. Published(c, n + 1) => Published(c, n) \/ Present(c, r) = "publish_and_execute"
      BY <2>2, <3>1, PublishedNext DEF Present
    <3>4. QED
      BY <1>5, <2>3, <2>10, <3>2, <3>3
  <2>11. QED
    BY <2>4, <2>5, <2>6, <2>7, <2>8, <2>9, <2>10 DEF Effect
<1>6. QED
  BY <1>2, <1>4, <1>5

LEMMA NextOwn ==
  ASSUME OwnPrograms, TypeInv, OwnInv, [Next]_vars
  PROVE  OwnInv'
<1>1. ASSUME NEW r \in Rank, NEW c \in Clients, Send(c, r) \/ HandlerStep(r, c)
      PROVE  OwnInv'
  <2>1. Effect(r, c)
    BY <1>1, StepEffect DEF TypeInv
  <2>2. QED
    BY <2>1, NextNothingLeft, NextMeshThere DEF OwnInv
<1>2. ASSUME UNCHANGED vars PROVE OwnInv'
  BY <1>2 DEF vars, OwnInv, NothingLeft, MeshThere, AtWork, Done, Present
<1>3. QED
  BY <1>1, <1>2 DEF Next, Rest

LEMMA InitOwn == Init => OwnInv
BY DEF Init, OwnInv, NothingLeft, MeshThere, AtWork, Closed

\* What is executed outside its own session, or on another mesh, is so because of a
\* client at work.
LEMMA ForeignNow ==
  ASSUME OwnPrograms, TypeInv, OwnInv, NEW r \in Rank, NEW c \in Clients, Effect(r, c),
         session[r].owner # None,
         \/ handler[r][c] = "arrived" /\ Present(c, r) = "execute"
         \/ handler[r][c] = "published"
  PROVE  \/ session[r].owner = c /\ session[r].mesh = c
         \/ \E d \in Clients \ {c} : AtWork(d, r)
<1>1. /\ session[r] \in [owner : Clients \cup {None}, mesh : Clients \cup {None}]
      /\ NothingLeft(r) /\ MeshThere(r, c)
  BY DEF TypeInv, TypeOK, OwnInv
<1>2. CASE session[r].owner # c
  BY <1>1, <1>2 DEF NothingLeft
<1>3. CASE session[r].mesh \notin {None, c}
  BY <1>1, <1>3 DEF NothingLeft
<1>4. CASE session[r].owner = c
  <2>1. handler[r][c] = "published" => Present(c, r) = "publish_and_execute"
    BY DEF TypeInv, Active
  <2>2. /\ step[c][r] > 0 /\ ~Done(c, r) /\ step[c][r] \in Nat
        /\ step[c][r] + 1 \in 1 .. Len(Program[c])
    BY <2>1, UnderWay
  <2>3. Present(c, r) = "execute" => Published(c, step[c][r])
    <3>1. Program[c][step[c][r] + 1] = "execute" => Published(c, step[c][r] + 1 - 1)
      BY <2>2 DEF OwnPrograms
    <3>2. step[c][r] + 1 - 1 = step[c][r]
      BY <2>2
    <3>3. QED
      BY <3>1, <3>2 DEF Present
  <2>4. session[r].mesh # None
    BY <1>1, <1>4, <2>1, <2>2, <2>3 DEF MeshThere, AtWork
  <2>5. QED
    BY <1>3, <1>4, <2>4
<1>5. QED
  BY <1>2, <1>4

\* Clients of one node that open a session first, publish before they execute and
\* close at the end, act in their own session and on their own mesh unless they
\* really meet another client on that rank: on any number of streams and ranks.
THEOREM ForeignNeedsOverlap == OwnPrograms /\ Spec => ForeignOnlyInOverlap
<1> DEFINE Step ==
      \A r \in Rank :
        Len(execs'[r]) > Len(execs[r]) =>
          LET e == execs'[r][Len(execs'[r])]
          IN  \/ e.owner = e.client /\ e.mesh = e.client
              \/ \E d \in Clients \ {e.client} : AtWork(d, r)
<1>1. OwnPrograms /\ TypeInv /\ OwnInv /\ [Next]_vars => TypeInv' /\ OwnInv'
  BY NextType, NextOwn
<1>2. OwnPrograms /\ TypeInv /\ OwnInv /\ [Next]_vars => [Step]_vars
  <2> SUFFICES ASSUME OwnPrograms, TypeInv, OwnInv, Next,
                      NEW s \in Rank, Len(execs'[s]) > Len(execs[s])
               PROVE  LET e == execs'[s][Len(execs'[s])]
                      IN  \/ e.owner = e.client /\ e.mesh = e.client
                          \/ \E d \in Clients \ {e.client} : AtWork(d, s)
    OBVIOUS
  <2>1. execs[s] \in Seq(Exec) /\ execs'[s] \in Seq(Exec)
    BY NextType DEF TypeInv, TypeOK
  <2>2. execs'[s] # execs[s]
    BY <2>1
  <2>3. PICK r \in Rank, c \in Clients : Send(c, r) \/ HandlerStep(r, c)
    BY <2>2 DEF Next, Rest, vars
  <2>4. Effect(r, c)
    BY <2>3, StepEffect DEF TypeInv
  <2> DEFINE k == Len(execs'[s])
  <2>5. k \in 1 .. Len(execs'[s]) /\ ~(k \in 1 .. Len(execs[s]))
    BY <2>1
  <2>6. /\ s = r /\ session[r].owner # None
        /\ \/ handler[r][c] = "arrived" /\ Present(c, r) = "execute"
           \/ handler[r][c] = "published"
        /\ execs'[s][k] = [client |-> c, call |-> step[c][r] + 1,
                           owner |-> session[r].owner, mesh |-> session[r].mesh]
    BY <2>4, <2>5, NextLog
  <2>7. \/ session[r].owner = c /\ session[r].mesh = c
        \/ \E d \in Clients \ {c} : AtWork(d, r)
    BY <2>4, <2>6, ForeignNow
  <2>8. QED
    BY <2>6, <2>7
<1>3. OwnPrograms => []OwnPrograms
  BY DEF OwnPrograms, Published
<1>4. QED
  BY InitType, InitOwn, <1>1, <1>2, <1>3, PTL DEF Spec, ForeignOnlyInOverlap
=============================================================================
