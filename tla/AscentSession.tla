---------------------------- MODULE AscentSession ----------------------------
(***************************************************************************)
(* The calls of NodeHandle that act on DummyNode::ascent_lib, the one      *)
(* Ascent object of a node, which all clients share: ams_open, ams_publish,*)
(* ams_execute, ams_publish_and_execute and ams_close.  Each rank of a     *)
(* client makes the calls of its program one after the other, every one    *)
(* answered after the node has done its work, with an MPI_Barrier among    *)
(* the ranks of the client in between (examples/client.cpp).               *)
(*                                                                         *)
(* Ascent itself is external: open begins a session, publish replaces its  *)
(* mesh, execute is a collective of all server ranks, and publish and      *)
(* execute outside a session only report an error.                         *)
(***************************************************************************)
EXTENDS Naturals, Sequences, FiniteSets, Functions, FiniteSetsExt

CONSTANTS
  Size,     (* the ranks of the server, and of every client                 *)
  Clients,  (* the clients, numbered                                        *)
  Program,  (* Program[c]: the calls a rank of client c makes, in order     *)
  Regimes,  (* the execution streams that run handlers, at least 1, and     *)
            (* whether a client starts only after the ones before it        *)
  None      (* no client                                                    *)

Call == {"open", "publish", "execute", "publish_and_execute", "close"}

ASSUME SessionAssumption ==
  /\ Size \in Nat \ {0}
  /\ Clients \subseteq Nat
  /\ Program \in [Clients -> Seq(Call)]
  /\ Regimes \subseteq [streams : Nat \ {0}, turns : BOOLEAN]
  /\ None \notin Clients

Rank == 0 .. Size - 1

VARIABLES
  regime,   (* the option -t of the server, and what the clients agreed on  *)
  step,     (* step[c][r]: the calls of rank r of client c that are answered *)
  handler,  (* handler[r][c]: where the handler of its present call is       *)
  session,  (* session[r]: who opened ascent_lib and who published its mesh  *)
  execs     (* execs[r]: what ascent_lib has executed, in order              *)

vars == <<regime, step, handler, session, execs>>

Exec == [client : Clients, call : Nat, owner : Clients, mesh : Clients \cup {None}]

Closed == [owner |-> None, mesh |-> None]

-----------------------------------------------------------------------------
\* The call of client c that is next, or under way, on rank r.
Present(c, r) == Program[c][step[c][r] + 1]

Done(c, r) == step[c][r] = Len(Program[c])

\* A stream of rank r can begin the handler of another call.
StreamFree(r) ==
  Cardinality({c \in Clients : handler[r][c] \in {"published", "executing"}}) < regime.streams

Arrived(r, c, call) ==
  /\ handler[r][c] = "arrived"
  /\ StreamFree(r)
  /\ Present(c, r) = call

Goto(r, c, label) == handler' = [handler EXCEPT ![r][c] = label]

\* req.respond(result): the client's call returns.
Respond(r, c) ==
  /\ Goto(r, c, "none")
  /\ step' = [step EXCEPT ![c][r] = @ + 1]

Init ==
  /\ regime \in Regimes
  /\ step    = [c \in Clients |-> [r \in Rank |-> 0]]
  /\ handler = [r \in Rank |-> [c \in Clients |-> "none"]]
  /\ session = [r \in Rank |-> Closed]
  /\ execs   = [r \in Rank |-> <<>>]

\* Rank r of client c makes its next call, after the barrier among its ranks.
Send(c, r) ==
  /\ handler[r][c] = "none"
  /\ ~Done(c, r)
  /\ \A s \in Rank : step[c][s] >= step[c][r]
  /\ regime.turns => \A d \in Clients : d < c => Done(d, r)
  /\ Goto(r, c, "arrived")
  /\ UNCHANGED <<regime, step, session, execs>>

\* Seeded fault: only the first rank opens a session.
OpenOnRoot(r, c) ==
  /\ Arrived(r, c, "open")
  /\ session' = [session EXCEPT ![r] =
                   IF r = 0 THEN [owner |-> c, mesh |-> None] ELSE @]
  /\ Respond(r, c)
  /\ UNCHANGED <<regime, execs>>

\* ams_open: ascent_lib.open(n), whether or not it is open
Open(r, c) ==
  /\ Arrived(r, c, "open")
  /\ session' = [session EXCEPT ![r] = [owner |-> c, mesh |-> None]]
  /\ Respond(r, c)
  /\ UNCHANGED <<regime, execs>>

\* Seeded fault: the data of the session outlives it.
CloseKeepsMesh(r, c) ==
  /\ Arrived(r, c, "close")
  /\ session' = [session EXCEPT ![r].owner = None]
  /\ Respond(r, c)
  /\ UNCHANGED <<regime, execs>>

\* Seeded fault: only the client that has opened the session can close it.
CloseOwn(r, c) ==
  /\ Arrived(r, c, "close")
  /\ session' = [session EXCEPT ![r] = IF @.owner = c THEN Closed ELSE @]
  /\ Respond(r, c)
  /\ UNCHANGED <<regime, execs>>

\* ams_close: ascent_lib.close(), whoever has opened it
Close(r, c) ==
  /\ Arrived(r, c, "close")
  /\ session' = [session EXCEPT ![r] = Closed]
  /\ Respond(r, c)
  /\ UNCHANGED <<regime, execs>>

\* ascent_lib.publish
PublishMesh(r, c) ==
  session' = [session EXCEPT ![r].mesh =
                IF session[r].owner = None THEN @ ELSE c]

\* ams_publish
Publish(r, c) ==
  /\ Arrived(r, c, "publish")
  /\ PublishMesh(r, c)
  /\ Respond(r, c)
  /\ UNCHANGED <<regime, execs>>

\* ascent_lib.execute: a collective, or an error outside a session
ExecuteActions(r, c) ==
  /\ IF session[r].owner = None
     THEN Respond(r, c) /\ UNCHANGED execs
     ELSE /\ execs' = [execs EXCEPT ![r] =
                         Append(@, [client |-> c,
                                    call   |-> step[c][r] + 1,
                                    owner  |-> session[r].owner,
                                    mesh   |-> session[r].mesh])]
          /\ Goto(r, c, "executing")
          /\ UNCHANGED step
  /\ UNCHANGED <<regime, session>>

\* ams_execute
Execute(r, c) == Arrived(r, c, "execute") /\ ExecuteActions(r, c)

\* Seeded fault: the mesh is not published before the actions are executed.
BeginWithoutMesh(r, c) ==
  /\ Arrived(r, c, "publish_and_execute")
  /\ Goto(r, c, "published")
  /\ UNCHANGED <<regime, step, session, execs>>

\* ams_publish_and_execute: ascent_lib.publish(n_mesh) ...
BeginPublishAndExecute(r, c) ==
  /\ Arrived(r, c, "publish_and_execute")
  /\ PublishMesh(r, c)
  /\ Goto(r, c, "published")
  /\ UNCHANGED <<regime, step, execs>>

\* ... and ascent_lib.execute(n), with nothing that keeps other streams out.
EndPublishAndExecute(r, c) ==
  /\ handler[r][c] = "published"
  /\ ExecuteActions(r, c)

\* Execution returns once every rank has entered its collective.
FinishExecute(r, c) ==
  /\ handler[r][c] = "executing"
  /\ LET i == Max({j \in DOMAIN execs[r] : execs[r][j].client = c})
     IN  \A s \in Rank : Len(execs[s]) >= i
  /\ Respond(r, c)
  /\ UNCHANGED <<regime, session, execs>>

HandlerStep(r, c) ==
  \/ Open(r, c) \/ Close(r, c) \/ Publish(r, c) \/ Execute(r, c)
  \/ BeginPublishAndExecute(r, c) \/ EndPublishAndExecute(r, c)
  \/ FinishExecute(r, c)

Quiet == \A c \in Clients, r \in Rank : Done(c, r)

Rest == Quiet /\ UNCHANGED vars

Next ==
  \/ \E c \in Clients, r \in Rank : Send(c, r) \/ HandlerStep(r, c)
  \/ Rest

Spec == Init /\ [][Next]_vars

\* Clients go on with their programs, and every handler that can run is run.
Fairness ==
  \A c \in Clients, r \in Rank : WF_vars(Send(c, r)) /\ WF_vars(HandlerStep(r, c))

FairSpec == Spec /\ Fairness

-----------------------------------------------------------------------------
\* Every variable has its type, no rank has more handlers inside Ascent than
\* streams, and a mesh belongs to a session.
TypeOK ==
  /\ regime  \in Regimes
  /\ step    \in [Clients -> [Rank -> Nat]]
  /\ handler \in [Rank -> [Clients -> {"none", "arrived", "published", "executing"}]]
  /\ session \in [Rank -> [owner : Clients \cup {None}, mesh : Clients \cup {None}]]
  /\ execs   \in [Rank -> Seq(Exec)]
  /\ \A c \in Clients, r \in Rank : step[c][r] <= Len(Program[c])
  /\ \A r \in Rank :
       /\ Cardinality({c \in Clients : handler[r][c] \in {"published", "executing"}})
            <= regime.streams
       /\ session[r].owner = None => session[r].mesh = None

Executed == UNION {Range(execs[r]) : r \in Rank}

\* Client c has begun its program on rank r, and is not done there.
AtWork(c, r) == step[c][r] > 0 /\ ~Done(c, r)

\* Nothing keeps clients that use a node at the same time out of each other's
\* sessions, but nothing of a session outlives its client either: what is executed
\* is in the session of its own client and on the mesh it has published, unless
\* another client is in the middle of its program on that rank.  So a client that
\* ends leaves the others a closed session or their own, and clients that take
\* turns never meet.
ForeignOnlyInOverlap ==
  [][\A r \in Rank :
       Len(execs'[r]) > Len(execs[r]) =>
         LET e == execs'[r][Len(execs'[r])]
         IN  \/ e.owner = e.client /\ e.mesh = e.client
             \/ \E d \in Clients \ {e.client} : AtWork(d, r)]_vars

\* "Publish and execute as a single atomic operation" (DummyBackend.cpp): the
\* actions of such a call run on the mesh of the same call, whoever has opened the
\* session, also when clients overlap on one stream, or take turns on several.
\* The code has no lock that would make it so when they overlap on two streams.
PublishExecuteAtomic ==
  regime.streams = 1 \/ regime.turns =>
    \A e \in Executed :
      Program[e.client][e.call] = "publish_and_execute" => e.mesh = e.client

\* A call that is about to execute finds the session closed.
Stranded(r, c) ==
  /\ handler[r][c] \in {"arrived", "published"}
  /\ Present(c, r) \in {"execute", "publish_and_execute"}
  /\ session[r].owner = None

\* All clients get through their programs on all ranks, although the handlers that
\* execute block their streams until all ranks do, whichever client's call it is
\* there; unless one of several clients that overlap has closed the session under
\* another one, whose execution this rank then leaves out while its peers wait.
SessionsEnd ==
  <>(Quiet \/ (~regime.turns /\ \E r \in Rank, c \in Clients : Stranded(r, c)))
=============================================================================
