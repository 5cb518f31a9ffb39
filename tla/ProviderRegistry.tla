-------------------------- MODULE ProviderRegistry --------------------------
(***************************************************************************)
(* The nodes of one provider: ProviderImpl::m_backends, a map from UUIDs   *)
(* to shared pointers, its mutex, and the handlers that use them.  Several *)
(* execution streams may run handlers (`-t 2' and more), so any two of     *)
(* them interleave wherever they do not hold the mutex; a handler that     *)
(* answers an error inside the critical section gives way with the mutex   *)
(* held.  The lookups of a map inside the section and what is done with    *)
(* their results are steps of their own.                                   *)
(***************************************************************************)
EXTENDS Naturals

CONSTANTS
  Create,   (* calls of ams_create_node and ams_open_node; a call is also   *)
            (* the UUID it generates for its node                           *)
  Close,    (* calls of ams_close_node                                      *)
  Destroy,  (* calls of ams_destroy_node                                    *)
  Reply,    (* calls answered after the node has done its work: ams_open,   *)
            (* ams_publish, ams_execute, ams_close, compute_sum...          *)
  Early,    (* calls answered before it: ams_open_publish_execute           *)
  OneWay,   (* calls without an answer: say_hello, execute_pending_requests *)
  Unknown,  (* a UUID of no node                                            *)
  None      (* no handler, no node                                          *)

Use    == Reply \cup Early \cup OneWay
Admin  == Create \cup Close \cup Destroy
Handler == Admin \cup Use

ASSUME RegistryAssumption ==
  /\ Create \cap (Close \cup Destroy \cup Use) = {}
  /\ Close \cap (Destroy \cup Use) = {}
  /\ Destroy \cap Use = {}
  /\ Reply \cap (Early \cup OneWay) = {}
  /\ Early \cap OneWay = {}
  /\ Unknown \notin Handler
  /\ None \notin Handler \cup {Unknown}

VARIABLES
  pc,        (* pc[h]: where handler h is                                   *)
  target,    (* target[h]: the node_id of its call                          *)
  held,      (* held[h]: the node its local pointer owns                    *)
  mtx,       (* the handler that holds m_backends_mtx                       *)
  backends,  (* the UUIDs m_backends has a pointer for                      *)
  object,    (* object[n]: the Backend made for UUID n                      *)
  destroys,  (* destroys[n]: how often destroy() has been called on it      *)
  verdict,   (* verdict[h]: what the handler has found out                  *)
  answer     (* answer[h]: the success of its response                      *)

vars == <<pc, target, held, mtx, backends, object, destroys, verdict, answer>>

Pc == {"idle", "arrived", "wait", "locked", "found", "missing", "leave",
       "respond", "work", "end", "done"}

-----------------------------------------------------------------------------
Goto(h, label) == pc' = [pc EXCEPT ![h] = label]

Unlock == mtx' = None

Decide(h, v) == verdict' = [verdict EXCEPT ![h] = v]

\* Some shared_ptr of the map or of a handler still owns node n.
Referenced(n, map, locals) == n \in map \/ \E h \in Handler : locals[h] = n

\* The Backend of n is deleted with the last pointer to it.
DropReference(n) ==
  object' = [object EXCEPT ![n] =
               IF Referenced(n, backends', held') THEN @ ELSE "freed"]

Init ==
  /\ pc       = [h \in Handler |-> "idle"]
  /\ target   = [h \in Handler |-> Unknown]
  /\ held     = [h \in Handler |-> None]
  /\ mtx      = None
  /\ backends = {}
  /\ object   = [n \in Create |-> "none"]
  /\ destroys = [n \in Create |-> 0]
  /\ verdict  = [h \in Handler |-> "idle"]
  /\ answer   = [h \in Handler |-> "none"]

\* A client calls with a UUID it has been given, or with a wrong one.
Issue(h, n) ==
  /\ pc[h] = "idle"
  /\ IF h \in Create
     THEN n = h
     ELSE n = Unknown \/ (n \in Create /\ answer[n] = "ok")
  /\ Goto(h, "arrived")
  /\ target' = [target EXCEPT ![h] = n]
  /\ Decide(h, "called")
  /\ UNCHANGED <<held, mtx, backends, object, destroys, answer>>

\* The security token is wrong, the configuration is not JSON, the factory
\* throws or knows no such node type.
Refuse(h) ==
  /\ h \in Admin
  /\ pc[h] = "arrived"
  /\ Goto(h, "respond")
  /\ Decide(h, "error")
  /\ UNCHANGED <<target, held, mtx, backends, object, destroys, answer>>

\* The checks pass; createNode and openNode make the node.
Admit(h) ==
  /\ pc[h] = "arrived"
  /\ Goto(h, "wait")
  /\ IF h \in Create
     THEN /\ object' = [object EXCEPT ![h] = "live"]
          /\ held' = [held EXCEPT ![h] = h]
     ELSE UNCHANGED <<object, held>>
  /\ UNCHANGED <<target, mtx, backends, destroys, verdict, answer>>

\* Seeded fault: the lock_guard is missing.
LockNothing(h) ==
  /\ pc[h] = "wait"
  /\ mtx' = h
  /\ Goto(h, "locked")
  /\ UNCHANGED <<target, held, backends, object, destroys, verdict, answer>>

\* std::lock_guard<tl::mutex> lock(m_backends_mtx)
Lock(h) ==
  /\ pc[h] = "wait"
  /\ mtx = None
  /\ mtx' = h
  /\ Goto(h, "locked")
  /\ UNCHANGED <<target, held, backends, object, destroys, verdict, answer>>

\* m_backends[node_id] = std::move(backend)
Insert(h) ==
  /\ h \in Create
  /\ pc[h] = "locked"
  /\ backends' = backends \cup {h}
  /\ held' = [held EXCEPT ![h] = None]
  /\ Unlock
  /\ Decide(h, "ok")
  /\ Goto(h, "respond")
  /\ UNCHANGED <<target, object, destroys, answer>>

\* m_backends.find(node_id) or m_backends.count(node_id)
Probe(h) ==
  /\ h \in Handler \ Create
  /\ pc[h] = "locked"
  /\ IF target[h] \in backends
     THEN Goto(h, "found") /\ UNCHANGED verdict
     ELSE Goto(h, "missing") /\ Decide(h, "error")
  /\ UNCHANGED <<target, held, mtx, backends, object, destroys, answer>>

\* "not found" is answered before the lock_guard goes out of scope.
RespondMissing(h) ==
  /\ pc[h] = "missing"
  /\ answer' = [answer EXCEPT ![h] = verdict[h]]
  /\ Goto(h, "leave")
  /\ UNCHANGED <<target, held, mtx, backends, object, destroys, verdict>>

\* Seeded fault: an early return that leaves the mutex locked.
LeaveLocked(h) ==
  /\ pc[h] = "leave"
  /\ Goto(h, "done")
  /\ UNCHANGED <<target, held, mtx, backends, object, destroys, verdict, answer>>

\* The lock_guard goes out of scope with the early return.
Leave(h) ==
  /\ pc[h] = "leave"
  /\ Unlock
  /\ Goto(h, "done")
  /\ UNCHANGED <<target, held, backends, object, destroys, verdict, answer>>

\* Seeded fault: m_backends has plain pointers, and the node is not deleted.
EraseOnly(h) ==
  /\ h \in Close
  /\ pc[h] = "found"
  /\ backends' = backends \ {target[h]}
  /\ Unlock
  /\ Decide(h, "ok")
  /\ Goto(h, "respond")
  /\ UNCHANGED <<target, held, object, destroys, answer>>

\* m_backends.erase(node_id) in closeNode
Erase(h) ==
  /\ h \in Close
  /\ pc[h] = "found"
  /\ backends' = backends \ {target[h]}
  /\ UNCHANGED held
  /\ DropReference(target[h])
  /\ Unlock
  /\ Decide(h, "ok")
  /\ Goto(h, "respond")
  /\ UNCHANGED <<target, destroys, answer>>

\* m_backends[node_id]->destroy(); m_backends.erase(node_id)
DestroyErase(h) ==
  /\ h \in Destroy
  /\ pc[h] = "found"
  /\ destroys' = [destroys EXCEPT ![target[h]] = @ + 1]
  /\ backends' = backends \ {target[h]}
  /\ UNCHANGED held
  /\ DropReference(target[h])
  /\ Unlock
  /\ Decide(h, "ok")
  /\ Goto(h, "respond")
  /\ UNCHANGED <<target, answer>>

\* Seeded fault: a plain pointer, which does not own the node.
TakePlain(h) ==
  /\ h \in Use
  /\ pc[h] = "found"
  /\ Unlock
  /\ Decide(h, "ok")
  /\ Goto(h, IF h \in Early THEN "respond" ELSE "work")
  /\ UNCHANGED <<target, held, backends, object, destroys, answer>>

\* node = it->second
Take(h) ==
  /\ h \in Use
  /\ pc[h] = "found"
  /\ held' = [held EXCEPT ![h] = target[h]]
  /\ Unlock
  /\ Decide(h, "ok")
  /\ Goto(h, IF h \in Early THEN "respond" ELSE "work")
  /\ UNCHANGED <<target, backends, object, destroys, answer>>

\* node->ams_...()
Work(h) ==
  /\ pc[h] = "work"
  /\ Goto(h, IF h \in Reply THEN "respond" ELSE "end")
  /\ UNCHANGED <<target, held, mtx, backends, object, destroys, verdict, answer>>

\* req.respond(result)
Respond(h) ==
  /\ pc[h] = "respond"
  /\ answer' = [answer EXCEPT ![h] = verdict[h]]
  /\ Goto(h, IF h \in Early THEN "work" ELSE "end")
  /\ UNCHANGED <<target, held, mtx, backends, object, destroys, verdict>>

\* The handler returns, and its pointer with it.
Finish(h) ==
  /\ pc[h] = "end"
  /\ held' = [held EXCEPT ![h] = None]
  /\ UNCHANGED backends
  /\ IF held[h] = None THEN UNCHANGED object ELSE DropReference(held[h])
  /\ Goto(h, "done")
  /\ UNCHANGED <<target, mtx, destroys, verdict, answer>>

Quiet == \A h \in Handler : pc[h] = "done"

Rest == Quiet /\ UNCHANGED vars

HandlerStep(h) ==
  \/ Refuse(h) \/ Admit(h) \/ Lock(h) \/ Insert(h) \/ Probe(h)
  \/ RespondMissing(h) \/ Leave(h) \/ Erase(h) \/ DestroyErase(h) \/ Take(h)
  \/ Work(h) \/ Respond(h) \/ Finish(h)

Next ==
  \/ \E h \in Handler :
       \/ \E n \in Create \cup {Unknown} : Issue(h, n)
       \/ HandlerStep(h)
  \/ Rest

Spec == Init /\ [][Next]_vars

\* Every handler that can run is run.  A mutex that is free is taken by one of
\* the waiting handlers, and there are finitely many calls.
Fairness == \A h \in Handler : WF_vars(HandlerStep(h))

FairSpec == Spec /\ Fairness

-----------------------------------------------------------------------------
Critical == {"locked", "found", "missing", "leave"}

\* Every variable has its type, and the mutex names the one handler that is in
\* a critical section.
TypeOK ==
  /\ pc       \in [Handler -> Pc]
  /\ target   \in [Handler -> Create \cup {Unknown}]
  /\ held     \in [Handler -> Create \cup {None}]
  /\ mtx      \in Handler \cup {None}
  /\ backends \subseteq Create
  /\ object   \in [Create -> {"none", "live", "freed"}]
  /\ destroys \in [Create -> Nat]
  /\ verdict  \in [Handler -> {"idle", "called", "ok", "error"}]
  /\ answer   \in [Handler -> {"none", "ok", "error"}]
  /\ \A h \in Handler : pc[h] \in Critical <=> mtx = h

\* The node a handler has looked up exists as long as the handler works on it,
\* even when another handler closes or destroys the node in the meantime; and
\* every pointer of the map is one to a node that exists.
NoDanglingNode ==
  /\ \A h \in Use : pc[h] \in {"respond", "work"} => object[target[h]] = "live"
  /\ \A n \in backends : object[n] = "live"

\* What a handler looked up in the map is still there when it acts on it:
\* otherwise operator[] would insert a null pointer and destroy() be called on it.
LookupHolds == \A h \in Handler : pc[h] = "found" => target[h] \in backends

\* One call at most closes or destroys a node, and destroy() is called on the
\* node exactly when that is a call of ams_destroy_node.
DestroyedOnce ==
  /\ \A g, h \in Close \cup Destroy :
       verdict[g] = "ok" /\ verdict[h] = "ok" /\ target[g] = target[h] => g = h
  /\ \A n \in Create :
       destroys[n] =
         IF \E h \in Destroy : target[h] = n /\ verdict[h] = "ok" THEN 1 ELSE 0

\* When all handlers have returned, the nodes that exist are those in the map.
NoLeak == Quiet => backends = {n \in Create : object[n] = "live"}

\* Every call is answered, or, if it is one-way and its node is there, done.
EveryCallEnds == \A h \in Handler : pc[h] # "idle" ~> pc[h] = "done"

\* Calls take effect atomically between their issue and their answer.
Registry == INSTANCE NodeRegistry
              WITH Remove <- Close \cup Destroy, Lookup <- Use, nodes <- backends

Linearizable == Registry!Spec
=============================================================================
