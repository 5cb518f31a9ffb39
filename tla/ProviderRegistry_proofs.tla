----------------------- MODULE ProviderRegistry_proofs -----------------------
(***************************************************************************)
(* Theorems about ProviderRegistry, for every number of calls of each kind.*)
(***************************************************************************)
EXTENDS ProviderRegistry, TLAPS

-----------------------------------------------------------------------------
(***************************************************************************)
(* The invariant.  What is found under the mutex stays in the map while    *)
(* the mutex is held (LookupHolds); whatever a pointer of the map or of a  *)
(* handler refers to is alive (Owned), which needs that the maker of a     *)
(* node owns it until the map does (Made); a handler that works on a node  *)
(* keeps its pointer to it (Kept); where a handler is tells what it has    *)
(* decided and answered (Progress); and a node that has been taken out of  *)
(* the map never comes back (Removed).                                     *)
(***************************************************************************)
Owned ==
  /\ \A n \in backends : object[n] = "live"
  /\ \A h \in Handler : held[h] # None => object[held[h]] = "live"

Made == \A h \in Create : pc[h] \in {"wait", "locked"} => held[h] = h

Kept == \A h \in Use : pc[h] \in {"respond", "work"} => held[h] = target[h]

Progress ==
  \A h \in Handler :
    /\ pc[h] = "idle" => verdict[h] = "idle"
    /\ pc[h] \in {"arrived", "wait", "locked", "found"} => verdict[h] = "called"
    /\ pc[h] \in {"missing", "respond", "work"} => verdict[h] \in {"ok", "error"}
    /\ pc[h] \notin {"leave", "work", "end", "done"} \/ (pc[h] = "work" /\ h \in Reply)
         => answer[h] = "none"
    /\ pc[h] = "found" => h \notin Create
    /\ pc[h] = "work" => h \in Use

Inserted(n) == pc[n] \in {"respond", "end", "done"}

Removed ==
  /\ \A n \in backends : Inserted(n)
  /\ \A h \in Close \cup Destroy :
       verdict[h] = "ok" =>
         target[h] \in Create /\ Inserted(target[h]) /\ target[h] \notin backends

Inv ==
  TypeOK /\ LookupHolds /\ Owned /\ Made /\ Kept /\ Progress /\ Removed
  /\ DestroyedOnce

LEMMA InitInv == Init => Inv
BY RegistryAssumption
DEF Init, Inv, TypeOK, LookupHolds, Owned, Made, Kept, Progress, Removed,
    DestroyedOnce, Pc, Critical, Handler, Admin

LEMMA NextInv == Inv /\ [Next]_vars => Inv'
<1> SUFFICES ASSUME Inv, [Next]_vars PROVE Inv'
  OBVIOUS
<1> USE RegistryAssumption
    DEF Inv, TypeOK, LookupHolds, Owned, Made, Kept, Progress, Removed,
        Inserted, DestroyedOnce, Pc, Critical, Handler, Admin, Use, Goto, Unlock, Decide
<1>1. ASSUME NEW h \in Handler, NEW n \in Create \cup {Unknown}, Issue(h, n)
      PROVE  Inv'
  BY <1>1 DEF Issue
<1>2. ASSUME NEW h \in Handler, Refuse(h) PROVE Inv'
  BY <1>2 DEF Refuse
<1>3. ASSUME NEW h \in Handler, Admit(h) PROVE Inv'
  BY <1>3 DEF Admit
<1>4. ASSUME NEW h \in Handler, Lock(h) PROVE Inv'
  BY <1>4 DEF Lock
<1>5. ASSUME NEW h \in Handler, Insert(h) PROVE Inv'
  BY <1>5 DEF Insert
<1>6. ASSUME NEW h \in Handler, Probe(h) PROVE Inv'
  BY <1>6 DEF Probe
<1>7. ASSUME NEW h \in Handler, RespondMissing(h) PROVE Inv'
  BY <1>7 DEF RespondMissing
<1>8. ASSUME NEW h \in Handler, Leave(h) PROVE Inv'
  BY <1>8 DEF Leave
<1>9. ASSUME NEW h \in Handler, Erase(h) PROVE Inv'
  BY <1>9 DEF Erase, DropReference, Referenced
<1>10. ASSUME NEW h \in Handler, DestroyErase(h) PROVE Inv'
  BY <1>10 DEF DestroyErase, DropReference, Referenced
<1>11. ASSUME NEW h \in Handler, Take(h) PROVE Inv'
  BY <1>11 DEF Take
<1>12. ASSUME NEW h \in Handler, Work(h) PROVE Inv'
  BY <1>12 DEF Work
<1>13. ASSUME NEW h \in Handler, Respond(h) PROVE Inv'
  BY <1>13 DEF Respond
<1>14. ASSUME NEW h \in Handler, Finish(h) PROVE Inv'
  BY <1>14 DEF Finish, DropReference, Referenced
<1>15. CASE UNCHANGED vars
  BY <1>15 DEF vars
<1>16. QED
  BY <1>1, <1>2, <1>3, <1>4, <1>5, <1>6, <1>7, <1>8, <1>9, <1>10, <1>11, <1>12,
     <1>13, <1>14, <1>15
  DEF Next, HandlerStep, Rest

LEMMA InvHolds == Spec => []Inv
BY InitInv, NextInv, PTL DEF Spec

\* Every variable has its type, and the mutex names the handler that is in a
\* critical section of createNode, closeNode, destroyNode or FIND_NODE.
THEOREM TypeCorrect == Spec => []TypeOK
<1>1. Inv => TypeOK
  BY DEF Inv
<1>2. QED
  BY InvHolds, <1>1, PTL

\* A node found in m_backends is still there when it is erased, destroyed or
\* taken, whatever other handlers do.
THEOREM LookupAlwaysHolds == Spec => []LookupHolds
<1>1. Inv => LookupHolds
  BY DEF Inv
<1>2. QED
  BY InvHolds, <1>1, PTL

\* No handler works on a deleted node, though nodes are closed and destroyed
\* while handlers use them.
THEOREM NeverDangling == Spec => []NoDanglingNode
<1>1. Inv => NoDanglingNode
  BY RegistryAssumption DEF Inv, TypeOK, Owned, Kept, NoDanglingNode, Handler, Admin
<1>2. QED
  BY InvHolds, <1>1, PTL

\* Of all the calls that close or destroy a node one succeeds, and destroy() is
\* called at most once.
THEOREM AlwaysDestroyedOnce == Spec => []DestroyedOnce
<1>1. Inv => DestroyedOnce
  BY DEF Inv
<1>2. QED
  BY InvHolds, <1>1, PTL

-----------------------------------------------------------------------------
(***************************************************************************)
(* No leak.  A pointer is held only between the construction of a node and *)
(* its insertion, or between a lookup and the return of the handler        *)
(* (Held); a node that exists is in the map or held by someone (Backed).   *)
(***************************************************************************)
Held ==
  \A h \in Handler : held[h] # None =>
    \/ h \in Create /\ pc[h] \in {"wait", "locked"}
    \/ h \in Use /\ pc[h] \in {"respond", "work", "end"}

Backed ==
  \A n \in Create : object[n] = "live" => Referenced(n, backends, held)

LeakInv == Inv /\ Held /\ Backed

LEMMA InitLeak == Init => LeakInv
BY InitInv, RegistryAssumption DEF Init, LeakInv, Held, Backed

LEMMA NextLeak == LeakInv /\ [Next]_vars => LeakInv'
<1> SUFFICES ASSUME LeakInv, [Next]_vars PROVE Held' /\ Backed'
  BY NextInv DEF LeakInv
<1> USE RegistryAssumption
    DEF LeakInv, Held, Backed, Referenced, Inv, TypeOK, LookupHolds, Made, Progress,
        Removed, Inserted, Pc, Handler, Admin, Use, Goto, Unlock, Decide
<1>1. ASSUME NEW h \in Handler, NEW n \in Create \cup {Unknown}, Issue(h, n)
      PROVE  Held' /\ Backed'
  BY <1>1 DEF Issue
<1>2. ASSUME NEW h \in Handler, Refuse(h) PROVE Held' /\ Backed'
  BY <1>2 DEF Refuse
<1>3. ASSUME NEW h \in Handler, Admit(h) PROVE Held' /\ Backed'
  BY <1>3 DEF Admit
<1>4. ASSUME NEW h \in Handler, Lock(h) PROVE Held' /\ Backed'
  BY <1>4 DEF Lock
<1>5. ASSUME NEW h \in Handler, Insert(h) PROVE Held' /\ Backed'
  BY <1>5 DEF Insert
<1>6. ASSUME NEW h \in Handler, Probe(h) PROVE Held' /\ Backed'
  BY <1>6 DEF Probe
<1>7. ASSUME NEW h \in Handler, RespondMissing(h) PROVE Held' /\ Backed'
  BY <1>7 DEF RespondMissing
<1>8. ASSUME NEW h \in Handler, Leave(h) PROVE Held' /\ Backed'
  BY <1>8 DEF Leave
<1>9. ASSUME NEW h \in Handler, Erase(h) PROVE Held' /\ Backed'
  BY <1>9 DEF Erase, DropReference
<1>10. ASSUME NEW h \in Handler, DestroyErase(h) PROVE Held' /\ Backed'
  BY <1>10 DEF DestroyErase, DropReference
<1>11. ASSUME NEW h \in Handler, Take(h) PROVE Held' /\ Backed'
  BY <1>11 DEF Take
<1>12. ASSUME NEW h \in Handler, Work(h) PROVE Held' /\ Backed'
  BY <1>12 DEF Work
<1>13. ASSUME NEW h \in Handler, Respond(h) PROVE Held' /\ Backed'
  BY <1>13 DEF Respond
<1>14. ASSUME NEW h \in Handler, Finish(h) PROVE Held' /\ Backed'
  BY <1>14 DEF Finish, DropReference
<1>15. CASE UNCHANGED vars
  BY <1>15 DEF vars
<1>16. QED
  BY <1>1, <1>2, <1>3, <1>4, <1>5, <1>6, <1>7, <1>8, <1>9, <1>10, <1>11, <1>12,
     <1>13, <1>14, <1>15
  DEF Next, HandlerStep, Rest

\* When all handlers have returned, every node that was made and not removed is in
\* the map, and every other one has been deleted: no pointer is left behind by an
\* error path, a removal under use or a call that answers before it works.
THEOREM NeverLeaks == Spec => []NoLeak
<1>1. LeakInv => NoLeak
  BY RegistryAssumption
  DEF LeakInv, Inv, Owned, Held, Backed, Referenced, NoLeak, Quiet, TypeOK, Handler, Admin
<1>2. QED
  BY InitLeak, NextLeak, <1>1, PTL DEF Spec

-----------------------------------------------------------------------------
(***************************************************************************)
(* Refinement: the critical sections are the moments at which the calls    *)
(* take effect in NodeRegistry.  Every other step is an issue, an answer   *)
(* or a stutter.                                                           *)
(***************************************************************************)
LEMMA RegistryInit == Init => Registry!Init
BY DEF Init, Registry!Init, Registry!Calls, Handler, Admin, Use

LEMMA RegistryNext ==
  Inv /\ [Next]_vars
    => [Registry!Next]_<<backends, target, verdict, answer>>
<1> SUFFICES ASSUME Inv, [Next]_vars
             PROVE  [Registry!Next]_<<backends, target, verdict, answer>>
  OBVIOUS
<1> USE RegistryAssumption
    DEF Inv, TypeOK, LookupHolds, Progress, Pc, Handler, Admin, Use, Goto, Decide,
        Registry!Calls, Registry!Decide
<1> DEFINE Stutter == UNCHANGED <<backends, target, verdict, answer>>
<1>1. ASSUME NEW h \in Handler, NEW n \in Create \cup {Unknown}, Issue(h, n)
      PROVE  \E m \in Create \cup {h, Unknown} : Registry!Issue(h, m)
  BY <1>1 DEF Issue, Registry!Issue
<1>2. ASSUME NEW h \in Handler, Refuse(h) PROVE Registry!Refuse(h)
  BY <1>2 DEF Refuse, Registry!Refuse
<1>3. ASSUME NEW h \in Handler,
             Admit(h) \/ Lock(h) \/ Leave(h) \/ Work(h) \/ Finish(h)
      PROVE  Stutter
  BY <1>3 DEF Admit, Lock, Leave, Work, Finish
<1>4. ASSUME NEW h \in Handler, Insert(h) PROVE Registry!Add(h)
  BY <1>4 DEF Insert, Registry!Add
<1>5. ASSUME NEW h \in Handler, Probe(h)
      PROVE  Stutter \/ Registry!Delete(h) \/ Registry!Find(h)
  <2>1. CASE target[h] \in backends
    BY <1>5, <2>1 DEF Probe
  <2>2. CASE target[h] \notin backends /\ h \in Close \cup Destroy
    BY <1>5, <2>2 DEF Probe, Registry!Delete
  <2>3. CASE target[h] \notin backends /\ h \in Use
    BY <1>5, <2>3 DEF Probe, Registry!Find
  <2>4. QED
    BY <1>5, <2>1, <2>2, <2>3 DEF Probe
<1>6. ASSUME NEW h \in Handler, RespondMissing(h) \/ Respond(h)
      PROVE  Registry!Answer(h)
  BY <1>6 DEF RespondMissing, Respond, Registry!Answer
<1>7. ASSUME NEW h \in Handler, Erase(h) \/ DestroyErase(h)
      PROVE  Registry!Delete(h)
  BY <1>7 DEF Erase, DestroyErase, Registry!Delete
<1>8. ASSUME NEW h \in Handler, Take(h) PROVE Registry!Find(h)
  BY <1>8 DEF Take, Registry!Find
<1>9. CASE UNCHANGED vars
  BY <1>9 DEF vars
<1>10. ASSUME NEW h \in Handler
       PROVE  /\ h \in Registry!Calls
              /\ Registry!Refuse(h) => Registry!Next
              /\ Registry!Add(h) => Registry!Next
              /\ Registry!Delete(h) => Registry!Next
              /\ Registry!Find(h) => Registry!Next
              /\ Registry!Answer(h) => Registry!Next
              /\ (\E m \in Create \cup {h, Unknown} : Registry!Issue(h, m))
                   => Registry!Next
  BY <1>10 DEF Registry!Next
<1>11. QED
  <2>1. CASE \E h \in Handler :
               \/ \E n \in Create \cup {Unknown} : Issue(h, n)
               \/ HandlerStep(h)
    <3> PICK h \in Handler :
          \/ \E n \in Create \cup {Unknown} : Issue(h, n)
          \/ HandlerStep(h)
      BY <2>1
    <3> HIDE DEF Inv, Registry!Decide, Registry!Calls
    <3> QED
      BY <1>1, <1>2, <1>3, <1>4, <1>5, <1>6, <1>7, <1>8, <1>10 DEF HandlerStep
  <2>2. CASE Rest \/ UNCHANGED vars
    BY <1>9, <2>2 DEF Rest
  <2>3. QED
    BY <2>1, <2>2 DEF Next

\* Creating, opening, closing, destroying and finding nodes are atomic, as seen
\* by their clients: the provider implements NodeRegistry.
THEOREM ImplementsRegistry == Spec => Linearizable
BY InvHolds, RegistryInit, RegistryNext, PTL
DEF Spec, Linearizable, Registry!Spec
=============================================================================
