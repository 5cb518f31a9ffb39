--------------------------- MODULE ProviderLifecycle ---------------------------
(***************************************************************************)
(* The Provider objects of one process and the finalize callbacks they     *)
(* leave with the Thallium engine (Provider.cpp).  A Provider owns its     *)
(* ProviderImpl and registers a callback that lets go of it when the       *)
(* engine is finalized.  The callback is keyed by the address of the       *)
(* Provider and writes to that address.                                    *)
(*                                                                         *)
(* Providers are made by Bedrock (new and delete), as local variables, and *)
(* in the std::vector of examples/server.cpp, which moves them when it     *)
(* grows.  The engine is external: it keeps the callbacks on a stack, pops *)
(* the last one pushed by an owner, and runs them when it is finalized.    *)
(***************************************************************************)
EXTENDS Sequences, Integers, FiniteSets, SequencesExt

CONSTANTS
  Addr,   (* places in memory where Providers are made, and made again      *)
  Impl,   (* the ProviderImpls the process ever makes                       *)
  Null,   (* a Provider without a ProviderImpl                              *)
  Gone    (* no Provider at this address                                    *)

ASSUME LifecycleAssumption == Null # Gone /\ {Null, Gone} \cap Impl = {}

VARIABLES
  self,       (* self[a]: Provider::self of the object at address a         *)
  made,       (* the ProviderImpls made so far                              *)
  callbacks,  (* owners of the engine's finalize callbacks, last one first  *)
  engine,     (* whether the engine is running, being finalized or finalized *)
  moved,      (* the addresses a Provider has been moved away from          *)
  wild        (* whether a callback wrote where there was no Provider       *)

vars == <<self, made, callbacks, engine, moved, wild>>

-----------------------------------------------------------------------------
\* An object whose destructor or callback has a ProviderImpl to let go of.
Valid(a) == self[a] \in Impl

\* push_finalize_callback(a, ...)
Pushed(cbs, a) == <<a>> \o cbs

\* pop_finalize_callback(a): the last callback pushed with this owner, if any.
Popped(cbs, a) ==
  IF a \in ToSet(cbs)
  THEN RemoveAt(cbs, CHOOSE i \in DOMAIN cbs :
                       cbs[i] = a /\ \A j \in 1 .. i - 1 : cbs[j] # a)
  ELSE cbs

Init ==
  /\ self      = [a \in Addr |-> Gone]
  /\ made      = {}
  /\ callbacks = <<>>
  /\ engine    = "running"
  /\ moved     = {}
  /\ wild      = FALSE

\* Seeded fault: a constructor that leaves self empty.
ConstructEmpty(a, i) ==
  /\ engine = "running"
  /\ self[a] = Gone
  /\ i \notin made
  /\ self' = [self EXCEPT ![a] = Null]
  /\ made' = made \cup {i}
  /\ callbacks' = Pushed(callbacks, a)
  /\ UNCHANGED <<engine, moved, wild>>

\* The constructors: make_shared<ProviderImpl>, then the callback.
Construct(a, i) ==
  /\ engine = "running"
  /\ self[a] = Gone
  /\ i \notin made
  /\ self' = [self EXCEPT ![a] = i]
  /\ made' = made \cup {i}
  /\ callbacks' = Pushed(callbacks, a)
  /\ UNCHANGED <<engine, moved, wild>>

\* Seeded fault: the object moved to has no callback of its own.
MoveWithoutPush(a, b) ==
  /\ engine = "running"
  /\ Valid(a)
  /\ self[b] = Gone
  /\ self' = [self EXCEPT ![a] = Null, ![b] = self[a]]
  /\ callbacks' = Popped(callbacks, a)
  /\ moved' = moved \cup {a}
  /\ UNCHANGED <<made, engine, wild>>

\* Seeded fault: the shared_ptr is copied instead of moved.
MoveCopies(a, b) ==
  /\ engine = "running"
  /\ Valid(a)
  /\ self[b] = Gone
  /\ self' = [self EXCEPT ![b] = self[a]]
  /\ callbacks' = Pushed(Popped(callbacks, b), b)
  /\ moved' = moved \cup {a}
  /\ UNCHANGED <<made, engine, wild>>

\* The move constructor makes a Provider at b from the one at a.  The callback
\* it pops is keyed by `this', the new object, and not by `other'.  Moving from
\* an object without a ProviderImpl is undefined, and not done.
Move(a, b) ==
  /\ engine = "running"
  /\ Valid(a)
  /\ self[b] = Gone
  /\ self' = [self EXCEPT ![a] = Null, ![b] = self[a]]
  /\ callbacks' = Pushed(Popped(callbacks, b), b)
  /\ moved' = moved \cup {a}
  /\ UNCHANGED <<made, engine, wild>>

\* Seeded fault: the destructor leaves the callback on the stack.
DestroyWithoutPop(a) ==
  /\ self[a] # Gone
  /\ self' = [self EXCEPT ![a] = Gone]
  /\ UNCHANGED <<made, callbacks, engine, moved, wild>>

\* The destructor, at any time: the objects may outlive the engine.
Destroy(a) ==
  /\ self[a] # Gone
  /\ self' = [self EXCEPT ![a] = Gone]
  /\ callbacks' = IF Valid(a) THEN Popped(callbacks, a) ELSE callbacks
  /\ UNCHANGED <<made, engine, moved, wild>>

\* engine.finalize(), or the end of engine.wait_for_finalize()
StartFinalize ==
  /\ engine = "running"
  /\ engine' = "finalizing"
  /\ UNCHANGED <<self, made, callbacks, moved, wild>>

\* [p=this]() { p->self.reset(); }
RunCallback ==
  LET p == Head(callbacks)
  IN  /\ engine = "finalizing"
      /\ callbacks # <<>>
      /\ callbacks' = Tail(callbacks)
      /\ IF self[p] = Gone
         THEN wild' = TRUE /\ UNCHANGED self
         ELSE self' = [self EXCEPT ![p] = Null] /\ UNCHANGED wild
      /\ UNCHANGED <<made, engine, moved>>

\* No callback is left.
EndFinalize ==
  /\ engine = "finalizing"
  /\ callbacks = <<>>
  /\ engine' = "finalized"
  /\ UNCHANGED <<self, made, callbacks, moved, wild>>

\* The process has ended, or done something undefined that is not followed.
Rest ==
  /\ wild \/ (engine = "finalized" /\ \A a \in Addr : self[a] = Gone)
  /\ UNCHANGED vars

Step ==
  \/ \E a \in Addr, i \in Impl : Construct(a, i)
  \/ \E a, b \in Addr : Move(a, b)
  \/ \E a \in Addr : Destroy(a)
  \/ StartFinalize \/ RunCallback \/ EndFinalize

Next == (~wild /\ Step) \/ Rest

Spec == Init /\ [][Next]_vars

-----------------------------------------------------------------------------
\* Every variable has its type, the engine is finalized when no callback is left
\* on its stack, and while it runs a Provider without a ProviderImpl is one that
\* has been moved from.
TypeOK ==
  /\ self \in [Addr -> Impl \cup {Null, Gone}]
  /\ made \subseteq Impl
  /\ callbacks \in Seq(Addr)
  /\ engine \in {"running", "finalizing", "finalized"}
  /\ moved \subseteq Addr
  /\ wild \in BOOLEAN
  /\ engine = "finalized" => callbacks = <<>>
  /\ engine = "running" => \A a \in Addr : self[a] = Null => a \in moved

\* A ProviderImpl has one owner, through any sequence of moves: it is let go of
\* once, by the callback or by the destructor of that owner.
OneOwner == \A a, b \in Addr : Valid(a) /\ self[a] = self[b] => a = b

\* Whoever finalizes the engine first and destroys its providers later (main of
\* examples/server.cpp and of tests/Main.cpp) leaves no ProviderImpl to a
\* destructor that would call the engine: all of them have been reset.
ReleasedByFinalize == engine = "finalized" => \A a \in Addr : ~Valid(a)

\* A callback outlives the ProviderImpl it was made for, and finalizing writes
\* to an address without a Provider, only where one has been moved away: with
\* providers that stay where they are made (Bedrock, or a vector of one) neither
\* happens.
StaleOnlyAfterMove ==
  /\ \A a \in ToSet(callbacks) : Valid(a) \/ a \in moved
  /\ wild => moved # {}
=============================================================================
