---------------------------- MODULE AsyncRequest ----------------------------
(***************************************************************************)
(* The AsyncRequest objects of one thread of a client.  The asynchronous   *)
(* form of NodeHandle::computeSum makes an operation; the AsyncRequests    *)
(* that are copied and moved from the one it returns share the operation   *)
(* (AsyncRequestImpl), and the last of them waits for the response before  *)
(* it lets go.  Nothing in the class is synchronized, so a thread uses its *)
(* handles alone; what runs beside it are the answers of the server.       *)
(***************************************************************************)
EXTENDS Naturals, FiniteSets

CONSTANTS
  Op,        (* asynchronous calls of computeSum                            *)
  Var,       (* the AsyncRequest variables of the thread                    *)
  Temp,      (* the pointers computeSum itself has to its operation         *)
  MayFail,   (* operations whose response may have success = false          *)
  MaxWaits,  (* bound: an operation that failed is not waited for more often*)
  None       (* a null pointer; no call                                     *)

Handle == Var \cup {Temp}

ASSUME AsyncAssumption ==
  /\ Temp \notin Var
  /\ MayFail \subseteq Op
  /\ MaxWaits \in Nat \ {0}
  /\ None \notin Op \cup Handle

VARIABLES
  self,      (* self[h]: the operation handle h shares, or None             *)
  op,        (* op[o]: the operation and the response it has received       *)
  waited,    (* waited[o]: m_waited                                         *)
  consumed,  (* consumed[o]: how often m_async_response.wait() was called   *)
  thrown,    (* the operations whose computeSum has thrown an exception     *)
  doing,     (* the member function the thread is in, and its handles       *)
  ended      (* std::terminate has been called                              *)

vars == <<self, op, waited, consumed, thrown, doing, ended>>

Idle == [call |-> "none", to |-> None, from |-> None]

-----------------------------------------------------------------------------
\* Seeded fault: a use count that is off by one.
LastByOne(h) ==
  /\ self[h] # None
  /\ Cardinality({g \in Handle : self[g] = self[h]}) = 2

\* self && self.unique()
Last(h) ==
  /\ self[h] # None
  /\ \A g \in Handle \ {h} : self[g] # self[h]

\* Assignments between handles that share an operation return at once.
Aliased == doing.call \in {"copy", "move"} /\ self[doing.to] = self[doing.from]

\* The function the thread is in calls the wait callback of its operation.
MustWait ==
  /\ doing.call # "none"
  /\ ~Aliased
  /\ doing.call = "wait" \/ Last(doing.to)
  /\ ~waited[self[doing.to]]

Waiting == self[doing.to]

\* The bound on repeated waits for a response that was an error.
Bounded(h) == self[h] # None => consumed[self[h]] < MaxWaits

Init ==
  /\ self     = [h \in Handle |-> None]
  /\ op       = [o \in Op |-> "unsent"]
  /\ waited   = [o \in Op |-> FALSE]
  /\ consumed = [o \in Op |-> 0]
  /\ thrown   = {}
  /\ doing    = Idle
  /\ ended    = FALSE

Ready == doing = Idle /\ ~ended

\* computeSum sends the call and assigns a temporary AsyncRequest to *req.
ComputeSum(h, o) ==
  /\ Ready
  /\ Bounded(h)
  /\ op[o] = "unsent"
  /\ op'    = [op EXCEPT ![o] = "sent"]
  /\ self'  = [self EXCEPT ![Temp] = o]
  /\ doing' = [call |-> "move", to |-> h, from |-> Temp]
  /\ UNCHANGED <<waited, consumed, thrown, ended>>

\* The response arrives.
Receive(o) ==
  /\ op[o] = "sent"
  /\ \E response \in {"success", "error"} :
       /\ response = "error" => o \in MayFail
       /\ op' = [op EXCEPT ![o] = response]
  /\ UNCHANGED <<self, waited, consumed, thrown, doing, ended>>

\* to = from, and to = std::move(from)
Assign(call, to, from) ==
  /\ Ready
  /\ to # from
  /\ Bounded(to)
  /\ doing' = [call |-> call, to |-> to, from |-> from]
  /\ UNCHANGED <<self, op, waited, consumed, thrown, ended>>

\* h.wait(), which throws at once if h is not valid; or h goes out of scope.
Use(call, h) ==
  /\ Ready
  /\ call = "wait" => self[h] # None /\ Bounded(h)
  /\ doing' = [call |-> call, to |-> h, from |-> None]
  /\ UNCHANGED <<self, op, waited, consumed, thrown, ended>>

\* Seeded fault: a move leaves the other pointer as it is.
EffectCopies ==
  /\ self' = IF doing.call = "wait" \/ Aliased
             THEN self
             ELSE [self EXCEPT ![doing.to] = IF doing.call = "destroy"
                                             THEN None ELSE self[doing.from]]
  /\ doing' = Idle

\* What is left to do after the wait, if there was one.
Effect ==
  /\ \/ /\ doing.call = "wait" \/ Aliased
        /\ UNCHANGED self
     \/ /\ doing.call = "destroy"
        /\ self' = [self EXCEPT ![doing.to] = None]
     \/ /\ doing.call = "copy" /\ ~Aliased
        /\ self' = [self EXCEPT ![doing.to] = self[doing.from]]
     \/ /\ doing.call = "move" /\ ~Aliased
        /\ self' = [self EXCEPT ![doing.to] = self[doing.from],
                               ![doing.from] = None]
  /\ doing' = Idle

\* The function need not wait.
Proceed ==
  /\ doing # Idle
  /\ ~ended
  /\ ~MustWait
  /\ Effect
  /\ UNCHANGED <<op, waited, consumed, thrown, ended>>

\* m_async_response.wait() returns this response.
Consume(response) ==
  /\ MustWait
  /\ ~ended
  /\ op[Waiting] = response
  /\ consumed' = [consumed EXCEPT ![Waiting] = @ + 1]
  /\ UNCHANGED op

\* Seeded fault: m_waited is not set.
FinishWaitUnmarked ==
  /\ Consume("success")
  /\ Effect
  /\ UNCHANGED <<waited, thrown, ended>>

\* The wait callback returns.
FinishWait ==
  /\ Consume("success")
  /\ waited' = [waited EXCEPT ![Waiting] = TRUE]
  /\ Effect
  /\ UNCHANGED <<thrown, ended>>

\* The wait callback throws, with m_waited still false: that ends the program if
\* it happens in a destructor.  In computeSum the new operation is dropped, by a
\* temporary that is not the last handle and a pointer that is not a handle.  A
\* second wait for one response may do worse than throw.
Throw ==
  /\ Consume("error")
  /\ ended' \in IF doing.call = "destroy" THEN {TRUE}
               ELSE IF consumed[Waiting] > 0 THEN BOOLEAN ELSE {FALSE}
  /\ self' = [self EXCEPT ![Temp] = None]
  /\ thrown' = IF doing.from = Temp THEN thrown \cup {self[Temp]} ELSE thrown
  /\ doing' = Idle
  /\ UNCHANGED waited

\* All variables are out of scope, or the program has ended.
Rest ==
  /\ ended \/ (doing = Idle /\ \A h \in Handle : self[h] = None)
  /\ UNCHANGED vars

Next ==
  \/ \E h \in Var, o \in Op : ComputeSum(h, o)
  \/ \E o \in Op : Receive(o)
  \/ \E call \in {"copy", "move"}, to, from \in Var : Assign(call, to, from)
  \/ \E call \in {"wait", "destroy"}, h \in Var : Use(call, h)
  \/ Proceed \/ FinishWait \/ Throw
  \/ Rest

Spec == Init /\ [][Next]_vars

-----------------------------------------------------------------------------
Function == {"none", "copy", "move", "wait", "destroy"}

\* Every variable has its type, and computeSum keeps no pointer when it is over.
TypeOK ==
  /\ self     \in [Handle -> Op \cup {None}]
  /\ op       \in [Op -> {"unsent", "sent", "success", "error"}]
  /\ waited   \in [Op -> BOOLEAN]
  /\ consumed \in [Op -> Nat]
  /\ thrown   \subseteq Op
  /\ doing    \in [call : Function, to : Var \cup {None}, from : Handle \cup {None}]
  /\ ended    \in BOOLEAN
  /\ doing.from # Temp => self[Temp] = None

\* "the caller is responsible for waiting on the request" (NodeHandle.hpp), and
\* can be, also when the variable is used for another call meanwhile: unless computeSum itself has thrown, an operation has a handle until it
\* has been waited for and its result pointer has been written.
NoneAbandoned ==
  \A o \in Op \ thrown :
    op[o] # "unsent" /\ consumed[o] = 0 => \E h \in Handle : self[h] = o

\* However many handles share an operation and wait for it, its callback takes
\* the response once and writes the result once, unless it reports a failure.
ConsumedOnce ==
  \A o \in Op : op[o] # "error" => consumed[o] = IF waited[o] THEN 1 ELSE 0
=============================================================================
