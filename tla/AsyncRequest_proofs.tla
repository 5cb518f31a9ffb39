------------------------- MODULE AsyncRequest_proofs -------------------------
(***************************************************************************)
(* Theorems about AsyncRequest for any number of operations and handles.   *)
(***************************************************************************)
EXTENDS AsyncRequest, TLAPS

\* The function the thread is in has the handles it was called with.
Called ==
  /\ doing = Idle \/ (doing.call # "none" /\ doing.to \in Var)
  /\ doing.call \in {"copy", "move"} => doing.from \in Handle \ {doing.to}
  /\ doing.from = Temp =>
       doing.call = "move" /\ self[Temp] # None /\ self[doing.to] # self[Temp]
  /\ doing.call = "wait" => self[doing.to] # None

\* An operation that a handle shares has been sent.
Sent == \A h \in Handle : self[h] # None => op[self[h]] # "unsent"

\* An operation that is done with has had its response taken.
Taken == \A o \in Op : waited[o] => consumed[o] > 0

Inv == TypeOK /\ Called /\ Sent /\ Taken /\ ConsumedOnce

LEMMA InitInv == Init => Inv
<1> SUFFICES ASSUME Init PROVE Inv
  OBVIOUS
<1>1. doing = Idle /\ doing.call = "none" /\ doing.to = None /\ doing.from = None
  BY DEF Init, Idle
<1>2. TypeOK
  BY <1>1, AsyncAssumption DEF Init, TypeOK, Idle, Function, Handle
<1>3. Called
  BY <1>1, AsyncAssumption DEF Called, Handle
<1>4. Sent /\ Taken /\ ConsumedOnce
  BY AsyncAssumption DEF Init, Sent, Taken, ConsumedOnce
<1>5. QED
  BY <1>2, <1>3, <1>4 DEF Inv

\* What a member function leaves: handles that share what some handle shared.
EffectDone ==
  /\ doing' = Idle
  /\ self' \in [Handle -> Op \cup {None}]
  /\ self'[Temp] = None
  /\ \A h \in Handle : self'[h] # None => \E g \in Handle : self[g] = self'[h]

LEMMA EffectKeeps ==
  ASSUME TypeOK, Called, doing.call # "none", Effect
  PROVE  EffectDone
<1> USE AsyncAssumption DEF EffectDone, Handle
<1>1. /\ self \in [Handle -> Op \cup {None}]
      /\ doing.to \in Var
      /\ doing' = Idle
      /\ doing.from # Temp => self[Temp] = None
  BY DEF TypeOK, Called, Effect, Idle
<1>2. CASE doing.call = "wait" \/ Aliased
  <2>1. self' = self
    BY <1>2 DEF Effect, Aliased
  <2>2. self[Temp] = None
    BY <1>1, <1>2 DEF Called, Aliased
  <2>3. QED
    BY <1>1, <2>1, <2>2
<1>3. CASE doing.call = "destroy"
  <2>1. self' = [self EXCEPT ![doing.to] = None]
    BY <1>3 DEF Effect, Aliased
  <2>2. QED
    BY <1>1, <1>3, <2>1 DEF Called
<1>4. CASE doing.call = "copy" /\ ~Aliased
  <2>1. self' = [self EXCEPT ![doing.to] = self[doing.from]]
    BY <1>4 DEF Effect
  <2>2. QED
    BY <1>1, <1>4, <2>1 DEF Called
<1>5. CASE doing.call = "move" /\ ~Aliased
  <2>1. self' = [self EXCEPT ![doing.to] = self[doing.from], ![doing.from] = None]
    BY <1>5 DEF Effect
  <2>2. QED
    BY <1>1, <1>5, <2>1 DEF Called
<1>6. QED
  BY <1>2, <1>3, <1>4, <1>5 DEF Effect

LEMMA NextInv == Inv /\ [Next]_vars => Inv'
<1> SUFFICES ASSUME Inv, [Next]_vars PROVE Inv'
  OBVIOUS
<1> USE AsyncAssumption
    DEF Inv, TypeOK, Called, Sent, Taken, ConsumedOnce, Idle, Function, Handle
<1>1. ASSUME NEW h \in Var, NEW o \in Op, ComputeSum(h, o) PROVE Inv'
  BY <1>1 DEF ComputeSum, Ready
<1>2. ASSUME NEW o \in Op, Receive(o) PROVE Inv'
  BY <1>2 DEF Receive
<1>3. ASSUME NEW call \in {"copy", "move"}, NEW to \in Var, NEW from \in Var,
             Assign(call, to, from)
      PROVE  Inv'
  BY <1>3 DEF Assign, Ready
<1>4. ASSUME NEW call \in {"wait", "destroy"}, NEW h \in Var, Use(call, h)
      PROVE  Inv'
  BY <1>4 DEF Use, Ready
<1>5. CASE Proceed
  <2>1. EffectDone
    BY <1>5, EffectKeeps DEF Proceed
  <2>2. UNCHANGED <<op, waited, consumed, thrown, ended>>
    BY <1>5 DEF Proceed
  <2>3. QED
    BY <2>1, <2>2 DEF EffectDone
<1>6. CASE FinishWait
  <2>1. EffectDone
    BY <1>6, EffectKeeps DEF FinishWait, Consume, MustWait
  <2>2. Waiting \in Op /\ ~waited[Waiting] /\ op[Waiting] = "success"
    BY <1>6 DEF FinishWait, Consume, MustWait, Waiting, Last
  <2>3. /\ waited' = [waited EXCEPT ![Waiting] = TRUE]
        /\ consumed' = [consumed EXCEPT ![Waiting] = @ + 1]
        /\ UNCHANGED <<op, thrown, ended>>
    BY <1>6 DEF FinishWait, Consume
  <2>4. QED
    BY <2>1, <2>2, <2>3 DEF EffectDone
<1>7. CASE Throw
  <2>1. Waiting \in Op /\ op[Waiting] = "error"
    BY <1>7 DEF Throw, Consume, MustWait, Waiting, Last
  <2>2. /\ ended' \in BOOLEAN
        /\ self' = [self EXCEPT ![Temp] = None]
        /\ thrown' \subseteq Op
        /\ doing' = Idle
        /\ consumed' = [consumed EXCEPT ![Waiting] = @ + 1]
        /\ UNCHANGED <<op, waited>>
    BY <1>7 DEF Throw, Consume
  <2>3. QED
    BY <2>1, <2>2
<1>8. CASE UNCHANGED vars
  BY <1>8 DEF vars, MustWait
<1>9. QED
  BY <1>1, <1>2, <1>3, <1>4, <1>5, <1>6, <1>7, <1>8 DEF Next, Rest

LEMMA InvHolds == Spec => []Inv
BY InitInv, NextInv, PTL DEF Spec

\* computeSum keeps no pointer to its operation when it is over, whatever is
\* thrown inside it.
THEOREM TypeCorrect == Spec => []TypeOK
<1>1. Inv => TypeOK
  BY DEF Inv
<1>2. QED
  BY <1>1, InvHolds, PTL

\* The response of an operation that does not fail is taken once, however many
\* handles share the operation and wait for it.
THEOREM AlwaysConsumedOnce == Spec => []ConsumedOnce
<1>1. Inv => ConsumedOnce
  BY DEF Inv
<1>2. QED
  BY <1>1, InvHolds, PTL

-----------------------------------------------------------------------------
(***************************************************************************)
(* Operations are not let go of unawaited.                                 *)
(***************************************************************************)
LEMMA NextKept == Inv /\ NoneAbandoned /\ [Next]_vars => NoneAbandoned'
<1> SUFFICES ASSUME Inv, NoneAbandoned, [Next]_vars
             PROVE  NoneAbandoned'
  OBVIOUS
<1> USE AsyncAssumption
    DEF Inv, TypeOK, Called, Sent, Taken, ConsumedOnce, NoneAbandoned, Idle, Function, Handle
<1>1. ASSUME NEW h \in Var, NEW o \in Op, ComputeSum(h, o) PROVE NoneAbandoned'
  BY <1>1 DEF ComputeSum, Ready
<1>2. ASSUME NEW o \in Op, Receive(o) PROVE NoneAbandoned'
  BY <1>2 DEF Receive
<1>3. ASSUME NEW call \in {"copy", "move"}, NEW to \in Var, NEW from \in Var,
             Assign(call, to, from)
      PROVE  NoneAbandoned'
  BY <1>3 DEF Assign
<1>4. ASSUME NEW call \in {"wait", "destroy"}, NEW h \in Var, Use(call, h)
      PROVE  NoneAbandoned'
  BY <1>4 DEF Use
<1>5. CASE Proceed
  <2>1. UNCHANGED <<op, waited, consumed, thrown, ended>> /\ doing # Idle
    BY <1>5 DEF Proceed
  <2>2. CASE UNCHANGED self
    BY <2>1, <2>2
  <2>3. CASE /\ ~Aliased
             /\ \A h \in Handle \ {doing.to} : self[h] # None =>
                  \E g \in Handle : self'[g] = self[h]
    <3> SUFFICES ASSUME NEW o \in Op \ thrown, op[o] # "unsent", consumed[o] = 0
                 PROVE  \E h \in Handle : self'[h] = o
      BY <2>1
    <3>1. PICK h \in Handle : self[h] = o
      OBVIOUS
    <3>2. h # doing.to \/ \E g \in Handle \ {doing.to} : self[g] = o
      <4> SUFFICES ASSUME h = doing.to, \A g \in Handle \ {doing.to} : self[g] # o
                   PROVE  FALSE
        OBVIOUS
      <4>1. Last(doing.to)
        BY <3>1 DEF Last
      <4>2. waited[o]
        BY <1>5, <2>1, <2>3, <3>1, <4>1 DEF Proceed, MustWait
      <4>3. QED
        BY <4>2
    <3>3. QED
      BY <2>3, <3>1, <3>2
  <2>4. ASSUME ~(doing.call = "wait" \/ Aliased)
        PROVE  \A h \in Handle \ {doing.to} : self[h] # None =>
                 \E g \in Handle : self'[g] = self[h]
    BY <1>5, <2>1, <2>4 DEF Proceed, Effect, Aliased
  <2>5. CASE doing.call = "wait" \/ Aliased
    BY <1>5, <2>2, <2>5 DEF Proceed, Effect, Aliased
  <2>6. QED
    BY <2>3, <2>4, <2>5
<1>6. CASE FinishWait
  BY <1>6 DEF FinishWait, Consume, Effect, Aliased, MustWait, Last, Waiting
<1>7. CASE Throw
  <2>1. Waiting \in Op
    BY <1>7 DEF Throw, Consume, MustWait, Waiting, Last
  <2>2. /\ self' = [self EXCEPT ![Temp] = None]
        /\ self[Temp] # None => thrown' = thrown \cup {self[Temp]}
        /\ thrown \subseteq thrown'
        /\ consumed' = [consumed EXCEPT ![Waiting] = @ + 1]
        /\ UNCHANGED op
    BY <1>7 DEF Throw, Consume
  <2>3. QED
    BY <2>1, <2>2
<1>8. CASE UNCHANGED vars
  BY <1>8 DEF vars
<1>9. QED
  BY <1>1, <1>2, <1>3, <1>4, <1>5, <1>6, <1>7, <1>8 DEF Next, Rest

\* Unless computeSum itself throws, an operation that has been sent has a handle
\* until it has been waited for, also when other operations fail.
THEOREM NeverAbandoned == Spec => []NoneAbandoned
<1>1. Init => NoneAbandoned
  BY DEF Init, NoneAbandoned
<1>2. QED
  BY <1>1, NextKept, InvHolds, PTL DEF Spec
=============================================================================
