----------------------- MODULE ProviderLifecycle_proofs -----------------------
(***************************************************************************)
(* Theorems about ProviderLifecycle for any number of addresses and of     *)
(* ProviderImpls.                                                          *)
(***************************************************************************)
EXTENDS ProviderLifecycle, WellFoundedInduction, TLAPS

\* The place of the last callback that a has pushed.
IsFirst(cbs, a, i) ==
  i \in 1 .. Len(cbs) /\ cbs[i] = a /\ \A j \in 1 .. i - 1 : cbs[j] # a

\* At most one callback has the owner a.
Once(cbs, a) == \A i, j \in 1 .. Len(cbs) : cbs[i] = a /\ cbs[j] = a => i = j

\* An owner of callbacks is the owner of a last one.
LEMMA FirstExists ==
  ASSUME NEW cbs \in Seq(Addr), NEW a \in ToSet(cbs)
  PROVE  \E i \in DOMAIN cbs : cbs[i] = a /\ \A j \in 1 .. i - 1 : cbs[j] # a
<1> DEFINE T == {i \in 1 .. Len(cbs) : cbs[i] = a}
<1>1. T \subseteq Nat /\ T # {}
  BY DEF ToSet
<1>2. PICK i \in T : \A j \in T : ~(<<j, i>> \in OpToRel(<, Nat))
  <2> HIDE DEF T
  <2>1. QED
    BY <1>1, WFMin, NatLessThanWellFounded
<1>3. ASSUME NEW j \in 1 .. i - 1 PROVE cbs[j] # a
  <2>1. SUFFICES ASSUME cbs[j] = a PROVE FALSE
    OBVIOUS
  <2>2. j \in T /\ j \in Nat /\ i \in Nat /\ j < i
    BY <2>1
  <2>3. <<j, i>> \in OpToRel(<, Nat)
    BY <2>2 DEF OpToRel
  <2>4. QED
    BY <1>2, <2>2, <2>3
<1>4. QED
  BY <1>3

\* What is left of the callbacks when one of a is popped.
LEMMA PopLemma ==
  ASSUME NEW cbs \in Seq(Addr), NEW a \in Addr
  PROVE  /\ Popped(cbs, a) \in Seq(Addr)
         /\ a \notin ToSet(cbs) => Popped(cbs, a) = cbs
         /\ Once(cbs, a) => a \notin ToSet(Popped(cbs, a))
         /\ \A c \in Addr \ {a} :
              /\ c \in ToSet(Popped(cbs, a)) <=> c \in ToSet(cbs)
              /\ Once(cbs, c) => Once(Popped(cbs, a), c)
<1>1. CASE a \notin ToSet(cbs)
  BY <1>1 DEF Popped
<1>2. CASE a \in ToSet(cbs)
  <2> DEFINE First(i) == cbs[i] = a /\ \A j \in 1 .. i - 1 : cbs[j] # a
             k == CHOOSE i \in DOMAIN cbs : First(i)
             rest == RemoveAt(cbs, k)
             n == Len(cbs)
  <2>1. Popped(cbs, a) = rest
    BY <1>2 DEF Popped
  <2>2. k \in 1 .. n /\ cbs[k] = a
    BY <1>2, FirstExists
  <2> HIDE DEF k
  <2>3. /\ rest \in Seq(Addr)
        /\ Len(rest) = n - 1
        /\ \A i \in 1 .. n - 1 : rest[i] = IF i < k THEN cbs[i] ELSE cbs[i + 1]
    <3> DEFINE s == SubSeq(cbs, 1, k - 1)
               t == SubSeq(cbs, k + 1, n)
    <3>1. s \in Seq(Addr) /\ t \in Seq(Addr)
      BY <2>2
    <3>2. Len(s) = k - 1 /\ Len(t) = n - k
      BY <2>2
    <3>3. \A i \in 1 .. k - 1 : s[i] = cbs[i]
      BY <2>2
    <3>4. \A i \in 1 .. n - k : t[i] = cbs[k + i]
      BY <2>2
    <3>5. rest = s \o t
      BY DEF RemoveAt
    <3> HIDE DEF s, t, rest
    <3>6. rest \in Seq(Addr) /\ Len(rest) = n - 1
      BY <2>2, <3>1, <3>2, <3>5
    <3>7. ASSUME NEW i \in 1 .. n - 1
          PROVE  rest[i] = IF i < k THEN cbs[i] ELSE cbs[i + 1]
      <4>1. CASE i < k
        <5>1. i \in 1 .. Len(s)
          BY <2>2, <3>2, <4>1
        <5>2. rest[i] = s[i]
          BY <3>1, <3>5, <5>1
        <5>3. QED
          BY <2>2, <3>3, <4>1, <5>2
      <4>2. CASE ~(i < k)
        <5>1. i - (k - 1) \in 1 .. n - k
          BY <2>2, <4>2
        <5>2. rest[i] = t[i - Len(s)]
          BY <2>2, <3>1, <3>2, <3>5, <4>2
        <5>3. k + (i - (k - 1)) = i + 1
          BY <2>2
        <5>4. QED
          BY <3>2, <3>4, <4>2, <5>1, <5>2, <5>3
      <4>3. QED
        BY <4>1, <4>2
    <3>8. QED
      BY <3>6, <3>7
  <2> HIDE DEF rest
  <2>4. Once(cbs, a) => a \notin ToSet(rest)
    BY <2>2, <2>3 DEF Once, ToSet
  <2>5. ASSUME NEW c \in Addr \ {a}
        PROVE  /\ c \in ToSet(rest) <=> c \in ToSet(cbs)
               /\ Once(cbs, c) => Once(rest, c)
    <3>1. ASSUME c \in ToSet(rest) PROVE c \in ToSet(cbs)
      BY <2>2, <2>3, <3>1 DEF ToSet
    <3>2. ASSUME c \in ToSet(cbs) PROVE c \in ToSet(rest)
      <4>1. PICK i \in 1 .. n : cbs[i] = c /\ i # k
        BY <2>2, <2>5, <3>2 DEF ToSet
      <4>2. IF i < k THEN i \in 1 .. n - 1 /\ rest[i] = c
                     ELSE i - 1 \in 1 .. n - 1 /\ rest[i - 1] = c
        BY <2>2, <2>3, <4>1
      <4>3. QED
        BY <2>3, <4>2 DEF ToSet
    <3>3. ASSUME Once(cbs, c) PROVE Once(rest, c)
      <4> SUFFICES ASSUME NEW i \in 1 .. n - 1, NEW j \in 1 .. n - 1,
                          rest[i] = c, rest[j] = c
                   PROVE  i = j
        BY <2>3 DEF Once
      <4> DEFINE At(x) == IF x < k THEN x ELSE x + 1
      <4>1. cbs[At(i)] = c /\ cbs[At(j)] = c /\ At(i) \in 1 .. n /\ At(j) \in 1 .. n
        BY <2>2, <2>3
      <4>2. At(i) = At(j)
        BY <3>3, <4>1 DEF Once
      <4>3. QED
        BY <2>2, <4>2
    <3>4. QED
      BY <3>1, <3>2, <3>3
  <2>6. QED
    BY <1>2, <2>1, <2>3, <2>4, <2>5
<1>3. QED
  BY <1>1, <1>2

\* What is on the stack when a has pushed a callback.
LEMMA PushLemma ==
  ASSUME NEW cbs \in Seq(Addr), NEW a \in Addr
  PROVE  /\ Pushed(cbs, a) \in Seq(Addr)
         /\ a \in ToSet(Pushed(cbs, a))
         /\ a \notin ToSet(cbs) => Once(Pushed(cbs, a), a)
         /\ \A c \in Addr \ {a} :
              /\ c \in ToSet(Pushed(cbs, a)) <=> c \in ToSet(cbs)
              /\ Once(cbs, c) => Once(Pushed(cbs, a), c)
<1> DEFINE new == <<a>> \o cbs
           n == Len(cbs)
<1>1. /\ new \in Seq(Addr)
      /\ Len(new) = n + 1
      /\ new[1] = a
      /\ \A i \in 2 .. n + 1 : new[i] = cbs[i - 1]
      /\ \A i \in 1 .. n : new[i + 1] = cbs[i]
  OBVIOUS
<1>2. Pushed(cbs, a) = new
  BY DEF Pushed
<1> HIDE DEF new
<1>3. a \in ToSet(new)
  BY <1>1 DEF ToSet
<1>4. a \notin ToSet(cbs) => Once(new, a)
  BY <1>1 DEF Once, ToSet
<1>5. ASSUME NEW c \in Addr \ {a}
      PROVE  /\ c \in ToSet(new) <=> c \in ToSet(cbs)
             /\ Once(cbs, c) => Once(new, c)
  <2>1. ASSUME c \in ToSet(new) PROVE c \in ToSet(cbs)
    <3>1. PICK i \in 1 .. n + 1 : new[i] = c
      BY <1>1, <2>1 DEF ToSet
    <3>2. i # 1 /\ i - 1 \in 1 .. n /\ cbs[i - 1] = c
      BY <1>1, <1>5, <3>1
    <3>3. QED
      BY <3>2 DEF ToSet
  <2>2. ASSUME c \in ToSet(cbs) PROVE c \in ToSet(new)
    <3>1. PICK i \in 1 .. n : cbs[i] = c
      BY <2>2 DEF ToSet
    <3>2. i + 1 \in 1 .. n + 1 /\ new[i + 1] = c
      BY <1>1, <3>1
    <3>3. QED
      BY <1>1, <3>2 DEF ToSet
  <2>3. ASSUME Once(cbs, c) PROVE Once(new, c)
    <3> SUFFICES ASSUME NEW i \in 1 .. n + 1, NEW j \in 1 .. n + 1,
                        new[i] = c, new[j] = c
                 PROVE  i = j
      BY <1>1 DEF Once
    <3>1. /\ i - 1 \in 1 .. n /\ cbs[i - 1] = c
          /\ j - 1 \in 1 .. n /\ cbs[j - 1] = c
      BY <1>1, <1>5
    <3>2. i - 1 = j - 1
      BY <2>3, <3>1 DEF Once
    <3>3. QED
      BY <3>2
  <2>4. QED
    BY <2>1, <2>2, <2>3
<1>6. QED
  BY <1>1, <1>2, <1>3, <1>4, <1>5

-----------------------------------------------------------------------------
\* A ProviderImpl that is owned has been made, and has one owner.
Owned == OneOwner /\ \A a \in Addr : Valid(a) => self[a] \in made

\* An owner has a callback.
Held == \A a \in Addr : Valid(a) => a \in ToSet(callbacks)

\* Where nothing was moved away there is at most one callback, of an owner.
Tidy ==
  /\ \A a \in Addr \ moved :
       Once(callbacks, a) /\ (a \in ToSet(callbacks) => Valid(a))
  /\ wild => moved # {}

Inv == TypeOK /\ Owned /\ Held /\ Tidy

LEMMA InitInv == Init => Inv
<1> SUFFICES ASSUME Init PROVE Inv
  OBVIOUS
<1>1. callbacks \in Seq(Addr) /\ ToSet(callbacks) = {} /\ Len(callbacks) = 0
  BY DEF Init, ToSet
<1>2. \A a \in Addr : ~Valid(a)
  BY LifecycleAssumption DEF Init, Valid
<1>3. TypeOK
  BY <1>1, LifecycleAssumption DEF Init, TypeOK
<1>4. Owned /\ Held
  BY <1>2 DEF Owned, OneOwner, Held
<1>5. Tidy
  BY <1>1 DEF Init, Tidy, Once
<1>6. QED
  BY <1>3, <1>4, <1>5 DEF Inv

\* What Construct and Move have in common: b becomes the owner of an
\* implementation, with a callback of its own on top of the others.
LEMMA NewOwner ==
  ASSUME Inv, NEW cbs \in Seq(Addr), NEW b \in Addr,
         self[b] = Gone,
         b \notin moved => cbs = callbacks,
         \A c \in Addr \ {b} :
           /\ c \in ToSet(cbs) <=> c \in ToSet(callbacks)
           /\ Once(callbacks, c) => Once(cbs, c)
  PROVE  LET new == Pushed(cbs, b)
         IN  /\ new \in Seq(Addr)
             /\ b \in ToSet(new)
             /\ b \notin moved => Once(new, b)
             /\ \A c \in Addr \ {b} :
                  /\ c \in ToSet(new) <=> c \in ToSet(callbacks)
                  /\ Once(callbacks, c) => Once(new, c)
<1>1. ~Valid(b)
  BY LifecycleAssumption DEF Valid
<1>2. b \notin moved => b \notin ToSet(cbs)
  BY <1>1 DEF Inv, Tidy
<1>3. /\ Pushed(cbs, b) \in Seq(Addr)
      /\ b \in ToSet(Pushed(cbs, b))
      /\ b \notin ToSet(cbs) => Once(Pushed(cbs, b), b)
      /\ \A c \in Addr \ {b} :
           /\ c \in ToSet(Pushed(cbs, b)) <=> c \in ToSet(cbs)
           /\ Once(cbs, c) => Once(Pushed(cbs, b), c)
  BY PushLemma
<1>4. QED
  BY <1>2, <1>3

LEMMA ConstructInv ==
  ASSUME Inv, NEW a \in Addr, NEW i \in Impl, Construct(a, i)
  PROVE  Inv'
<1>1. /\ self' = [self EXCEPT ![a] = i] /\ self[a] = Gone
      /\ made' = made \cup {i} /\ i \notin made
      /\ callbacks' = Pushed(callbacks, a)
      /\ engine = "running" /\ UNCHANGED <<engine, moved, wild>>
  BY DEF Construct
<1>2. TypeOK
  BY DEF Inv
<1>3. /\ callbacks' \in Seq(Addr)
      /\ a \in ToSet(callbacks)'
      /\ a \notin moved => Once(callbacks', a)
      /\ \A c \in Addr \ {a} :
           /\ c \in ToSet(callbacks)' <=> c \in ToSet(callbacks)
           /\ Once(callbacks, c) => Once(callbacks', c)
  <2>1. callbacks \in Seq(Addr)
    BY <1>2 DEF TypeOK
  <2>2. QED
    BY <1>1, <2>1, NewOwner
<1>4. /\ self'[a] = i /\ Valid(a)'
      /\ \A c \in Addr \ {a} : self'[c] = self[c] /\ (Valid(c)' <=> Valid(c))
  BY <1>1, <1>2 DEF TypeOK, Valid
<1>5. TypeOK'
  BY <1>1, <1>2, <1>3, <1>4, LifecycleAssumption DEF TypeOK
<1>6. Owned'
  <2>1. \A c \in Addr \ {a} : Valid(c) => self[c] \in made /\ self[c] # i
    BY <1>1 DEF Inv, Owned
  <2>2. ASSUME NEW c \in Addr, NEW d \in Addr, Valid(c)', self'[c] = self'[d]
        PROVE  c = d
    <3>1. Valid(d)'
      BY <2>2 DEF Valid
    <3>2. CASE c = a \/ d = a
      BY <1>4, <2>1, <2>2, <3>1, <3>2
    <3>3. CASE c # a /\ d # a
      <4>1. Valid(c) /\ self[c] = self[d]
        BY <1>4, <2>2, <3>3
      <4>2. QED
        BY <4>1 DEF Inv, Owned, OneOwner
    <3>4. QED
      BY <3>2, <3>3
  <2>3. ASSUME NEW c \in Addr, Valid(c)' PROVE self'[c] \in made'
    BY <1>1, <1>4, <2>1, <2>3
  <2>4. QED
    BY <2>2, <2>3 DEF Owned, OneOwner
<1>7. Held'
  BY <1>3, <1>4 DEF Inv, Held
<1>8. Tidy'
  BY <1>1, <1>3, <1>4 DEF Inv, Tidy
<1>9. QED
  BY <1>5, <1>6, <1>7, <1>8 DEF Inv

LEMMA MoveInv ==
  ASSUME Inv, NEW a \in Addr, NEW b \in Addr, Move(a, b)
  PROVE  Inv'
<1>1. /\ self' = [self EXCEPT ![a] = Null, ![b] = self[a]]
      /\ Valid(a) /\ self[b] = Gone
      /\ callbacks' = Pushed(Popped(callbacks, b), b)
      /\ moved' = moved \cup {a}
      /\ engine = "running" /\ UNCHANGED <<made, engine, wild>>
  BY DEF Move
<1>2. TypeOK /\ callbacks \in Seq(Addr)
  BY DEF Inv, TypeOK
<1>3. a # b /\ ~Valid(b)
  BY <1>1, LifecycleAssumption DEF Valid
<1>4. /\ callbacks' \in Seq(Addr)
      /\ b \in ToSet(callbacks)'
      /\ b \notin moved => Once(callbacks', b)
      /\ \A c \in Addr \ {b} :
           /\ c \in ToSet(callbacks)' <=> c \in ToSet(callbacks)
           /\ Once(callbacks, c) => Once(callbacks', c)
  <2> DEFINE cbs == Popped(callbacks, b)
  <2>1. b \notin moved => b \notin ToSet(callbacks)
    BY <1>3 DEF Inv, Tidy
  <2>2. /\ cbs \in Seq(Addr)
        /\ b \notin moved => cbs = callbacks
        /\ \A c \in Addr \ {b} :
             /\ c \in ToSet(cbs) <=> c \in ToSet(callbacks)
             /\ Once(callbacks, c) => Once(cbs, c)
    BY <1>2, <2>1, PopLemma
  <2> HIDE DEF cbs
  <2>3. callbacks' = Pushed(cbs, b)
    BY <1>1 DEF cbs
  <2>4. QED
    BY <1>1, <2>2, <2>3, NewOwner
<1>5. /\ self'[a] = Null /\ ~Valid(a)'
      /\ self'[b] = self[a] /\ Valid(b)'
      /\ \A c \in Addr \ {a, b} : self'[c] = self[c] /\ (Valid(c)' <=> Valid(c))
  BY <1>1, <1>2, <1>3, LifecycleAssumption DEF TypeOK, Valid
<1>6. TypeOK'
  BY <1>1, <1>2, <1>4, <1>5, LifecycleAssumption DEF TypeOK, Valid
<1>7. Owned'
  <2>1. \A c \in Addr : Valid(c) => (self[c] = self[a] <=> c = a)
    BY <1>1 DEF Inv, Owned, OneOwner
  <2>2. \A c, d \in Addr : Valid(c)' /\ self'[c] = self'[d] => c = d
    <3> SUFFICES ASSUME NEW c \in Addr, NEW d \in Addr, Valid(c)', self'[c] = self'[d]
                 PROVE  c = d
      OBVIOUS
    <3>1. Valid(d)'
      BY DEF Valid
    <3>2. c # a /\ d # a
      BY <1>5, <3>1
    <3>3. CASE c = b \/ d = b
      BY <1>1, <1>5, <2>1, <3>1, <3>2, <3>3
    <3>4. CASE c # b /\ d # b
      BY <1>5, <3>1, <3>2, <3>4 DEF Inv, Owned, OneOwner
    <3>5. QED
      BY <3>3, <3>4
  <2>3. ASSUME NEW c \in Addr, Valid(c)' PROVE self'[c] \in made'
    <3>1. \A d \in Addr : Valid(d) => self[d] \in made
      BY DEF Inv, Owned
    <3>2. CASE c = b
      BY <1>1, <1>5, <3>1, <3>2
    <3>3. CASE c # b
      <4>1. c # a
        BY <1>5, <2>3
      <4>2. self'[c] = self[c] /\ Valid(c)
        BY <1>5, <2>3, <3>3, <4>1
      <4>3. QED
        BY <1>1, <3>1, <4>2
    <3>4. QED
      BY <3>2, <3>3
  <2>4. QED
    BY <2>2, <2>3 DEF Owned, OneOwner
<1>8. Held'
  BY <1>4, <1>5 DEF Inv, Held
<1>9. Tidy'
  BY <1>1, <1>4, <1>5 DEF Inv, Tidy
<1>10. QED
  BY <1>6, <1>7, <1>8, <1>9 DEF Inv

LEMMA DestroyInv ==
  ASSUME Inv, NEW a \in Addr, Destroy(a)
  PROVE  Inv'
<1>1. /\ self' = [self EXCEPT ![a] = Gone] /\ self[a] # Gone
      /\ callbacks' = IF Valid(a) THEN Popped(callbacks, a) ELSE callbacks
      /\ UNCHANGED <<made, engine, moved, wild>>
  BY DEF Destroy
<1>2. TypeOK /\ callbacks \in Seq(Addr)
  BY DEF Inv, TypeOK
<1>3. /\ ~Valid(a)' /\ self'[a] = Gone
      /\ \A c \in Addr \ {a} : self'[c] = self[c] /\ (Valid(c)' <=> Valid(c))
  BY <1>1, <1>2, LifecycleAssumption DEF TypeOK, Valid
<1>4. /\ callbacks' \in Seq(Addr)
      /\ a \notin moved => a \notin ToSet(callbacks)'
      /\ \A c \in Addr \ {a} :
           /\ c \in ToSet(callbacks)' <=> c \in ToSet(callbacks)
           /\ Once(callbacks, c) => Once(callbacks', c)
  <2>1. CASE Valid(a)
    <3>1. callbacks' = Popped(callbacks, a)
      BY <1>1, <2>1
    <3>2. a \notin moved => Once(callbacks, a)
      BY DEF Inv, Tidy
    <3>3. QED
      BY <1>2, <3>1, <3>2, PopLemma
  <2>2. CASE ~Valid(a)
    BY <1>1, <1>2, <2>2 DEF Inv, Tidy
  <2>3. QED
    BY <2>1, <2>2
<1>5. engine = "finalized" => callbacks' = <<>>
  <2>1. SUFFICES ASSUME engine = "finalized" PROVE callbacks' = <<>>
    OBVIOUS
  <2>2. callbacks = <<>> /\ ToSet(callbacks) = {}
    BY <1>2, <2>1 DEF TypeOK, ToSet
  <2>3. ~Valid(a)
    BY <2>2 DEF Inv, Held
  <2>4. QED
    BY <1>1, <2>2, <2>3
<1>6. TypeOK'
  BY <1>1, <1>2, <1>3, <1>4, <1>5, LifecycleAssumption DEF TypeOK
<1>7. Owned'
  <2>1. \A c, d \in Addr : Valid(c)' /\ self'[c] = self'[d] => c = d
    <3> SUFFICES ASSUME NEW c \in Addr, NEW d \in Addr, Valid(c)', self'[c] = self'[d]
                 PROVE  c = d
      OBVIOUS
    <3>1. Valid(d)' /\ c # a /\ d # a
      BY <1>3 DEF Valid
    <3>2. QED
      BY <1>3, <3>1 DEF Inv, Owned, OneOwner
  <2>2. ASSUME NEW c \in Addr, Valid(c)' PROVE self'[c] \in made'
    BY <1>1, <1>3, <2>2 DEF Inv, Owned
  <2>3. QED
    BY <2>1, <2>2 DEF Owned, OneOwner
<1>8. Held'
  BY <1>3, <1>4 DEF Inv, Held
<1>9. Tidy'
  <2>1. ASSUME NEW c \in Addr \ moved
        PROVE  Once(callbacks', c) /\ (c \in ToSet(callbacks)' => Valid(c)')
    <3>1. CASE c = a
      BY <1>4, <3>1 DEF Once, ToSet
    <3>2. CASE c # a
      BY <1>3, <1>4, <3>2 DEF Inv, Tidy
    <3>3. QED
      BY <3>1, <3>2
  <2>2. QED
    BY <1>1, <2>1 DEF Inv, Tidy
<1>10. QED
  BY <1>6, <1>7, <1>8, <1>9 DEF Inv

LEMMA RunCallbackInv ==
  ASSUME Inv, RunCallback
  PROVE  Inv'
<1>p. PICK p \in Addr : p = Head(callbacks)
  BY DEF RunCallback, Inv, TypeOK
<1>1. /\ engine = "finalizing" /\ callbacks # <<>> /\ callbacks' = Tail(callbacks)
      /\ self[p] = Gone => wild' = TRUE /\ self' = self
      /\ self[p] # Gone => wild' = wild /\ self' = [self EXCEPT ![p] = Null]
      /\ UNCHANGED <<made, engine, moved>>
  BY <1>p DEF RunCallback
<1>2. TypeOK /\ callbacks \in Seq(Addr)
  BY DEF Inv, TypeOK
<1>3. /\ p \in Addr /\ p \in ToSet(callbacks) /\ p = callbacks[1]
      /\ callbacks' \in Seq(Addr)
      /\ Len(callbacks) \in Nat \ {0} /\ Len(callbacks') = Len(callbacks) - 1
      /\ \A i \in 1 .. Len(callbacks') : callbacks'[i] = callbacks[i + 1]
  BY <1>p, <1>1, <1>2 DEF ToSet
<1>4. /\ Once(callbacks, p) => p \notin ToSet(callbacks)'
      /\ \A c \in Addr : Once(callbacks, c) => Once(callbacks', c)
      /\ ToSet(callbacks)' \subseteq ToSet(callbacks)
  <2>1. \A i \in 1 .. Len(callbacks') :
           i + 1 \in 2 .. Len(callbacks) /\ callbacks[i + 1] = callbacks'[i]
    BY <1>3
  <2>2. ASSUME Once(callbacks, p) PROVE p \notin ToSet(callbacks)'
    BY <1>3, <2>1, <2>2 DEF Once, ToSet
  <2>3. ASSUME NEW c \in Addr, Once(callbacks, c) PROVE Once(callbacks', c)
    <3> SUFFICES ASSUME NEW i \in 1 .. Len(callbacks'), NEW j \in 1 .. Len(callbacks'),
                        callbacks'[i] = c, callbacks'[j] = c
                 PROVE  i = j
      BY DEF Once
    <3>1. i + 1 = j + 1
      BY <1>3, <2>1, <2>3 DEF Once
    <3>2. QED
      BY <1>3, <3>1
  <2>4. ToSet(callbacks)' \subseteq ToSet(callbacks)
    BY <1>3, <2>1 DEF ToSet
  <2>5. QED
    BY <2>2, <2>3, <2>4
<1>5. ASSUME NEW c \in Addr \ {p}, c \in ToSet(callbacks) PROVE c \in ToSet(callbacks)'
  <2>1. PICK i \in 1 .. Len(callbacks) : callbacks[i] = c
    BY <1>5 DEF ToSet
  <2>2. i - 1 \in 1 .. Len(callbacks') /\ callbacks'[i - 1] = c
    BY <1>3, <1>5, <2>1
  <2>3. QED
    BY <1>3, <2>2 DEF ToSet
<1>6. /\ ~Valid(p)'
      /\ \A c \in Addr \ {p} : self'[c] = self[c] /\ (Valid(c)' <=> Valid(c))
  BY <1>1, <1>2, <1>3, LifecycleAssumption DEF TypeOK, Valid
<1>7. self[p] = Gone => p \in moved
  BY <1>3, LifecycleAssumption DEF Inv, Tidy, Valid
<1>8. TypeOK'
  BY <1>1, <1>2, <1>3 DEF TypeOK
<1>9. Owned'
  <2>1. \A c, d \in Addr : Valid(c)' /\ self'[c] = self'[d] => c = d
    <3> SUFFICES ASSUME NEW c \in Addr, NEW d \in Addr, Valid(c)', self'[c] = self'[d]
                 PROVE  c = d
      OBVIOUS
    <3>1. Valid(d)' /\ c # p /\ d # p
      BY <1>6 DEF Valid
    <3>2. QED
      BY <1>6, <3>1 DEF Inv, Owned, OneOwner
  <2>2. ASSUME NEW c \in Addr, Valid(c)' PROVE self'[c] \in made'
    BY <1>1, <1>6, <2>2 DEF Inv, Owned
  <2>3. QED
    BY <2>1, <2>2 DEF Owned, OneOwner
<1>10. Held'
  BY <1>5, <1>6 DEF Inv, Held
<1>11. Tidy'
  <2>1. ASSUME NEW c \in Addr \ moved
        PROVE  Once(callbacks', c) /\ (c \in ToSet(callbacks)' => Valid(c)')
    BY <1>4, <1>6 DEF Inv, Tidy
  <2>2. wild' => moved' # {}
    BY <1>1, <1>7 DEF Inv, Tidy
  <2>3. QED
    BY <1>1, <2>1, <2>2 DEF Tidy
<1>12. QED
  BY <1>8, <1>9, <1>10, <1>11 DEF Inv

\* Nothing but the state of the engine changes.
LEMMA EngineInv ==
  ASSUME Inv, UNCHANGED <<self, made, callbacks, moved, wild>>,
         \/ engine' = "finalizing"
         \/ engine' = "finalized" /\ callbacks = <<>>
         \/ engine' = engine
  PROVE  Inv'
<1>1. \A a \in Addr : Valid(a)' <=> Valid(a)
  BY DEF Valid
<1>2. TypeOK'
  BY DEF Inv, TypeOK
<1>3. Owned' /\ Held' /\ Tidy'
  BY <1>1 DEF Inv, Owned, OneOwner, Held, Tidy
<1>4. QED
  BY <1>2, <1>3 DEF Inv

LEMMA NextInv == Inv /\ [Next]_vars => Inv'
<1> SUFFICES ASSUME Inv, [Next]_vars PROVE Inv'
  OBVIOUS
<1>1. CASE \E a \in Addr, i \in Impl : Construct(a, i)
  BY <1>1, ConstructInv
<1>2. CASE \E a, b \in Addr : Move(a, b)
  BY <1>2, MoveInv
<1>3. CASE \E a \in Addr : Destroy(a)
  BY <1>3, DestroyInv
<1>4. CASE StartFinalize
  BY <1>4, EngineInv DEF StartFinalize
<1>5. CASE RunCallback
  BY <1>5, RunCallbackInv
<1>6. CASE EndFinalize
  BY <1>6, EngineInv DEF EndFinalize
<1>7. CASE UNCHANGED vars
  BY <1>7, EngineInv DEF vars
<1>8. QED
  BY <1>1, <1>2, <1>3, <1>4, <1>5, <1>6, <1>7 DEF Next, Step, Rest

LEMMA AlwaysInv == Spec => []Inv
BY InitInv, NextInv, PTL DEF Spec

\* The types, and the state in which the engine leaves its stack of callbacks.
THEOREM TypeCorrect == Spec => []TypeOK
<1>1. Inv => TypeOK
  BY DEF Inv
<1>2. QED
  BY <1>1, AlwaysInv, PTL

\* Through any sequence of moves a ProviderImpl has one owner.
THEOREM AlwaysOneOwner == Spec => []OneOwner
<1>1. Inv => OneOwner
  BY DEF Inv, Owned
<1>2. QED
  BY <1>1, AlwaysInv, PTL

\* When the engine is finalized, no Provider has a ProviderImpl any more.
THEOREM AlwaysReleased == Spec => []ReleasedByFinalize
<1>1. Inv => ReleasedByFinalize
  <2> SUFFICES ASSUME Inv, engine = "finalized", NEW a \in Addr PROVE ~Valid(a)
    BY DEF ReleasedByFinalize
  <2>1. ToSet(callbacks) = {}
    BY DEF Inv, TypeOK, ToSet
  <2>2. QED
    BY <2>1 DEF Inv, Held
<1>2. QED
  BY <1>1, AlwaysInv, PTL

\* The finalization of the engine meets a stale callback only where a Provider
\* has been moved away.
THEOREM StaleNeedsMove == Spec => []StaleOnlyAfterMove
<1>1. Inv => StaleOnlyAfterMove
  <2> SUFFICES ASSUME Inv PROVE StaleOnlyAfterMove
    OBVIOUS
  <2>1. ToSet(callbacks) \subseteq Addr
    BY DEF Inv, TypeOK, ToSet
  <2>2. QED
    BY <2>1 DEF Inv, Tidy, StaleOnlyAfterMove
<1>2. QED
  BY <1>1, AlwaysInv, PTL
=============================================================================
