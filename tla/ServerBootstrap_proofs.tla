------------------------ MODULE ServerBootstrap_proofs ------------------------
(***************************************************************************)
(* Theorems about ServerBootstrap for any number of ranks, instances and   *)
(* starts of the job, whichever ranks fail to make their nodes.            *)
(***************************************************************************)
EXTENDS ServerBootstrap, FiniteSetTheorems, TLAPS

\* Where a rank waits for a barrier it has entered.
Waiting == {"start", "addrWait", "provideWait", "nodeWait"}

\* Color and NewRank, for any number of instances.
Block(m, r) == IF m = 1 THEN 0 ELSE r \div (Size \div m)

RankIn(m, r) == Cardinality({s \in World : s < r /\ Block(m, s) = Block(m, r)})

\* How many barriers a rank has entered is where it is in its program.
Place(r) ==
  /\ pc[r] \in {"start", "size"} => round[r] = 0 /\ barriers[r] = 1
  /\ pc[r] = "addr" => barriers[r] = round[r] + 1
  /\ pc[r] = "addrWait" => barriers[r] = round[r] + 2
  /\ pc[r] = "provide" => round[r] = 0 /\ barriers[r] = Size + 1
  /\ pc[r] = "provideWait" => round[r] = 0 /\ barriers[r] = Size + 2
  /\ pc[r] = "node" => barriers[r] = round[r] + Size + 2
  /\ pc[r] = "nodeWait" => barriers[r] = round[r] + Size + 3
  /\ pc[r] = "serve" => barriers[r] = Size + Size + 2
  /\ pc[r] = "exited" /\ Splittable => barriers[r] = round[r] + Size + 2
  /\ pc[r] = "exited" /\ ~Splittable => round[r] = 0 /\ barriers[r] = 1
  /\ pc[r] \notin {"start", "size", "exited"} => Splittable
  /\ pc[r] \in {"provideWait", "node", "nodeWait", "serve"} => comm[r] = Block(instances, r)
  /\ pc[r] = "exited" /\ Splittable => comm[r] = Block(instances, r)

\* A rank that does not wait has left a barrier all have entered.
BarrierInv ==
  /\ \A r \in World : Place(r)
  /\ \A r \in World : pc[r] \notin Waiting => BarrierOpen(r)
  /\ Aborted => failed

-----------------------------------------------------------------------------
\* The lines a job of m instances writes: line k of job j.
AddrLines(j, m) ==
  [k \in 0 .. Size |->
     IF k = 0 THEN SizeLine
     ELSE [rank |-> RankIn(m, k - 1), server |-> [job |-> j, rank |-> k - 1]]]

NodeLines(j) == [k \in 0 .. Size - 1 |-> [job |-> j, rank |-> k]]

\* The job that runs has written line k.
AddrWritten(k) ==
  IF k = 0 THEN pc[0] \notin {"start", "size"} ELSE barriers[k - 1] >= k + 1

NodeWritten(k) == barriers[k] >= k + Size + 3

\* The file ends with the first n of the lines.
EndsWith(file, n, lines) ==
  /\ n <= Len(file)
  /\ \A k \in 0 .. n - 1 : file[Len(file) - n + k + 1] = lines[k]

\* The file begins with the m lines of the first job, as far as there are any; n of
\* what is in it is of the job that runs.
BeginsWith(file, n, m, lines) ==
  /\ \A k \in 0 .. m - 1 : k < Len(file) => file[k + 1] = lines[k]
  /\ job = 1 => Len(file) = n
  /\ job # 1 => Len(file) >= n + m

AddrInv(n) ==
  /\ \A k \in 0 .. Size : AddrWritten(k) <=> k < n
  /\ EndsWith(addresses, n, AddrLines(job, instances))
  /\ BeginsWith(addresses, n, Size + 1, AddrLines(1, instances))

NodeInv(m) ==
  /\ \A k \in World : NodeWritten(k) <=> k < m
  /\ EndsWith(nodes, m, NodeLines(job))
  /\ ~failed => BeginsWith(nodes, m, Size, NodeLines(1))

FileInv ==
  /\ \E n \in 0 .. Size + 1 : AddrInv(n)
  /\ \E m \in 0 .. Size : NodeInv(m)

\* What clients have read is of the first job.
FoundInv ==
  \A c \in Client :
    /\ found[c].rank \in {None, RankIn(instances, c)}
    /\ found[c].server \in {None, [job |-> 1, rank |-> c]}
    /\ ~failed => found[c].node \in {None, [job |-> 1, rank |-> c]}

\* A job that cannot be split lists nothing but its size.
NothingListed ==
  /\ \A k \in 1 .. Len(addresses) : addresses[k] = SizeLine
  /\ nodes = <<>>
  /\ \A c \in Client : found[c].server = None /\ found[c].node = None

\* A job that has listed a node has passed the barrier after its providers.
ReadyInv ==
  \A k \in 1 .. Len(nodes) :
    /\ nodes[k].job <= job
    /\ nodes[k].job = job => \A s \in World : barriers[s] >= Size + 2

BootInv ==
  /\ TypeOK /\ BarrierInv /\ ReadyInv
  /\ IF Splittable THEN FileInv /\ FoundInv ELSE NothingListed
-----------------------------------------------------------------------------
(***************************************************************************)
(* Ranks and instances.                                                    *)
(***************************************************************************)
LEMMA Sizes ==
  /\ Size \in Nat /\ Size > 0 /\ 0 \in World
  /\ ClientSize \in Nat /\ ClientSize > 0 /\ ClientSize <= Size
  /\ MaxJobs \in Nat /\ MaxJobs > 0
  /\ Client \subseteq World /\ World \subseteq Nat
BY BootstrapAssumption DEF World, Client

LEMMA InAnInstance ==
  \A r \in World : Color(r) = Block(instances, r) /\ NewRank(r) = RankIn(instances, r)
<1>1. \A r \in World : Color(r) = Block(instances, r)
  BY DEF Color, Block
<1>2. QED
  BY <1>1 DEF NewRank, RankIn, Color, Block

\* Every rank of a job that can be split is in an instance.
LEMMA BlockType ==
  ASSUME Splittable
  PROVE  \A r \in World : Block(instances, r) \in Nat
<1>1. Size \div instances \in Nat /\ Size \div instances > 0
  BY Sizes DEF Splittable
<1> DEFINE q == Size \div instances
<1>2. \A r \in World : r \div q \in Nat
  <2>1. q \in Nat /\ q > 0
    BY <1>1
  <2> HIDE DEF q
  <2>2. \A r \in Nat : r \div q \in Nat
    BY <2>1
  <2>3. QED
    BY <2>2, Sizes
<1>3. QED
  BY <1>2 DEF Block

LEMMA NewRankType == \A r \in World : NewRank(r) \in Nat
<1> SUFFICES ASSUME NEW r \in World PROVE NewRank(r) \in Nat
  OBVIOUS
<1>1. IsFiniteSet(World)
  BY Sizes, FS_Interval DEF World
<1>2. IsFiniteSet({s \in World : s < r /\ Color(s) = Color(r)})
  BY <1>1, FS_Subset
<1>3. QED
  BY <1>2, FS_CardinalityType DEF NewRank

-----------------------------------------------------------------------------
(***************************************************************************)
(* Types and barriers.                                                     *)
(***************************************************************************)
LEMMA InitType == Init => TypeOK /\ BarrierInv
<1> SUFFICES ASSUME Init PROVE TypeOK /\ BarrierInv
  OBVIOUS
<1>1. job \in 1 .. MaxJobs /\ 0 \in World
  BY Sizes DEF Init
<1>2. TypeOK
  BY <1>1 DEF Init, TypeOK, Pc
<1>3. BarrierInv
  BY DEF Init, BarrierInv, Place, Waiting, Aborted
<1>4. QED
  BY <1>2, <1>3

\* What a step of rank r may do to the barriers: leave one that all have entered,
\* or enter the next one when it has left one.
Barriers(r) ==
  /\ pc' \in [World -> Pc] /\ barriers' \in [World -> Nat \ {0}]
  /\ \A s \in World \ {r} : pc'[s] = pc[s] /\ barriers'[s] = barriers[s]
  /\ \/ /\ barriers'[r] = barriers[r]
        /\ pc[r] \in Waiting => BarrierOpen(r)
     \/ /\ barriers'[r] = barriers[r] + 1
        /\ pc[r] \notin Waiting /\ pc'[r] \in Waiting

LEMMA BarrierStep ==
  ASSUME TypeOK, BarrierInv, NEW r \in World, Barriers(r)
  PROVE  /\ \A s \in World : pc'[s] \notin Waiting => BarrierOpen(s)'
         /\ \A s, t \in World : barriers'[s] <= barriers'[t] + 1
<1>1. \A s, t \in World : barriers[s] \in Nat /\ barriers[s] <= barriers[t] + 1
  BY DEF TypeOK
<1>2. barriers'[r] = barriers[r] + 1 => BarrierOpen(r)
  BY <1>1 DEF Barriers, BarrierInv
<1>3. \A s, t \in World : barriers'[s] <= barriers'[t] + 1
  BY <1>1, <1>2 DEF Barriers, BarrierOpen
<1>4. ASSUME NEW s \in World, pc'[s] \notin Waiting PROVE BarrierOpen(s)'
  <2>1. barriers'[s] = barriers[s] /\ BarrierOpen(s)
    BY <1>1, <1>4 DEF Barriers, BarrierInv
  <2>2. \A t \in World : barriers'[t] >= barriers[t]
    BY <1>1 DEF Barriers
  <2>3. \A t \in World : barriers[t] >= barriers[s] /\ barriers'[t] \in Nat
    BY <2>1 DEF BarrierOpen, Barriers
  <2>4. QED
    BY <1>1, <2>1, <2>2, <2>3 DEF BarrierOpen
<1>5. QED
  BY <1>3, <1>4

\* The steps of a rank are such steps.
LEMMA RankBarriers ==
  ASSUME TypeOK, BarrierInv, NEW r \in World, ServerStep(r) \/ FailNode(r)
  PROVE  Barriers(r)
<1> USE DEF TypeOK, Goto, EnterBarrier, Waiting, Pc
<1>1. CASE Start(r) \/ EndProvide(r) \/ WriteSize(r) \/ FailNode(r)
  <2>1. /\ UNCHANGED barriers
        /\ pc[r] \in Waiting => BarrierOpen(r)
        /\ \E label \in Pc : pc' = [pc EXCEPT ![r] = label]
    <3>1. CASE Start(r)
      BY <3>1 DEF Start
    <3>2. CASE EndProvide(r)
      BY <3>2 DEF EndProvide
    <3>3. CASE WriteSize(r)
      BY <3>3 DEF WriteSize
    <3>4. CASE FailNode(r)
      BY <3>4 DEF FailNode
    <3>5. QED
      BY <1>1, <3>1, <3>2, <3>3, <3>4
  <2>2. QED
    BY <2>1 DEF Barriers
<1>2. CASE EndAddress(r) \/ EndNode(r)
  <2>1. /\ pc[r] \in {"addrWait", "nodeWait"} /\ BarrierOpen(r) /\ UNCHANGED barriers
        /\ \E label \in Pc : pc' = [pc EXCEPT ![r] = label]
    <3>1. CASE EndAddress(r)
      BY <3>1 DEF EndAddress, EndRound
    <3>2. CASE EndNode(r)
      BY <3>2 DEF EndNode, EndRound
    <3>3. QED
      BY <1>2, <3>1, <3>2
  <2>2. QED
    BY <2>1 DEF Barriers
<1>3. CASE WriteAddress(r) \/ Provide(r) \/ MakeNode(r)
  <2>1. /\ pc[r] \in {"addr", "provide", "node"}
        /\ barriers' = [barriers EXCEPT ![r] = @ + 1]
        /\ \E label \in {"addrWait", "provideWait", "nodeWait"} :
             pc' = [pc EXCEPT ![r] = label]
    BY <1>3 DEF WriteAddress, Provide, MakeNode
  <2>2. barriers[r] \in Nat
    OBVIOUS
  <2>3. QED
    BY <2>1, <2>2 DEF Barriers
<1>4. QED
  BY <1>1, <1>2, <1>3 DEF ServerStep

\* The loops go through all ranks.
LEMMA RoundStep ==
  ASSUME NEW r \in World, NEW wait, NEW again, NEW next, pc \in [World -> Pc],
         round \in [World -> World], EndRound(r, wait, again, next)
  PROVE  /\ round' \in [World -> World]
         /\ \/ pc'[r] = again /\ round'[r] = round[r] + 1
            \/ pc'[r] = next /\ round'[r] = 0 /\ round[r] + 1 = Size
<1>1. round[r] \in 0 .. Size - 1 /\ Size \in Nat /\ 0 \in World
  BY Sizes DEF World
<1>2. CASE round[r] + 1 < Size
  <2>1. \A i \in 0 .. Size - 1 : i + 1 < Size => i + 1 \in World
    BY <1>1 DEF World
  <2>2. QED
    BY <1>1, <1>2, <2>1 DEF EndRound, Goto
<1>3. CASE ~(round[r] + 1 < Size)
  <2>1. round[r] + 1 = Size
    BY <1>1, <1>3
  <2>2. QED
    BY <1>1, <1>3, <2>1 DEF EndRound, Goto
<1>4. QED
  BY <1>2, <1>3

\* A rank that has exited has failed: to make its node, or to split the job.
LEMMA PlaceStep ==
  ASSUME TypeOK, BarrierInv, NEW r \in World, ServerStep(r) \/ FailNode(r)
  PROVE  /\ \A s \in World : Place(s)'
         /\ job' = job /\ instances' = instances /\ (Aborted' => failed')
         /\ round' \in [World -> World] /\ comm' \in [World -> Nat \cup {None}]
         /\ failed' \in BOOLEAN
<1>1. /\ round \in [World -> World] /\ comm \in [World -> Nat \cup {None}]
      /\ pc \in [World -> Pc] /\ barriers \in [World -> Nat \ {0}] /\ Place(r)
      /\ failed \in BOOLEAN /\ (Aborted => failed)
  BY DEF TypeOK, BarrierInv
<1>2. round[r] \in 0 .. Size - 1 /\ Size \in Nat /\ Size > 0
  BY <1>1, Sizes DEF World
<1>3. \A s \in World \ {r} :
        /\ pc'[s] = pc[s] /\ barriers'[s] = barriers[s] /\ round'[s] = round[s]
        /\ comm'[s] = comm[s] /\ instances' = instances
  BY <1>1 DEF ServerStep, Start, WriteSize, WriteAddress, EndAddress, Provide, EndProvide,
              MakeNode, EndNode, EndRound, FailNode, Goto, EnterBarrier
<1>4. \A s \in World \ {r} : Place(s)'
  <2> SUFFICES ASSUME NEW s \in World \ {r} PROVE Place(s)'
    OBVIOUS
  <2>1. Place(s) /\ (Splittable' <=> Splittable)
    BY <1>3 DEF BarrierInv, Splittable
  <2>2. QED
    BY <1>3, <2>1 DEF Place
<1> USE DEF Goto, EnterBarrier, Place
<1>5. CASE Start(r) \/ WriteSize(r)
  <2>1. CASE Start(r)
    BY <1>1, <1>2, <1>4, <2>1 DEF Start, Aborted, Splittable
  <2>2. CASE WriteSize(r)
    <3>1. /\ pc[r] = "size" /\ UNCHANGED <<instances, job, round, barriers, comm>>
          /\ pc'[r] = IF Splittable THEN "addr" ELSE "exited"
          /\ \A s \in World \ {r} : pc'[s] = pc[s]
      BY <1>1, <2>2 DEF WriteSize
    <3>2. failed' \in BOOLEAN /\ (failed \/ ~Splittable => failed')
      BY <2>2 DEF WriteSize
    <3>3. Splittable' <=> Splittable
      BY <3>1 DEF Splittable
    <3>4. Aborted' => failed'
      BY <1>1, <3>1, <3>2 DEF Aborted
    <3>5. Place(r)'
      BY <1>1, <1>2, <3>1, <3>3
    <3>6. QED
      BY <1>1, <1>4, <3>1, <3>2, <3>4, <3>5
  <2>3. QED
    BY <1>5, <2>1, <2>2
<1> USE DEF Splittable
<1>6. CASE WriteAddress(r) \/ EndProvide(r) \/ MakeNode(r)
  <2>1. CASE WriteAddress(r)
    BY <1>1, <1>2, <1>4, <2>1 DEF WriteAddress, Aborted
  <2>2. CASE EndProvide(r)
    BY <1>1, <1>2, <1>4, <2>2 DEF EndProvide, Aborted
  <2>3. CASE MakeNode(r)
    BY <1>1, <1>2, <1>4, <2>3 DEF MakeNode, Aborted
  <2>4. QED
    BY <1>6, <2>1, <2>2, <2>3
<1>7. CASE Provide(r)
  BY <1>1, <1>2, <1>4, <1>7, InAnInstance, BlockType DEF Provide, Aborted
<1>8. CASE EndAddress(r)
  <2>1. EndRound(r, "addrWait", "addr", "provide")
    BY <1>8 DEF EndAddress
  <2>2. /\ UNCHANGED <<instances, job, failed, barriers, comm>> /\ pc[r] = "addrWait"
        /\ round' \in [World -> World]
        /\ \/ pc'[r] = "addr" /\ round'[r] = round[r] + 1
           \/ pc'[r] = "provide" /\ round'[r] = 0 /\ round[r] + 1 = Size
    BY <1>1, <1>2, <2>1, RoundStep DEF EndRound
  <2>3. Aborted' => Aborted
    BY <1>1, <2>1 DEF Aborted, EndRound
  <2>4. QED
    BY <1>1, <1>2, <1>4, <2>2, <2>3
<1>9. CASE EndNode(r)
  <2>1. EndRound(r, "nodeWait", "node", "serve")
    BY <1>9 DEF EndNode
  <2>2. /\ UNCHANGED <<instances, job, failed, barriers, comm>> /\ pc[r] = "nodeWait"
        /\ round' \in [World -> World]
        /\ \/ pc'[r] = "node" /\ round'[r] = round[r] + 1
           \/ pc'[r] = "serve" /\ round'[r] = 0 /\ round[r] + 1 = Size
    BY <1>1, <1>2, <2>1, RoundStep DEF EndRound
  <2>3. Aborted' => Aborted
    BY <1>1, <2>1 DEF Aborted, EndRound
  <2>4. QED
    BY <1>1, <1>2, <1>4, <2>2, <2>3
<1>10. CASE FailNode(r)
  BY <1>1, <1>2, <1>4, <1>10 DEF FailNode
<1>11. QED
  BY <1>5, <1>6, <1>7, <1>8, <1>9, <1>10 DEF ServerStep
AddressEntry == [rank : Nat, server : Processes \cup {None}]

\* What a step of a rank appends to the files.
LEMMA FileStep ==
  ASSUME TypeOK, NEW r \in World, ServerStep(r) \/ FailNode(r)
  PROVE  /\ \/ UNCHANGED addresses
            \/ addresses' = Append(addresses, SizeLine)
            \/ addresses' = Append(addresses, AddressLine(r))
         /\ UNCHANGED nodes \/ nodes' = Append(nodes, Process(r))
         /\ UNCHANGED <<client, found>>
         /\ SizeLine \in AddressEntry /\ AddressLine(r) \in AddressEntry
         /\ Process(r) \in Processes
<1>1. /\ \/ UNCHANGED addresses
         \/ addresses' = Append(addresses, SizeLine)
         \/ addresses' = Append(addresses, AddressLine(r))
      /\ UNCHANGED nodes \/ nodes' = Append(nodes, Process(r))
      /\ UNCHANGED <<client, found>>
  BY DEF ServerStep, Start, WriteSize, WriteAddress, EndAddress, Provide, EndProvide,
         MakeNode, EndNode, EndRound, FailNode
<1>2. Process(r) \in Processes
  BY DEF TypeOK, Process, Processes
<1>3. SizeLine \in AddressEntry /\ AddressLine(r) \in AddressEntry
  BY <1>2, Sizes, NewRankType DEF SizeLine, AddressLine, AddressEntry
<1>4. QED
  BY <1>1, <1>2, <1>3

LEMMA RankType ==
  ASSUME TypeOK, BarrierInv, NEW r \in World, ServerStep(r) \/ FailNode(r)
  PROVE  TypeOK' /\ BarrierInv'
<1>1. /\ \A s \in World : Place(s)'
      /\ job' = job /\ instances' = instances /\ (Aborted' => failed')
      /\ round' \in [World -> World] /\ comm' \in [World -> Nat \cup {None}]
      /\ failed' \in BOOLEAN
  BY PlaceStep
<1>2. /\ pc' \in [World -> Pc] /\ barriers' \in [World -> Nat \ {0}]
      /\ \A s \in World : pc'[s] \notin Waiting => BarrierOpen(s)'
      /\ \A s, t \in World : barriers'[s] <= barriers'[t] + 1
  BY RankBarriers, BarrierStep DEF Barriers
<1>3. addresses' \in Seq(AddressEntry)
  <2>1. addresses \in Seq(AddressEntry)
    BY DEF TypeOK, AddressEntry
  <2>2. \A l \in AddressEntry : Append(addresses, l) \in Seq(AddressEntry)
    BY <2>1
  <2>3. QED
    BY <2>1, <2>2, FileStep
<1>4. nodes' \in Seq(Processes)
  <2>1. nodes \in Seq(Processes)
    BY DEF TypeOK
  <2>2. \A p \in Processes : Append(nodes, p) \in Seq(Processes)
    BY <2>1
  <2>3. QED
    BY <2>1, <2>2, FileStep
<1>5. client' = client /\ found' = found /\ job' = job
  BY <1>1, FileStep
<1>6. TypeOK'
  BY <1>1, <1>2, <1>3, <1>4, <1>5 DEF TypeOK, AddressEntry
<1>7. BarrierInv'
  BY <1>1, <1>2 DEF BarrierInv, Place, BarrierOpen, Aborted
<1>8. QED
  BY <1>6, <1>7

\* What a client finds at its line, or the empty line after the end of the file.
LEMMA LinesRead ==
  ASSUME TypeOK, NEW c \in Client
  PROVE  /\ ServerLineOf(c) \in [rank : Nat \cup {None}, server : Processes \cup {None}]
         /\ c + 1 >= Len(addresses) =>
              ServerLineOf(c).rank = None /\ ServerLineOf(c).server = None
         /\ c + 1 < Len(addresses) => ServerLineOf(c) = addresses[c + 2]
         /\ Line(nodes, c, None) \in Processes \cup {None}
         /\ c >= Len(nodes) => Line(nodes, c, None) = None
         /\ c < Len(nodes) => Line(nodes, c, None) = nodes[c + 1]
<1>1. c \in Nat /\ addresses \in Seq(AddressEntry) /\ nodes \in Seq(Processes)
  BY Sizes DEF TypeOK, AddressEntry
<1>2. Len(addresses) \in Nat /\ Len(nodes) \in Nat
  BY <1>1
<1>3. CASE c + 1 < Len(addresses)
  <2>1. ServerLineOf(c) = addresses[c + 2]
    BY <1>1, <1>3 DEF ServerLineOf, Line
  <2>2. addresses[c + 2] \in AddressEntry
    BY <1>1, <1>2, <1>3
  <2>3. ServerLineOf(c) \in [rank : Nat \cup {None}, server : Processes \cup {None}]
    BY <2>1, <2>2 DEF AddressEntry
  <2>4. QED
    BY <1>1, <1>2, <1>3, <2>1, <2>3 DEF Line
<1>4. CASE ~(c + 1 < Len(addresses))
  BY <1>1, <1>2, <1>4 DEF ServerLineOf, Line
<1>5. QED
  BY <1>3, <1>4

LEMMA NextType ==
  ASSUME TypeOK, BarrierInv, [Next]_vars
  PROVE  TypeOK' /\ BarrierInv'
<1>1. ASSUME NEW r \in World, ServerStep(r) \/ FailNode(r)
      PROVE  TypeOK' /\ BarrierInv'
  BY <1>1, RankType
<1>2. CASE Restart
  <2>1. job' \in 1 .. MaxJobs /\ 0 \in World
    BY <1>2, Sizes DEF TypeOK, Restart
  <2>2. TypeOK'
    BY <1>2, <2>1 DEF TypeOK, Restart, Pc
  <2>3. BarrierInv'
    BY <1>2 DEF BarrierInv, Restart, Place, Waiting, Aborted, Splittable
  <2>4. QED
    BY <2>2, <2>3
<1>3. ASSUME NEW c \in Client, ReadAddress(c) \/ ReadNode(c)
      PROVE  TypeOK' /\ BarrierInv'
  <2>1. UNCHANGED server
    BY <1>3 DEF ReadAddress, ReadNode
  <2>2. client' \in [Client -> {"start", "address", "read"}]
    BY <1>3 DEF TypeOK, ReadAddress, ReadNode
  <2>3. found' \in [Client -> [rank   : Nat \cup {None},
                               server : Processes \cup {None},
                               node   : Processes \cup {None}]]
    <3>1. /\ ServerLineOf(c).rank \in Nat \cup {None}
          /\ ServerLineOf(c).server \in Processes \cup {None}
          /\ Line(nodes, c, None) \in Processes \cup {None}
      BY LinesRead
    <3>2. found \in [Client -> [rank   : Nat \cup {None},
                                server : Processes \cup {None},
                                node   : Processes \cup {None}]]
      BY DEF TypeOK
    <3>3. CASE ReadAddress(c)
      BY <3>1, <3>2, <3>3 DEF ReadAddress
    <3>4. CASE ReadNode(c)
      BY <3>1, <3>2, <3>4 DEF ReadNode
    <3>5. QED
      BY <1>3, <3>3, <3>4
  <2>4. TypeOK'
    BY <2>1, <2>2, <2>3 DEF TypeOK, server
  <2>5. BarrierInv'
    BY <2>1 DEF server, BarrierInv, Place, Aborted, BarrierOpen, Splittable
  <2>6. QED
    BY <2>4, <2>5
<1>4. CASE UNCHANGED vars
  BY <1>4 DEF vars, TypeOK, BarrierInv, Place, Aborted, BarrierOpen, Splittable
<1>5. QED
  BY <1>1, <1>2, <1>3, <1>4 DEF Next, Rest

\* Types, and no rank is a whole barrier ahead of another.
THEOREM TypeCorrect == Spec => []TypeOK
<1>1. TypeOK /\ BarrierInv /\ [Next]_vars => TypeOK' /\ BarrierInv'
  BY NextType
<1>2. QED
  BY InitType, <1>1, PTL DEF Spec
-----------------------------------------------------------------------------
(***************************************************************************)
(* The files.                                                              *)
(***************************************************************************)
LEMMA AppendLine ==
  ASSUME NEW S, NEW file \in Seq(S), NEW n \in Nat, NEW m \in Nat,
         NEW lines, NEW first, NEW l \in S, EndsWith(file, n, lines), l = lines[n]
  PROVE  /\ EndsWith(Append(file, l), n + 1, lines)
         /\ BeginsWith(file, n, m, first) /\ (job = 1 => lines = first)
              => BeginsWith(Append(file, l), n + 1, m, first)
<1> DEFINE longer == Append(file, l)
<1>1. /\ Len(file) \in Nat /\ Len(longer) = Len(file) + 1
      /\ longer[Len(file) + 1] = l
      /\ \A j \in 1 .. Len(file) : longer[j] = file[j]
  OBVIOUS
<1> HIDE DEF longer
<1>2. EndsWith(longer, n + 1, lines)
  <2>1. n <= Len(file) /\ \A k \in 0 .. n - 1 : file[Len(file) - n + k + 1] = lines[k]
    BY DEF EndsWith
  <2>2. ASSUME NEW k \in 0 .. n
        PROVE  longer[Len(longer) - (n + 1) + k + 1] = lines[k]
    <3>1. Len(longer) - (n + 1) + k + 1 = Len(file) - n + k + 1
      BY <1>1
    <3>2. CASE k = n
      <4>1. Len(file) - n + k + 1 = Len(file) + 1
        BY <1>1, <3>2
      <4>2. QED
        BY <1>1, <3>1, <3>2, <4>1
    <3>3. CASE k # n
      <4>1. k \in 0 .. n - 1 /\ Len(file) - n + k + 1 \in 1 .. Len(file)
        BY <1>1, <2>1, <3>3
      <4>2. QED
        BY <1>1, <2>1, <3>1, <4>1
    <3>4. QED
      BY <3>2, <3>3
  <2>3. n + 1 - 1 = n /\ n + 1 <= Len(longer)
    BY <1>1, <2>1
  <2>4. QED
    BY <2>2, <2>3 DEF EndsWith
<1>3. ASSUME BeginsWith(file, n, m, first), job = 1 => lines = first
      PROVE  BeginsWith(longer, n + 1, m, first)
  <2>1. /\ \A k \in 0 .. m - 1 : k < Len(file) => file[k + 1] = first[k]
        /\ job = 1 => Len(file) = n
        /\ job # 1 => Len(file) >= n + m
    BY <1>3 DEF BeginsWith
  <2>2. ASSUME NEW k \in 0 .. m - 1, k < Len(longer)
        PROVE  longer[k + 1] = first[k]
    <3>1. CASE k < Len(file)
      BY <1>1, <2>1, <3>1
    <3>2. CASE ~(k < Len(file))
      <4>1. k = Len(file)
        BY <1>1, <2>2, <3>2
      <4>2. job = 1 /\ k = n
        BY <1>1, <2>1, <4>1
      <4>3. QED
        BY <1>1, <1>3, <4>1, <4>2
    <3>3. QED
      BY <3>1, <3>2
  <2>3. (job = 1 => Len(longer) = n + 1) /\ (job # 1 => Len(longer) >= n + 1 + m)
    BY <1>1, <2>1
  <2>4. QED
    BY <2>2, <2>3 DEF BeginsWith
<1>4. QED
  BY <1>2, <1>3 DEF longer

\* Rank 0 writes the first line of the addresses, and rank i line i + 1 in its round.
LEMMA AddressStep ==
  ASSUME TypeOK, BarrierInv, Splittable, NEW r \in World, ServerStep(r) \/ FailNode(r)
  PROVE  \/ /\ UNCHANGED addresses
            /\ \A k \in 0 .. Size : AddrWritten(k)' <=> AddrWritten(k)
         \/ \E i \in 0 .. Size :
              /\ addresses' = Append(addresses, AddrLines(job, instances)[i])
              /\ ~AddrWritten(i) /\ (i > 0 => AddrWritten(i - 1))
              /\ \A k \in 0 .. Size : AddrWritten(k)' <=> AddrWritten(k) \/ k = i
<1>1. /\ pc \in [World -> Pc] /\ barriers \in [World -> Nat \ {0}]
      /\ round \in [World -> World] /\ World \subseteq Nat /\ 0 \in World
      /\ Size \in Nat /\ Size > 0
  BY Sizes DEF TypeOK
<1>2. \A s \in World : Place(s) /\ Place(s)'
  BY PlaceStep DEF BarrierInv
<1>3. Barriers(r)
  BY RankBarriers
<1>4. \A k \in 1 .. Size : k - 1 \in World
  BY <1>1 DEF World
<1>5. ASSUME UNCHANGED barriers, ~(r = 0 /\ pc[r] = "size")
      PROVE  \A k \in 0 .. Size : AddrWritten(k)' <=> AddrWritten(k)
  <2>1. AddrWritten(0)' <=> AddrWritten(0)
    <3>1. pc[0] \in {"start", "size"} <=> pc'[0] \in {"start", "size"}
      BY <1>1, <1>5 DEF ServerStep, Start, WriteSize, WriteAddress, EndAddress, Provide,
          EndProvide, MakeNode, EndNode, EndRound, FailNode, Goto, EnterBarrier
    <3>2. QED
      BY <3>1 DEF AddrWritten
  <2>2. QED
    BY <1>5, <2>1 DEF AddrWritten
<1>6. CASE WriteSize(r)
  <2>1. UNCHANGED barriers /\ pc[r] = "size" /\ pc'[r] = "addr"
    BY <1>1, <1>6 DEF WriteSize, Goto
  <2>2. CASE r # 0
    BY <1>5, <1>6, <2>1, <2>2 DEF WriteSize
  <2>3. CASE r = 0
    <3>1. addresses' = Append(addresses, AddrLines(job, instances)[0])
      BY <1>1, <1>6, <2>3 DEF WriteSize, AddrLines
    <3>2. \A k \in 0 .. Size : AddrWritten(k)' <=> AddrWritten(k) \/ k = 0
      BY <2>1, <2>3 DEF AddrWritten
    <3>3. ~AddrWritten(0) /\ 0 \in 0 .. Size
      BY <1>1, <2>1, <2>3 DEF AddrWritten
    <3>4. QED
      BY <3>1, <3>2, <3>3
  <2>4. QED
    BY <2>2, <2>3
<1>7. CASE WriteAddress(r) \/ Provide(r) \/ MakeNode(r)
  <2>1. /\ barriers'[r] = barriers[r] + 1
        /\ pc[r] \in {"addr", "provide", "node"}
        /\ pc'[r] \in {"addrWait", "provideWait", "nodeWait"}
        /\ \A s \in World \ {r} : pc'[s] = pc[s] /\ barriers'[s] = barriers[s]
    BY <1>1, <1>7 DEF WriteAddress, Provide, MakeNode, Goto, EnterBarrier
  <2>2. AddrWritten(0)' <=> AddrWritten(0)
    BY <1>1, <2>1 DEF AddrWritten
  <2>3. barriers[r] \in Nat /\ r \in Nat /\ round[r] \in Nat /\ r + 1 \in 0 .. Size
        /\ r <= Size - 1
    BY <1>1 DEF World
  <2>4. \A k \in 0 .. Size : k # r + 1 => (AddrWritten(k)' <=> AddrWritten(k))
    <3> SUFFICES ASSUME NEW k \in 1 .. Size, k # r + 1
                 PROVE  AddrWritten(k)' <=> AddrWritten(k)
      BY <2>2
    <3>1. k - 1 \in World /\ k - 1 # r
      BY <1>4, <2>3
    <3>2. QED
      BY <2>1, <3>1 DEF AddrWritten
  <2>5. CASE WriteAddress(r) /\ r = round[r]
    <3>1. pc[r] = "addr" /\ barriers[r] = r + 1 /\ BarrierOpen(r)
      BY <1>2, <2>5 DEF WriteAddress, Place, BarrierInv, Waiting
    <3>2. addresses' = Append(addresses, AddrLines(job, instances)[r + 1])
      <4>1. AddrLines(job, instances)[r + 1] = AddressLine(r)
        BY <2>3, InAnInstance DEF AddrLines, AddressLine, Process
      <4>2. QED
        BY <2>5, <4>1 DEF WriteAddress
    <3>3. ~AddrWritten(r + 1) /\ AddrWritten(r + 1)'
      BY <2>1, <2>3, <3>1 DEF AddrWritten
    <3>4. AddrWritten(r + 1 - 1)
      <4>1. CASE r = 0
        BY <3>1, <4>1 DEF AddrWritten
      <4>2. CASE r # 0
        <5>1. r - 1 \in World
          BY <1>1, <2>3, <4>2 DEF World
        <5>2. barriers[r - 1] >= r + 1
          BY <3>1, <5>1 DEF BarrierOpen
        <5>3. r + 1 - 1 = r
          BY <2>3
        <5>4. QED
          BY <4>2, <5>2, <5>3 DEF AddrWritten
      <4>3. QED
        BY <4>1, <4>2
    <3>5. QED
      BY <2>3, <2>4, <3>2, <3>3, <3>4
  <2>6. CASE ~(WriteAddress(r) /\ r = round[r])
    <3>1. UNCHANGED addresses
      BY <1>7, <2>6 DEF WriteAddress, Provide, MakeNode
    <3>2. AddrWritten(r + 1)' <=> AddrWritten(r + 1)
      <4>1. r + 1 # 0 /\ r + 1 - 1 = r
        BY <2>3
      <4>2. \/ barriers[r] = round[r] + 1 /\ r # round[r]
            \/ barriers[r] >= Size + 1
        <5>1. pc[r] = "addr" => r # round[r]
          BY <1>7, <2>6 DEF Provide, MakeNode
        <5>2. /\ pc[r] = "addr" => barriers[r] = round[r] + 1
              /\ pc[r] = "provide" => barriers[r] = Size + 1
              /\ pc[r] = "node" => barriers[r] = round[r] + Size + 2
          BY <1>2 DEF Place
        <5>3. QED
          BY <1>1, <2>1, <2>3, <5>1, <5>2
      <4>3. barriers'[r] >= r + 2 <=> barriers[r] >= r + 2
        BY <1>1, <2>1, <2>3, <4>2
      <4>4. QED
        BY <2>3, <4>1, <4>3 DEF AddrWritten
    <3>3. QED
      BY <2>4, <3>1, <3>2
  <2>7. QED
    BY <2>5, <2>6
<1>8. CASE Start(r) \/ EndAddress(r) \/ EndProvide(r) \/ EndNode(r) \/ FailNode(r)
  <2>1. UNCHANGED barriers /\ UNCHANGED addresses /\ pc[r] # "size"
    BY <1>8 DEF Start, EndAddress, EndProvide, EndNode, EndRound, FailNode
  <2>2. QED
    BY <1>5, <2>1
<1>9. QED
  BY <1>6, <1>7, <1>8 DEF ServerStep

\* Rank i writes line i of the UUIDs in its round, unless it fails.
LEMMA NodeStep ==
  ASSUME TypeOK, BarrierInv, Splittable, NEW r \in World, ServerStep(r) \/ FailNode(r)
  PROVE  \/ /\ UNCHANGED nodes
            /\ \A k \in World : NodeWritten(k)' <=> NodeWritten(k)
         \/ \E i \in World :
              /\ nodes' = Append(nodes, NodeLines(job)[i])
              /\ ~NodeWritten(i) /\ (i > 0 => NodeWritten(i - 1))
              /\ \A k \in World : NodeWritten(k)' <=> NodeWritten(k) \/ k = i
<1>1. /\ pc \in [World -> Pc] /\ barriers \in [World -> Nat \ {0}]
      /\ round \in [World -> World] /\ World \subseteq Nat
      /\ Size \in Nat /\ Size > 0
  BY Sizes DEF TypeOK
<1>2. Place(r)
  BY DEF BarrierInv
<1>3. /\ barriers[r] \in Nat /\ r \in Nat /\ round[r] \in Nat
      /\ r <= Size - 1 /\ round[r] <= Size - 1 /\ (r > 0 => r - 1 \in World)
  BY <1>1 DEF World
<1>4. CASE UNCHANGED barriers
  <2>1. ~MakeNode(r)
    BY <1>1, <1>3, <1>4 DEF MakeNode, EnterBarrier
  <2>2. UNCHANGED nodes
    BY <2>1 DEF ServerStep, Start, WriteSize, WriteAddress, EndAddress, Provide,
        EndProvide, EndNode, EndRound, FailNode
  <2>3. QED
    BY <1>4, <2>2 DEF NodeWritten
<1>5. CASE WriteAddress(r) \/ Provide(r) \/ MakeNode(r)
  <2>1. /\ barriers'[r] = barriers[r] + 1
        /\ pc[r] \in {"addr", "provide", "node"}
        /\ \A s \in World \ {r} : barriers'[s] = barriers[s]
    BY <1>1, <1>5 DEF WriteAddress, Provide, MakeNode, EnterBarrier
  <2>2. \A k \in World : k # r => (NodeWritten(k)' <=> NodeWritten(k))
    BY <2>1 DEF NodeWritten
  <2>3. CASE MakeNode(r) /\ r = round[r]
    <3>1. pc[r] = "node" /\ barriers[r] = r + Size + 2 /\ BarrierOpen(r)
      BY <1>2, <2>3 DEF MakeNode, Place, BarrierInv, Waiting
    <3>2. nodes' = Append(nodes, NodeLines(job)[r])
      <4>1. NodeLines(job)[r] = Process(r)
        BY DEF World, NodeLines, Process
      <4>2. QED
        BY <2>3, <4>1 DEF MakeNode
    <3>3. ~NodeWritten(r) /\ NodeWritten(r)'
      BY <1>1, <1>3, <2>1, <3>1 DEF NodeWritten
    <3>4. r > 0 => NodeWritten(r - 1)
      <4>1. r > 0 => barriers[r - 1] >= r + Size + 2
        BY <1>3, <3>1 DEF BarrierOpen
      <4>2. r - 1 + Size + 3 = r + Size + 2
        BY <1>1, <1>3
      <4>3. QED
        BY <4>1, <4>2 DEF NodeWritten
    <3>5. QED
      BY <2>2, <3>2, <3>3, <3>4
  <2>4. CASE ~(MakeNode(r) /\ r = round[r])
    <3>1. UNCHANGED nodes
      BY <1>5, <2>4 DEF WriteAddress, Provide, MakeNode
    <3>2. pc[r] = "node" => r # round[r]
      BY <1>5, <2>4 DEF WriteAddress, Provide
    <3>3. /\ pc[r] = "addr" => barriers[r] = round[r] + 1
          /\ pc[r] = "provide" => barriers[r] = Size + 1
          /\ pc[r] = "node" => barriers[r] = round[r] + Size + 2
      BY <1>2 DEF Place
    <3>4. barriers'[r] >= r + Size + 3 <=> barriers[r] >= r + Size + 3
      BY <1>1, <1>3, <2>1, <3>2, <3>3
    <3>5. QED
      BY <2>2, <3>1, <3>4 DEF NodeWritten
  <2>5. QED
    BY <2>3, <2>4
<1>6. QED
  BY <1>4, <1>5 DEF ServerStep, Start, WriteSize, EndAddress, EndProvide, EndNode,
                    EndRound, FailNode

\* When a rank serves or has exited, every address is written; when all serve, so
\* is every UUID.
LEMMA AllWritten ==
  ASSUME TypeOK, BarrierInv, Splittable
  PROVE  /\ Aborted \/ (\E r \in World : pc[r] = "serve")
              => \A k \in 0 .. Size : AddrWritten(k)
         /\ (\E r \in World : pc[r] = "serve") => \A k \in World : NodeWritten(k)
<1>1. /\ barriers \in [World -> Nat \ {0}] /\ Size \in Nat /\ Size > 0 /\ 0 \in World
      /\ \A r \in World : round[r] \in Nat /\ r \in Nat /\ r <= Size - 1
      /\ \A k \in 1 .. Size : k - 1 \in World
  <2>1. \A r \in World : r \in Nat /\ r <= Size - 1
    BY Sizes DEF World
  <2>2. \A k \in 1 .. Size : k - 1 \in World
    BY Sizes DEF World
  <2>3. QED
    BY <2>1, <2>2, Sizes DEF TypeOK
<1>2. ASSUME NEW r \in World, pc[r] \in {"exited", "serve"}
      PROVE  \A k \in 0 .. Size : AddrWritten(k)
  <2>1. barriers[r] >= Size + 2 /\ BarrierOpen(r)
    BY <1>1, <1>2 DEF BarrierInv, Place, Waiting
  <2>2. \A s \in World : barriers[s] >= Size + 2
    BY <1>1, <2>1 DEF BarrierOpen
  <2>3. pc[0] \notin {"start", "size"}
    BY <1>1, <2>2 DEF BarrierInv, Place
  <2>4. QED
    BY <1>1, <2>2, <2>3 DEF AddrWritten
<1>3. ASSUME NEW r \in World, pc[r] = "serve"
      PROVE  \A k \in World : NodeWritten(k)
  <2>1. barriers[r] = Size + Size + 2 /\ BarrierOpen(r)
    BY <1>3 DEF BarrierInv, Place, Waiting
  <2>2. \A s \in World : barriers[s] >= Size + Size + 2
    BY <1>1, <2>1 DEF BarrierOpen
  <2>3. QED
    BY <1>1, <2>2 DEF NodeWritten
<1>4. QED
  BY <1>2, <1>3 DEF Aborted

LEMMA RankFiles ==
  ASSUME TypeOK, BarrierInv, Splittable, FileInv, NEW r \in World, ServerStep(r) \/ FailNode(r)
  PROVE  FileInv'
<1>1. job' = job /\ instances' = instances /\ (~failed' => ~failed)
  <2>1. ~failed' => ~failed
    BY DEF ServerStep, Start, WriteSize, WriteAddress, EndAddress, Provide, EndProvide,
           MakeNode, EndNode, EndRound, FailNode
  <2>2. QED
    BY <2>1, PlaceStep
<1>2. /\ addresses \in Seq(AddressEntry) /\ nodes \in Seq(Processes)
      /\ addresses' \in Seq(AddressEntry) /\ nodes' \in Seq(Processes)
      /\ Size \in Nat /\ World = 0 .. Size - 1
  BY RankType, Sizes DEF TypeOK, AddressEntry, World
<1>3. \E n \in 0 .. Size + 1 : AddrInv(n)'
  <2>1. PICK n \in 0 .. Size + 1 : AddrInv(n)
    BY DEF FileInv
  <2>2. CASE /\ UNCHANGED addresses
             /\ \A k \in 0 .. Size : AddrWritten(k)' <=> AddrWritten(k)
    BY <1>1, <2>1, <2>2 DEF AddrInv, BeginsWith
  <2>3. ASSUME NEW i \in 0 .. Size,
               addresses' = Append(addresses, AddrLines(job, instances)[i]),
               ~AddrWritten(i) /\ (i > 0 => AddrWritten(i - 1)),
               \A k \in 0 .. Size : AddrWritten(k)' <=> AddrWritten(k) \/ k = i
        PROVE  n + 1 \in 0 .. Size + 1 /\ AddrInv(n + 1)'
    <3>1. i = n /\ n + 1 \in 0 .. Size + 1
      <4>1. \A k \in 0 .. Size : AddrWritten(k) <=> k < n
        BY <2>1 DEF AddrInv
      <4>2. ~(i < n) /\ (i > 0 => i - 1 < n)
        BY <1>2, <2>3, <4>1
      <4>3. QED
        BY <1>2, <2>3, <4>2
    <3>2. \A k \in 0 .. Size : AddrWritten(k)' <=> k < n + 1
      BY <1>2, <2>1, <2>3, <3>1 DEF AddrInv
    <3>3. AddrLines(job, instances)[i] \in AddressEntry
      <4>1. addresses'[Len(addresses) + 1] = AddrLines(job, instances)[i]
            /\ Len(addresses') = Len(addresses) + 1 /\ Len(addresses) \in Nat
        BY <1>2, <2>3
      <4>2. addresses'[Len(addresses) + 1] \in AddressEntry
        BY <1>2, <4>1
      <4>3. QED
        BY <4>1, <4>2
    <3>4. /\ EndsWith(addresses', n + 1, AddrLines(job, instances))
          /\ BeginsWith(addresses', n + 1, Size + 1, AddrLines(1, instances))
      <4>1. /\ EndsWith(addresses, n, AddrLines(job, instances))
            /\ BeginsWith(addresses, n, Size + 1, AddrLines(1, instances))
        BY <2>1 DEF AddrInv
      <4>2. n \in Nat /\ Size + 1 \in Nat
        BY <1>2
      <4>3. QED
        BY <1>2, <2>3, <3>1, <3>3, <4>1, <4>2, AppendLine
    <3>5. QED
      BY <1>1, <3>1, <3>2, <3>4 DEF AddrInv, BeginsWith
  <2>4. QED
    BY <2>2, <2>3, AddressStep
<1>4. \E m \in 0 .. Size : NodeInv(m)'
  <2>1. PICK m \in 0 .. Size : NodeInv(m)
    BY DEF FileInv
  <2>2. CASE UNCHANGED nodes /\ \A k \in World : NodeWritten(k)' <=> NodeWritten(k)
    BY <1>1, <2>1, <2>2 DEF NodeInv, BeginsWith
  <2>3. ASSUME NEW i \in World,
               nodes' = Append(nodes, NodeLines(job)[i]),
               ~NodeWritten(i) /\ (i > 0 => NodeWritten(i - 1)),
               \A k \in World : NodeWritten(k)' <=> NodeWritten(k) \/ k = i
        PROVE  m + 1 \in 0 .. Size /\ NodeInv(m + 1)'
    <3>1. i = m /\ m + 1 \in 0 .. Size
      <4>1. \A k \in World : NodeWritten(k) <=> k < m
        BY <2>1 DEF NodeInv
      <4>2. ~(i < m) /\ (i > 0 => i - 1 < m)
        BY <1>2, <2>3, <4>1
      <4>3. QED
        BY <1>2, <2>3, <4>2
    <3>2. \A k \in World : NodeWritten(k)' <=> k < m + 1
      BY <1>2, <2>1, <2>3, <3>1 DEF NodeInv
    <3>3. NodeLines(job)[i] \in Processes
      <4>1. nodes'[Len(nodes) + 1] = NodeLines(job)[i]
            /\ Len(nodes') = Len(nodes) + 1 /\ Len(nodes) \in Nat
        BY <1>2, <2>3
      <4>2. nodes'[Len(nodes) + 1] \in Processes
        BY <1>2, <4>1
      <4>3. QED
        BY <4>1, <4>2
    <3>4. /\ EndsWith(nodes', m + 1, NodeLines(job))
          /\ ~failed => BeginsWith(nodes', m + 1, Size, NodeLines(1))
      <4>1. /\ EndsWith(nodes, m, NodeLines(job))
            /\ ~failed => BeginsWith(nodes, m, Size, NodeLines(1))
        BY <2>1 DEF NodeInv
      <4>2. m \in Nat /\ Size \in Nat
        BY <1>2
      <4>3. QED
        BY <1>2, <2>3, <3>1, <3>3, <4>1, <4>2, AppendLine
    <3>5. QED
      BY <1>1, <3>1, <3>2, <3>4 DEF NodeInv, BeginsWith
  <2>4. QED
    BY <2>2, <2>3, NodeStep
<1>5. QED
  BY <1>3, <1>4 DEF FileInv

\* A start with the files of a job that served, or that ended at a rank that exited.
LEMMA RestartFiles ==
  ASSUME TypeOK, BarrierInv, Splittable, FileInv, Restart
  PROVE  FileInv'
<1>1. /\ job' = job + 1 /\ job' # 1 /\ UNCHANGED <<instances, failed, addresses, nodes>>
      /\ Size \in Nat /\ Size > 0 /\ 0 \in World
      /\ Len(addresses) \in Nat /\ Len(nodes) \in Nat
  BY Sizes DEF TypeOK, Restart
<1>2. AddrInv(0)'
  <2>1. PICK n \in 0 .. Size + 1 : AddrInv(n)
    BY DEF FileInv
  <2>2. \A k \in 0 .. Size : AddrWritten(k)
    BY AllWritten, <1>1 DEF Restart, Serving
  <2>3. n = Size + 1
    BY <1>1, <2>1, <2>2 DEF AddrInv
  <2>4. Len(addresses) >= Size + 1
    BY <1>1, <2>1, <2>3 DEF AddrInv, BeginsWith
  <2>5. \A k \in 0 .. Size : ~AddrWritten(k)'
    <3>1. pc' = [r \in World |-> "start"] /\ barriers' = [r \in World |-> 1]
      BY DEF Restart
    <3>2. \A k \in 1 .. Size : k - 1 \in World
      BY <1>1 DEF World
    <3>3. QED
      BY <1>1, <3>1, <3>2 DEF AddrWritten
  <2>6. EndsWith(addresses, 0, AddrLines(job, instances))'
    BY <1>1 DEF EndsWith
  <2>7. BeginsWith(addresses, 0, Size + 1, AddrLines(1, instances))'
    BY <1>1, <2>1, <2>4 DEF AddrInv, BeginsWith
  <2>8. QED
    BY <1>1, <2>5, <2>6, <2>7 DEF AddrInv
<1>3. NodeInv(0)'
  <2>1. PICK m \in 0 .. Size : NodeInv(m)
    BY DEF FileInv
  <2>2. ~failed => \A k \in World : NodeWritten(k)
    BY AllWritten, <1>1 DEF Restart, Serving, BarrierInv
  <2>3. ~failed => m = Size
    <3>1. Size - 1 \in World
      BY <1>1 DEF World
    <3>2. QED
      BY <1>1, <2>1, <2>2, <3>1 DEF NodeInv
  <2>4. ~failed => Len(nodes) >= Size
    BY <1>1, <2>1, <2>3 DEF NodeInv, BeginsWith
  <2>5. \A k \in World : ~NodeWritten(k)'
    BY <1>1, Sizes DEF Restart, NodeWritten
  <2>6. EndsWith(nodes, 0, NodeLines(job))'
    BY <1>1 DEF EndsWith
  <2>7. ~failed => BeginsWith(nodes, 0, Size, NodeLines(1))'
    BY <1>1, <2>1, <2>4 DEF NodeInv, BeginsWith
  <2>8. \A k \in World : ~(k < 0)
    BY Sizes
  <2>9. QED
    BY <1>1, <2>5, <2>6, <2>7, <2>8 DEF NodeInv
<1>4. QED
  BY <1>1, <1>2, <1>3 DEF FileInv

LEMMA InitBoot == Init => BootInv
<1> SUFFICES ASSUME Init PROVE BootInv
  OBVIOUS
<1>1. TypeOK /\ BarrierInv
  BY InitType
<1>2. Size \in Nat /\ World \subseteq Nat /\ 0 \in World /\ Len(<<>>) = 0
  BY Sizes
<1>3. AddrInv(0)
  <2>1. \A k \in 1 .. Size : k - 1 \in World
    BY <1>2 DEF World
  <2>2. \A k \in 0 .. Size : ~AddrWritten(k) /\ ~(k < 0)
    BY <1>2, <2>1 DEF Init, AddrWritten
  <2>3. QED
    BY <1>2, <2>2 DEF Init, AddrInv, EndsWith, BeginsWith
<1>4. NodeInv(0)
  <2>1. \A k \in World : ~NodeWritten(k) /\ ~(k < 0)
    BY <1>2 DEF Init, NodeWritten
  <2>2. QED
    BY <1>2, <2>1 DEF Init, NodeInv, EndsWith, BeginsWith
<1>5. FoundInv
  BY DEF Init, FoundInv
<1>6. NothingListed /\ ReadyInv
  BY <1>2 DEF Init, NothingListed, ReadyInv
<1>7. QED
  BY <1>1, <1>2, <1>3, <1>4, <1>5, <1>6 DEF BootInv, FileInv

\* A client reads lines of the first job.
LEMMA ReadFound ==
  ASSUME TypeOK, FileInv, FoundInv, NEW c \in Client, ReadAddress(c) \/ ReadNode(c)
  PROVE  FoundInv'
<1>1. TypeOK /\ FileInv /\ FoundInv
  OBVIOUS
<1>2. /\ c \in Nat /\ c + 1 \in 0 .. Size /\ c \in 0 .. Size - 1 /\ Size \in Nat
      /\ Len(addresses) \in Nat /\ Len(nodes) \in Nat
  BY <1>1, Sizes DEF Client, TypeOK
<1>3. /\ ServerLineOf(c).rank \in {None, RankIn(instances, c)}
      /\ ServerLineOf(c).server \in {None, [job |-> 1, rank |-> c]}
  <2>1. CASE c + 1 < Len(addresses)
    <3>1. PICK n \in 0 .. Size + 1 : AddrInv(n)
      BY <1>1 DEF FileInv
    <3>2. addresses[c + 1 + 1] = AddrLines(1, instances)[c + 1]
      BY <1>2, <2>1, <3>1 DEF AddrInv, BeginsWith
    <3>3. AddrLines(1, instances)[c + 1] = [rank |-> RankIn(instances, c), server |-> [job |-> 1, rank |-> c]]
      <4>1. c + 1 # 0 /\ c + 1 - 1 = c
        BY <1>2
      <4>2. QED
        BY <1>2, <4>1 DEF AddrLines
    <3>4. c + 1 + 1 = c + 2
      BY <1>2
    <3>5. QED
      BY <1>1, <2>1, <3>2, <3>3, <3>4, LinesRead
  <2>2. CASE ~(c + 1 < Len(addresses))
    BY <1>1, <1>2, <2>2, LinesRead
  <2>3. QED
    BY <2>1, <2>2
<1>4. ~failed => Line(nodes, c, None) \in {None, [job |-> 1, rank |-> c]}
  <2>1. CASE ~failed /\ c < Len(nodes)
    <3>1. PICK m \in 0 .. Size : NodeInv(m)
      BY <1>1 DEF FileInv
    <3>2. nodes[c + 1] = NodeLines(1)[c]
      BY <1>2, <2>1, <3>1 DEF NodeInv, BeginsWith
    <3>3. QED
      BY <1>1, <1>2, <2>1, <3>2, LinesRead DEF NodeLines
  <2>2. CASE ~(c < Len(nodes))
    BY <1>1, <1>2, <2>2, LinesRead
  <2>3. QED
    BY <2>1, <2>2
<1>5. failed' = failed /\ instances' = instances
  BY DEF ReadAddress, ReadNode, server
<1>6. ASSUME NEW d \in Client
      PROVE  /\ found'[d].rank \in {None, RankIn(instances', d)}
             /\ found'[d].server \in {None, [job |-> 1, rank |-> d]}
             /\ ~failed' => found'[d].node \in {None, [job |-> 1, rank |-> d]}
  <2>1. found \in [Client -> [rank   : Nat \cup {None},
                              server : Processes \cup {None},
                              node   : Processes \cup {None}]]
    BY <1>1 DEF TypeOK
  <2>2. /\ found[d].rank \in {None, RankIn(instances, d)}
        /\ found[d].server \in {None, [job |-> 1, rank |-> d]}
        /\ ~failed => found[d].node \in {None, [job |-> 1, rank |-> d]}
    BY <1>1 DEF FoundInv
  <2>3. CASE ReadAddress(c)
    BY <1>3, <1>5, <2>1, <2>2, <2>3 DEF ReadAddress
  <2>4. CASE ReadNode(c)
    BY <1>4, <1>5, <2>1, <2>2, <2>4 DEF ReadNode
  <2>5. QED
    BY <2>3, <2>4
<1>7. QED
  BY <1>6 DEF FoundInv

\* A UUID is written in a round of the last loop, which no rank begins before all
\* have entered the barrier after the providers.
LEMMA NextReady == BootInv /\ [Next]_vars => ReadyInv'
<1> SUFFICES ASSUME BootInv, [Next]_vars PROVE ReadyInv'
  OBVIOUS
<1>1. TypeOK /\ BarrierInv /\ ReadyInv
  BY DEF BootInv
<1>2. /\ nodes \in Seq(Processes) /\ Len(nodes) \in Nat /\ job \in Nat
      /\ \A k \in 1 .. Len(nodes) : nodes[k].job \in Nat
      /\ barriers \in [World -> Nat \ {0}] /\ Size \in Nat /\ World \subseteq Nat
  <2>1. nodes \in Seq(Processes) /\ job \in Nat
    BY <1>1, Sizes DEF TypeOK
  <2>2. \A k \in 1 .. Len(nodes) : nodes[k] \in Processes
    BY <2>1
  <2>3. QED
    BY <1>1, <2>1, <2>2, Sizes DEF TypeOK, Processes
<1>3. ASSUME NEW r \in World, ServerStep(r) \/ FailNode(r) PROVE ReadyInv'
  <2>1. Barriers(r) /\ job' = job
    BY <1>1, <1>3, RankBarriers, PlaceStep
  <2>2. \A s \in World : barriers[s] >= Size + 2 => barriers'[s] >= Size + 2
    BY <1>2, <2>1 DEF Barriers
  <2>3. CASE UNCHANGED nodes
    BY <1>1, <2>1, <2>2, <2>3 DEF ReadyInv
  <2>4. CASE ~UNCHANGED nodes
    <3>1. MakeNode(r) /\ nodes' = Append(nodes, Process(r))
      BY <1>3, <2>4 DEF ServerStep, Start, WriteSize, WriteAddress, EndAddress, Provide,
          EndProvide, MakeNode, EndNode, EndRound, FailNode
    <3>2. pc[r] = "node" /\ BarrierOpen(r) /\ barriers[r] >= Size + 2
      <4>1. pc[r] = "node" /\ barriers[r] = round[r] + Size + 2 /\ round[r] \in Nat
        BY <1>1, <1>2, <3>1 DEF MakeNode, BarrierInv, Place, TypeOK
      <4>2. barriers[r] >= Size + 2
        BY <1>2, <4>1
      <4>3. BarrierOpen(r)
        BY <1>1, <4>1 DEF BarrierInv, Waiting
      <4>4. QED
        BY <4>1, <4>2, <4>3
    <3>3. \A s \in World : barriers'[s] >= Size + 2
      <4>1. \A s \in World : barriers[s] >= Size + 2
        BY <1>2, <3>2 DEF BarrierOpen
      <4>2. QED
        BY <2>2, <4>1
    <3>4. /\ Len(nodes') = Len(nodes) + 1 /\ nodes'[Len(nodes) + 1].job = job
          /\ \A k \in 1 .. Len(nodes) : nodes'[k] = nodes[k]
      BY <1>2, <3>1 DEF Process
    <3>5. ASSUME NEW k \in 1 .. Len(nodes')
          PROVE  nodes'[k].job <= job
      BY <1>1, <1>2, <3>4 DEF ReadyInv
    <3>6. QED
      BY <2>1, <3>3, <3>5 DEF ReadyInv
  <2>5. QED
    BY <2>3, <2>4
<1>4. CASE Restart
  <2>1. nodes' = nodes /\ job' = job + 1
    BY <1>4 DEF Restart
  <2>2. \A k \in 1 .. Len(nodes) : nodes[k].job <= job
    BY <1>1 DEF ReadyInv
  <2>3. \A k \in 1 .. Len(nodes) : nodes[k].job <= job' /\ nodes[k].job # job'
    BY <1>2, <2>1, <2>2
  <2>4. QED
    BY <2>1, <2>3 DEF ReadyInv
<1>5. CASE UNCHANGED server
  BY <1>1, <1>5 DEF ReadyInv, server
<1>6. QED
  BY <1>3, <1>4, <1>5 DEF Next, Rest, ReadAddress, ReadNode, vars, server

\* A job that cannot be split comes no further than its size.
LEMMA NextNothing ==
  ASSUME TypeOK, BarrierInv, NothingListed, ~Splittable, [Next]_vars
  PROVE  NothingListed'
<1>1. /\ addresses \in Seq(AddressEntry) /\ Len(addresses) \in Nat /\ Len(nodes) = 0
      /\ \A r \in World : pc[r] \in {"start", "size", "exited"}
      /\ found \in [Client -> [rank   : Nat \cup {None},
                              server : Processes \cup {None},
                              node   : Processes \cup {None}]]
  BY DEF TypeOK, AddressEntry, BarrierInv, Place, NothingListed
<1>2. ASSUME NEW r \in World, ServerStep(r) \/ FailNode(r) PROVE NothingListed'
  <2>1. Start(r) \/ WriteSize(r)
    BY <1>1, <1>2 DEF ServerStep, Start, WriteSize, WriteAddress, EndAddress, Provide,
        EndProvide, MakeNode, EndNode, EndRound, FailNode
  <2>2. UNCHANGED <<nodes, found>>
        /\ (UNCHANGED addresses \/ addresses' = Append(addresses, SizeLine))
    BY <2>1 DEF Start, WriteSize
  <2>3. SizeLine \in AddressEntry
    BY Sizes DEF SizeLine, AddressEntry
  <2>4. \A k \in 1 .. Len(addresses') : addresses'[k] = SizeLine
    <3>1. CASE UNCHANGED addresses
      BY <3>1 DEF NothingListed
    <3>2. CASE addresses' = Append(addresses, SizeLine)
      <4>1. /\ Len(addresses') = Len(addresses) + 1
            /\ addresses'[Len(addresses) + 1] = SizeLine
            /\ \A k \in 1 .. Len(addresses) : addresses'[k] = addresses[k]
        BY <1>1, <2>3, <3>2
      <4>2. QED
        BY <1>1, <4>1 DEF NothingListed
    <3>3. QED
      BY <2>2, <3>1, <3>2
  <2>5. SizeLine' = SizeLine
    BY DEF SizeLine
  <2>6. QED
    BY <2>2, <2>4, <2>5 DEF NothingListed
<1>3. ASSUME NEW c \in Client, ReadAddress(c) \/ ReadNode(c) PROVE NothingListed'
  <2>1. UNCHANGED <<addresses, nodes>>
    BY <1>3 DEF ReadAddress, ReadNode, server
  <2>2. ServerLineOf(c).server = None /\ Line(nodes, c, None) = None
    <3>1. c \in Nat /\ c + 2 \in Nat
      BY Sizes
    <3>2. Line(nodes, c, None) = None
      BY <1>1, <3>1, LinesRead
    <3>3. CASE c + 1 < Len(addresses)
      <4>1. c + 2 \in 1 .. Len(addresses)
        BY <1>1, <3>1, <3>3
      <4>2. ServerLineOf(c) = SizeLine
        BY <3>3, <4>1, LinesRead DEF NothingListed
      <4>3. QED
        BY <3>2, <4>2 DEF SizeLine
    <3>4. CASE c + 1 >= Len(addresses)
      BY <3>2, <3>4, LinesRead
    <3>5. QED
      BY <1>1, <3>1, <3>3, <3>4
  <2>3. \A d \in Client : found'[d].server = None /\ found'[d].node = None
    <3>1. CASE ReadAddress(c)
      BY <1>1, <2>2, <3>1 DEF ReadAddress, NothingListed
    <3>2. CASE ReadNode(c)
      BY <1>1, <2>2, <3>2 DEF ReadNode, NothingListed
    <3>3. QED
      BY <1>3, <3>1, <3>2
  <2>4. QED
    BY <2>1, <2>3 DEF NothingListed, SizeLine
<1>4. CASE UNCHANGED <<addresses, nodes, found>>
  BY <1>4 DEF NothingListed, SizeLine
<1>5. QED
  BY <1>2, <1>3, <1>4 DEF Next, Restart, Rest, vars

\* The files and what is read of them, in a job that can be split.
LEMMA NextFiles ==
  ASSUME TypeOK, BarrierInv, FileInv, FoundInv, Splittable, [Next]_vars
  PROVE  FileInv' /\ FoundInv'
<1>1. ASSUME NEW r \in World, ServerStep(r) \/ FailNode(r) PROVE FileInv' /\ FoundInv'
  <2>1. FileInv'
    BY <1>1, RankFiles
  <2>2. found' = found /\ instances' = instances
    BY <1>1, FileStep, PlaceStep
  <2>3. ~failed' => ~failed
    BY <1>1 DEF ServerStep, Start, WriteSize, WriteAddress, EndAddress, Provide,
        EndProvide, MakeNode, EndNode, EndRound, FailNode
  <2>4. FoundInv'
    BY <2>2, <2>3 DEF FoundInv
  <2>5. QED
    BY <2>1, <2>4
<1>2. CASE Restart
  <2>1. FileInv'
    BY <1>2, RestartFiles
  <2>2. FoundInv'
    BY <1>2 DEF FoundInv, Restart
  <2>3. QED
    BY <2>1, <2>2
<1>3. ASSUME NEW c \in Client, ReadAddress(c) \/ ReadNode(c) PROVE FileInv' /\ FoundInv'
  <2>1. FoundInv'
    BY <1>3, ReadFound
  <2>2. UNCHANGED server
    BY <1>3 DEF ReadAddress, ReadNode
  <2>3. FileInv'
    BY <2>2 DEF server, FileInv, AddrInv, NodeInv, AddrWritten, NodeWritten,
                EndsWith, BeginsWith
  <2>4. QED
    BY <2>1, <2>3
<1>4. ASSUME UNCHANGED vars PROVE FileInv' /\ FoundInv'
  BY <1>4 DEF vars, FoundInv, FileInv, AddrInv, NodeInv, AddrWritten, NodeWritten,
              EndsWith, BeginsWith
<1>5. QED
  BY <1>1, <1>2, <1>3, <1>4 DEF Next, Rest

LEMMA NextBoot == BootInv /\ [Next]_vars => BootInv'
<1> SUFFICES ASSUME BootInv, [Next]_vars PROVE BootInv'
  OBVIOUS
<1>1. TypeOK /\ BarrierInv /\ TypeOK' /\ BarrierInv' /\ ReadyInv'
  BY NextType, NextReady DEF BootInv
<1>2. Splittable' <=> Splittable
  <2>1. \A r \in World : ServerStep(r) \/ FailNode(r) => instances' = instances
    BY <1>1, PlaceStep
  <2>2. instances' = instances
    BY <2>1 DEF Next, Restart, ReadAddress, ReadNode, server, Rest, vars
  <2>3. QED
    BY <2>2 DEF Splittable
<1>3. CASE Splittable
  BY <1>1, <1>2, <1>3, NextFiles DEF BootInv
<1>4. CASE ~Splittable
  BY <1>1, <1>2, <1>4, NextNothing DEF BootInv
<1>5. QED
  BY <1>3, <1>4

\* A client no larger than an instance is in the first instance, with the same ranks.
LEMMA FirstInstance ==
  ASSUME NEW m \in 1 .. Size, ClientSize <= Size \div m, NEW c \in Client
  PROVE  RankIn(m, c) = c
<1> DEFINE q == Size \div m
<1>1. q \in Nat /\ c \in Nat /\ c < q /\ c \in World
  BY Sizes DEF Client
<1> HIDE DEF q
<1>2. \A s \in 0 .. c : s \div q = 0
  BY <1>1
<1>3. \A s \in 0 .. c : Block(m, s) = 0
  BY <1>2 DEF Block, q
<1>4. {s \in World : s < c /\ Block(m, s) = Block(m, c)} = 0 .. c - 1
  <2>1. ASSUME NEW s \in World, s < c PROVE s \in 0 .. c - 1
    BY <1>1, <2>1, Sizes
  <2>2. ASSUME NEW s \in 0 .. c - 1
        PROVE  s \in World /\ s < c /\ Block(m, s) = Block(m, c)
    <3>1. s \in 0 .. c /\ c \in 0 .. c /\ s < c
      BY <1>1
    <3>2. s \in World
      BY <1>1, <3>1, Sizes DEF World
    <3>3. QED
      BY <1>3, <3>1, <3>2
  <2>3. QED
    BY <2>1, <2>2
<1>5. Cardinality(0 .. c - 1) = c
  <2>1. Cardinality(0 .. c - 1) = IF 0 > c - 1 THEN 0 ELSE c - 1 - 0 + 1
    <3>1. 0 \in Int /\ c - 1 \in Int
      BY <1>1
    <3>2. QED
      BY <3>1, FS_Interval
  <2>2. QED
    BY <1>1, <2>1
<1>6. QED
  BY <1>4, <1>5 DEF RankIn

\* A client rank that finds an address finds the one of the server rank with its own
\* number, in the first job that was started with the files, and the node of that
\* very process unless a rank has failed; as long as the client is not larger than
\* an instance, whose ranks count from 0 again.
THEOREM AlwaysOwnServer ==
  (\A m \in Instances : m \in 1 .. Size => ClientSize <= Size \div m) /\ Spec
    => []OwnServer
<1> DEFINE Small == \A m \in Instances : m \in 1 .. Size => ClientSize <= Size \div m
<1>1. Small /\ BootInv => OwnServer
  <2> SUFFICES ASSUME Small, BootInv PROVE OwnServer
    OBVIOUS
  <2>1. CASE Splittable
    <3>1. instances \in 1 .. Size /\ ClientSize <= Size \div instances
      BY <2>1 DEF Splittable, BootInv, TypeOK
    <3>2. \A c \in Client : RankIn(instances, c) = c
      BY <3>1, FirstInstance
    <3>3. QED
      BY <2>1, <3>2 DEF BootInv, FoundInv, OwnServer
  <2>2. CASE ~Splittable
    BY <2>2 DEF BootInv, NothingListed, OwnServer
  <2>3. QED
    BY <2>1, <2>2
<1>2. Small => []Small
  OBVIOUS
<1> HIDE DEF Small
<1>3. Small /\ Spec => []OwnServer
  BY InitBoot, NextBoot, <1>1, <1>2, PTL DEF Spec
<1>4. QED
  BY <1>3 DEF Small
-----------------------------------------------------------------------------
(***************************************************************************)
(* Who serves is listed.                                                   *)
(***************************************************************************)

\* The community modules' suffix, by index.
LEMMA SuffixByIndex ==
  ASSUME NEW S, NEW T, NEW s \in Seq(S), NEW t \in Seq(T), Len(s) <= Len(t),
         \A k \in 1 .. Len(s) : t[Len(t) - Len(s) + k] = s[k]
  PROVE  IsSuffix(s, t)
<1>1. Len(s) \in Nat /\ Len(t) \in Nat
  OBVIOUS
<1> DEFINE rs == Reverse(s)
           rt == Reverse(t)
<1>2. /\ rs \in Seq(S) /\ Len(rs) = Len(s)
      /\ \A i \in 1 .. Len(s) : rs[i] = s[(Len(s) - i) + 1]
  <2>1. rs = [i \in 1 .. Len(s) |-> s[(Len(s) - i) + 1]]
    BY DEF Reverse
  <2>2. \A i \in 1 .. Len(s) : (Len(s) - i) + 1 \in 1 .. Len(s)
    BY <1>1
  <2>3. QED
    BY <1>1, <2>1, <2>2
<1>3. /\ rt \in Seq(T) /\ Len(rt) = Len(t)
      /\ \A i \in 1 .. Len(t) : rt[i] = t[(Len(t) - i) + 1]
  <2>1. rt = [i \in 1 .. Len(t) |-> t[(Len(t) - i) + 1]]
    BY DEF Reverse
  <2>2. \A i \in 1 .. Len(t) : (Len(t) - i) + 1 \in 1 .. Len(t)
    BY <1>1
  <2>3. QED
    BY <1>1, <2>1, <2>2
<1>4. \A i \in 1 .. Len(s) : rs[i] = rt[i]
  <2> SUFFICES ASSUME NEW i \in 1 .. Len(s) PROVE rs[i] = rt[i]
    OBVIOUS
  <2>1. (Len(s) - i) + 1 \in 1 .. Len(s) /\ i \in 1 .. Len(t)
    BY <1>1
  <2>2. Len(t) - Len(s) + ((Len(s) - i) + 1) = (Len(t) - i) + 1
    BY <1>1
  <2>3. t[(Len(t) - i) + 1] = s[(Len(s) - i) + 1]
    BY <2>1, <2>2
  <2>4. QED
    BY <1>2, <1>3, <2>1, <2>3
<1> HIDE DEF rs, rt
<1>5. SubSeq(rs, 1, Len(rs)) = SubSeq(rt, 1, Len(rs))
  BY <1>1, <1>2, <1>3, <1>4
<1>6. QED
  BY <1>2, <1>3, <1>5 DEF IsSuffix, IsPrefix, rs, rt

\* A file with all lines of a job ends with the list of its ranks.
LEMMA AddressesListed ==
  ASSUME TypeOK, FileInv, \A k \in 0 .. Size : AddrWritten(k)
  PROVE  /\ IsSuffix(<<SizeLine>> \o [i \in 1 .. Size |-> AddressLine(i - 1)], addresses)
         /\ IsSuffix([i \in 1 .. Size |-> AddressLine(i - 1)], addresses)
<1>1. /\ Size \in Nat /\ Size > 0
      /\ addresses \in Seq(AddressEntry) /\ Len(addresses) \in Nat
      /\ \A i \in 1 .. Size : i - 1 \in World
  <2>1. \A i \in 1 .. Size : i - 1 \in World
    BY Sizes DEF World
  <2>2. QED
    BY <2>1, Sizes DEF TypeOK, AddressEntry
<1>2. \A r \in World : AddressLine(r) \in AddressEntry
  BY NewRankType DEF TypeOK, AddressLine, AddressEntry, Process, Processes
<1>3. SizeLine \in AddressEntry
  BY <1>1 DEF SizeLine, AddressEntry
<1> DEFINE rest == [i \in 1 .. Size |-> AddressLine(i - 1)]
           list == <<SizeLine>> \o rest
<1>4. rest \in Seq(AddressEntry) /\ Len(rest) = Size
  BY <1>1, <1>2
<1>5. \A i \in 1 .. Size : rest[i] = AddressLine(i - 1)
  OBVIOUS
<1> HIDE DEF rest
<1>6. /\ list \in Seq(AddressEntry) /\ Len(list) = Size + 1
      /\ list[1] = SizeLine
      /\ \A i \in 1 .. Size : list[i + 1] = rest[i]
  BY <1>1, <1>3, <1>4
<1> HIDE DEF list
<1>7. PICK n \in 0 .. Size + 1 : AddrInv(n)
  BY DEF FileInv
<1>8. n = Size + 1
  <2>1. \A k \in 0 .. Size : k < n
    BY <1>7 DEF AddrInv
  <2>2. QED
    BY <1>1, <2>1
<1>9. /\ Size + 1 <= Len(addresses)
      /\ \A k \in 0 .. Size :
           addresses[Len(addresses) - (Size + 1) + k + 1] = AddrLines(job, instances)[k]
  BY <1>1, <1>7, <1>8 DEF AddrInv, EndsWith
<1>10. \A k \in 0 .. Size : AddrLines(job, instances)[k] = list[k + 1]
  <2>1. AddrLines(job, instances)[0] = list[1]
    BY <1>1, <1>6 DEF AddrLines
  <2>2. \A k \in 1 .. Size : AddrLines(job, instances)[k] = AddressLine(k - 1)
    BY <1>1, InAnInstance DEF AddrLines, AddressLine, Process
  <2>3. QED
    BY <1>1, <1>5, <1>6, <2>1, <2>2
<1>11. \A k \in 1 .. Len(list) : addresses[Len(addresses) - Len(list) + k] = list[k]
  <2> SUFFICES ASSUME NEW k \in 1 .. Len(list)
               PROVE  addresses[Len(addresses) - Len(list) + k] = list[k]
    OBVIOUS
  <2>1. k - 1 \in 0 .. Size /\ k - 1 + 1 = k
    BY <1>1, <1>6
  <2>2. Len(addresses) - (Size + 1) + (k - 1) + 1 = Len(addresses) - Len(list) + k
    BY <1>1, <1>6, <2>1
  <2>3. QED
    BY <1>9, <1>10, <2>1, <2>2
<1>12. IsSuffix(list, addresses)
  BY <1>1, <1>6, <1>9, <1>11, SuffixByIndex
<1>13. IsSuffix(rest, addresses)
  <2>1. \A k \in 1 .. Len(rest) : addresses[Len(addresses) - Len(rest) + k] = rest[k]
    <3> SUFFICES ASSUME NEW k \in 1 .. Size
                 PROVE  addresses[Len(addresses) - Size + k] = rest[k]
      BY <1>4
    <3>1. k \in 0 .. Size /\ Len(addresses) - (Size + 1) + k + 1 = Len(addresses) - Size + k
      BY <1>1
    <3>2. QED
      BY <1>1, <1>6, <1>9, <1>10, <3>1
  <2>2. QED
    BY <1>1, <1>4, <1>9, <2>1, SuffixByIndex
<1>14. QED
  BY <1>12, <1>13 DEF list, rest

\* When a rank comes to serve, the lines of all ranks are at the ends of the files.
THEOREM AlwaysListed == Spec => []ServingMeansListed
<1>1. BootInv => ServingMeansListed
  <2> SUFFICES ASSUME BootInv, \E r \in World : pc[r] = "serve"
               PROVE  /\ IsSuffix(<<SizeLine>> \o [i \in 1 .. Size |-> AddressLine(i - 1)],
                                  addresses)
                      /\ IsSuffix([i \in 1 .. Size |-> Process(i - 1)], nodes)
    BY DEF ServingMeansListed
  <2>1. TypeOK /\ BarrierInv /\ FileInv /\ Splittable
    BY DEF BootInv, BarrierInv, Place
  <2>2. /\ Size \in Nat /\ Size > 0 /\ job \in 1 .. MaxJobs
        /\ nodes \in Seq(Processes) /\ Len(nodes) \in Nat
        /\ \A i \in 1 .. Size : i - 1 \in World
    <3>1. \A i \in 1 .. Size : i - 1 \in World
      BY Sizes DEF World
    <3>2. QED
      BY <2>1, <3>1, Sizes DEF TypeOK
  <2>3. \A r \in World : Process(r) \in Processes
    BY <2>2 DEF Process, Processes
  <2>4. IsSuffix(<<SizeLine>> \o [i \in 1 .. Size |-> AddressLine(i - 1)], addresses)
    BY <2>1, AllWritten, AddressesListed
  <2>5. IsSuffix([i \in 1 .. Size |-> Process(i - 1)], nodes)
    <3> DEFINE list == [i \in 1 .. Size |-> Process(i - 1)]
    <3>1. list \in Seq(Processes) /\ Len(list) = Size
      BY <2>2, <2>3
    <3>2. \A i \in 1 .. Size : list[i] = Process(i - 1)
      OBVIOUS
    <3> HIDE DEF list
    <3>3. PICK m \in 0 .. Size : NodeInv(m)
      BY <2>1 DEF FileInv
    <3>4. m = Size
      <4>1. \A k \in World : k < m
        BY <2>1, <3>3, AllWritten DEF NodeInv
      <4>2. Size - 1 \in World
        BY <2>2 DEF World
      <4>3. QED
        BY <2>2, <4>1, <4>2
    <3>5. /\ Size <= Len(nodes)
          /\ \A k \in 0 .. Size - 1 :
               nodes[Len(nodes) - Size + k + 1] = NodeLines(job)[k]
      BY <2>2, <3>3, <3>4 DEF NodeInv, EndsWith
    <3>6. \A k \in 1 .. Len(list) : nodes[Len(nodes) - Len(list) + k] = list[k]
      <4> SUFFICES ASSUME NEW k \in 1 .. Len(list)
                   PROVE  nodes[Len(nodes) - Len(list) + k] = list[k]
        OBVIOUS
      <4>1. k - 1 \in 0 .. Size - 1
        BY <2>2, <3>1
      <4>2. Len(nodes) - Size + (k - 1) + 1 = Len(nodes) - Len(list) + k
        BY <2>2, <3>1, <4>1
      <4>3. NodeLines(job)[k - 1] = list[k]
        BY <3>1, <3>2, <4>1 DEF NodeLines, Process
      <4>4. QED
        BY <3>5, <4>1, <4>2, <4>3
    <3>7. IsSuffix(list, nodes)
      BY <2>2, <3>1, <3>5, <3>6, SuffixByIndex
    <3>8. QED
      BY <3>7 DEF list
  <2>6. QED
    BY <2>4, <2>5
<1>2. QED
  BY InitBoot, NextBoot, <1>1, PTL DEF Spec
-----------------------------------------------------------------------------
(***************************************************************************)
(* Nodes are listed after the instances are there.                         *)
(***************************************************************************)

\* Once a job has a node listed, all its ranks have passed the barrier after the
\* providers and written their addresses, with their ranks in their instances.
THEOREM NodesAlwaysFindInstances == Spec => []NodesFindInstances
<1>1. BootInv => NodesFindInstances
  <2> DEFINE rankIn(s) == Cardinality({t \in World : t < s /\ comm[t] = comm[s]})
             line(s)   == [rank |-> rankIn(s), server |-> Process(s)]
  <2> SUFFICES ASSUME BootInv, NEW n \in DOMAIN nodes, nodes[n].job = job
               PROVE  /\ \A s \in World : comm[s] # None
                      /\ IsSuffix([i \in 1 .. Size |-> line(i - 1)], addresses)
    BY DEF NodesFindInstances
  <2>1. TypeOK /\ BarrierInv /\ ReadyInv /\ nodes # <<>>
    BY DEF BootInv
  <2>2. Splittable /\ FileInv
    BY <2>1 DEF BootInv, NothingListed
  <2>3. /\ Size \in Nat /\ barriers \in [World -> Nat \ {0}] /\ pc \in [World -> Pc]
        /\ \A s \in World : round[s] \in Nat /\ round[s] <= Size - 1
        /\ \A k \in 1 .. Size : k - 1 \in World
        /\ 0 \in World
    <3>1. \A s \in World : s \in Nat /\ s <= Size - 1
      BY Sizes DEF World
    <3>2. \A k \in 1 .. Size : k - 1 \in World
      BY Sizes DEF World
    <3>3. QED
      BY <2>1, <3>1, <3>2, Sizes DEF TypeOK
  <2>4. \A s \in World : barriers[s] >= Size + 2
    <3>1. n \in 1 .. Len(nodes)
      BY <2>1 DEF TypeOK
    <3>2. QED
      BY <2>1, <3>1 DEF ReadyInv
  <2>5. \A s \in World : pc[s] \notin {"start", "size"} /\ comm[s] = Color(s)
    BY <2>1, <2>2, <2>3, <2>4, InAnInstance DEF BarrierInv, Place, Pc
  <2>6. \A k \in 0 .. Size : AddrWritten(k)
    BY <2>3, <2>4, <2>5 DEF AddrWritten
  <2>7. IsSuffix([i \in 1 .. Size |-> AddressLine(i - 1)], addresses)
    BY <2>1, <2>2, <2>6, AddressesListed
  <2>8. \A s \in World : rankIn(s) = NewRank(s)
    BY <2>5 DEF NewRank
  <2>9. [i \in 1 .. Size |-> line(i - 1)] = [i \in 1 .. Size |-> AddressLine(i - 1)]
    BY <2>3, <2>8 DEF AddressLine
  <2>10. \A s \in World : comm[s] # None
    <3>1. \A s \in World : Color(s) \in Nat
      BY <2>2, InAnInstance, BlockType
    <3>2. \A k \in Nat : k # None
      BY BootstrapAssumption
    <3>3. QED
      BY <2>5, <3>1, <3>2
  <2>11. QED
    BY <2>7, <2>9, <2>10
<1>2. QED
  BY InitBoot, NextBoot, <1>1, PTL DEF Spec
=============================================================================
