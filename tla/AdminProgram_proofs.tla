------------------------- MODULE AdminProgram_proofs -------------------------
(***************************************************************************)
(* Theorems about AdminProgram for any number of ranks and runs, and any   *)
(* command lines.                                                          *)
(***************************************************************************)
EXTENDS AdminProgram, TLAPS

Removes(a) == command[a].op \in {"close", "destroy"}

\* What the buffered stream of a run holds: one id for each rank it has called.
Listed(a) ==
  pc[a] \in {"parsing", "looping"} =>
    IF pc[a] = "looping" /\ command[a].op = "create"
    THEN Len(buffer[a]) = i[a] /\ \A k \in 1 .. i[a] : buffer[a][k] = <<a, k - 1>>
    ELSE buffer[a] = <<>>

\* What a run has done on the ranks it has called.  A run that removes a node gets
\* past the first rank only with a node of that rank, and past no other.
Worked(a) ==
  /\ pc[a] = "parsing" => i[a] = 0
  /\ pc[a] = "done" => i[a] = Size
  /\ command[a].op \in {"create", "open"} => \A s \in 0 .. i[a] - 1 : <<a, s>> \in made
  /\ command[a].op = "shutdown" => \A s \in 0 .. i[a] - 1 : server[s] = "down"
  /\ Removes(a) => i[a] = 0 \/ (i[a] = 1 /\ command[a].target[2] = 0)

\* A node is in the registry of its own rank, from the time it is made until its
\* server is shut down or a run that was told to removes it.
Kept ==
  /\ \A s \in Rank : \A n \in nodes[s] : n[2] = s
  /\ \A n \in made :
       \/ n \in nodes[n[2]]
       \/ server[n[2]] = "down"
       \/ \E a \in Runs : Removes(a) /\ command[a].target = n

\* Only nodes that were made are in the file.
FileMade == \A k \in 1 .. Len(file) : file[k] \in made

AdminInv ==
  /\ TypeOK
  /\ \A a \in Runs : Listed(a) /\ Worked(a)
  /\ Kept
  /\ FileByRank
  /\ FileMade
-----------------------------------------------------------------------------
\* Of an arithmetic of lines: a whole list more is whole lists still, and the lines
\* of a list are numbered from 0.
LEMMA WholeLists ==
  ASSUME NEW n \in Nat, n % Size = 0
  PROVE  /\ (n + Size) % Size = 0
         /\ \A s \in Rank : (n + s) % Size = s
<1> DEFINE q == n \div Size
           p == (n + Size) \div Size
           m == (n + Size) % Size
<1>1. /\ n = q * Size /\ q \in Int
      /\ n + Size = p * Size + m /\ p \in Int
      /\ m \in 0 .. Size - 1
  BY AdminAssumption
<1>2. m = 0
  <2> HIDE DEF q, p, m
  <2>1. m = (q + 1 - p) * Size
    BY <1>1, AdminAssumption
  <2>2. CASE q + 1 - p <= 0
    BY <1>1, <2>1, <2>2, AdminAssumption
  <2>3. CASE q + 1 - p >= 1
    <3>1. (q + 1 - p) * Size >= Size
      BY <1>1, <2>3, AdminAssumption
    <3>2. QED
      BY <1>1, <2>1, <3>1, AdminAssumption
  <2>4. QED
    BY <1>1, <2>2, <2>3
<1>3. \A s \in Rank : (n + s) % Size = s
  BY AdminAssumption DEF Rank
<1>4. QED
  BY <1>2, <1>3

LEMMA InitAdmin == Init => AdminInv
<1> SUFFICES ASSUME Init PROVE AdminInv
  OBVIOUS
<1>1. TypeOK
  BY AdminAssumption DEF Init, TypeOK, Rank
<1>2. \A a \in Runs : Listed(a) /\ Worked(a)
  BY DEF Init, Listed, Worked
<1>3. Kept /\ FileByRank /\ FileMade
  BY AdminAssumption DEF Init, Kept, FileByRank, FileMade
<1>4. QED
  BY <1>1, <1>2, <1>3 DEF AdminInv

\* A run that is about to call a rank has a rank to call.
LEMMA CallingRank ==
  ASSUME TypeOK, NEW a \in Runs, NEW op, Calling(a, op)
  PROVE  /\ i[a] \in Rank
         /\ i[a] + 1 \in 0 .. Size
         /\ <<a, i[a]>> \in Node
         /\ pc[a] = "looping" /\ command[a].op = op
<1>1. i[a] \in 0 .. Size /\ i[a] < Size
  BY DEF TypeOK, Calling
<1>2. i[a] \in Rank /\ i[a] + 1 \in 0 .. Size
  BY <1>1, AdminAssumption DEF Rank
<1>3. QED
  BY <1>2 DEF Node, Calling

\* The next rank, or the end of the run.
LEMMA StepType ==
  ASSUME TypeOK, NEW a \in Runs, i[a] + 1 \in 0 .. Size, NextRank(a) \/ Die(a)
  PROVE  /\ pc' \in [Runs -> {"parsing", "looping", "done", "failed"}]
         /\ i' \in [Runs -> 0 .. Size]
         /\ NextRank(a) => i'[a] = i[a] + 1 /\ pc' = pc
         /\ Die(a) => pc'[a] = "failed" /\ i' = i
         /\ \A b \in Runs \ {a} : i'[b] = i[b] /\ pc'[b] = pc[b]
BY DEF TypeOK, NextRank, Die

LEMMA NextType == AdminInv /\ [Next]_vars => TypeOK'
<1> SUFFICES ASSUME AdminInv, [Next]_vars PROVE TypeOK'
  OBVIOUS
<1>0. TypeOK
  BY DEF AdminInv
<1>1. CASE WriteLine
  BY <1>0, <1>1, AdminAssumption DEF TypeOK, WriteLine, servers
<1>2. ASSUME NEW s \in Rank, Provide(s) PROVE TypeOK'
  BY <1>0, <1>2 DEF TypeOK, Provide
<1>3. ASSUME NEW a \in Runs, Parse(a) PROVE TypeOK'
  <2>1. /\ buffer[a] = <<>>
        /\ i[a] = 0
    BY <1>3 DEF Parse, AdminInv, Listed, Worked
  <2>2. address' \in [Runs -> Seq(BOOLEAN)]
    <3>1. CASE UNCHANGED address
      BY <1>0, <3>1 DEF TypeOK
    <3>2. ASSUME NEW ok \in BOOLEAN, address' = [address EXCEPT ![a] = Append(@, ok)]
          PROVE  address' \in [Runs -> Seq(BOOLEAN)]
      BY <1>0, <3>2 DEF TypeOK
    <3>3. (lines > Len(address[a]) + 1) \in BOOLEAN
      OBVIOUS
    <3>4. QED
      BY <1>3, <3>1, <3>2, <3>3 DEF Parse
  <2>3. /\ pc' \in [Runs -> {"parsing", "looping", "done", "failed"}]
        /\ \A b \in Runs \ {a} : pc'[b] = pc[b]
        /\ UNCHANGED <<command, lines, servers, buffer, file, i>>
    BY <1>0, <1>3 DEF TypeOK, Parse, Die
  <2>4. QED
    BY <1>0, <2>1, <2>2, <2>3 DEF TypeOK, servers
<1>4. ASSUME NEW a \in Runs, Create(a) PROVE TypeOK'
  <2>1. i[a] \in Rank /\ i[a] + 1 \in 0 .. Size /\ <<a, i[a]>> \in Node
    BY <1>0, <1>4, CallingRank DEF Create
  <2>2. CASE Reachable(a) /\ i[a] \notin command[a].refused
    <3>1. /\ nodes' = [nodes EXCEPT ![i[a]] = @ \cup {<<a, i[a]>>}]
          /\ made' = made \cup {<<a, i[a]>>}
          /\ buffer' = [buffer EXCEPT ![a] = Append(@, <<a, i[a]>>)]
          /\ NextRank(a)
          /\ UNCHANGED <<command, lines, server, address, file>>
      BY <1>4, <2>2 DEF Create
    <3>2. /\ buffer' \in [Runs -> Seq(Node)]
          /\ Len(buffer'[a]) = Len(buffer[a]) + 1
          /\ \A b \in Runs \ {a} : buffer'[b] = buffer[b]
      <4> DEFINE n == <<a, i[a]>>
      <4>1. n \in Node /\ buffer' = [buffer EXCEPT ![a] = Append(@, n)]
        BY <2>1, <3>1
      <4> HIDE DEF n
      <4>2. QED
        BY <1>0, <4>1 DEF TypeOK
    <3>3. /\ nodes' \in [Rank -> SUBSET Node]
          /\ made' \subseteq Node
      BY <1>0, <2>1, <3>1 DEF TypeOK
    <3>4. /\ pc' = pc
          /\ i' \in [Runs -> 0 .. Size]
          /\ i'[a] = i[a] + 1
          /\ \A b \in Runs \ {a} : i'[b] = i[b]
      BY <1>0, <2>1, <3>1, StepType DEF NextRank
    <3>5. \A b \in Runs :
            pc'[b] = "looping" /\ command'[b].op = "create" => Len(buffer'[b]) = i'[b]
      BY <1>0, <1>4, <3>1, <3>2, <3>4 DEF TypeOK, Create, Calling
    <3>6. QED
      BY <1>0, <3>1, <3>2, <3>3, <3>4, <3>5 DEF TypeOK
  <2>3. CASE ~(Reachable(a) /\ i[a] \notin command[a].refused)
    <3>1. Die(a) /\ UNCHANGED <<nodes, made, buffer, command, lines, server, address, file>>
      BY <1>4, <2>3 DEF Create
    <3>2. QED
      BY <1>0, <3>1 DEF TypeOK, Die
  <2>4. QED
    BY <2>2, <2>3
<1>5. ASSUME NEW a \in Runs, Open(a) \/ RemoveNode(a) \/ Shutdown(a) PROVE TypeOK'
  <2>1. /\ i[a] \in Rank
        /\ i[a] + 1 \in 0 .. Size
        /\ <<a, i[a]>> \in Node
        /\ command[a].op # "create"
    BY <1>0, <1>5, CallingRank DEF Open, RemoveNode, Shutdown
  <2>2. /\ NextRank(a) \/ Die(a)
        /\ UNCHANGED <<command, lines, address, buffer, file>>
    BY <1>5 DEF Open, RemoveNode, Shutdown
  <2>3. /\ nodes' \in [Rank -> SUBSET Node]
        /\ server' \in [Rank -> {"starting", "up", "down"}]
        /\ made' \subseteq Node
    <3>1. CASE Open(a)
      BY <1>0, <2>1, <3>1 DEF TypeOK, Open
    <3>2. CASE RemoveNode(a)
      BY <1>0, <2>1, <3>2 DEF TypeOK, RemoveNode
    <3>3. CASE Shutdown(a)
      BY <1>0, <2>1, <3>3 DEF TypeOK, Shutdown
    <3>4. QED
      BY <1>5, <3>1, <3>2, <3>3
  <2>4. /\ pc' \in [Runs -> {"parsing", "looping", "done", "failed"}]
        /\ i' \in [Runs -> 0 .. Size]
        /\ \A b \in Runs \ {a} : i'[b] = i[b] /\ pc'[b] = pc[b]
    BY <1>0, <2>1, <2>2, StepType
  <2>5. QED
    BY <1>0, <2>1, <2>2, <2>3, <2>4 DEF TypeOK
<1>6. ASSUME NEW a \in Runs, CloseFile(a) PROVE TypeOK'
  <2>1. file' \in Seq(Node) /\ buffer' \in [Runs -> Seq(Node)]
    BY <1>0, <1>6 DEF CloseFile, TypeOK
  <2>2. /\ pc' = [pc EXCEPT ![a] = "done"]
        /\ \A b \in Runs \ {a} : buffer'[b] = buffer[b]
        /\ UNCHANGED <<command, lines, servers, i, address>>
    BY <1>0, <1>6 DEF CloseFile, TypeOK
  <2>3. QED
    BY <1>0, <2>1, <2>2 DEF TypeOK, servers
<1>7. CASE UNCHANGED vars
  BY <1>0, <1>7 DEF TypeOK, vars
<1>8. QED
  BY <1>1, <1>2, <1>3, <1>4, <1>5, <1>6, <1>7
  DEF Next, ServerStep, RunStep, Rest

\* What the runs have done, and what is in their streams.
LEMMA NextRuns ==
  ASSUME AdminInv, [Next]_vars, NEW b \in Runs
  PROVE  Listed(b)' /\ Worked(b)'
<1>0. TypeOK /\ Listed(b) /\ Worked(b) /\ i[b] \in Nat
  BY DEF AdminInv, TypeOK

\* Ranks that made nodes or were shut down have done so for good.
<1>1. /\ made \subseteq made'
      /\ \A s \in Rank : server[s] = "down" => server'[s] = "down"
      /\ command' = command
  <2>1. ASSUME NEW s \in Rank, Provide(s)
        PROVE  made' = made /\ command' = command /\
                 \A t \in Rank : server[t] = "down" => server'[t] = "down"
    BY <1>0, <2>1 DEF TypeOK, Provide
  <2>2. ASSUME NEW a \in Runs, RunStep(a)
        PROVE  made \subseteq made' /\ command' = command /\
                 \A t \in Rank : server[t] = "down" => server'[t] = "down"
    BY <1>0, <2>2
    DEF TypeOK, RunStep, Parse, Create, Open, RemoveNode, Shutdown, CloseFile, servers
  <2>3. QED
    BY <2>1, <2>2 DEF Next, ServerStep, WriteLine, Rest, servers, vars
<1>2. ASSUME UNCHANGED <<i, buffer>>,
             \/ pc'[b] = pc[b]
             \/ pc'[b] = "failed"
             \/ pc[b] = "parsing" /\ pc'[b] = "looping"
      PROVE  Listed(b)' /\ Worked(b)'
  <2>1. Listed(b)'
    BY <1>0, <1>1, <1>2 DEF Listed, Worked
  <2>2. Worked(b)'
    <3>1. \A s \in 0 .. i[b] - 1 : s \in Rank
      BY <1>0, AdminAssumption DEF TypeOK, Rank
    <3>2. QED
      BY <1>0, <1>1, <1>2, <3>1 DEF Worked, Removes
  <2>3. QED
    BY <2>1, <2>2
<1>3. ASSUME NEW a \in Runs, a # b, RunStep(a) PROVE Listed(b)' /\ Worked(b)'
  <2>1. pc'[b] = pc[b] /\ i'[b] = i[b] /\ buffer'[b] = buffer[b]
    BY <1>0, <1>3 DEF TypeOK, RunStep, Parse, Create, Open, RemoveNode, Shutdown,
                      CloseFile, Die, NextRank
  <2>2. \A s \in 0 .. i[b] - 1 : s \in Rank
    BY <1>0, AdminAssumption DEF TypeOK, Rank
  <2>3. QED
    BY <1>0, <1>1, <2>1, <2>2 DEF Listed, Worked, Removes
<1>4. CASE WriteLine \/ (\E s \in Rank : Provide(s)) \/ UNCHANGED vars
  BY <1>2, <1>4 DEF WriteLine, Provide, vars
<1>5. CASE Parse(b)
  BY <1>0, <1>2, <1>5 DEF TypeOK, Parse, Die
<1>6. ASSUME Die(b), UNCHANGED buffer PROVE Listed(b)' /\ Worked(b)'
  BY <1>0, <1>2, <1>6 DEF TypeOK, Die

\* The run goes on to the next rank.
<1>7. ASSUME NextRank(b), NEW op, Calling(b, op)
      PROVE  /\ i'[b] = i[b] + 1 /\ pc'[b] = "looping"
             /\ command'[b].op = op /\ command[b].op = op
             /\ i[b] \in Rank
             /\ \A s \in 0 .. i'[b] - 1 : s \in Rank /\ (s = i[b] \/ s \in 0 .. i[b] - 1)
  <2>1. /\ i[b] \in Rank /\ pc[b] = "looping" /\ command[b].op = op
        /\ i[b] + 1 \in 0 .. Size
    BY <1>0, <1>7, CallingRank
  <2>2. i'[b] = i[b] + 1 /\ pc'[b] = "looping"
    BY <1>0, <1>7, <2>1 DEF TypeOK, NextRank
  <2>3. \A s \in 0 .. i'[b] - 1 : s \in Rank /\ (s = i[b] \/ s \in 0 .. i[b] - 1)
    BY <2>1, <2>2, AdminAssumption DEF Rank
  <2>4. QED
    BY <1>1, <2>1, <2>2, <2>3
<1>8. CASE Create(b)
  <2>1. CASE ~NextRank(b)
    BY <1>6, <1>8, <2>1 DEF Create
  <2>2. CASE NextRank(b)
    <3>1. /\ i'[b] = i[b] + 1 /\ pc'[b] = "looping"
          /\ command'[b].op = "create" /\ command[b].op = "create"
          /\ pc[b] = "looping"
          /\ \A s \in 0 .. i'[b] - 1 : s = i[b] \/ s \in 0 .. i[b] - 1
      BY <1>7, <1>8, <2>2 DEF Create, Calling
    <3>2. /\ made' = made \cup {<<b, i[b]>>}
          /\ buffer'[b] = Append(buffer[b], <<b, i[b]>>)
      BY <1>0, <1>8, <2>2, <3>1 DEF TypeOK, Create, NextRank, Die
    <3>3. Len(buffer[b]) = i[b] /\ \A k \in 1 .. i[b] : buffer[b][k] = <<b, k - 1>>
      BY <1>0, <3>1 DEF Listed
    <3>4. Len(buffer'[b]) = i[b] + 1 /\ \A k \in 1 .. i[b] + 1 : buffer'[b][k] = <<b, k - 1>>
      <4> DEFINE n == <<b, i[b]>>
                 old == buffer[b]
                 new == buffer'[b]
      <4>1. new = Append(old, n) /\ old \in Seq(Node) /\ Len(old) = i[b]
        BY <1>0, <3>2, <3>3 DEF TypeOK
      <4>2. \A k \in 1 .. i[b] : old[k] = <<b, k - 1>>
        BY <3>3
      <4> HIDE DEF n, old, new
      <4>3. Len(new) = i[b] + 1 /\ new[i[b] + 1] = n /\ \A k \in 1 .. i[b] : new[k] = old[k]
        BY <1>0, <4>1
      <4>4. \A k \in 1 .. i[b] + 1 : new[k] = <<b, k - 1>>
        <5>1. n = <<b, (i[b] + 1) - 1>>
          BY <1>0 DEF n
        <5>2. \A k \in 1 .. i[b] + 1 : k \in 1 .. i[b] \/ k = i[b] + 1
          BY <1>0
        <5>3. QED
          BY <4>2, <4>3, <5>1, <5>2
      <4>5. QED
        BY <4>3, <4>4 DEF new
    <3>5. Listed(b)'
      BY <3>1, <3>4 DEF Listed
    <3>6. Worked(b)'
      BY <1>0, <3>1, <3>2 DEF Worked, Removes
    <3>7. QED
      BY <3>5, <3>6
  <2>3. QED
    BY <2>1, <2>2
<1>9. CASE Open(b) \/ Shutdown(b) \/ RemoveNode(b)
  <2>1. CASE ~NextRank(b)
    BY <1>6, <1>9, <2>1 DEF Open, Shutdown, RemoveNode
  <2>2. CASE NextRank(b)
    <3>1. PICK op \in {"open", "shutdown", "close", "destroy"} : Calling(b, op)
      BY <1>9 DEF Open, Shutdown, RemoveNode
    <3>2. /\ i'[b] = i[b] + 1 /\ pc'[b] = "looping"
          /\ command'[b].op = op /\ command[b].op = op
          /\ pc[b] = "looping"
          /\ i[b] \in Rank
          /\ \A s \in 0 .. i'[b] - 1 : s \in Rank /\ (s = i[b] \/ s \in 0 .. i[b] - 1)
      BY <1>7, <2>2, <3>1 DEF Calling
    <3>3. Listed(b)'
      BY <1>0, <1>9, <3>2 DEF Open, Shutdown, RemoveNode, Listed
    <3>4. CASE Open(b)
      <4>1. command[b].op = "open" /\ made' = made \cup {<<b, i[b]>>}
        BY <1>0, <2>2, <3>2, <3>4 DEF TypeOK, Open, Calling, NextRank, Die
      <4>2. QED
        BY <1>0, <1>1, <3>2, <3>3, <4>1 DEF Worked, Removes
    <3>5. CASE Shutdown(b)
      <4>1. command[b].op = "shutdown" /\ server' = [server EXCEPT ![i[b]] = "down"]
        BY <1>0, <2>2, <3>2, <3>5 DEF TypeOK, Shutdown, Calling, NextRank, Die
      <4>2. \A s \in 0 .. i'[b] - 1 : server'[s] = "down"
        BY <1>0, <3>2, <4>1 DEF TypeOK, Worked
      <4>3. QED
        BY <1>0, <1>1, <3>2, <3>3, <4>1, <4>2 DEF Worked, Removes
    <3>6. CASE RemoveNode(b)
      <4>1. /\ command[b].op \in {"close", "destroy"}
            /\ command[b].target \in nodes[i[b]]
        BY <1>0, <2>2, <3>2, <3>6 DEF TypeOK, RemoveNode, Calling, NextRank, Die
      <4>2. command[b].target[2] = i[b]
        BY <3>2, <4>1 DEF AdminInv, Kept
      <4>3. i[b] = 0
        BY <1>0, <4>1, <4>2 DEF Worked, Removes
      <4>4. QED
        BY <1>1, <3>2, <3>3, <4>1, <4>2, <4>3 DEF Worked, Removes
    <3>7. QED
      BY <1>9, <3>4, <3>5, <3>6
  <2>3. QED
    BY <2>1, <2>2
<1>10. CASE CloseFile(b)
  <2>1. pc'[b] = "done" /\ i' = i /\ i[b] = Size
    BY <1>0, <1>10 DEF TypeOK, CloseFile
  <2>2. \A s \in 0 .. i[b] - 1 : s \in Rank
    BY <2>1 DEF Rank
  <2>3. QED
    BY <1>0, <1>1, <2>1, <2>2 DEF Listed, Worked, Removes
<1>11. QED
  <2>1. ASSUME NEW a \in Runs, RunStep(a) PROVE Listed(b)' /\ Worked(b)'
    <3>1. CASE a # b
      BY <1>3, <2>1, <3>1
    <3>2. CASE a = b
      BY <1>5, <1>8, <1>9, <1>10, <2>1, <3>2 DEF RunStep
    <3>3. QED
      BY <3>1, <3>2
  <2>2. QED
    BY <1>4, <2>1 DEF Next, ServerStep, Rest

\* Nodes are made, kept and removed on their own rank.
LEMMA NextKept ==
  ASSUME AdminInv, [Next]_vars
  PROVE  Kept'
<1>0. TypeOK /\ Kept
  BY DEF AdminInv
<1>1. CASE UNCHANGED <<servers, command>>
  BY <1>0, <1>1 DEF Kept, servers, Removes
<1>2. ASSUME NEW s \in Rank, Provide(s) PROVE Kept'
  <2>1. /\ \A r \in Rank : server[r] = "down" => server'[r] = "down"
        /\ UNCHANGED <<nodes, made, command>>
    BY <1>0, <1>2 DEF TypeOK, Provide
  <2>2. \A n \in made : n[2] \in Rank
    BY <1>0 DEF TypeOK, Node
  <2>3. QED
    BY <1>0, <2>1, <2>2 DEF Kept, Removes
<1>3. ASSUME NEW a \in Runs, Create(a) \/ Open(a) PROVE Kept'
  <2>1. CASE Reachable(a) /\ i[a] \notin command[a].refused
    <3> DEFINE n == <<a, i[a]>>
    <3>1. i[a] \in Rank /\ n \in Node /\ n[2] = i[a]
      BY <1>0, <1>3, CallingRank DEF Create, Open
    <3>2. /\ nodes' = [nodes EXCEPT ![i[a]] = @ \cup {n}]
          /\ made' = made \cup {n}
          /\ UNCHANGED <<server, command>>
      BY <1>3, <2>1 DEF Create, Open, Reachable
    <3> HIDE DEF n
    <3>3. /\ \A s \in Rank : nodes'[s] = IF s = i[a] THEN nodes[s] \cup {n} ELSE nodes[s]
          /\ \A m \in made : m[2] \in Rank
      BY <1>0, <3>1, <3>2 DEF TypeOK, Node
    <3>4. ASSUME NEW s \in Rank, NEW m \in nodes'[s] PROVE m[2] = s
      <4>1. CASE m \in nodes[s]
        BY <1>0, <4>1 DEF Kept
      <4>2. CASE m \notin nodes[s]
        BY <3>1, <3>3, <4>2
      <4>3. QED
        BY <4>1, <4>2
    <3>5. ASSUME NEW m \in made'
          PROVE  \/ m \in nodes'[m[2]]
                 \/ server'[m[2]] = "down"
                 \/ \E b \in Runs : Removes(b)' /\ command'[b].target = m
      <4>1. CASE m = n
        BY <3>1, <3>3, <4>1
      <4>2. CASE m # n
        <5>1. m \in made /\ nodes[m[2]] \subseteq nodes'[m[2]]
          BY <3>2, <3>3, <4>2
        <5>2. QED
          BY <1>0, <3>2, <5>1 DEF Kept, Removes
      <4>3. QED
        BY <4>1, <4>2
    <3>6. QED
      BY <3>4, <3>5 DEF Kept
  <2>2. CASE ~(Reachable(a) /\ i[a] \notin command[a].refused)
    BY <1>1, <1>3, <2>2 DEF Create, Open, servers
  <2>3. QED
    BY <2>1, <2>2
<1>4. ASSUME NEW a \in Runs, RemoveNode(a) PROVE Kept'
  <2> DEFINE t == command[a].target
  <2>1. CASE Reachable(a) /\ t \in nodes[i[a]]
    <3>1. /\ i[a] \in Rank
          /\ Removes(a)
          /\ nodes' = [nodes EXCEPT ![i[a]] = @ \ {t}]
          /\ UNCHANGED <<server, made, command>>
      BY <1>0, <1>4, <2>1, CallingRank DEF RemoveNode, Removes, Calling
    <3>2. /\ \A s \in Rank : nodes'[s] = IF s = i[a] THEN nodes[s] \ {t} ELSE nodes[s]
          /\ \A m \in made : m[2] \in Rank
      BY <1>0, <3>1 DEF TypeOK, Node
    <3>3. ASSUME NEW m \in made
          PROVE  \/ m \in nodes'[m[2]]
                 \/ server'[m[2]] = "down"
                 \/ \E b \in Runs : Removes(b)' /\ command'[b].target = m
      <4>1. CASE m = t
        BY <3>1, <4>1 DEF Removes
      <4>2. CASE m # t
        BY <1>0, <3>1, <3>2, <4>2 DEF Kept, Removes
      <4>3. QED
        BY <4>1, <4>2
    <3>4. QED
      BY <1>0, <3>1, <3>2, <3>3 DEF Kept, Removes
  <2>2. CASE ~(Reachable(a) /\ t \in nodes[i[a]])
    BY <1>1, <1>4, <2>2 DEF RemoveNode, servers
  <2>3. QED
    BY <2>1, <2>2
<1>5. ASSUME NEW a \in Runs, Shutdown(a) PROVE Kept'
  <2>1. CASE address[a][i[a] + 1] /\ server[i[a]] # "down"
    <3>1. /\ i[a] \in Rank
          /\ server' = [server EXCEPT ![i[a]] = "down"]
          /\ nodes' = [nodes EXCEPT ![i[a]] = {}]
          /\ UNCHANGED <<made, command>>
      BY <1>0, <1>5, <2>1, CallingRank DEF Shutdown
    <3>2. /\ \A s \in Rank : /\ nodes'[s] = IF s = i[a] THEN {} ELSE nodes[s]
                             /\ server'[s] = IF s = i[a] THEN "down" ELSE server[s]
          /\ \A m \in made : m[2] \in Rank
      BY <1>0, <3>1 DEF TypeOK, Node
    <3>3. QED
      BY <1>0, <3>1, <3>2 DEF Kept, Removes
  <2>2. CASE ~(address[a][i[a] + 1] /\ server[i[a]] # "down")
    BY <1>1, <1>5, <2>2 DEF Shutdown, servers
  <2>3. QED
    BY <2>1, <2>2
<1>6. ASSUME NEW a \in Runs, Parse(a) \/ CloseFile(a) PROVE Kept'
  BY <1>1, <1>6 DEF Parse, CloseFile
<1>7. CASE WriteLine \/ UNCHANGED vars
  BY <1>1, <1>7 DEF WriteLine, vars, servers
<1>8. QED
  BY <1>2, <1>3, <1>4, <1>5, <1>6, <1>7 DEF Next, ServerStep, RunStep, Rest

\* What is in the stream of a run that has called all ranks was made there.
LEMMA NextFileMade ==
  ASSUME AdminInv, [Next]_vars
  PROVE  FileMade'
<1>0. TypeOK /\ FileMade
  BY DEF AdminInv
<1>1. CASE file' = file /\ made \subseteq made'
  BY <1>0, <1>1 DEF FileMade
<1>2. ASSUME NEW a \in Runs, CloseFile(a) PROVE FileMade'
  <2>1. /\ file' = file \o buffer[a] /\ made' = made
        /\ pc[a] = "looping" /\ i[a] = Size
    BY <1>2 DEF CloseFile, servers
  <2>2. \A k \in 1 .. Len(buffer[a]) : buffer[a][k] \in made
    <3>1. CASE command[a].op = "create"
      <4>1. \A k \in 1 .. Size : buffer[a][k] = <<a, k - 1>> /\ k - 1 \in 0 .. i[a] - 1
        BY <2>1, <3>1, AdminAssumption DEF AdminInv, Listed
      <4>2. Len(buffer[a]) = Size
        BY <2>1, <3>1 DEF AdminInv, Listed
      <4>3. QED
        BY <3>1, <4>1, <4>2 DEF AdminInv, Worked
    <3>2. CASE command[a].op # "create"
      <4>1. Len(buffer[a]) = 0
        BY <2>1, <3>2 DEF AdminInv, Listed
      <4>2. QED
        BY <4>1
    <3>3. QED
      BY <3>1, <3>2
  <2>3. \A k \in 1 .. Len(file') :
          \/ k \in 1 .. Len(file) /\ file'[k] = file[k]
          \/ k - Len(file) \in 1 .. Len(buffer[a])
               /\ file'[k] = buffer[a][k - Len(file)]
    <3> DEFINE old == file
               more == buffer[a]
    <3>1. old \in Seq(Node) /\ more \in Seq(Node) /\ file' = old \o more
      BY <1>0, <2>1 DEF TypeOK
    <3> HIDE DEF old, more
    <3>2. \A k \in 1 .. Len(old \o more) :
            \/ k \in 1 .. Len(old) /\ (old \o more)[k] = old[k]
            \/ k - Len(old) \in 1 .. Len(more)
                 /\ (old \o more)[k] = more[k - Len(old)]
      BY <3>1
    <3>3. QED
      BY <3>1, <3>2 DEF old, more
  <2>4. QED
    BY <1>0, <2>1, <2>2, <2>3 DEF FileMade
<1>3. ASSUME NEW a \in Runs,
             Parse(a) \/ Create(a) \/ Open(a) \/ RemoveNode(a) \/ Shutdown(a)
      PROVE  FileMade'
  BY <1>1, <1>3 DEF Parse, Create, Open, RemoveNode, Shutdown, servers
<1>4. QED
  BY <1>1, <1>2, <1>3
  DEF Next, ServerStep, WriteLine, Provide, RunStep, Rest, vars, servers

\* The file grows by whole lists: a run that gets as far as closing its stream has
\* an id of every rank in it, or none at all.
LEMMA NextFile ==
  ASSUME AdminInv, [Next]_vars
  PROVE  FileByRank'
<1>0. TypeOK /\ FileByRank
  BY DEF AdminInv
<1>1. CASE UNCHANGED file
  BY <1>0, <1>1 DEF FileByRank
<1>2. ASSUME NEW a \in Runs, CloseFile(a) PROVE FileByRank'
  <2> DEFINE n == Len(file)
             new == file \o buffer[a]
  <2>1. file' = new /\ pc[a] = "looping" /\ i[a] = Size
    BY <1>2 DEF CloseFile
  <2>2. CASE buffer[a] = <<>>
    <3>1. new = file
      BY <1>0, <2>2 DEF TypeOK
    <3>2. QED
      BY <1>1, <2>1, <3>1
  <2>3. CASE buffer[a] # <<>>
    <3>1. Len(buffer[a]) = Size /\ \A k \in 1 .. Size : buffer[a][k] = <<a, k - 1>>
      BY <2>1, <2>3 DEF AdminInv, Listed
    <3>2. /\ Len(new) = n + Size
          /\ \A k \in 1 .. n : new[k] = file[k]
          /\ \A s \in Rank : new[n + s + 1] = <<a, s>>
      <4>1. file \in Seq(Node) /\ buffer[a] \in Seq(Node)
        BY <1>0 DEF TypeOK
      <4>2. /\ Len(new) = n + Size
            /\ \A k \in 1 .. n : new[k] = file[k]
            /\ \A k \in 1 .. Size : new[n + k] = buffer[a][k]
        <5> DEFINE old == file
                   more == buffer[a]
        <5>1. old \in Seq(Node) /\ more \in Seq(Node) /\ Len(more) = Size
          BY <3>1, <4>1
        <5> HIDE DEF old, more
        <5>2. /\ Len(old \o more) = Len(old) + Size
              /\ \A k \in 1 .. Len(old) : (old \o more)[k] = old[k]
              /\ \A k \in 1 .. Size : (old \o more)[Len(old) + k] = more[k]
          BY <5>1, AdminAssumption
        <5>3. QED
          BY <5>2 DEF old, more
      <4>3. ASSUME NEW s \in Rank PROVE new[n + s + 1] = <<a, s>>
        <5>1. s + 1 \in 1 .. Size /\ (s + 1) - 1 = s /\ n + (s + 1) = n + s + 1
          BY <4>1, AdminAssumption DEF Rank
        <5> HIDE DEF new, n
        <5>2. new[n + (s + 1)] = <<a, (s + 1) - 1>>
          BY <3>1, <4>2, <5>1
        <5>3. QED
          BY <5>1, <5>2
      <4>4. QED
        BY <4>2, <4>3
    <3>3. /\ n \in Nat /\ n % Size = 0
          /\ (n + Size) % Size = 0
          /\ \A s \in Rank : (n + s) % Size = s
      BY <1>0, WholeLists DEF TypeOK, FileByRank
    <3> HIDE DEF new, n
    <3>4. ASSUME NEW k \in 1 .. n + Size
          PROVE  /\ new[k][2] = (k - 1) % Size
                 /\ k % Size # 0 => new[k + 1][1] = new[k][1]
      <4>1. CASE k \in 1 .. n
        <5>1. new[k] = file[k] /\ new[k][2] = (k - 1) % Size
          BY <1>0, <3>2, <4>1 DEF FileByRank, n
        <5>2. ASSUME k % Size # 0 PROVE new[k + 1][1] = new[k][1]
          <6>1. k + 1 \in 1 .. n
            BY <3>3, <4>1, <5>2
          <6>2. QED
            BY <1>0, <3>2, <4>1, <5>1, <5>2, <6>1 DEF FileByRank, n
        <5>3. QED
          BY <5>1, <5>2
      <4>2. CASE k \notin 1 .. n
        <5> DEFINE s == k - n - 1
        <5>1. s \in Rank /\ k = n + s + 1 /\ k - 1 = n + s
          BY <3>3, <4>2, AdminAssumption DEF Rank
        <5> HIDE DEF s
        <5>2. new[k] = <<a, s>> /\ (k - 1) % Size = s
          BY <3>2, <3>3, <5>1
        <5>3. ASSUME k % Size # 0 PROVE new[k + 1][1] = new[k][1]
          <6>1. s + 1 \in Rank
            BY <3>3, <5>1, <5>3, AdminAssumption DEF Rank
          <6>2. k + 1 = n + (s + 1) + 1
            BY <3>3, <5>1, AdminAssumption DEF Rank
          <6>3. new[k + 1] = <<a, s + 1>>
            BY <3>2, <6>1, <6>2
          <6>4. QED
            BY <5>2, <6>3
        <5>4. QED
          BY <5>2, <5>3
      <4>3. QED
        BY <4>1, <4>2
    <3>5. QED
      BY <2>1, <3>2, <3>3, <3>4 DEF FileByRank
  <2>4. QED
    BY <2>2, <2>3
<1>3. ASSUME NEW a \in Runs,
             Parse(a) \/ Create(a) \/ Open(a) \/ RemoveNode(a) \/ Shutdown(a)
      PROVE  FileByRank'
  BY <1>1, <1>3 DEF Parse, Create, Open, RemoveNode, Shutdown
<1>4. QED
  BY <1>1, <1>2, <1>3 DEF Next, ServerStep, WriteLine, Provide, RunStep, Rest, vars

LEMMA NextAdmin == AdminInv /\ [Next]_vars => AdminInv'
BY NextType, NextRuns, NextKept, NextFile, NextFileMade DEF AdminInv

-----------------------------------------------------------------------------
\* Types of the registries, the files and the runs.
THEOREM TypeCorrect == Spec => []TypeOK
<1>1. AdminInv => TypeOK
  BY DEF AdminInv
<1>2. QED
  BY InitAdmin, NextAdmin, <1>1, PTL DEF Spec

\* nodes.mercury can be read by rank, however the runs are interleaved and wherever
\* one of them fails: its lines are whole lists of one run each.
THEOREM FileAlwaysByRank == Spec => []FileByRank
<1>1. AdminInv => FileByRank
  BY DEF AdminInv
<1>2. QED
  BY InitAdmin, NextAdmin, <1>1, PTL DEF Spec

\* A run of the program that returns 0 has done its work on every rank.
THEOREM DoneIsEverywhere == Spec => []DoneMeansEverywhere
<1>1. AdminInv => DoneMeansEverywhere
  <2> SUFFICES ASSUME AdminInv, NEW a \in Runs, pc[a] = "done", NEW s \in Rank
               PROVE  CASE command[a].op \in {"create", "open"} -> <<a, s>> \in made
                        [] command[a].op = "shutdown"           -> server[s] = "down"
                        [] OTHER                                -> Size = 1
    BY DEF DoneMeansEverywhere
  <2>1. /\ i[a] = Size
        /\ Worked(a)
        /\ s \in 0 .. i[a] - 1
        /\ Size # 0
    BY AdminAssumption DEF AdminInv, Worked, Rank
  <2>2. command[a].op \in {"create", "open", "close", "destroy", "shutdown"}
    BY AdminAssumption DEF AdminInv, TypeOK
  <2>3. QED
    BY <2>1, <2>2 DEF Worked, Removes
<1>2. QED
  BY InitAdmin, NextAdmin, <1>1, PTL DEF Spec

\* Every id in nodes.mercury names a node that was made and is still there, unless its
\* server was shut down or a run was told to remove this very node.
THEOREM ListedNodesAlwaysServe == Spec => []ListedNodesServe
<1>1. AdminInv => ListedNodesServe
  BY DEF AdminInv, FileMade, Kept, Removes, ListedNodesServe
<1>2. QED
  BY InitAdmin, NextAdmin, <1>1, PTL DEF Spec
=============================================================================
