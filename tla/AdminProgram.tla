----------------------------- MODULE AdminProgram -----------------------------
(***************************************************************************)
(* Runs of examples/admin.cpp.  A run reads the addresses of all server    *)
(* ranks from the address file, then makes the same call of ams::Admin to  *)
(* one rank after the other, and ends at the first that fails.  The ids of *)
(* created nodes go through a buffered stream to the file nodes.mercury,   *)
(* whose r-th line a client of rank r reads.  The stream is written when   *)
(* it is closed: lists longer than its buffer, some 8 KiB or 220 ranks,    *)
(* reach the file in parts.                                                *)
(*                                                                         *)
(* Each call is one atomic operation of the rank's node registry, which is *)
(* what ProviderRegistry implements (NodeRegistry).  Several runs may be   *)
(* under way at once, and may start before the servers have finished the   *)
(* address file.                                                           *)
(***************************************************************************)
EXTENDS Naturals, Sequences, SequencesExt

CONSTANTS
  Size,     (* the server ranks                                             *)
  Runs,     (* the runs of the program                                      *)
  Commands  (* command lines: the operation (-x), the node to remove (-r),  *)
            (* and the ranks that refuse to make a node of that type and    *)
            (* configuration (-t, -c)                                       *)

ASSUME AdminAssumption ==
  /\ Size \in Nat \ {0}
  /\ Commands \subseteq [op : {"create", "open", "close", "destroy", "shutdown"},
                          target : Runs \X (0 .. Size - 1),
                          refused : SUBSET (0 .. Size - 1)]

Rank == 0 .. Size - 1

\* A node is known by the run that made it and its rank: UUIDs are unique.
Node == Runs \X Rank

VARIABLES
  lines,    (* lines of the address file: 0, the number of ranks, addresses *)
  nodes,    (* nodes[s]: m_backends of rank s                               *)
  server,   (* server[s]: whether rank s has its provider, or has shut down *)
  command,  (* command[a]: the command line of run a                        *)
  pc,       (* pc[a]: what run a is doing                                   *)
  i,        (* i[a]: the loop variable of run a                             *)
  address,  (* address[a]: g_addresses, TRUE for one that could be read     *)
  buffer,   (* buffer[a]: the ids in the stream addr_file of run a          *)
  file,     (* the lines of nodes.mercury                                   *)
  made      (* the nodes that were ever made                                *)

vars == <<lines, nodes, server, command, pc, i, address, buffer, file, made>>

servers == <<nodes, server, made>>

-----------------------------------------------------------------------------
Init ==
  /\ lines   = 0
  /\ nodes   = [s \in Rank |-> {}]
  /\ server  = [s \in Rank |-> "starting"]
  /\ command \in [Runs -> Commands]
  /\ pc      = [a \in Runs |-> "parsing"]
  /\ i       = [a \in Runs |-> 0]
  /\ address = [a \in Runs |-> <<>>]
  /\ buffer  = [a \in Runs |-> <<>>]
  /\ file    = <<>>
  /\ made    = {}

\* The servers write the number of ranks and then their addresses, in order.
WriteLine ==
  /\ lines < Size + 1
  /\ lines' = lines + 1
  /\ UNCHANGED <<command, servers, pc, i, address, buffer, file>>

\* Rank s makes its provider, after the barriers of the address file.
Provide(s) ==
  /\ lines = Size + 1
  /\ server[s] = "starting"
  /\ server' = [server EXCEPT ![s] = "up"]
  /\ UNCHANGED <<command, lines, nodes, made, pc, i, address, buffer, file>>

\* exit(-1), or an exception that is not an ams::Exception and ends the process:
\* the stream is not flushed.
Die(a) ==
  /\ pc' = [pc EXCEPT ![a] = "failed"]
  /\ UNCHANGED i

\* The number of ranks, then their addresses, each line in a pass over the file
\* of its own.  A line that is not there yet is read as an empty string.  A file
\* without the first line gives n_ranks = 0, and g_addresses[0] does not exist.
Parse(a) ==
  /\ pc[a] = "parsing"
  /\ IF lines = 0
     THEN Die(a) /\ UNCHANGED address
     ELSE /\ address' = [address EXCEPT ![a] = Append(@, lines > Len(@) + 1)]
          /\ pc' = [pc EXCEPT ![a] = IF Len(address'[a]) = Size THEN "looping" ELSE @]
          /\ UNCHANGED i
  /\ UNCHANGED <<command, lines, servers, buffer, file>>

\* Run a is about to call rank i[a].
Calling(a, op) == pc[a] = "looping" /\ i[a] < Size /\ command[a].op = op

\* lookup() finds the server, and its provider answers.
Reachable(a) == address[a][i[a] + 1] /\ server[i[a]] = "up"

NextRank(a) == i' = [i EXCEPT ![a] = @ + 1] /\ UNCHANGED pc

\* Seeded fault: ids are written to the file when they are known.
CreateUnbuffered(a) ==
  /\ Calling(a, "create")
  /\ IF Reachable(a) /\ i[a] \notin command[a].refused
     THEN /\ nodes' = [nodes EXCEPT ![i[a]] = @ \cup {<<a, i[a]>>}]
          /\ made' = made \cup {<<a, i[a]>>}
          /\ file' = Append(file, <<a, i[a]>>)
          /\ NextRank(a)
     ELSE Die(a) /\ UNCHANGED <<nodes, made, file>>
  /\ UNCHANGED <<command, lines, server, address, buffer>>

\* Seeded fault: the id is listed although the rank has refused to make the node.
CreateUnchecked(a) ==
  /\ Calling(a, "create")
  /\ IF Reachable(a)
     THEN /\ IF i[a] \in command[a].refused
             THEN UNCHANGED <<nodes, made>>
             ELSE /\ nodes' = [nodes EXCEPT ![i[a]] = @ \cup {<<a, i[a]>>}]
                  /\ made' = made \cup {<<a, i[a]>>}
          /\ buffer' = [buffer EXCEPT ![a] = Append(@, <<a, i[a]>>)]
          /\ NextRank(a)
     ELSE Die(a) /\ UNCHANGED <<nodes, made, buffer>>
  /\ UNCHANGED <<command, lines, server, address, file>>

\* createNode, and the id to the stream
Create(a) ==
  /\ Calling(a, "create")
  /\ IF Reachable(a) /\ i[a] \notin command[a].refused
     THEN /\ nodes' = [nodes EXCEPT ![i[a]] = @ \cup {<<a, i[a]>>}]
          /\ made' = made \cup {<<a, i[a]>>}
          /\ buffer' = [buffer EXCEPT ![a] = Append(@, <<a, i[a]>>)]
          /\ NextRank(a)
     ELSE Die(a) /\ UNCHANGED <<nodes, made, buffer>>
  /\ UNCHANGED <<command, lines, server, address, file>>

\* openNode: the id is not kept.
Open(a) ==
  /\ Calling(a, "open")
  /\ IF Reachable(a) /\ i[a] \notin command[a].refused
     THEN /\ nodes' = [nodes EXCEPT ![i[a]] = @ \cup {<<a, i[a]>>}]
          /\ made' = made \cup {<<a, i[a]>>}
          /\ NextRank(a)
     ELSE Die(a) /\ UNCHANGED <<nodes, made>>
  /\ UNCHANGED <<command, lines, server, address, buffer, file>>

\* closeNode and destroyNode, of the same node on every rank
RemoveNode(a) ==
  /\ Calling(a, "close") \/ Calling(a, "destroy")
  /\ IF Reachable(a) /\ command[a].target \in nodes[i[a]]
     THEN /\ nodes' = [nodes EXCEPT ![i[a]] = @ \ {command[a].target}]
          /\ NextRank(a)
     ELSE Die(a) /\ UNCHANGED nodes
  /\ UNCHANGED <<command, lines, server, address, buffer, file, made>>

\* shutdownServer, which the engine answers, with or without a provider: it is
\* finalized, and the provider is reset.
Shutdown(a) ==
  /\ Calling(a, "shutdown")
  /\ IF address[a][i[a] + 1] /\ server[i[a]] # "down"
     THEN /\ server' = [server EXCEPT ![i[a]] = "down"]
          /\ nodes' = [nodes EXCEPT ![i[a]] = {}]
          /\ NextRank(a)
     ELSE Die(a) /\ UNCHANGED <<server, nodes>>
  /\ UNCHANGED <<command, lines, address, buffer, file, made>>

\* Seeded fault: the loop leaves out the last rank.
CloseFileEarly(a) ==
  /\ pc[a] = "looping"
  /\ i[a] >= Size - 1
  /\ pc' = [pc EXCEPT ![a] = "done"]
  /\ file' = file \o buffer[a]
  /\ buffer' = [buffer EXCEPT ![a] = <<>>]
  /\ UNCHANGED <<command, lines, servers, i, address>>

\* addr_file.close() appends what is in the stream, and main returns 0.
CloseFile(a) ==
  /\ pc[a] = "looping"
  /\ i[a] = Size
  /\ pc' = [pc EXCEPT ![a] = "done"]
  /\ file' = file \o buffer[a]
  /\ buffer' = [buffer EXCEPT ![a] = <<>>]
  /\ UNCHANGED <<command, lines, servers, i, address>>

Rest ==
  /\ \A s \in Rank : server[s] # "starting"
  /\ \A a \in Runs : pc[a] \in {"done", "failed"}
  /\ UNCHANGED vars

RunStep(a) ==
  \/ Parse(a) \/ Create(a) \/ Open(a) \/ RemoveNode(a) \/ Shutdown(a) \/ CloseFile(a)

ServerStep == WriteLine \/ \E s \in Rank : Provide(s)

Next == ServerStep \/ (\E a \in Runs : RunStep(a)) \/ Rest

Spec == Init /\ [][Next]_vars

-----------------------------------------------------------------------------
\* Every variable has its type, and the stream of a run that creates nodes holds
\* one id for each rank it has called.
TypeOK ==
  /\ lines \in 0 .. Size + 1
  /\ nodes \in [Rank -> SUBSET Node]
  /\ server \in [Rank -> {"starting", "up", "down"}]
  /\ command \in [Runs -> Commands]
  /\ pc \in [Runs -> {"parsing", "looping", "done", "failed"}]
  /\ i \in [Runs -> 0 .. Size]
  /\ address \in [Runs -> Seq(BOOLEAN)]
  /\ buffer \in [Runs -> Seq(Node)]
  /\ file \in Seq(Node)
  /\ made \subseteq Node
  /\ \A a \in Runs :
       pc[a] = "looping" /\ command[a].op = "create" => Len(buffer[a]) = i[a]

\* The file can be read by rank: its lines are whole lists of one run each, so
\* that the k-th line of a list names a node of rank k, however the runs are
\* interleaved and wherever one of them fails.
FileByRank ==
  /\ Len(file) % Size = 0
  /\ \A k \in 1 .. Len(file) :
       /\ file[k][2] = (k - 1) % Size
       /\ k % Size # 0 => file[k + 1][1] = file[k][1]

\* A run that returns 0 has done its work on every rank: a node was made, or the
\* server was shut down, on each of them.
DoneMeansEverywhere ==
  \A a \in Runs : pc[a] = "done" =>
    \A s \in Rank :
      CASE command[a].op \in {"create", "open"} -> <<a, s>> \in made
        [] command[a].op = "shutdown"           -> server[s] = "down"
        [] OTHER                        -> Size = 1

\* A client that finds an id in the file finds a node that was made, and finds it on
\* the rank of its line for as long as that rank runs, unless some run was told to
\* remove this very node: neither a run that fails half-way nor one that removes
\* another node, on all the ranks it comes to, leaves an id without its node.
ListedNodesServe ==
  \A k \in 1 .. Len(file) :
    LET n == file[k]
    IN  /\ n \in made
        /\ \/ n \in nodes[n[2]]
           \/ server[n[2]] = "down"
           \/ \E a \in Runs : /\ command[a].op \in {"close", "destroy"}
                             /\ command[a].target = n
=============================================================================
