--------------------------- MODULE ServerBootstrap ---------------------------
(***************************************************************************)
(* How the ranks of a server job start (examples/server.cpp) and how the   *)
(* ranks of a client find them (examples/client.cpp).                      *)
(*                                                                         *)
(* The job is split into instances, each with a communicator of its own.   *)
(* The ranks append their addresses to one file and, once they have made   *)
(* their nodes, the nodes' UUIDs to another, taking turns: one round for   *)
(* every rank, with a barrier of the whole job at the end of each round.   *)
(* Rank c of a client takes line c + 1 of the first file, whose line 0 is  *)
(* the number of ranks, and line c of the second.  Nothing makes a client  *)
(* wait: it may read either file before its line is there.                 *)
(*                                                                         *)
(* The files are opened for appending.  A job that is started again adds   *)
(* its lines to those of the earlier one, which nothing removes.           *)
(***************************************************************************)
EXTENDS Integers, FiniteSets, SequencesExt

CONSTANTS
  Size,          (* MPI_Comm_size(MPI_COMM_WORLD) of the server job          *)
  Instances,     (* the values of AMS_NUM_SERVER_INSTANCES                   *)
  ClientSize,    (* the ranks of a client                                    *)
  MayFail,       (* the ranks whose ams_create_node may fail                 *)
  MaxJobs,       (* bound: how often the job is started with the same files  *)
  None           (* no line, no rank                                         *)

World  == 0 .. Size - 1
Client == 0 .. ClientSize - 1

ASSUME BootstrapAssumption ==
  /\ Size \in Nat \ {0}
  /\ Instances \subseteq Nat
  /\ ClientSize \in 1 .. Size
  /\ MayFail \subseteq World
  /\ MaxJobs \in Nat \ {0}
  /\ None \notin Int

VARIABLES
  instances,  (* num_instances, the same whenever the job is started         *)
  job,        (* the number of the job that runs, from 1                     *)
  failed,     (* whether a rank has exited, in this job or an earlier one    *)
  pc,         (* pc[r]: where server rank r is                               *)
  round,      (* round[r]: the loop variable i of its current loop           *)
  barriers,   (* barriers[r]: the barriers of MPI_COMM_WORLD it has entered  *)
  comm,       (* comm[r]: the instance whose new_comm its providers work on  *)
  addresses,  (* the lines of AMS_SERVER_ADDR_FILE                           *)
  nodes,      (* the lines of AMS_NODE_ADDR_FILE                             *)
  client,     (* client[c]: where client rank c is                           *)
  found       (* found[c]: what it has read                                  *)

vars == <<instances, job, failed, pc, round, barriers, comm, addresses, nodes,
          client, found>>

server == <<instances, job, failed, pc, round, barriers, comm, addresses, nodes>>

Pc == {"start", "size", "addr", "addrWait", "provide", "provideWait",
       "node", "nodeWait", "serve", "exited"}

-----------------------------------------------------------------------------
\* rank/(size/num_instances) divides by zero when there are no instances, or more
\* than ranks.
Splittable == instances \in 1 .. Size

\* The color of MPI_Comm_split, or the one communicator of MPI_Comm_dup.  When there
\* is a remainder, the last ranks make an instance more than was asked for.
Color(r) ==
  IF instances = 1 THEN 0 ELSE r \div (Size \div instances)

\* MPI_Comm_rank(new_comm), for key = rank
NewRank(r) == Cardinality({s \in World : s < r /\ Color(s) = Color(r)})

\* The process that is rank r of the job that runs.
Process(r) == [job |-> job, rank |-> r]

\* What is appended to the address file: the size of the job, and new_rank and
\* engine.self() of every rank.
SizeLine       == [rank |-> Size, server |-> None]
AddressLine(r) == [rank |-> NewRank(r), server |-> Process(r)]

Goto(r, label) == pc' = [pc EXCEPT ![r] = label]

EnterBarrier(r) == barriers' = [barriers EXCEPT ![r] = @ + 1]

\* Every rank has entered the barrier rank r is in.
BarrierOpen(r) == \A s \in World : barriers[s] >= barriers[r]

\* read_nth_line: what getline leaves of a line that is not there is empty.
Line(file, n, absent) == IF n < Len(file) THEN file[n + 1] ELSE absent

Init ==
  /\ instances \in Instances
  /\ job       = 1
  /\ failed    = FALSE
  /\ pc        = [r \in World |-> "start"]
  /\ round     = [r \in World |-> 0]
  /\ barriers  = [r \in World |-> 1]
  /\ comm      = [r \in World |-> None]
  /\ addresses = <<>>
  /\ nodes     = <<>>
  /\ client    = [c \in Client |-> "start"]
  /\ found     = [c \in Client |-> [rank |-> None, server |-> None, node |-> None]]

\* The barrier before the engine is made returns.
Start(r) ==
  /\ pc[r] = "start"
  /\ BarrierOpen(r)
  /\ Goto(r, "size")
  /\ UNCHANGED <<instances, job, failed, round, barriers, comm, addresses, nodes,
                 client, found>>

\* if(rank == 0) addr_file << size; then the color, on which the rank dies when the
\* job cannot be split.
WriteSize(r) ==
  /\ pc[r] = "size"
  /\ addresses' = IF r = 0
                  THEN Append(addresses, SizeLine)
                  ELSE addresses
  /\ Goto(r, IF Splittable THEN "addr" ELSE "exited")
  /\ failed' = (failed \/ ~Splittable)
  /\ UNCHANGED <<instances, job, round, barriers, comm, nodes, client, found>>

\* Seeded fault: the barrier is inside the if of the rank whose turn it is.
WriteAddressOwnBarrier(r) ==
  /\ pc[r] = "addr"
  /\ IF r = round[r]
     THEN addresses' = Append(addresses, AddressLine(r)) /\ EnterBarrier(r)
     ELSE UNCHANGED <<addresses, barriers>>
  /\ Goto(r, "addrWait")
  /\ UNCHANGED <<instances, job, failed, round, comm, nodes, client, found>>

\* if(rank == i) { addr_file << new_rank << ...; } MPI_Barrier(MPI_COMM_WORLD)
WriteAddress(r) ==
  /\ pc[r] = "addr"
  /\ addresses' = IF r = round[r]
                  THEN Append(addresses, AddressLine(r))
                  ELSE addresses
  /\ EnterBarrier(r)
  /\ Goto(r, "addrWait")
  /\ UNCHANGED <<instances, job, failed, round, comm, nodes, client, found>>

\* Seeded fault: the loops end one round early.
EndRoundEarly(r, wait, again, next) ==
  /\ pc[r] = wait
  /\ BarrierOpen(r)
  /\ IF round[r] + 2 < Size
     THEN round' = [round EXCEPT ![r] = @ + 1] /\ Goto(r, again)
     ELSE round' = [round EXCEPT ![r] = 0]     /\ Goto(r, next)
  /\ UNCHANGED <<instances, job, failed, barriers, comm, addresses, nodes,
                 client, found>>

\* Seeded fault: the loops run to i <= size.
EndRoundLate(r, wait, again, next) ==
  /\ pc[r] = wait
  /\ BarrierOpen(r)
  /\ IF round[r] < Size
     THEN round' = [round EXCEPT ![r] = @ + 1] /\ Goto(r, again)
     ELSE round' = [round EXCEPT ![r] = 0]     /\ Goto(r, next)
  /\ UNCHANGED <<instances, job, failed, barriers, comm, addresses, nodes,
                 client, found>>

\* The barrier of a round returns: the next round, or the end of the loop.
EndRound(r, wait, again, next) ==
  /\ pc[r] = wait
  /\ BarrierOpen(r)
  /\ IF round[r] + 1 < Size
     THEN round' = [round EXCEPT ![r] = @ + 1] /\ Goto(r, again)
     ELSE round' = [round EXCEPT ![r] = 0]     /\ Goto(r, next)
  /\ UNCHANGED <<instances, job, failed, barriers, comm, addresses, nodes,
                 client, found>>

EndAddress(r) == EndRound(r, "addrWait", "addr", "provide")

\* Seeded fault: rank 0 has no providers to wait for.
ProvideOthers(r) ==
  /\ pc[r] = "provide"
  /\ comm' = [comm EXCEPT ![r] = Color(r)]
  /\ IF r = 0 THEN UNCHANGED barriers ELSE EnterBarrier(r)
  /\ Goto(r, "provideWait")
  /\ UNCHANGED <<instances, job, failed, round, addresses, nodes, client, found>>

\* The providers are made, with the communicator MPI_Comm_split or MPI_Comm_dup
\* has made; MPI_Barrier(MPI_COMM_WORLD).
Provide(r) ==
  /\ pc[r] = "provide"
  /\ comm' = [comm EXCEPT ![r] = Color(r)]
  /\ EnterBarrier(r)
  /\ Goto(r, "provideWait")
  /\ UNCHANGED <<instances, job, failed, round, addresses, nodes, client, found>>

\* Seeded fault: nothing makes a rank wait for the providers of the others.
EndProvideAtOnce(r) ==
  /\ pc[r] = "provideWait"
  /\ Goto(r, "node")
  /\ UNCHANGED <<instances, job, failed, round, barriers, comm, addresses, nodes,
                 client, found>>

EndProvide(r) ==
  /\ pc[r] = "provideWait"
  /\ BarrierOpen(r)
  /\ Goto(r, "node")
  /\ UNCHANGED <<instances, job, failed, round, barriers, comm, addresses, nodes,
                 client, found>>

\* A round of setup_admin_nodes: the rank whose turn it is makes its node and
\* writes the UUID.
MakeNode(r) ==
  /\ pc[r] = "node"
  /\ nodes' = IF r = round[r] THEN Append(nodes, Process(r)) ELSE nodes
  /\ EnterBarrier(r)
  /\ Goto(r, "nodeWait")
  /\ UNCHANGED <<instances, job, failed, round, comm, addresses, client, found>>

\* createNode throws: exit(-1), before the barrier the others are in.
FailNode(r) ==
  /\ pc[r] = "node"
  /\ r = round[r]
  /\ r \in MayFail
  /\ Goto(r, "exited")
  /\ failed' = TRUE
  /\ UNCHANGED <<instances, job, round, barriers, comm, addresses, nodes,
                 client, found>>

EndNode(r) == EndRound(r, "nodeWait", "node", "serve")

\* read_nth_line(g_address_file, rank+1)
ServerLineOf(c) == Line(addresses, c + 1, [rank |-> None, server |-> None])

ReadAddress(c) ==
  /\ client[c] = "start"
  /\ client' = [client EXCEPT ![c] = "address"]
  /\ found' = [found EXCEPT ![c].rank   = ServerLineOf(c).rank,
                            ![c].server = ServerLineOf(c).server]
  /\ UNCHANGED server

\* read_nth_line(nodeArg.getValue(), rank)
ReadNode(c) ==
  /\ client[c] = "address"
  /\ client' = [client EXCEPT ![c] = "read"]
  /\ found' = [found EXCEPT ![c].node = Line(nodes, c, None)]
  /\ UNCHANGED server

Serving == \A r \in World : pc[r] = "serve"

\* A rank has exited, and the others do not come past its round.
Aborted == \E r \in World : pc[r] = "exited"

\* A job that has been shut down, or that ends because a rank has exited, is
\* started again with the files it has left.
Restart ==
  /\ Serving \/ Aborted
  /\ job < MaxJobs
  /\ job'      = job + 1
  /\ pc'       = [r \in World |-> "start"]
  /\ round'    = [r \in World |-> 0]
  /\ barriers' = [r \in World |-> 1]
  /\ comm'     = [r \in World |-> None]
  /\ UNCHANGED <<instances, failed, addresses, nodes, client, found>>

\* The servers of the last job wait for RPCs (engine.wait_for_finalize).
Rest ==
  /\ Serving
  /\ job = MaxJobs
  /\ \A c \in Client : client[c] = "read"
  /\ UNCHANGED vars

ServerStep(r) ==
  \/ Start(r) \/ WriteSize(r) \/ WriteAddress(r) \/ EndAddress(r)
  \/ Provide(r) \/ EndProvide(r) \/ MakeNode(r) \/ EndNode(r)

Next ==
  \/ \E r \in World : ServerStep(r) \/ FailNode(r)
  \/ Restart
  \/ \E c \in Client : ReadAddress(c) \/ ReadNode(c)
  \/ Rest

Spec == Init /\ [][Next]_vars

\* Every rank goes on when it can.
Fairness == \A r \in World : WF_vars(ServerStep(r))

FairSpec == Spec /\ Fairness

-----------------------------------------------------------------------------
Processes == [job : 1 .. MaxJobs, rank : World]

\* Every variable has its type, and no rank is a whole barrier ahead.
TypeOK ==
  /\ instances \in Instances
  /\ job       \in 1 .. MaxJobs
  /\ failed    \in BOOLEAN
  /\ pc        \in [World -> Pc]
  /\ round     \in [World -> World]
  /\ barriers  \in [World -> Nat \ {0}]
  /\ comm      \in [World -> Nat \cup {None}]
  /\ addresses \in Seq([rank : Nat, server : Processes \cup {None}])
  /\ nodes     \in Seq(Processes)
  /\ client    \in [Client -> {"start", "address", "read"}]
  /\ found     \in [Client -> [rank   : Nat \cup {None},
                               server : Processes \cup {None},
                               node   : Processes \cup {None}]]
  /\ \A r, s \in World : barriers[r] <= barriers[s] + 1

\* A client rank that finds its line in the address file has its own number before
\* the address (assert(server_rank == rank) of examples/client.cpp), and the
\* address of the server rank of that number.  The node is of that very process,
\* whenever the client reads the two files and however often the job has been
\* started, unless a rank has failed to make its node: the lines of a job that is
\* started after that are no longer at the places where clients look.  Clients
\* keep finding the first job that was started with the files.  A job that cannot be
\* split lists no address at all.
OwnServer ==
  LET own(c) == {None, [job |-> 1, rank |-> c]}
  IN  \A c \in Client :
        /\ Splittable => found[c].rank \in {None, c}
        /\ found[c].server \in own(c)
        /\ ~failed => found[c].node \in own(c)

\* When a rank gets as far as serving, both files end with the complete list of
\* its job in the order of the ranks, whatever was in them before: a client that
\* starts with new files finds its lines, and no rank is missing in an instance.
ServingMeansListed ==
  (\E r \in World : pc[r] = "serve") =>
    /\ IsSuffix(<<SizeLine>> \o [i \in 1 .. Size |-> AddressLine(i - 1)], addresses)
    /\ IsSuffix([i \in 1 .. Size |-> Process(i - 1)], nodes)

\* From the moment the job that runs has its first node listed, every rank has its
\* provider, on the communicator of its instance, and the address file ends with the
\* ranks they have there, in order: a client that finds a node finds all the ranks
\* whose collectives its requests take part in.
NodesFindInstances ==
  LET rankIn(s) == Cardinality({t \in World : t < s /\ comm[t] = comm[s]})
      line(s)   == [rank |-> rankIn(s), server |-> Process(s)]
  IN  (\E k \in DOMAIN nodes : nodes[k].job = job) =>
        /\ \A s \in World : comm[s] # None
        /\ IsSuffix([i \in 1 .. Size |-> line(i - 1)], addresses)

\* In each job the ranks wait for each other forever only when one of them has
\* exited: otherwise all of them come to serve.
AllServe == []<>(Serving \/ Aborted)
=============================================================================
