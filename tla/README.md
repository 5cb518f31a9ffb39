# SERVIZ (ascent_microservice): TLA+ models and proofs

SERVIZ is a visualization service. Server ranks form *instances* that share an MPI communicator. Clients
send meshes and actions by RPC (Thallium/Mercury), and the ranks of an instance run Ascent on them together.
This directory holds TLA+ modules for the parts of the program that carry its own logic, TLC configurations
that check them on small instances, and theorems that TLAPS proves for all values of the constants.
Paths below are relative to `src/`.

Run `tlc -config modes.cfg MCVizServer.tla` (and so on, see the table of runs) and `tlapm VizServer_proofs.tla`.

## 1. Inventory

| Part of the system | State | Operations | What is hard | What makes it correct |
|---|---|---|---|---|
| `DummyNode`: queue and collective visualization (`src/dummy/DummyBackend.*`) | `pq`, a heap by client timestamp; the collectives each rank is in | `ams_open_publish_execute`, `ams_execute_pending_requests`, `ams_execute_one_request` | handlers of one rank interleave at the respond, differently on each rank; the ranks then agree by MPI collectives that block the only stream | collectives match, all ranks run the same request, none is lost or run twice, handlers return |
| `DummyNode`: the shared Ascent object | `ascent_lib` | `ams_open`, `ams_publish`, `ams_execute`, `ams_publish_and_execute`, `ams_close` | sessions of several clients on one object; two streams | nothing of a session outlives its client; publish and execute stay together on one stream, and on several if clients take turns |
| `ProviderImpl` (`src/ProviderImpl.hpp`) | `m_backends`, its mutex, `m_token` | create, open, close, destroy a node; check, say hello; forwarding of the Ascent calls | nodes removed while in use; errors answered with the mutex held | no deleted node is used, removal happens once, calls are atomic |
| `Provider` (`src/Provider.cpp`) | pointer to the implementation, a finalize callback keyed by its own address | construct, move, destroy, finalize | moves when the vector of providers grows; destruction before, during and after finalize | one owner for each implementation, all let go of by the end of finalize, stale callbacks only after a move |
| `NodeFactory` (`src/Backend.cpp`) | static maps of factories | register, create, open | unknown type, throwing factory | errors reach the client |
| `Client`, `NodeHandle`, `Admin` | handles to a provider and a node | one RPC each | asynchronous and one-way calls | – |
| `AsyncRequest` (`src/AsyncRequest*`) | shared `AsyncRequestImpl` with `m_waited` | copy, move, assign, wait, destroy | the last handle waits; exceptions | response taken once, none abandoned |
| `RequestResult`, `UUID` | a success flag and value; 16 bytes | accessors, formatting | – | – |
| Server program (`examples/server.cpp`) | address file, node file, communicators | start-up in rounds with barriers | order of appends, ranks that do not divide into the instances, a rank that exits, a second start with the files of the first | line *r* belongs to rank *r*; nodes are listed when the instances are complete; all or none serve |
| Example client (`examples/client.cpp`) | lines read from the files | find the servers, one session | reads while the servers write | finds its own rank's server and node |
| Example admin program (`examples/admin.cpp`) | addresses read, loop variable, a buffered stream to the node file | create, open, close, destroy, shutdown on every rank | starts before the servers are ready; a call that fails half-way; several runs at once | the node file can be read by rank; success means done everywhere; a listed node exists until it is asked to go |
| Bedrock module (`src/BedrockModule.cpp`) | – | makes and deletes a `Provider` | – | see `Provider` |
| SYMBIOMON metrics, tests, build | – | – | – | not modelled, see section 8 |

How they interact: a client rank calls the server rank with its own number. The RPC is a *handler* (a user-level
thread) in the rank's Argobots pool. It looks the node up in `m_backends` under the mutex, and then calls
the node, which may enter MPI collectives with the handlers on the other ranks. `server.cpp` makes one provider and
one node per rank, and writes the addresses and UUIDs to two files. The clients read them.

**Execution model.** `server.cpp` passes `-t` (default 0) to the engine: with 0 or 1 one execution stream runs
the handlers of a rank. A user-level thread gives way only where it yields, which is at the respond of an RPC (and
at a taken mutex). An MPI call blocks the stream. `VizServer` models this case for all ranks. `ProviderRegistry` interleaves
the handlers of a rank on any number of streams, `NodeStreams` and `AscentSession` take the number as a parameter.

## 2. Modules

| Module | Models | Composes |
|---|---|---|
| `PendingQueue` | the priority queue: `Compare`, push, top, pop with ties | |
| `VizServer` | one instance: the Ascent handlers of all ranks, queues, collectives, client calls, node removal | extends `PendingQueue`, refines `VizLog` |
| `VizLog` | abstract: the ranks run one common sequence of visualizations | |
| `VizServer_proofs` | theorems about `VizServer`, including the refinement | extends `VizServer` |
| `NodeStreams` | one node under the handlers of one rank on any number of streams, access by access, with its files | extends `PendingQueue` |
| `NodeStreams_proofs` | theorems about `NodeStreams` | extends `NodeStreams` |
| `ProviderRegistry` | `m_backends`, its mutex, every handler that touches them | refines `NodeRegistry` |
| `NodeRegistry` | abstract: a set of nodes with atomic calls | |
| `ProviderRegistry_proofs` | theorems, including the refinement | extends `ProviderRegistry` |
| `AscentSession`, `AscentSession_proofs` | the shared `ascent_lib` and the programs of its clients; theorems | |
| `ProviderLifecycle`, `ProviderLifecycle_proofs` | `Provider` objects and the engine's finalize callbacks; theorems | |
| `AsyncRequest`, `AsyncRequest_proofs` | handles of asynchronous calls; theorems | |
| `ServerBootstrap`, `ServerBootstrap_proofs` | starts of a server job, and clients that look for it; theorems | |
| `AdminProgram`, `AdminProgram_proofs` | runs of the admin program against the servers' registries; theorems | calls are atomic, which `ProviderRegistry` implements |
| `MC*` | constants for TLC | |

### VizServer
`ope[r][q]` is the state of rank `r`'s part of request `q`: *unsent*, *arrived* in the pool, *responding* (answered,
the handler is ready to go on after its yield), *pushed*, or *failed* (node not found). `running[r]` is the handler
inside an MPI call on `r`, `mode` what `AMS_SERVER_MODE` says, and `calls[r]` the collectives rank `r` has entered on its communicator, in order. An entry is
the kind of the collective, the request on top of the queue then, and the broadcast value. The last entry of a rank with
`running[r] # None` is the collective it is in.

| Action | Code |
|---|---|
| `SendRequest`, `SendPending` | `NodeHandle::ams_open_publish_execute` (asynchronous), `ams_execute_pending_requests` (one-way) |
| `Acknowledge` | `FIND_NODE` and `req.respond(result)` in `ProviderImpl::ams_open_publish_execute` |
| `PushRequest` | `DummyNode::ams_open_publish_execute` from `pq.push` to the first collective of its mode |
| `LeaveBcast`, `LeaveAllreduce`, `FinishViz` | the return of `MPI_Bcast`, `MPI_Allreduce` and `ascent.close()`, and all that follows up to the next collective or the return |
| `StartPending` | the handler of the pending call up to its first reduction |
| `RemoveNode` | `closeNode`, `destroyNode` |

A matched `MPI_Bcast` may let the root go on early; reductions and Ascent need every rank. Ascent from `open` to
`close` is one synchronizing collective, *viz*: its rendering uses the communicator. Collectives of different kinds in
one position never complete. MPI calls that is erroneous; a hang is the outcome modelled. `PoolLimit` stands for the 5 of
`pool_size < 5`, less the runtime's own threads in the pool, and `PoolSize` counts the other handlers that have not
returned. `Gate` says when clients call `ams_execute_pending_requests`. The code leaves that to the client programs:
*any* time, after all requests are *responded* to, or after all are *pushed*.

### NodeStreams
`pc[h]` is where a handler is, `pq` the queue, `touched[h]` the requests its present visualization has read, `open[h]` its open
files. `VizServer` takes the visualization as one step of one stream; here the read of the task id for the reduction (`ReadTask`),
the three reads for Ascent (`OpenViz`, `PublishViz`, `ExecuteViz`) and close and pop (`Finish`) are steps of their own. What the other
ranks do appears as outcomes: `ReturnQueued` for LAZY or a broadcast that says so, `Agree` or `Skip` after the reduction.
`StreamFree` keeps as many handlers inside as there are streams. With more than one stream the accesses race,
which is undefined behaviour; the module has the mildest outcome, in which each of them takes effect as a whole.

### ProviderRegistry
A handler's program counter names its place: before the mutex, holding it, found or missing, at the respond, working on the
node, at the end. `held[h]` is the node its `shared_ptr` keeps alive, `object[n]` whether the `Backend` exists. Finding a
UUID (`Probe`) and acting on it (`Erase`, `DestroyErase`, `Take`) are separate steps, so that what holds between them is
the mutex's doing. `RespondMissing` and `Leave` keep the code's order: the error is answered before the `lock_guard` goes.
`destroy()` of a dummy node always succeeds; wrong token, bad JSON, unknown type and a throwing factory are `Refuse`.

### AscentSession
Clients run their programs of calls in order with a barrier among their ranks, as `client.cpp` does. Each call is one step
of a handler, but for execute, which waits for the other server ranks, and `ams_publish_and_execute`, whose
two halves are separate steps: with one stream nothing fits between, with two it does. `regime` is what is agreed on outside of the code:
the number of streams, and whether clients take turns or overlap. Ascent reports an error when it is
asked to publish or execute outside a session. Clients that overlap do act in each other's sessions; `ForeignOnlyInOverlap` says that this
is the only way to come by a foreign session or mesh: an execution meets those of its own client or of one that is in the middle of its program on that rank.

### AsyncRequest
`self[h]` is what a handle's pointer points to; `doing` is the member function under way, which may be blocked in the wait
callback. `Temp` stands for the temporary request and the local pointer inside `computeSum`, which is why a failed assignment
does not wait for the new operation. One thread uses its handles: nothing in the class is synchronized.

### ProviderLifecycle
`self[a]` is `Provider::self` of the object at address `a` (`Gone` without an object, `Null` after a move or a reset). The engine is
external: `callbacks` is its stack, from which `pop_finalize_callback` takes the last entry of an owner. `Construct`, `Move`, `Destroy`
and `RunCallback` are the constructors, the move constructor (which pops the callback of the *new* object), the destructor and the callback. Objects are made
and destroyed in any order, which covers Bedrock's `new` and `delete` and the vector of `server.cpp`, and may outlive the engine. `wild` records a callback
that writes where there is no `Provider`; nothing is followed from there.

### AdminProgram
A run reads one line of the address file per step, then calls rank `i`. Ids go into `buffer`, the stream `addr_file`, and reach `file` when
it is closed: a list of less than 8 KiB, 221 ids of 37 bytes, is one write. `exit(-1)` does not flush it. A run that finds no line at all
has `n_ranks = 0` and reads an element of an empty vector (`admin.cpp:132`); it is taken to die there. Each call is one atomic operation of the rank's
registry, which is what `ProviderRegistry` is shown to implement. The servers (`WriteLine`, `Provide`) start at the same time.

### ServerBootstrap
One program counter per rank, the loop variable, the number of barriers entered, and the two files as sequences. A client
rank reads the files at any time, one after the other; a missing line is empty. `Restart` starts a job again
when it has been shut down or a rank has exited: the files are opened for appending, so its lines come after those of the first job. `instances` is
`AMS_NUM_SERVER_INSTANCES`, any number in the environment of the job. A remainder in `size/num_instances` makes one instance more, of the ranks left over;
no instances, or more than ranks (`~Splittable`), divide by zero at `server.cpp:88`, taken to end the rank after the first line of the address file is written. `MPI_Comm_split` and `MPI_Comm_dup` appear through
the communicator the providers get; that they synchronize is left out, which only adds behaviours.

## 3. Runs

Violation runs show where the code does something else than a comment or document says. Each of them checks one property.

| Run | Instance | Question and answer |
|---|---|---|
| `modes` | 2 ranks, EAGER, LAZY or LAZYISH, the root's pool full or not, 3 clients, a pending call once all requests are queued | do collectives match, do ranks run the same request, is none lost or run twice, are the queues alike at rest, does LAZY keep to the timestamps, does every handler return, is everything run, in one common log (refinement of `VizLog`)? Yes |
| `lazy_any` | LAZY, equal timestamps, two pending calls at any time, nodes removed at any time | is every queued request accounted for? Yes, though ranks may hang |
| `registry` | create, close, destroy and a call that answers before it works, on one node | no dangling node, no leak, one removal, every handler returns, calls are atomic (refinement of `NodeRegistry`)? Yes |
| `session` | 2 clients, 2 ranks, in turns or overlapping, on 1 stream or 2 | is what an execution meets always of its own client or of one that is at work there? Does a publish-and-execute run on its own mesh, unless clients overlap on two streams? Do all end, unless a client that overlaps closes the session? Yes |
| `async` | 3 operations, one of which may fail, 3 variables | is no operation let go of unawaited, is a response taken once? Yes |
| `bootstrap` | 5 ranks in two instances (and one rank left over) or in six (impossible), a rank that may exit, two starts with the same files, a client of 2 ranks | are the lines in order, are nodes listed only when the instances are complete and their ranks in the address file, do all or none serve, does the client find its rank? Yes |
| `lifecycle` | 3 addresses, 3 implementations, any order of make, move, destroy, finalize | one owner each, all released by finalize, stale callbacks only after a move? Yes |
| `streams` | 4 requests and a pending call on one node with one stream, any answers of the peers | is a visualization of one request from the reduction to the pop, are descriptors lost by skips only? Yes |
| `admin` | 3 runs with any of 6 command lines, 2 servers that start | can the node file be read by rank, does success mean done on every rank, does a listed node exist until its rank shuts down or a run is told to remove it? Yes |
| `v_sum` | EAGER, 3 ranks, 3 clients with task ids 1, 2, 3 | `SameRequest` fails: the ids sum up to `3 * 2`, so the rank with 2 on top goes on alone |
| `v_skip` | LAZY, equal timestamps | `SkipMeansSkip` fails: `ams_execute_one_request` prints "Skipping this request" and runs it |
| `v_viz` | 2 requests on a node with two streams | `VizAtomic` fails: a second request becomes the top between the reduction and the pop of the first |

Each property of a passing run has a mutant of the code (the operators commented "Seeded fault") that the run detects.

Other behaviours the modules have, seen while the runs were chosen, and kept out of the conditions of the passing runs:

* Requests of one client share a task id, so `SameRequest` fails for a client with two time steps under way (`DummyBackend.cpp:231`).
* A client is answered with success before its request is queued (`ProviderImpl.hpp:325`). A request may stay in the queue for good if nobody
  asks for the pending ones, and a pending call made after all answers may still overtake a request that is not queued yet.
* Clients that use a node at the same time act in each other's sessions, and a rank whose session was closed by another client never
  enters the execution its peers wait in: `ForeignOnlyInOverlap` and `SessionsEnd` say so, and exclude it for clients that take turns. `README.md` promises
  that multiple clients are served simultaneously; for these calls that is true of clients that do not overlap.
* "Publish and execute as a single atomic operation" (`DummyBackend.cpp:282`) holds with one stream. With two streams and overlapping clients
  (the regime `[streams |-> 2, turns |-> FALSE]`, which the antecedent of `PublishExecuteAtomic` leaves out) a mesh is published between the two halves of another client's call.
* `computeSum` with a request that is the last handle of an earlier operation waits for that one (`AsyncRequest.cpp:41`), though it is
  documented as non-blocking (`NodeHandle.hpp:82`).
* With `-n 2` the vector of providers grows and moves its first element: its callback stays on the stack under the old address (`Provider.cpp:35`).
  `StaleOnlyAfterMove` says that a move is the only way to get there.
* A pending call in EAGER or LAZYISH mode that overlaps requests meets their reductions with its own: `CollectivesMatch` and `HandlersReturn` fail.
* A client of a job that was started again with the files of an earlier one is sent to the earlier one. If a rank of that had failed to make its
  node, the lines of the two files no longer belong together: `OwnServer` asks for the node only if no rank has failed.
* `admin.cpp` sends the id of the node to remove to every rank, so with two ranks or more a run that closes or destroys never succeeds
  (`DoneMeansEverywhere`, last case): it removes a node of the first rank and then fails, and never gets to a node of a later rank. `ListedNodesServe` asks that no
  *other* node is removed, and allows the one that was asked for to go from any rank.
* With more than one instance, a client larger than an instance fails its assertion at `client.cpp:172`: the address file holds ranks of
  instances (`OwnServer` with `ClientSize = 3` in `bootstrap`).
* `size/num_instances` (`server.cpp:88`) rounds: 5 ranks asked for 2 instances make 3, of 2, 2 and 1. No clients are sent to the third, as clients count from the
  first line. No document says what is meant to happen.
* When the assignment to `*req` in `computeSum` throws the failure of an earlier operation, the new operation has been sent and has no handle.
  `NoneAbandoned` leaves these operations (`thrown`) out.

## 4. Bounds, and why they are enough

* Ranks: two show every disagreement between a pair of ranks. `v_sum` has three, since a sum of two ids passes the test of one rank only if
  they are equal.
* Requests: two can be pushed in different orders on two ranks. Three let a third one find a queue with a skipped request in it.
* `PoolLimit` 1 lets the root of a LAZYISH server find its pool full and not full with the same requests.
* `registry`: one node and one call of each kind; every hazard is between at most two removals and one use of one node. Nodes do not interact.
  Calls answered after the work (`Reply`) and one-way calls have the same lookup and are covered by the theorems, which hold for any set of calls.
* `session`: all four regimes of one or two streams, in turns or overlapping; two ranks, so that a rank can be a whole call ahead of its peer, and two clients, one of which publishes and executes twice, so that a mesh or
  session can be left over from the same client or come from the other.
* `async`: three variables cover copy, move and the last one; `MaxWaits` bounds repeated waits for a failed response.
* `bootstrap`: five ranks in two instances are two instances of two, so that there is more than one rank on each side, and a remainder; six are more than there are ranks.
  The rank that may fail is in the middle: some ranks have listed their nodes, others not. `MaxJobs` is 2: clients look at the first lines only, so a third job adds nothing they see.
* `lifecycle`: three addresses give a chain of two moves, and a place that is used again.
* `streams`: a handler, one that pushes meanwhile, and one before and after them; two requests have one timestamp. `v_viz` needs two.
* `admin`: with two ranks a run can fail after the first and before the last; three runs are one that makes nodes, one that removes them and one that makes them again.

`lifecycle` uses the symmetry of addresses and of implementations, which its invariants do not tell apart; no run with a temporal property uses
symmetry, and none a state constraint. Deadlock checking is on wherever the system must not stop: the models end
in a stuttering step `Rest` that is enabled only at rest. It is off (`CHECK_DEADLOCK FALSE`) where the system may really hang:
node removal (`lazy_any`), disagreeing ranks (`v_sum`, `v_skip`), clients that close each other's sessions (`session`, whose
property `SessionsEnd` names this case), a rank that exited (`bootstrap`). In `v_viz` it makes no difference.

## 5. Fairness

`VizServer`: weak fairness of each handler step of each rank (Argobots runs what is ready; MPI completes matched
collectives), and of the clients' sends, since the properties are about clients that get to the end of their programs. There is none
for `RemoveNode`. `ProviderRegistry`: weak fairness of each handler, which includes taking the mutex; with finitely many calls
the mutex cannot be taken from a waiting handler forever. `AscentSession` and `ServerBootstrap` are fair per process likewise. In
`ServerBootstrap` clients, failures and restarts have none. `ProviderLifecycle`, `NodeStreams`, `AdminProgram` and `AsyncRequest` are
checked for safety only and state no fairness. Liveness is checked by TLC only.

## 6. Proofs

TLAPS proves, for every value of the constants that satisfies the named assumptions of the modules:

| Theorem | Says |
|---|---|
| `VizServer_proofs!TypeCorrect` | `[]TypeOK`: queues have an earliest request on top, and `top()` is never read from an empty queue |
| `CollectivesAlwaysMatch` | `[](Regime => CollectivesMatch)`: in LAZY mode always, in the others until a pending call starts |
| `AlwaysSameRequest` | `SumTestExact => [](Unasked => SameRequest)` |
| `AlwaysAccounted` | `[]Accounted`, without any condition |
| `AlwaysTimestampOrder` | `Gate = "pushed" => []TimestampOrder` |
| `QueuesAlwaysAgree` | `Teardown = FALSE /\ SumTestExact /\ DistinctTs => []QueuesAgree` |
| `PendingCallsMatch` | `Waiting => [](CollectivesMatch /\ SameRequest)`, in every mode, through the pending calls |
| `ServerRunsOneLog` | `Waiting => OneLog`: the server implements `VizLog` |
| `ProviderRegistry_proofs!TypeCorrect`, `LookupAlwaysHolds`, `NeverDangling`, `AlwaysDestroyedOnce` | mutual exclusion, and what it is for |
| `NeverLeaks` | `[]NoLeak`: at rest the nodes that exist are those of the map |
| `ImplementsRegistry` | the provider implements `NodeRegistry`: calls are atomic |
| `AscentSession_proofs!TypeCorrect` | `[]TypeOK`: no more handlers are inside Ascent than there are streams |
| `AtomicOnOneStreamOrInTurns` | `[]PublishExecuteAtomic`: on one stream, or in turns on any number |
| `ForeignNeedsOverlap` | `OwnPrograms => ForeignOnlyInOverlap` |
| `AsyncRequest_proofs!TypeCorrect` | `[]TypeOK`: `computeSum` keeps no pointer when it is over |
| `AlwaysConsumedOnce` | a response that is no failure is taken once |
| `NeverAbandoned` | `[]NoneAbandoned`: an operation has a handle until it has been waited for, unless its `computeSum` throws |
| `ServerBootstrap_proofs!TypeCorrect` | `[]TypeOK`: no rank is a whole barrier ahead of another |
| `AlwaysOwnServer` | `(\A m \in Instances : m \in 1 .. Size => ClientSize <= Size \div m) => []OwnServer` |
| `AlwaysListed` | `[]ServingMeansListed` |
| `NodesAlwaysFindInstances` | `[]NodesFindInstances`, with a remainder or none |
| `ProviderLifecycle_proofs!TypeCorrect` | `[]TypeOK`: no callback is left when the engine is finalized; empty providers have been moved from |
| `AlwaysOneOwner` | `[]OneOwner` |
| `AlwaysReleased` | `[]ReleasedByFinalize`: no destructor after the end of the engine finds an implementation |
| `StaleNeedsMove` | `[]StaleOnlyAfterMove` |
| `NodeStreams_proofs!TypeCorrect` | `[]TypeOK`, on any number of streams |
| `AtomicOnOneStream` | `[]VizAtomic` if `Streams = 1`; `v_viz` shows that two are too many |
| `DescriptorsAlwaysBounded` | `[]DescriptorsBounded`, on any number of streams |
| `AdminProgram_proofs!TypeCorrect`, `FileAlwaysByRank`, `DoneIsEverywhere`, `ListedNodesAlwaysServe` | the invariants of `AdminProgram` |

The lemmas about the queue (`PushLemma`, `PopLemma`, `TopLemma`: what push and pop preserve) are stated in the two modules that use them.

* *Types* of `VizServer` are not inductive: the request of a new collective is the top of a queue, which must not be empty. The
  strengthening `HoldsWork` says that who is inside a collective has a request in the queue.
* *Collectives match* needs to know that ranks decide alike. `Protocol` ties each collective to the one before it (`Follow`): which
  kind follows from what the earlier one returned. `Settled` says the same of a handler that has returned. Two ranks with equal kinds
  and a common result go on with equal kinds. `Regime` is what makes the result common: in LAZY mode no request handler
  enters collectives; in the others no pending call may have started (`Unasked`) and the sum test must be *sound* (`SumTestSound`: a rank
  passes it only when all task ids are equal). `Unasked` is a condition on the state and not on the constants, so the theorem covers programs that do make pending
  calls, up to the first of them. Without soundness the theorem is false, which `v_sum` shows for the property next to it.
* *Same request* needs `SumTestExact`: who passes the test has the same request as all others. For two ranks with
  different task ids per request this is true, since `a + b = 2 * a` only if `a = b`. It is a hypothesis and not a lemma because the sum is
  a fold, whose value for every input is beyond the provers. The run `modes` satisfies it.
* *Accounted*: a rank inside a visualization runs the request on top of its queue (`OnTop`), which the pop takes away; `Placed` says where each request
  is, `RanOnce` that no two visualizations are of one request. The invariant concerns one rank at a time and needs no agreement.
* *Timestamp order*: when pending calls come after all requests are queued, nothing is pushed once a rank has entered a collective (`Closed`), so what has been
  visualized is at least as early as all that is queued (`Ordered`).
* *Queues agree*: the handler of each request opens one round of collectives (`CountInv`). Of two ranks that have handled the same requests neither has made fewer
  collectives (`NotShorter`), for its next one would open a round more. So they have visualized the same requests, have the others left (`Accounted`), and have the same one on top. The hypotheses
  are needed: with equal timestamps the tops may differ, and a removed node refuses requests on one rank only.
* *Pending calls* are made on each rank when it is ready, so that for a while some ranks reduce for their pending call and others are still in the collectives of the last
  requests. `Waiting` is `Gate = "pushed"`, no removed nodes, an exact sum test and distinct timestamps. Then every request is pushed before any
  rank begins a pending call, and `PendInv` holds from that moment: the request handlers of all ranks make `B` collectives in all (`Base`). The ranks in `A` have begun
  their pending calls and have made at least `B` (`Ahead`), the others are behind and make no more than `B` before they begin (`Behind`), and up to `B` all follow the rounds
  above. After `B` each rank reduces and visualizes in turn (`Turn`), and the n-th pair is about the n-th earliest request that `B` has left over (`Beyond`). A rank behind
  thus finds the collectives of the ranks ahead waiting for it. Each hypothesis is used: an earlier pending call may reduce where another rank broadcasts, and
  the left-over requests have one order only if timestamps differ (`v_skip`).
* *One log*: `RunsAt` finds the k-th visualization of a rank by counting (`Nth`, `Numbered`), and `RunsAppend` says that a new collective adds one run or none. A step that enters
  a visualization appends to the log or joins its last run, by `CollectivesMatch'` and `SameRequest'`; that no request is appended twice is `RanOnce`. All other steps stutter.
* *Registry*: `Inv` adds to the types who owns which node (`Owned`, `Made`), that a handler at work keeps its pointer (`Kept`), what a handler has achieved at each place (`Progress`), and that a removed node
  stays removed (`Removed`). The refinement maps each step to the abstract step or a stutter: the decision is taken when the mutex is held,
  by `Insert`, `Erase`, `DestroyErase`, `Take`, or `Probe` of a missing node. For `NoLeak`, `Held` and `Backed` say that only a handler under way holds a pointer, and that a node that is alive
  is in the map or in a handler's hand.
* *AscentSession*: with one stream nobody else is inside Ascent, and in turns nobody else has begun (`InTurns`); in both cases the mesh stays between the two
  halves of `ams_publish_and_execute` (`MeshHeld`). For foreign sessions, `NothingLeft` says that the owner
  of a session and of a mesh is in the middle of its program on that rank, since it closes the session at its end, and `MeshThere` that a client that still has its own session has a mesh
  to execute on. Both need programs that open first, publish before they execute and close at the end (`OwnPrograms`), as those of `client.cpp` do; a client that ends without
  a close leaves its session to the next one.
* *AsyncRequest*: `Called` says which handles a function under way has, `Sent` that shared operations are sent ones, `Taken` that an operation
  marked as waited for has had its response taken. Without `Called` an aliased move could be stuck with a temporary.
* *ServerBootstrap*: `BarrierInv` derives from a rank's place how many barriers it has entered, and that all others have entered those it has left. So what another rank wrote
  in an earlier round is in the files: `FileInv` says of each line of the two files when it is there and whose it is, also behind the lines of earlier jobs and after a failure, and `FoundInv` what clients have read.
  The ranks in the address file count from 0 again in each instance, so a client must not be larger than the first one. A job that cannot be split never gets past the first
  line (`NothingListed`). `ReadyInv` says which ranks have their providers, from the barrier after them; with the lines of `FileInv` that is `NodesFindInstances`.
* *ProviderLifecycle*: `Held` says that an owner of an implementation has a callback, which is what `ReleasedByFinalize` rests on: the
  engine is finalized when the stack is empty. `Tidy` says that at an address nothing was moved from there is at most one callback and it is the
  owner's; one `pop` in the destructor then removes all of them. `PopLemma` and `PushLemma` state what the stack holds afterwards; `FirstExists` finds
  the entry to pop with the well-foundedness of `<`.
* *NodeStreams*: with one stream `Alone` (at most one handler is inside) makes `Steady` inductive: the queue is not empty and what the handler has read is
  the top, as long as it is at work. Nobody pushes meanwhile, because `FreeMeansNobody`. For the descriptors `OpenInv` says that who has files open is inside or has skipped.
* *AdminProgram*: `Listed` says what the buffered stream of a run holds and `Worked` what it has done so far; that the file is whole lists (`WholeLists`) then survives the close of any run's stream.
  `Kept` says of every node that was made that it is on its rank, or why it is not, and `FileMade` that the file names only such nodes.

Only model-checked: all liveness (`HandlersReturn`, `EverythingRuns`, `EveryCallEnds`, `SessionsEnd`, `AllServe`), which needs `ENABLED` and is out of the provers'
reach. Every invariant and every refinement of the runs is stated by a theorem. Where a theorem has a hypothesis that the property of the run does not name, the
run's constants satisfy it. Nothing is claimed of `CollectivesMatch` for EAGER and LAZYISH servers whose pending calls overlap requests.

## 7. Plan

Order: (1) `PendingQueue`, `VizServer`, `VizLog`: the core. (2) `NodeRegistry`, `ProviderRegistry`. (3) `ServerBootstrap`,
`AscentSession`, `AsyncRequest`. (4) `ProviderLifecycle`, `NodeStreams`, `AdminProgram`, restarts in `ServerBootstrap`. (5) The proofs of section 6. These exist. Still to do:
which pending calls in EAGER and LAZYISH mode may overlap requests without a hang, as a run and a theorem.

## 8. Not modelled

* Formatting, parsing and serialization (Conduit JSON and base64, UUID text, the log files of `DummyNode`), the mesh data and the actions:
  the properties tell requests apart, not their contents.
* `m_token`: a wrong token is one of the reasons of `Refuse`. It is set before handlers run.
* The clients' `completed()`, which changes nothing; `Provider::setSecurityToken`, called before handlers run, and `getConfig`, a constant; UUID collisions.
* `RequestResult` and `UUID`: a flag with a value, and sixteen bytes; their accessors and text forms keep no state.
* `NodeFactory`: the maps are filled by static objects before `main`; an unknown type is an outcome of `Refuse`.
* The Bedrock module beyond `Construct` and `Destroy`. The SYMBIOMON metrics, which are written and never read.
* Ascent, Conduit, MPI, Thallium, Mercury, Argobots: external, modelled by how the code uses them. Lost or duplicated messages are
  not modelled: Mercury's transports deliver or fail, and the code has no timeouts and no retries.
* Data races of `NodeStreams` beyond their mildest outcome, and handles of `AsyncRequest` that are shared by threads: undefined, and not documented as allowed.
* Integer widths: task ids and timestamps are small numbers in use; the overflow of `top_task_id*size` is listed as a hazard.
* `tests/`: one process without concurrency; read for the intended behaviour. Build files.
