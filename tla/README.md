# A TLA+ model of Open MPI's message layer

This directory holds TLA+ modules for the parts of Open MPI (the C sources
beside it) whose correctness depends on the order in which threads, processes,
callbacks and messages act; the TLC configurations that check small instances
of them; and TLAPS proofs of the central facts for every instance. Paths below
are relative to the root of the sources.

Contents

1. The system: inventory
2. Modules and how they correspond to the code
3. Runs: what is checked, on which instances, and what it shows
4. Fairness
5. Proofs
6. Findings, and smaller observations
7. Not modelled

## 1. The system: inventory

Open MPI is four layered libraries (`opal`, `orte`, `ompi`, `oshmem`), each a
set of frameworks with several components. The components field of
`PROJECT.json` lists every part with its sources and status. What follows is
the part of the inventory that matters for modelling: state, operations,
partners, what makes it hard, and what should hold.

### Point-to-point messaging

**ob1 matching** (`ompi/mca/pml/ob1/pml_ob1_recvfrag.c`, `pml_ob1_recvreq.c`,
`pml_ob1_iprobe.c`, `pml_ob1.c`).
State: per communicator a matching lock, the wildcard receive queue and a
counter of receives; per peer the expected 16-bit sequence number, the
out-of-sequence list, the unexpected fragments and the receives naming that
peer. Operations: arrival of a fragment, drain of the out-of-sequence list,
posting of receives and probes, cancel, creation of the communicator with
fragments waiting for it.
Hard: fragments of one peer arrive in any order over several BTLs; threads act
on the list after giving the lock up; sequence numbers wrap; a receive may be
cancelled while another thread gives it a message.
Should hold: messages of a sender match in the order sent, to receives in the
order posted; none is lost, matched twice, or left on a list nobody looks at.

**ob1 transfer** (`pml_ob1_sendreq.[ch]`, `pml_ob1_recvreq.[ch]`,
`pml_ob1_rdmafrag.h`, `pml_ob1_progress.c`).
State: per send request the count of events still expected, the bytes
delivered, the ranges left to send, the pipeline depth, a lock counter; per
receive request the offsets of the two pipelines, the bytes received and the
gets in progress; the lists of pending work of the process. Operations: six
ways to start a send; ACK, FRAG, PUT, FIN and completion callbacks; the two
scheduling loops; retry of pending work; fallback of a failed get.
Hard: every callback may run in another thread and in any order; any step may
find no resource and be retried later through another path; headers carry raw
pointers to the requests of the other side.
Should hold: every unit of the message arrives once; nobody completes before
it does; no message names a request that has completed; both sides complete.

**Requests** (`ompi/request`, `opal/threads/wait_sync.[ch]`).
State: one word per request (pending, completed, or the address of a waiter's
sync object) and the list of waiting threads, the first of which drives
progress. Operations: wait, wait_any/all/some, test, complete.
Hard: completers and waiters race on the word by compare-and-swap; a waiter's
object lives on its stack; threads hand the progress engine on.
Should hold: a completed wait implies a completed request; the object is not
used after it was destroyed; no thread sleeps while its request is complete.

**bml r2 and the BTLs** (`ompi/mca/bml/r2`, `opal/mca/btl/*`). vader: lock-free
FIFO and fast boxes in shared memory. tcp: two processes that connect to each
other at the same time decide by name which connection survives. The others
are drivers for external libraries. Should hold: each fragment delivered once;
one connection per pair of processes.

**cm/mtl, ucx, yalla**: matching is delegated to libraries outside the
repository. **v/pessimist, crcp/bkmrk**: message logging and bookmark exchange
for checkpointing.

### Communicators and collectives

**Context ids** (`ompi/communicator/comm_cid.c`): rounds of allreduce in which
all members of a new communicator agree on an id free at each of them; several
creations may run at the same time in several threads. Should hold: all
members get the same id, no two live communicators of a process share one, no
deadlock between creations.

**coll/base, tuned, libnbc, sm**: barrier, broadcast, reduction and so on as
patterns of sends and receives, libnbc as schedules of rounds driven by the
progress engine. Should hold: the result, and no deadlock over FIFO channels.

**Groups, topologies, attributes, datatypes, operations, files**: sequential
code, mostly pure.

### One-sided communication

**osc/rdma**: shared and exclusive locks as words in remote memory, changed by
fetch-and-op and compare-and-swap. **osc/pt2pt**: lock queues and epochs by
messages, ended by counters of fragments. **osc/sm**: ticket locks. Should
hold: mutual exclusion, progress, an epoch ends only when all its operations
are done.

### Portable layer

**Lock-free LIFO and FIFO, free lists** (`opal/class`): counted pointers and
waiters. **Containers** (bitmap, pointer array, ring buffer, interval tree,
hotel, red-black tree, hash table). **Progress engine** (`opal_progress.c`): an
array of callbacks replaced while other threads walk it. **rcache/grdma**:
reference-counted registrations, evicted and invalidated by memory hooks.
**dss, pmix, hwloc, event**: marshalling and embedded libraries.

### Run-time and OpenSHMEM

**rml/oob/routed**: messages between daemons over a tree of TCP connections.
**grpcomm**: allgather and broadcast over that tree. **state/plm/odls/errmgr**:
the life cycle of jobs and processes in one event loop. **rmaps/ras**:
placement. **memheap, scoll, shmem_lock**: symmetric heap, collectives, and a
distributed queue lock.

## 2. Modules and how they correspond to the code

| module | models |
|---|---|
| `Ob1OrderedList` | the out-of-sequence list of ob1 as operators |
| `Ob1Match` | the matching engine of one communicator at one process |
| `MpiMatching` | what matching promises: FIFO channels, earliest fit (abstract) |
| `Ob1Transfer` | the transfer of one message between a send and a receive request |
| `RequestWait` | request completion, the wait and test calls, `wait_sync` objects |
| `OpalProgress` | the progress engine and the callback of ob1 that switches itself on and off |
| `OpalLifo`, `OpalFifo` | the lock-free containers, access by access, in three builds |
| `ItemStack`, `ItemQueue` | a stack and a queue with atomic operations (abstract) |
| `FreeList` | free lists that grow, with threads that sleep until an item returns |
| `VaderFifo`, `VaderFbox`, `VaderEndpoint` | btl vader: FIFO, fast box, and the endpoint that chooses between them |
| `TcpEndpoint` | btl tcp: two processes that may connect to each other at once |
| `CollBarrier` | the six barrier algorithms over point-to-point messages |
| `CommCid` | the agreement on the context id of a new communicator |
| `OscRdmaLock` | osc rdma: window locks as words in remote memory |
| `OscSm` | osc sm: ticket locks, epochs and fences in shared memory |
| `OscPt2pt` | osc pt2pt: locks, epochs, fences and operations over messages |
| `ShmemLock` | the distributed lock of OpenSHMEM |
| `MCOb1Match`, `MCOb1MatchParts`, `MCMatching`, `MCOb1Transfer`, `MCSharedMemory`, `MCProcesses`, `MCWaiting`, `MCProtocols` | instances for TLC |
| `Ob1OrderedListProofs` | theorems about the out-of-sequence list |
| `Ob1MatchInvariant`, `Ob1MatchPlaces`, `Ob1MatchProofs` | theorems about the matching engine |
| `Ob1TransferSender`, `Ob1TransferReceiver`, `Ob1TransferProofs` | theorems about the transfer |
| `OscRdmaLockProofs` | theorems about the window locks |
| `LeastElement` | the statement that sets of naturals have least elements, for the proofs about matching |

`map` in `PROJECT.json` gives the source lines of every definition. Definitions
whose name ends in `_mut` are deliberate mistakes used to see that a property
can fail; no specification uses them.

`MCMatching`, `MCSharedMemory` and `MCProtocols` put several instances into one run.
Their variable `part` is chosen in the initial state and never changes; a
behaviour is a behaviour of the instance it names, and the variables of the
others stay at `Unused`. The instances do not interact there: it is the disjoint
union of their state spaces. Each property of a component is repeated in the MC
module for its part, together with related ones where that makes one statement
of them. `MCMatching` extends `Ob1Match` itself and `MCSharedMemory` extends
`OscRdmaLock`, in the mode with two levels, so that the properties they check
there are the ones the proofs are about; their other parts are instances, with
variables of their own. `MCProtocols` extends `MCProcesses`, the protocols between
processes, which extends `MCWaiting`, where the calls of a program wait, and takes
one part of `MCOb1MatchParts` as an instance. A module that is used only in this way
states what it asks of its constants as a definition (`TcpAssumption`, ...), which
the MC module assumes.

### Ob1OrderedList

In C the list is a ring of fragments, each with an optional second ring of
fragments with the following numbers. The module represents it as a sequence
of ranges that starts at the head of the queue. All comparisons are kept as C
makes them: 16-bit operands promoted to `int`, with `s + 1` not truncated and
`(a - b)` truncated where the code stores it in a `uint16_t`. `SeqMod` stands
for 2^16.

### Ob1Match, MpiMatching

One critical section of the matching lock is one step. What a thread does
outside the lock is a step of its own:

| action | code |
|---|---|
| `Send` | the sequence number a send draws; the fragment is on the wire |
| `RecvFragNoComm` | `recv_frag_match`, communicator not known yet |
| `RecvFragOutOfSequence`, `RecvFragInSequence` | `recv_frag_callback_match` and `recv_frag_match` under the lock |
| `Progress` | after the lock: the match is marked (`recv_req_matched`) |
| `CheckCantMatch` | `frags_cant_match` read without the lock |
| `RelockMatch`, `RelockNothing` | `check_cantmatch_for_match` under the lock again |
| `AddCommBegin` ... `AddCommEnd` | `mca_pml_ob1_add_comm` |
| `StartNoMatch`, `StartMatch`, `StartProgress` | `mca_pml_ob1_recv_req_start` for receives and the four kinds of probe |
| `Mrecv`, `Cancel` | `mca_pml_ob1_imrecv`/`mrecv`, `recv_request_cancel` |

A message is its sender, its number and an envelope (tag, and whether it is a
complete message or a rendezvous header). `log` is the only history variable:
per peer the numbers of the messages that matching consumed, in that order.
Receive queues are sets whose order is the posting number `req_sequence`,
because the code only appends to them and walks them in that order.
Bounds: `MaxSend` messages per peer and `Window` messages of a peer sent and
not yet matched. `Window <= SeqMod` is the assumption under which the code's
sequence numbers can work at all.

`MpiMatching` has no sequence numbers, no out-of-sequence list and one queue of
receives. `Ob1Match!ImplementsMpiMatching` maps the messages in transit, in
order of their numbers, to the channels, and both receive queues to the
waiting requests. A fragment consumed in sequence is the abstract `Offer`;
steps outside the lock are stuttering steps.

### Ob1Transfer

The message is a set of units, each as much as one FRAG, one put or one get
carries. `setup` is chosen once: length and mode of the send, contiguous
buffers or not, which registrations succeed, what the BTL can do and which
operations may fail. `snd` and `rcv` are the two requests with the code's
counters and flags; `net` holds the headers in flight as sets, since nothing
orders them.

A handler is one step, except for the two scheduling loops
(`send_request_schedule_exclusive`, `recv_request_schedule`): a thread inside
a loop holds the request through the lock counter, and other handlers run
between two iterations, between the last iteration and the unlock, and between
the unlock and the completion check. `Lacking(ops)` names the operations that
find no resource in a step. `fails` bounds how often that happens. Pending
work may be retried at any time, because completions of other requests also
run `MCA_PML_OB1_PROGRESS_PENDING`. Where the code calls `ompi_rte_abort` there
is no step.

### RequestWait

`req_complete` of a request is pending, completed, or the thread whose sync
object hangs on it; each compare-and-swap, swap and atomic decrement is a step.
A thread follows `Programs`, a sequence of wait and test calls on its `Array` of
requests, and may complete requests of others while it progresses, as the
callbacks of a BTL do. `wait_sync_list` is the list of waiting threads, whose
head drives `opal_progress`; the others sleep on the condition of their object.
`fr` holds the locals of a call, `cf` those of a completion under way. A request
in `MayFail` may complete with an error.

### OpalProgress

The two arrays of callbacks live in `mem`, which is replaced when it is full
and freed (`freed`) while other threads walk it; `walk` is the position of a
thread in `opal_progress`. Registration and removal are under `progress_lock`
and move entries one at a time. `needed` and `send_pending` are the counter and
the pending sends of `pml_ob1_progress.c`.

### OpalLifo, OpalFifo, FreeList

Each access to a shared word is a step. `Variant` selects the build: a 128-bit
compare-and-swap, load-linked and store-conditional, or a compare-and-swap of
one word with a flag per item (LIFO) or a lock value in the head (FIFO). An
item that was popped may be pushed again by any thread, so that the ABA case
occurs. `StartThreads` is the switch from the single-threaded forms. The
refinement is per step: the step in which an operation takes effect is one of
`ItemStack` or `ItemQueue`, and all others stutter. `FreeList` uses the LIFO as
an atomic stack, which is what the refinement allows, and has the mutex, the
counters and the condition variable of `opal_free_list_wait_mt`. `Growth` is how
many items a growth adds: the number asked for, cut to what is left below the
maximum (`Clamp`), and then raised to what whole pages hold (`FillPages`), which a
default flag of the list asks for when items have a payload.

### VaderFifo, VaderFbox, VaderEndpoint

`VaderFifo` has the head and tail of each FIFO and the `next` of each fragment
as shared words, with writers of several threads and one reader. `VaderFbox`
is the ring of the fast box: one memory word per unit, a header with length and
sequence number, start and end offsets with the wrap bit, and the sender's copy
of the reader's position; headers are written and read as the code does, the
payload unit by unit. `VaderEndpoint` takes both as reliable channels and adds
what decides between them: the set-up of the fast box by one of several
threads after `FboxThreshold` sends, the list of waiting fragments, the list of
endpoints that wait, and the three locks.

### TcpEndpoint

Two processes, one link. The state of `mca_btl_tcp_endpoint_t` with its socket,
its queue and the events it waits for; `net` the sockets between the two, `open`
which ends are open, `unread` what has been written and not read. Connects may
cross; the handshake with the identifier, the comparison of names, the refusal
of the loser and the events that are left over are steps. `aborted` is the end of
the job where the code calls `exit` or the error callback.

### CollBarrier

An algorithm is a function of rank and size to a sequence of operations (send,
receive, exchange, receive all), written as the loop of the C function writes
it; the steps are those of the PML, which matches the messages of a rank in
order and may or may not buffer a send.

### CommCid

`ctx` is the context of one creation at one process (`ompi_comm_cid_context_t`)
with its position in the chain of callbacks: the lowest free id, the allreduce of
maxima, the check and its allreduce of minima, the activation. `table` is the
pointer array of communicators of each process. The allreduce is external: it
delivers its result to a process once all members have contributed.

### OscRdmaLock

Every target has a `local_lock` (a bit for an exclusive lock, a count of shared
ones); in the two-level mode the leader has a `global_lock` whose halves count
those who want an exclusive lock and those in `lock_all`. The code only asks
whether a field is zero, so `word` keeps per field what each process has added to
it. `flight` counts the releases that are sent off and have not arrived, `at` says
where a process is in its call. Every atomic operation on a remote word is one
step. `TwoLevel` selects the mode.

### OscSm

`node` is the shared state of each process (lock words, `complete_count`), `posts`
the words of bits by which posts are announced, `sense`, `my_sense` and `count` the
barrier of the fence with its mutex and condition. The counters of the ticket
lock keep their width (`Width` for 2^32), so that they wrap in the instance.
`stale` notes that an epoch has begun with completions of an earlier one.
Processes follow `Programs`.

### OscPt2pt

The component refuses `MPI_THREAD_MULTIPLE`, so a process is one thread: a step
is what a call does between two waits, or one callback of `opal_progress`.
`win[p]` is `ompi_osc_pt2pt_module_t` with its peers: the lock word and the queue
of locks, the objects of outstanding locks and `all_sync`, the counts of
fragments sent and received, the fragment at hand and those queued, the queue
of accumulates. `wire[p][q]` are the messages with the tag of fragments, in order:
a message of fewer than `Room` operations arrives in order and at once, a full
fragment uses the rendezvous protocol and may be overtaken. `moving` are the data
of long operations. The operators that stand for functions of the code have
their names and take the state as a record; `With` and `Become` only make TLC
evaluate it once. `unfinished`, `stray`, `holders` and `hasty` record what the
properties are about.

| actions | code |
|---|---|
| `Lock`, `SelfLocked`, `Unlock`, `Unlocked` | `lock_internal`, `lock_self`, `unlock_internal` |
| `Flush`, `Flushed`, `FlushLocal`, `Sent` | the four flush calls |
| `Operate`, `BeginLong`, `SendLong`, `OperateSelf` | put, get, accumulate |
| `Fence`, `Reduced`, `Counted`, `LeaveFence` | `ompi_osc_pt2pt_fence`, between its waits |
| `Start`, `Complete`, `Post`, `ExposureEnds`, `TestFails` | `osc_pt2pt_active_target.c` |
| `Receive`, `RetryPending`, `DataAtOrigin`, `DataAtTarget` | `component_progress` and the callbacks of requests |

### ShmemLock

`word` is the copy each PE has of the lock, of two words. The
first is the last PE of the queue at the server, the count with the inform bit
elsewhere; the second is the next PE. `counter`,
`lock_turn`, `lock_last_ticket` and `lock_inform` are what the server keeps beside
it, `pe` the locals of a call, `order` the PEs with a place in the queue. Each remote
operation is a step. `LockSize`
distinguishes the 8-byte lock of C from the 4-byte lock of Fortran, and
`Recursive` the nested form.

## 3. Runs

Every run is a `.cfg` file and its MC module, for example
`tlc -workers 2 -config Matching.cfg MCMatching`.

No run checks deadlock: a process that has made all the calls of its program,
or sent, posted and matched all it may under the bounds, really stops. That
nothing stops too early is what the liveness properties say.

### Passing runs

**`matching`** (`MCMatching`). *rules*: two threads, three messages, three requests of
every kind, one of which may be cancelled: `TypeOK` and `InOrder`; every message
is in one place (`ExactlyOnePlace`); a fragment that is next is not left on the
list with nobody about to look (`NoStrandedFragment`); no receive and fragment
that fit wait for each other (`NoMissedMatch`); messages match in the order sent
and receives in the order posted (`MatchingOrder`, which is `NonOvertaking` and
`PostOrder`). All six are proved, see 5: `NoStrandedFragment` for the instances
in which numbers do not wrap, the others for every instance. *order*: one peer,
three threads, five messages, numbers modulo 8. *wild*: two peers, two threads,
receives from one of them or any. *asserts*: a communicator with
`allow_overtaking` and `no_any_source`. Fragments that arrive in any order,
before and after the communicator exists, are consumed once, the look at the
list outside the lock loses none as long as numbers do not wrap, and the
shortcuts of a communicator with both assertions lose nothing (`NothingIsLost`,
which is `ExactlyOnePlace` in *order* and *asserts*, with `NoStrandedFragment` in the
one and `NoMissedMatch` in the other); with *wild*, the engine implements
`MpiMatching` (`ImplementsMatchingRule`). Two threads are interchangeable in every
part, and TLC uses that (`SYMMETRY`).

**`transfer`** (`MCOb1Transfer`). Messages of 0, 1 and 3 units in every mode, for
every kind of buffer and BTL, with descriptors and registrations that run out
twice; one unit read by a get that falls back on a put or on copies; two units
where any operation may fail. No unit is transferred twice, and none is lost but
those that the loop of the gets never comes to because it is left when the
resources for a get and for the ACK that would replace it are both lacking
(`UnitsConserved`, `pml_ob1_recvreq.c:787`); the receive completes with everything, and the send when its
buffer may be used again (`CompleteMeansDone`). On a BTL that completes what it
accepts no header in flight names a completed request, the pipelines keep to
their depth and the `rdma_frag` is released (`ReliableTransfer`). Both requests
complete, unless any operation may fail (`CompletesUnlessAllFail`). `TypeOK`,
`UnitsConserved` and `CompleteMeansDone` are also proved, see 5.

**`shared_memory`** (`MCSharedMemory`).

| part | instance | properties |
|---|---|---|
| lifo, three builds | 3 threads, 2 items; the main thread makes 5 operations, the others 1 | `ListsAreWhole`, `ImplementsStack` |
| fifo, three builds | the same; 2 threads with the 128-bit compare-and-swap | `ListsAreWhole`, `ImplementsQueue` |
| free list | 3 threads, a maximum of 3, pages of 2 items | `PoolIsAccounted` |
| windows of osc rdma, two levels | 3 processes, 2 targets, 4 epochs, 1 release in flight | `MutualExclusion`, `WordsAreOwned` |
| windows of osc rdma, on demand | the same | `OnDemandExcludes` |

**`protocols`** (`MCProtocols`).

| part | instance | properties |
|---|---|---|
| requests | 3 threads, 3 requests, one of which may fail, 6 programs of the eight wait and test calls | `AssertionsHold`, `NoDanglingSync` |
| engine | 2 threads, one walks; and 1 thread whose array has to grow | `CallbacksAreKept` |
| connection | 2 processes that send 3 fragments each | `AssertionsHold`, `OneConnection` |
| barrier | 2 to 4 ranks, six algorithms, two barriers | `BarrierHolds` |
| windows of osc pt2pt | 3 processes, 13 programs, 2 operations in a fragment | `WindowLocksExclude`, `OperationsAreCovered`, `EpochsComplete` |
| these | | `TypeOK`, `EveryWaitReturns` (liveness) |
| fifo of vader | 3 threads in 2 processes, 3 fragments | `MessagesInOrder` |
| fast box | ring of 8 units, 4 messages of up to 3 units | `MessagesInOrder` |
| endpoint | 2 threads, 3 and 2 sends, box after 2 | `MessagesInOrder` |
| context ids | 3 processes, 2 creations at once, one process may fail | `Agreement`, `SlotsAreOwned`, `NobodyIsEarly` |
| OpenSHMEM lock, C and Fortran | 3 PEs, 4 and 3 calls | `LockIsQueue` |
| windows of osc sm | 3 processes, 9 programs, 2-bit tickets | `LocksExclude`, `AccessIsExposed`, `FenceHolds` |
| these | | `EverythingArrives` (liveness) |
| order | the part of that name of `matching` | `EverySentIsConsumed` (liveness) |

Some of these hold with exceptions, which the definitions state exactly:

- `NoDanglingSync`: no request keeps the address of an object that was released. When
  the flag lets a call release its object, a completion may still hold it in two
  cases. A decrement of `wait_any` or `wait_some` is under way that does not signal;
  what it can do is the subject of `wait_some`, a violation run. Or a request of the
  call has failed: its completion signals whatever the count is
  (`wait_sync.h:116`). The completions of `wait`, and of a `wait_all` in which nothing
  failed, have always finished.
- `EveryWaitReturns`: a `wait_all` that finds a request complete with an error when it
  attaches to it skips the wait and then spins on the flag of its own object
  (`Spins`; `req_wait.c:234`, 380), although the comment at `req_wait.c:265` describes how
  it is to go on. In osc pt2pt a long operation under a lock that is not checked
  waits for ever (`StuckUnchecked`), and so does a request for a lock that an
  unchecked `lock_all` has left behind (`KeptOut`). All of them occur in the
  instances, and nothing else waits for ever.
- `WindowLocksExclude`: a process that an unchecked `lock_all` has left with a shared
  lock of a target (`left`) does not ask again when it locks that target exclusively
  (`osc_pt2pt_passive_target.c:126`).
- `EpochsComplete`: when an epoch ends its operations are done at the target and, but
  for the gets of an epoch whose lock is not checked, at the origin; a flush does
  not wait for the data of gets. `window_get` is the violation run for both.

### Why the bounds are enough

*Matching*: three fragments are needed for a list with two ranges and one
fragment to merge them; three threads for one to match, one to add to the list
and one to look at it; two requests of different queues and one more for each
order of posting. The modulus replaces 2^16; nothing else in the code depends
on its value, and the proofs hold for every modulus.

*Transfer*: with an eager limit of one unit, three units give a rendezvous with
two more transfers, so that the pipeline (depth 1 for copies, 2 for puts) is full
and has to be restarted; 0 and 1 are the empty and the eager message. Two
failures are needed for the retry of a retry. Where every operation may fail two
units are used; with three the state space is out of reach.

*Containers*: while one thread is between two of its accesses, the others can
take an item, use another and put the first back, which is what counted
pointers and flags are there for.

*Requests*: three threads give a head of the list, one behind it and one that
completes the requests of both; two requests in an array give a wait that is
half satisfied. With two requests a late decrement finds no later call to harm,
since the array has one request left at most; `wait_some` has three.

*vader, tcp*: the ring holds fewer messages than are sent, so that it is full,
its end is too short and it wraps; three fragments per process are the one that
starts the connection, one queued during it, one after it.

*Context ids, locks, windows*: with three processes there is one that holds, one
that waits, and one that arrives. The programs of the windows are those listed
in the MC modules: every call, each kind of lock and epoch against each other
and after each other, and the calls that are refused. `Room = 2` makes a
fragment full with the second operation, so that a request that ends an epoch
has to go in one more.

*Barrier*: 4 is the least size with two rounds of bruck and of recursive doubling,
3 the least that is not a power of two.

### Violation runs

`match_cancel_race`, `match_wraparound`, `transfer_put_ack`,
`transfer_get_failed`, `free_list_blocked`, `progress_lost`, `wait_some`,
`window_get`: see 6.

## 4. Fairness

All fairness is weak.

*Matching* (`Matches` of `MCProtocols`): a thread goes on with the handler it is in,
activates the communicator, or polls the BTLs, as long as it can do one of
these. No fairness is assumed of sends and posts.

*Transfer* (`Ob1Transfer!FairSpec`): `WF(Next)`. All that can happen to a message
is driven by the progress engines of the two processes, which `opal_progress`
calls as long as somebody waits. Every step brings the message forward or uses
up a failure, so that weak fairness of the whole relation is enough.

*The other parts of `protocols`*: each thread or process goes on as long as it can take
a step of its own (`First`, `Second`, `Third`). In detail: a thread that waits for a
request keeps running, and the head of the list of waiters calls
`opal_progress`, which completes what can be completed; the event loop of each
tcp process runs; a rank in a barrier makes its next call, but a send is never
assumed to be buffered; a reader of vader polls; a process that holds a lock of
a window or of OpenSHMEM gives it back, since its program goes on; spurious
wake-ups of `pthread_cond_wait` are possible and not fair. In osc pt2pt a process
that waits calls `opal_progress` (`opal_condition_wait` does, in a process with one
thread). A process that computes for ever without calling MPI is outside of
these assumptions, as it is in the MPI standard.

No liveness is claimed for `OpalLifo`, `OpalFifo` (lock-free, not wait-free),
`FreeList` (see 6) and `OscRdmaLock` (two attempts may refuse each other for ever).

## 5. Proofs

`tlapm M.tla` checks the proofs of module `M`, for each module with theorems in
the table of section 2. A module only states lemmas it proves; the theorems worth
reading are these.

| module | theorem | says |
|---|---|---|
| `Ob1OrderedListProofs` | `RemoveHeadRemoves` | the out-of-sequence list keeps its form and loses exactly its head |
| `Ob1MatchProofs` | `AppendAdds` | the out-of-sequence list keeps its form and gains exactly one fragment |
| | `TypeCorrect` | `Spec => []TypeOK` |
| | `InOrderAlways` | `Spec => []InOrder` |
| | `NoMissedMatchAlways` | `Spec => []NoMissedMatch` |
| | `MatchingOrderAlways` | `Spec => []MatchingOrder` |
| | `ExactlyOnePlaceAlways` | `Spec => []ExactlyOnePlace` |
| | `NoStrandedFragmentAlways` | `Spec => []NoStrandedFragment`, given `MaxSend < SeqMod` |
| `Ob1TransferProofs` | `TypeCorrect` | `Spec => []TypeOK` |
| | `UnitsConservedAlways` | `Spec => []UnitsConserved` |
| | `DataMovedAlways` | `Spec => [](ReceivedAll /\ DataSent)` |
| | `CompleteMeansDoneAlways` | `Spec => []CompleteMeansDone`, given `DataInHeader` |
| `OscRdmaLockProofs` | `Exclusion` | `Spec => []MutualExclusion` |
| | `Ownership` | `Spec => []WordsAreOwned` |
| | `Inductive` | the invariant both follow from |

### The out-of-sequence list

For every modulus and every list: `AppendAdds` says `append_frag_to_ordered_list`
yields a sequence of non-empty ranges whose fragments are those of the old list
and the new one, each in one place; `RemoveHeadRemoves` says the same of the
removal of the head. No assumption on the order of the list is needed, and none
could be made: after a wrap the list is not sorted. Lemmas follow the code: where
`prior` stops, insertion of a range, rotation of the ring, merge of two
neighbours, first inside the list, then across its end. While numbers do not
wrap there is more: the ranges go up from the head, and both operations keep
that (`AppendSorted`, `RemoveSorted`).

That `prior` stops at all is that a set of naturals has a least element, and
in `Ob1OrderedListProofs` a hypothesis (`Least`, of the module `LeastElement`);
`Ob1MatchProofs` derives it from `WellFoundedInduction` and states `AppendAdds`
without it.

### The matching engine

For every number of peers, threads, requests and messages, every set of envelopes
and of receives, with and without the assertions of the communicator, and every
`Window <= SeqMod`. There are four inductive invariants; the third is in
`Ob1MatchProofs`, the others in `Ob1MatchInvariant`.

*Messages in transit*, `IInv`. `InOrder` is not inductive: an arriving fragment is
compared with the expected number modulo `SeqMod` only, so one must know that no
other fragment in transit has the same number cut to that width. `IInv` adds: a
thread outside "idle" carries the peer or request its program counter calls for
(`ThreadOK`); a fragment is in at most one place (`PlaceOK`); its number is its own
and not above what was sent (`NumberOK`); the expected number is the number of
consumed messages plus one modulo `SeqMod`, and everything in transit is above the
number consumed and at most `Window` above it (`SequenceOK`, `LogBound`). Two numbers
less than `SeqMod` apart with the same remainder are equal (`ModUnique`), so the
fragment that passes the test is the next one.

*The receive side*, `RInv`. `NoMissedMatch` is kept because each of the two searches
sees everything the other may have left: a fragment that is stored was refused by
every posted receive of both queues, and a receive that is posted has refused
every message on the lists of unexpected fragments. That needs: the queues hold
exactly the posted requests, each in the queue its source calls for (`QueueOK`);
nothing is posted while `add_comm` moves fragments to the lists without a search
(`PhaseOK`); a thread that is about to mark a request has it off the queues
(`StartOK`). `PostOrder` needs that request numbers are drawn in order (`ReqOK`);
`NonOvertaking` that the list of a peer is in the order of sending and holds, as
the requests do, only consumed messages (`UnexpectedOK`, `OwnedOK`).

*The list and its last look*, `ListOK` and `LooksOK`. A thread that has matched looks
at the head of the out-of-sequence list without the lock, and stops when it is
not the next message. `NoStrandedFragment` holds because then the next message is
not on the list at all: all that is on it is later than what was consumed, and
the list goes up from the head (`HeadIsNext`). The invariant says that the list of
every peer is sorted (`ListOK`) and, if the next message is on it, that some thread
has not looked for the last time (`LooksOK`). Each lemma of this part says of an
action that every list is settled: a thread that stops has found nothing, one that
consumes a message, so that another becomes the next, goes on to look, and what
is put on a list is not the next. The theorem needs `MaxSend < SeqMod`, numbers
that do not wrap: otherwise a later fragment may have a smaller number and be the
head. `match_wraparound` shows that the property is then false.

*The places of a message*, `OneInv`. `ExactlyOnePlace` counts the places of each
number of each peer. The invariant says it without counting: the messages that are
somewhere are those that were sent, one for each number (`KnownOK`); in transit,
on a list of unexpected fragments and with a request exclude each other, and no two
requests have the same message (`ApartOK`); no list holds a message twice (`OnceOK`).
It needs no bound on the numbers, and no communicator without overtaking.

The proof that a step preserves them goes through *effects*: what an action does
to the messages in transit is one of `Sent`, `Moved` and `Consumed`, and what it does to
requests and lists one of `Quiet`, `Stored`, `Gave`, `Looked` and `Took`.
`Ob1MatchPlaces` shows the former for every action, with the theorems about the
list, and `Ob1MatchInvariant` the latter; both show what the effects do to the
invariants, and `Ob1MatchProofs` puts them together.

### The transfer

For a message of any length, every kind of buffer, BTL and limits, any depth of the
two pipelines, any set of operations that may fail, and any number of failures.
`IInv` in `Ob1TransferSender` has, beside the types:

- `SndLocked`, `RcvLocked`: a request inside its scheduling loop, or queued for it,
  is locked, so that no completion check can complete it there;
- `FirstOK`, `MatchOK`: until the receiver has matched the first header nothing else
  is under way, and after a MATCH header nothing else ever is;
- `Conserved`, `Separate`: every unit is in one of the eleven `Places` or abandoned, in one message
  of its kind. The former is `UnitsConserved` without cardinalities;
- `CountOK`, `RecvDone`: `req_bytes_received` is the number of units the receiver has,
  less the puts it has not been told of. A receive that has counted as many
  units as the message has therefore has them all;
- `GoneOK`, `SendDone`: `req_bytes_delivered`, with the gets counted so far, is at most
  the number of units that have left the sender and whose completion has been
  seen; no unit is in two of the sets of completions to come. A send that has
  counted all units therefore has nothing queued, being written or being read;
- `RndvOK`: a RNDV header is acknowledged at most once, so that `req_state` stays
  positive until its own completion has been seen.

The invariant speaks of numbers of units where the code counts bytes: the counters
are compared with cardinalities, which is what rules out a unit counted twice.
Each action has a lemma (`RecvAckStep`, `GetFragStep`, ...), which rests on lemmas
for what the action moves from one place to another (`Keeps`, `Moves`).
`Ob1TransferSender` has those of the send request, `Ob1TransferReceiver` those of the
receive request, `Ob1TransferProofs` those of the first header, and the theorems. What
is used of finite sets is one formula, `Counting`, a hypothesis of the lemmas;
`Ob1TransferProofs` derives it from `FiniteSetTheorems`.

`TypeCorrect`, `UnitsConservedAlways` and `DataMovedAlways` have no hypothesis beyond the
module's `TransferAssumption`. `CompleteMeansDoneAlways` says more than `DataMovedAlways`:
that a send does not complete while the descriptor of its RNDV header is still
with the BTL. It assumes `DataInHeader`: a BTL with a `btl_rndv_eager_limit` of 0 does
not refuse a header that was prepared. Without it the property is false: with
that limit a request that was prepared for an RGET, whose header the BTL
refused, and which sends a RNDV instead (its registration no longer succeeds)
keeps the `rdma_frag` of the get; a PUT then lets the sender pass the acknowledgement
(`pml_ob1_sendreq.c:1233` to 1244) as it would for the RGET, and the header carries no
unit whose completion is waited for. The user's buffer is not affected, which is
why `DataMovedAlways` holds in any case. The instances of `transfer` satisfy
`DataInHeader`.

### The window locks of osc rdma

For every set of processes and targets, both modes, any number of epochs and of
releases in flight:

- `Exclusion`: while a process has an exclusive lock on a target nobody else has any
  lock on it.
- `Ownership`: what a process has in a field is what its locks, its call and its
  releases in flight account for.
- `Inductive`: `MutualExclusion` alone is not inductive: whether an attempt is
  granted depends on the word it finds, in which attempts and late releases of
  others are counted too. The invariant therefore has the types (`TypeOK`), what
  the position of a call says about its words (`CallOK`), the sum (`WordsAreOwned`),
  and that a grant excludes the grants it must exclude, on one target (`Alone`) and
  between a lock and a `lock_all` (`Apart`).

### Assumptions

The theorems about `OscRdmaLock` assume `LockingAssumption` (`ASSUME ... PROVE`),
which `MCSharedMemory` assumes for its instances; the others the assumptions of
their modules. For matching: `SeqMod` and the number of peers are positive, `None` and
`AnySource` are not peers, `None` is not a fragment, `Window` is between 1 and `SeqMod`, receives ask for a peer
that exists or, where the communicator allows it, for any. For the transfer,
`TransferAssumption`: every setup has the fields and limits that
`mca_btl_base_param_verify` accepts. TLC evaluates all of them.

### Only model-checked

- *Liveness*, which needs fairness and `ENABLED`.
- *The refinements*. `ImplementsMatchingRule` maps the messages in transit to a
  sequence in the order of their numbers, which is a recursion over data; the
  stack and the queue are read off linked lists, which is one too.
- `ReliableTransfer`: that headers name live requests and the pipelines keep to
  their depth would need as long an invariant again, with the depth counters.
- The properties of `shared_memory` other than those of the windows with two levels,
  and those of `protocols`. `OscRdmaLockProofs` holds for both modes, so
  `OnDemandExcludes` is proved too, but for the name. `OscPt2pt` declares recursive
  operators (`activate_next_lock`, `accumulate_unlock`), whose results for every queue
  need an induction over data.

## 6. Findings, and smaller observations

Each finding is a run that TLC violates; `findings` in `PROJECT.json` quotes the
line of the sources that says otherwise.

- `match_wraparound`: when sequence numbers wrap while the out-of-sequence list
  is not empty, the next expected fragment can be linked behind the head,
  where `check_cantmatch_for_match` never looks. It stays there until another
  fragment of that peer arrives and moves the head, or for ever.
- `match_cancel_race`: a receive is cancelled by one thread after another has
  given it a message and released the lock, before it is marked as matched.
- `transfer_put_ack`: when the first PUT cannot be sent, the one sent later
  does not acknowledge the rendezvous, and the send never completes.
- `transfer_get_failed`: when one of several gets fails and is replaced by
  copies, the gets that succeeded are never counted and the send hangs.
- `free_list_blocked`: an item returned between the last look of a waiting
  thread at the list and the moment it counts itself wakes nobody.
- `progress_lost`: ob1 lowers its count to zero and then unregisters its progress
  function; a thread that registers it in between loses it with a send pending.
- `wait_some`: the object of a call is released while a completion has still to
  lower its count. With three requests the next call has its object at the same
  place, which is lowered instead, and returns with no request complete.
- `window_get`: in an epoch whose lock is not checked, the flush and then the
  unlock return before the data of a get have come.

The following were met while modelling. They have no run of their own; where a
property is affected, it names the exception exactly.

*ob1.*
- An ACK queued for lack of a descriptor goes out with flags nobody wrote
  (`pml_ob1_recvreq.h:409`, `pml_ob1.c:727`): `RecvPendingAck` takes either value.
- The FIN of a failed put carries an error in `hdr_size`, which the assertion
  at `pml_ob1_recvreq.c:196` excludes in debug builds, and may arrive after the
  copies that replace the put have completed the receive.
- A rendezvous that could not be sent leaves `req_state` 2 to the get protocol
  that the retry may choose (`pml_ob1_sendreq.c:831`, comment at
  `pml_ob1_recvfrag.c:582`).
- A thread checks a receive request for completion after releasing its lock,
  when another thread may have completed it (`pml_ob1_recvreq.h:150`).

*Requests.* A `wait_all` that meets a request which has failed before it could be
attached never returns (`req_wait.c:380`), see `EveryWaitReturns` in 3. The completion
of a failed request signals an object whose owner is about to release it
(`wait_sync.h:116`), see `NoDanglingSync` in 3.

*Free list.* The number of items is cut to the maximum before it is raised to
what whole pages hold (`opal_free_list.c:172`, 202), so that the last growth may
pass the maximum by less than a page, and add more than was asked for, although
`opal_free_list.h:120` has a "Maximum number of elements to allocate" and line 145
"at most num_elements elements"; from then on the arithmetic gives 0 items
(`ItemsAccounted`). `fl_max_to_alloc = 0` means no limit when the list grows but blocks
a waiting caller; `c_signaled` is raised without the lock.

*Progress engine.* A full array is freed while another thread may have loaded
its address (`opal_progress.c:417`, comment at 92); `fake_cb` is written at the
index of the old length (477); the count of ob1 overshoots after retries.

*vader.* 16-bit sequence numbers of the fast box suffice only for boxes of
bounded size, and `fbox_size` is not bounded; a fast box that another thread sets
up between two sends of a thread reorders them (`OnlySetupReorders`).

*tcp.* Two connections that cross may end the job
(`btl_tcp_endpoint.c:598`), although the comment at `btl_tcp_component.c:1401`
expects the case (`OnlyCrossingAborts`).

*Context ids.* `comm_cid.c:348` takes it that the others know when no id is left;
a process whose table is full fails while the others wait. The slot that a
failing process has reserved is not given back by `test_and_set_item` with NULL.

*Barrier.* In the double ring the left neighbour of rank 0 is -1, which is
`MPI_ANY_SOURCE`; it works because only the last rank sends to rank 0. A comment
speaks of synchronous sends where standard ones are used.

*osc rdma.* Two attempts may refuse each other for ever. A shared `MPI_Win_lock`
inside `lock_all` sets `all_sync.type` to none; the model keeps to programs without
it. With a 32-bit lock type the constant 0x100000000 becomes zero.

*osc sm.* With `MPI_MODE_NOCHECK`, `post` does not reset `complete_count`, so a later
epoch starts with completions of an earlier one (`stale`; `MPI_Win_wait.3in:56`
says otherwise). `post` returns without releasing its lock when it is out of
memory (`osc_sm_active_target.c:241`).

*osc pt2pt.*
- `lock_all` after a fence inherits `eager_send_active`, and fragments leave before
  the target has answered; `start` resets it (`osc_pt2pt_active_target.c:231`), and
  the comment at `osc_pt2pt_passive_target.c:336` says "delay all eager sends until
  we've heard back..". `OperationsAreCovered` excepts it.
- `flush_local` sends without a wait for the answer to the lock request, which
  `flush_lock` has (`osc_pt2pt_passive_target.c:624`, 496). Excepted likewise.
- A long put or accumulate under `MPI_Win_lock` with `MPI_MODE_NOCHECK` waits for a
  flag that nobody sets (`osc_pt2pt_comm.c:343`); `StuckUnchecked`.
- `lock_all` with `MPI_MODE_NOCHECK` locks its peers on demand, and `unlock_all` only
  flushes: the locks stay (`left`, `KeptOut`).
- `flush_all` asks for the next lock with `lock` where it means `&lock`
  (`osc_pt2pt_passive_target.c:599`): the address of the second lock is written over
  the header of the first, which is flushed again. The programs have one lock.
- `frag_alloc` repeats for ever when only the aligned length of an operation
  exceeds a `buffer_size` that is no multiple of 8 (`osc_pt2pt_frag.h:122`, 175).

*OpenSHMEM lock.* With the Fortran lock and `oshmem_shmem_lock_recursive`, the
inform bit is counted as a nesting level (`shmem_lock.c:467`) and the lock is
never released; the repair of a place another PE took (764 to 794) is never
reached (`LinkedInOrder`).

## 7. Not modelled

`components` in `PROJECT.json` lists every part with its status. What is left out
of the modelled parts is said in their notes; in short:

- ob1: buffers and datatypes beyond contiguous or not, several BTLs per peer
  other than as reordering, `mca_pml_ob1_process_pending_*` across requests.
- requests: persistent and generalized requests, `MPI_Cancel` of sends.
- vader: put and get through CMA, KNEM or XPMEM, the set-up of segments, sends
  made from a receive callback.
- tcp: loss of a connection that stands, failing system calls, several links,
  processes with a progress thread, partial reads.
- osc pt2pt: request-based operations, get_accumulate, fetch_and_op and
  compare_and_swap, datatypes too large for a fragment, failing sends, the
  limit of 32 long sends in a fragment. osc rdma: active target and data. osc
  sm: the copies themselves.
- context ids: intercommunicators and the path through the run-time.

Not modelled at all, and why:

- *Libraries outside the repository*: matching in cm/mtl, ucx and yalla, the
  drivers for RDMA networks, osc portals4 and ucx; the embedded event, pmix and
  hwloc.
- *Sequential code*: groups, topologies, attributes, datatypes, info, error
  handlers, allocators, containers of opal/class other than the lock-free ones,
  marshalling, configuration, placement, the language bindings. Unit tests reach
  it; candidates for operators are the interval tree, the hotel and the group
  translations.
- *File I/O*.
- *Protocols that are left*: the other collectives and libnbc, the grdma cache,
  vprotocol and crcp, the messaging, collectives and job life cycle of orte, and
  the shared file pointer.

Composition: matching and transfer meet in the moment a fragment is matched
(`ProgressMatch`, `ProgressRget`, `ProgressRndv` of `Ob1Transfer` start where
`Progress` of `Ob1Match` ends); both end in `ompi_request_complete`, where
`RequestWait` begins; `FreeList` takes the LIFO as the atomic stack that `OpalLifo`
implements, and `VaderEndpoint` the FIFO and the fast box as the channels that
`VaderFifo` and `VaderFbox` are shown to be.
