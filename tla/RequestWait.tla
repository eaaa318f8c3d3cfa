----------------------------- MODULE RequestWait -----------------------------
(***************************************************************************)
(* Waiting for requests in a process with several threads: the completion  *)
(* word of a request (ompi/request/request.h), the wait functions          *)
(* (ompi/request/req_wait.c) and the synchronisation object a waiter keeps *)
(* on its stack (opal/threads/wait_sync.[ch]).                             *)
(*                                                                         *)
(* The word req_complete is PENDING, COMPLETED, or the address of the      *)
(* waiter's object; a thread has one object at a time, so that the thread  *)
(* stands for it.  Waiters form a list whose head drives opal_progress;    *)
(* the others sleep.  A thread that progresses, in a wait or in any other  *)
(* call, may complete requests: cf is this second, nested activity.        *)
(*                                                                         *)
(* Each compare-and-swap, atomic addition and critical section is a step.  *)
(* A mutex that is locked only around a signal is not held between steps.  *)
(* Requests are not persistent: one that was returned without an error is  *)
(* freed and its place in the array is MPI_REQUEST_NULL.                   *)
(***************************************************************************)
EXTENDS Integers, Sequences, FiniteSets, FiniteSetsExt, Functions

CONSTANTS
  Threads,
  Requests,
  Array,       \* per thread: the sequence of requests it waits for
  Programs,    \* what the threads call: per thread a sequence of Kinds
  MayFail,     \* requests that may complete with an error
  NoThread

Tests == {"test", "test_any", "test_all", "test_some"}
Kinds == {"wait", "wait_any", "wait_all", "wait_some"} \cup Tests

ArrayAssumption ==
  /\ NoThread \notin Threads
  /\ Array \in [Threads -> Seq(Requests)]
  /\ \A t, u \in Threads : \A i \in DOMAIN Array[t], j \in DOMAIN Array[u] :
        Array[t][i] = Array[u][j] => t = u /\ i = j
  /\ Programs \subseteq [Threads -> Seq(Kinds)]

VARIABLES
  req_complete,    \* PENDING | COMPLETED | a thread
  req_error,       \* req_status.MPI_ERROR # MPI_SUCCESS
  active,          \* still in the array: neither freed nor inactive
  begun,           \* requests whose completion has begun
  sync,            \* per thread: its ompi_wait_sync_t
  lock,            \* per thread: who holds the mutex of its object
  asleep,          \* threads in pthread_cond_wait
  wait_sync_list,
  wait_sync_lock,  \* who holds the lock of the list
  prog,            \* per thread: the calls it still makes
  pc,
  fr,              \* per thread: the local variables of the call
  cf               \* per thread: the completion it is in

reqVars == <<req_complete, req_error, active, begun>>
waitVars == <<lock, asleep, wait_sync_list, wait_sync_lock>>
callVars == <<prog, pc, fr>>
vars == <<reqVars, sync, waitVars, callVars, cf>>

NoSync == [count |-> 0, error |-> FALSE, signaling |-> FALSE, live |-> FALSE]
NoFrame == [kind |-> "wait", i |-> 0, completed |-> 0, found |-> {},
            attached |-> {}, failed |-> FALSE]
NoCompletion == [pc |-> "none", req |-> NoThread, sync |-> NoThread]

Size(t) == Len(Array[t])
ActiveAt(t) == { i \in 1 .. Size(t) : Array[t][i] \in active }
Req(t) == Array[t][fr[t].i]

Init ==
  /\ req_complete = [r \in Requests |-> "PENDING"]
  /\ req_error = [r \in Requests |-> FALSE]
  /\ active = Requests
  /\ begun = {}
  /\ sync = [t \in Threads |-> NoSync]
  /\ lock = [t \in Threads |-> NoThread]
  /\ asleep = {}
  /\ wait_sync_list = << >>
  /\ wait_sync_lock = NoThread
  /\ prog \in Programs
  /\ pc = [t \in Threads |-> "idle"]
  /\ fr = [t \in Threads |-> NoFrame]
  /\ cf = [t \in Threads |-> NoCompletion]

At(t, l) == pc[t] = l /\ cf[t] = NoCompletion
Goto(t, l) == pc' = [pc EXCEPT ![t] = l]
Free(rs) == active' = { r \in active : r \notin rs \/ req_error[r] }

-----------------------------------------------------------------------------
(* wait_sync.h *)

WAIT_SYNC_INIT(t, c) ==
  sync' = [sync EXCEPT ![t] = [count |-> c, error |-> FALSE,
                               signaling |-> c # 0, live |-> TRUE]]

\* pthread_cond_signal under the mutex of the object.
Signal(t) == lock[t] = NoThread /\ asleep' = asleep \ {t}

-----------------------------------------------------------------------------
(* The four calls, up to the point where they wait. *)

\* MPI_Wait looks at the request first; it has no object when it is complete.
CallWait(t) ==
  /\ Head(prog[t]) = "wait"
  /\ ActiveAt(t) # {}
  /\ LET i == Min(ActiveAt(t))
         complete == req_complete[Array[t][i]] = "COMPLETED"
     IN  /\ fr' = [fr EXCEPT ![t] = [NoFrame EXCEPT
                     !.i = i, !.found = IF complete THEN {i} ELSE {}]]
         /\ IF complete
            THEN Goto(t, "release") /\ UNCHANGED sync
            ELSE Goto(t, "attach") /\ WAIT_SYNC_INIT(t, 1)

CallMany(t) ==
  /\ Head(prog[t]) \notin Tests \cup {"wait"}
  /\ Size(t) > 0
  /\ fr' = [fr EXCEPT ![t] = [NoFrame EXCEPT !.kind = Head(prog[t]), !.i = 1,
                                             !.completed = Size(t) + 1]]
  /\ WAIT_SYNC_INIT(t, IF Head(prog[t]) = "wait_all" THEN Size(t) ELSE 1)
  /\ Goto(t, "attach")

\* The test functions need no object; MPI_Test looks at one request.
CallTest(t) ==
  /\ Head(prog[t]) \in Tests
  /\ ActiveAt(t) # {}
  /\ fr' = [fr EXCEPT ![t] = [NoFrame EXCEPT !.kind = Head(prog[t]),
              !.i = IF Head(prog[t]) = "test" THEN Min(ActiveAt(t)) ELSE 1]]
  /\ Goto(t, "test")
  /\ UNCHANGED sync

Call(t) ==
  /\ At(t, "idle")
  /\ prog[t] # << >>
  /\ CallWait(t) \/ CallMany(t) \/ CallTest(t)
  /\ UNCHANGED <<reqVars, waitVars, prog, cf>>

\* The compare-and-swap from REQUEST_PENDING to the object succeeds.
Attach(t) ==
  /\ At(t, "attach")
  /\ fr[t].i <= Size(t)
  /\ Req(t) \in active
  /\ req_complete[Req(t)] = "PENDING"
  /\ req_complete' = [req_complete EXCEPT ![Req(t)] = t]
  /\ fr' = [fr EXCEPT ![t].attached = @ \cup {fr[t].i}, ![t].i = @ + 1]
  /\ IF fr[t].kind = "wait" THEN Goto(t, "sync_wait") ELSE UNCHANGED pc
  /\ UNCHANGED <<req_error, active, begun, sync, waitVars, prog, cf>>

\* Mutation: the loop starts one request too early.
BeforeCompleted_mut(t) == fr[t].i - 2

\* Where the backward loop of wait_any starts.
BeforeCompleted(t) == fr[t].i - 1

\* It fails: the request is complete.  wait_any stops looking, wait drops the
\* signalled flag, wait_all counts failures.
AttachFails(t) ==
  /\ At(t, "attach")
  /\ fr[t].i <= Size(t)
  /\ Req(t) \in active
  /\ req_complete[Req(t)] # "PENDING"
  /\ fr' = [fr EXCEPT ![t].found = @ \cup {fr[t].i},
                      ![t].failed = @ \/ req_error[Req(t)],
                      ![t].completed = IF fr[t].kind = "wait_any" THEN fr[t].i ELSE @,
                      ![t].i = IF fr[t].kind = "wait_any" THEN BeforeCompleted(t) ELSE @ + 1]
  /\ CASE fr[t].kind = "wait" ->
            /\ Goto(t, "release")
            /\ sync' = [sync EXCEPT ![t].signaling = FALSE]
       [] fr[t].kind = "wait_any" -> Goto(t, "detach") /\ UNCHANGED sync
       [] OTHER -> UNCHANGED <<pc, sync>>
  /\ UNCHANGED <<reqVars, waitVars, prog, cf>>

AttachSkips(t) ==
  /\ At(t, "attach")
  /\ fr[t].i <= Size(t)
  /\ Req(t) \notin active
  /\ fr' = [fr EXCEPT ![t].i = @ + 1]
  /\ UNCHANGED <<reqVars, sync, waitVars, prog, pc, cf>>

\* wait_all counts inactive requests as completed.
CompletedAtAttach(t) == Size(t) - Cardinality(fr[t].attached)

\* After the loop: wait_any and wait_some return at once when nothing is
\* active; wait_some does not wait when it found a complete request, and
\* wait_all neither when one has failed.
Attached(t) ==
  /\ At(t, "attach")
  /\ fr[t].i > Size(t)
  /\ LET f == fr[t] IN
     \/ /\ f.kind # "wait_all" /\ ActiveAt(t) = {}
        /\ sync' = [sync EXCEPT ![t] = NoSync]
        /\ prog' = [prog EXCEPT ![t] = Tail(@)]
        /\ Goto(t, "idle")
        /\ fr' = [fr EXCEPT ![t] = NoFrame]
     \/ /\ \/ f.kind = "wait_all" /\ f.failed
           \/ f.kind = "wait_some" /\ f.found # {}
        /\ Goto(t, "detach")
        /\ fr' = [fr EXCEPT ![t].i = 1]
        /\ UNCHANGED <<sync, prog>>
     \/ /\ f.kind = "wait_all" /\ ~f.failed /\ CompletedAtAttach(t) # 0
        /\ sync' = [sync EXCEPT ![t].count = @ - CompletedAtAttach(t)]
        /\ Goto(t, IF sync'[t].count = 0 THEN "self_signal" ELSE "sync_wait")
        /\ UNCHANGED <<prog, fr>>
     \/ /\ \/ f.kind = "wait_any" /\ ActiveAt(t) # {}
           \/ f.kind = "wait_some" /\ f.found = {} /\ ActiveAt(t) # {}
           \/ f.kind = "wait_all" /\ CompletedAtAttach(t) = 0
        /\ Goto(t, "sync_wait")
        /\ UNCHANGED <<sync, prog, fr>>
  /\ UNCHANGED <<reqVars, waitVars, cf>>

\* wait_all brought its own count to zero: nobody sleeps on the object.
SelfSignal(t) ==
  /\ At(t, "self_signal")
  /\ Signal(t)
  /\ sync' = [sync EXCEPT ![t].signaling = FALSE]
  /\ Goto(t, "sync_wait")
  /\ UNCHANGED <<reqVars, lock, wait_sync_list, wait_sync_lock, prog, fr, cf>>

-----------------------------------------------------------------------------
(* ompi_sync_wait_mt *)

AfterWait(t) ==
  /\ Goto(t, IF fr[t].kind = "wait" THEN "release" ELSE "detach")
  /\ fr' = [fr EXCEPT
       ![t].found = IF fr[t].kind = "wait" THEN fr[t].attached ELSE @,
       ![t].failed = @ \/ sync[t].error,
       ![t].i = IF fr[t].kind = "wait_any" THEN Size(t) ELSE 1]

SyncWait(t) ==
  /\ At(t, "sync_wait")
  /\ IF sync[t].count <= 0 THEN AfterWait(t) ELSE Goto(t, "lock") /\ UNCHANGED fr
  /\ UNCHANGED <<reqVars, sync, waitVars, prog, cf>>

\* The count is read again with the mutex held.
SyncLock(t) ==
  /\ At(t, "lock")
  /\ lock[t] = NoThread
  /\ IF sync[t].count <= 0
     THEN AfterWait(t) /\ UNCHANGED lock
     ELSE /\ lock' = [lock EXCEPT ![t] = t]
          /\ Goto(t, "insert")
          /\ UNCHANGED fr
  /\ UNCHANGED <<reqVars, sync, asleep, wait_sync_list, wait_sync_lock, prog, cf>>

Insert(t) ==
  /\ At(t, "insert")
  /\ wait_sync_lock = NoThread
  /\ wait_sync_list' = Append(wait_sync_list, t)
  /\ Goto(t, "check_status")
  /\ UNCHANGED <<reqVars, sync, lock, asleep, wait_sync_lock, prog, fr, cf>>

\* The head of the list progresses without its mutex; the others sleep.
CheckStatus(t) ==
  /\ At(t, "check_status")
  /\ lock' = [lock EXCEPT ![t] = NoThread]
  /\ IF Head(wait_sync_list) = t
     THEN Goto(t, "progress") /\ UNCHANGED asleep
     ELSE Goto(t, "asleep") /\ asleep' = asleep \cup {t}
  /\ UNCHANGED <<reqVars, sync, wait_sync_list, wait_sync_lock, prog, fr, cf>>

SpuriousWakeup(t) ==
  /\ t \in asleep
  /\ asleep' = asleep \ {t}
  /\ UNCHANGED <<reqVars, sync, lock, wait_sync_list, wait_sync_lock, callVars, cf>>

\* pthread_cond_wait returns with the mutex: completed, promoted, or neither.
Wakeup(t) ==
  /\ At(t, "asleep")
  /\ t \notin asleep
  /\ lock[t] = NoThread
  /\ IF sync[t].count <= 0
     THEN Goto(t, "i_am_done") /\ UNCHANGED lock
     ELSE Goto(t, "check_status") /\ lock' = [lock EXCEPT ![t] = t]
  /\ UNCHANGED <<reqVars, sync, asleep, wait_sync_list, wait_sync_lock, prog, fr, cf>>

\* The loop around opal_progress ends; what it completes is in Begin.
ProgressEnds(t) ==
  /\ At(t, "progress")
  /\ sync[t].count <= 0
  /\ Goto(t, "i_am_done")
  /\ UNCHANGED <<reqVars, sync, waitVars, prog, fr, cf>>

Trim(t) == SelectSeq(wait_sync_list, LAMBDA u : u # t)

\* Mutation: the next waiter is not woken.
IAmDone_mut(t) ==
  /\ At(t, "i_am_done")
  /\ wait_sync_lock = NoThread
  /\ wait_sync_list' = Trim(t)
  /\ AfterWait(t)
  /\ UNCHANGED <<reqVars, sync, lock, asleep, wait_sync_lock, prog, cf>>

\* The waiter leaves the list; a head hands its duty to the next one.
IAmDone(t) ==
  /\ At(t, "i_am_done")
  /\ wait_sync_lock = NoThread
  /\ wait_sync_list' = Trim(t)
  /\ IF Head(wait_sync_list) = t /\ wait_sync_list' # << >>
     THEN Goto(t, "pass") /\ wait_sync_lock' = t /\ UNCHANGED fr
     ELSE AfterWait(t) /\ UNCHANGED wait_sync_lock
  /\ UNCHANGED <<reqVars, sync, lock, asleep, prog, cf>>

\* WAIT_SYNC_PASS_OWNERSHIP, with the lock of the list held.
PassOwnership(t) ==
  /\ At(t, "pass")
  /\ Signal(Head(wait_sync_list))
  /\ wait_sync_lock' = NoThread
  /\ AfterWait(t)
  /\ UNCHANGED <<reqVars, sync, lock, wait_sync_list, prog, cf>>

-----------------------------------------------------------------------------
(* After the wait: the object is withdrawn from the requests and released. *)

\* wait_any walks back from the end, or from where it found a complete one.
Step(t) == IF fr[t].kind = "wait_any" THEN -1 ELSE 1

\* Mutation: wait_some returns what it is attached to without another look.
Withdraws_mut(t) ==
  CASE fr[t].kind = "wait_any"  -> TRUE
    [] fr[t].kind = "wait_some" -> FALSE
    [] fr[t].kind = "wait_all"  -> fr[t].failed

\* The compare-and-swap back to REQUEST_PENDING is tried by wait_any, by
\* wait_some for what it attached, and by wait_all after a failure.
Withdraws(t) ==
  CASE fr[t].kind = "wait_any"  -> TRUE
    [] fr[t].kind = "wait_some" -> fr[t].i \in fr[t].attached
    [] fr[t].kind = "wait_all"  -> fr[t].failed

Detach(t) ==
  /\ At(t, "detach")
  /\ fr[t].i \in 1 .. Size(t)
  /\ LET withdrawn == Withdraws(t) /\ req_complete[Req(t)] = t IN
     /\ fr' = [fr EXCEPT ![t].i = @ + Step(t),
                         ![t].found = IF Req(t) \in active /\ ~withdrawn
                                      THEN @ \cup {fr[t].i} ELSE @]
     /\ req_complete' = IF withdrawn
                        THEN [req_complete EXCEPT ![Req(t)] = "PENDING"]
                        ELSE req_complete
     /\ IF fr[t].kind = "wait_all" /\ ~withdrawn
        THEN Free({Req(t)}) ELSE UNCHANGED active
  /\ UNCHANGED <<req_error, begun, sync, waitVars, prog, pc, cf>>

\* Nobody can be signalling: wait_any found only the request that ended its
\* first loop, wait_some withdrew from all the requests it was attached to.
NobodySignals(t) ==
  LET f == fr[t] IN
  \/ f.kind = "wait_any" /\ f.found = {f.completed}
  \/ /\ f.kind = "wait_some"
     /\ Cardinality(f.attached) = Cardinality(ActiveAt(t)) - Cardinality(f.found)

Detached(t) ==
  /\ At(t, "detach")
  /\ fr[t].i \notin 1 .. Size(t)
  /\ sync' = [sync EXCEPT ![t].signaling = @ /\ ~NobodySignals(t)]
  /\ IF fr[t].kind = "wait_any"
     THEN Free({Array[t][Min(fr[t].found)]}) ELSE UNCHANGED active
  /\ Goto(t, "release")
  /\ UNCHANGED <<req_complete, req_error, begun, waitVars, prog, fr, cf>>

WAIT_SYNC_RELEASE(t) ==
  /\ ~sync[t].signaling
  /\ sync' = [sync EXCEPT ![t] = NoSync]

\* WAIT_SYNC_RELEASE; wait and wait_some free the requests after it.
Release(t) ==
  /\ At(t, "release")
  /\ WAIT_SYNC_RELEASE(t)
  /\ IF fr[t].kind \in {"wait", "wait_some"}
     THEN Free({ Array[t][i] : i \in fr[t].found }) ELSE UNCHANGED active
  /\ prog' = [prog EXCEPT ![t] = Tail(@)]
  /\ Goto(t, "idle")
  /\ fr' = [fr EXCEPT ![t] = NoFrame]
  /\ UNCHANGED <<req_complete, req_error, begun, waitVars, cf>>

-----------------------------------------------------------------------------
(* The test functions of req_test.c. *)

\* One look; test and test_any stop at the first request that is complete.
Look(t) ==
  /\ At(t, "test")
  /\ fr[t].i <= Size(t)
  /\ LET hit == Req(t) \in active /\ req_complete[Req(t)] = "COMPLETED"
         last == fr[t].kind = "test" \/ (fr[t].kind = "test_any" /\ hit)
     IN  fr' = [fr EXCEPT ![t].found = IF hit THEN @ \cup {fr[t].i} ELSE @,
                          ![t].i = IF last THEN Size(t) + 1 ELSE @ + 1]
  /\ UNCHANGED <<reqVars, sync, waitVars, prog, pc, cf>>

\* The flag the call returns: test_all counts inactive requests as complete.
Flag(t) ==
  IF fr[t].kind = "test_all" THEN ActiveAt(t) \subseteq fr[t].found
  ELSE fr[t].found # {}

\* MPI_Test progresses once and looks again; the others progress and return.
LookAgain(t) ==
  /\ At(t, "test")
  /\ fr[t].kind = "test" /\ fr[t].i > Size(t)
  /\ fr[t].found = {} /\ fr[t].completed = 0
  /\ fr' = [fr EXCEPT ![t].i = Min(ActiveAt(t)), ![t].completed = 1]
  /\ UNCHANGED <<reqVars, sync, waitVars, prog, pc, cf>>

Tested(t) ==
  /\ At(t, "test")
  /\ fr[t].i > Size(t)
  /\ fr[t].kind = "test" => fr[t].found # {} \/ fr[t].completed = 1
  /\ IF Flag(t) THEN Free({ Array[t][i] : i \in fr[t].found }) ELSE UNCHANGED active
  /\ prog' = [prog EXCEPT ![t] = Tail(@)]
  /\ Goto(t, "idle")
  /\ fr' = [fr EXCEPT ![t] = NoFrame]
  /\ UNCHANGED <<req_complete, req_error, begun, sync, waitVars, cf>>

-----------------------------------------------------------------------------
(* ompi_request_complete, run by a thread inside opal_progress. *)

InComplete(t, l) == cf[t].pc = l

\* A network event completes r; the error code is set before.
Begin(t, r) ==
  /\ cf[t] = NoCompletion
  /\ pc[t] \in {"idle", "progress"} \/ (pc[t] = "test" /\ fr[t].i > Size(t))
  /\ r \notin begun
  /\ begun' = begun \cup {r}
  /\ \E e \in {FALSE} \cup {r \in MayFail} :
        req_error' = [req_error EXCEPT ![r] = e]
  /\ cf' = [cf EXCEPT ![t] = [pc |-> "cas", req |-> r, sync |-> NoThread]]
  /\ UNCHANGED <<req_complete, active, sync, waitVars, callVars>>

CompleteCas(t) ==
  /\ InComplete(t, "cas")
  /\ LET r == cf[t].req IN
     IF req_complete[r] = "PENDING"
     THEN /\ req_complete' = [req_complete EXCEPT ![r] = "COMPLETED"]
          /\ cf' = [cf EXCEPT ![t] = NoCompletion]
     ELSE /\ cf' = [cf EXCEPT ![t].pc = "swap"]
          /\ UNCHANGED req_complete
  /\ UNCHANGED <<req_error, active, begun, sync, waitVars, callVars>>

CompleteSwap(t) ==
  /\ InComplete(t, "swap")
  /\ LET r == cf[t].req
         tmp == req_complete[r]
     IN  /\ req_complete' = [req_complete EXCEPT ![r] = "COMPLETED"]
         /\ cf' = [cf EXCEPT ![t] = IF tmp = "PENDING" THEN NoCompletion
                                    ELSE [@ EXCEPT !.pc = "update", !.sync = tmp]]
  /\ UNCHANGED <<req_error, active, begun, sync, waitVars, callVars>>

\* A released object is memory of somebody else: what is written is lost.
Write(u, s) == sync' = IF sync[u].live THEN [sync EXCEPT ![u] = s] ELSE sync

\* wait_sync_update with the status of the request.
WaitSyncUpdate(t) ==
  /\ InComplete(t, "update")
  /\ LET u == cf[t].sync
         c == IF req_error[cf[t].req] THEN 0 ELSE sync[u].count - 1
     IN  /\ Write(u, [sync[u] EXCEPT !.count = c,
                        !.error = @ \/ req_error[cf[t].req]])
         /\ cf' = [cf EXCEPT ![t] = IF c = 0 THEN [@ EXCEPT !.pc = "signal"]
                                    ELSE NoCompletion]
  /\ UNCHANGED <<reqVars, waitVars, callVars>>

\* WAIT_SYNC_SIGNAL in two steps.
CompleteSignal(t) ==
  /\ InComplete(t, "signal")
  /\ Signal(cf[t].sync)
  /\ cf' = [cf EXCEPT ![t].pc = "clear"]
  /\ UNCHANGED <<reqVars, sync, lock, wait_sync_list, wait_sync_lock, callVars>>

CompleteClear(t) ==
  /\ InComplete(t, "clear")
  /\ LET u == cf[t].sync IN Write(u, [sync[u] EXCEPT !.signaling = FALSE])
  /\ cf' = [cf EXCEPT ![t] = NoCompletion]
  /\ UNCHANGED <<reqVars, waitVars, callVars>>

-----------------------------------------------------------------------------
\* A completion runs inside opal_progress: the call of its thread goes on when
\* it is over.
Completing(t) == cf[t] # NoCompletion
InCall(t) == pc[t] # "idle"

WaitStep(t) ==
  /\ InCall(t) /\ ~Completing(t)
  /\ \/ Attach(t) \/ AttachFails(t) \/ AttachSkips(t) \/ Attached(t) \/ SelfSignal(t)
     \/ SyncWait(t) \/ SyncLock(t) \/ Insert(t) \/ CheckStatus(t) \/ Wakeup(t)
     \/ ProgressEnds(t) \/ IAmDone(t) \/ PassOwnership(t)
     \/ Detach(t) \/ Detached(t) \/ Release(t)
     \/ Look(t) \/ LookAgain(t) \/ Tested(t)

CompleteStep(t) ==
  /\ Completing(t)
  /\ \/ CompleteCas(t) \/ CompleteSwap(t) \/ WaitSyncUpdate(t)
     \/ CompleteSignal(t) \/ CompleteClear(t)

\* opal_progress in the loop of ompi_sync_wait_mt.
Progress(t) == pc[t] = "progress" /\ \E r \in Requests : Begin(t, r)

Next ==
  \E t \in Threads :
    \/ Call(t) \/ WaitStep(t) \/ CompleteStep(t) \/ SpuriousWakeup(t)
    \/ \E r \in Requests : Begin(t, r)

Spec == Init /\ [][Next]_vars

\* Every thread inside a call or a completion keeps running, and the one that
\* progresses completes what is pending.  Nobody else need ever complete a
\* request.
FairSpec ==
  /\ Spec
  /\ \A t \in Threads : WF_vars(WaitStep(t) \/ CompleteStep(t) \/ Progress(t))

-----------------------------------------------------------------------------
(* Properties *)

\* The type invariant; a thread is in the list of waiters at most once.
TypeOK ==
  /\ req_complete \in [Requests -> {"PENDING", "COMPLETED"} \cup Threads]
  /\ req_error \in [Requests -> BOOLEAN]
  /\ active \subseteq Requests /\ begun \subseteq Requests
  /\ \A t \in Threads : sync[t].count \in Int /\ lock[t] \in {NoThread, t}
  /\ asleep \subseteq Threads
  /\ wait_sync_list \in Seq(Threads) /\ IsInjective(wait_sync_list)
  /\ wait_sync_lock \in Threads \cup {NoThread}

\* The assertions of the code: what a call returns is complete, wait_any
\* returns something, and the thread that progresses is the head of the list
\* (request.h:411, req_wait.c:167, 283 and 494, wait_sync.c:84).
AssertionsHold ==
  \A t \in Threads :
    /\ pc[t] = "release" =>
         /\ \A i \in fr[t].found : req_complete[Array[t][i]] = "COMPLETED"
         /\ fr[t].kind # "wait_all" => fr[t].found # {}
         /\ fr[t].kind = "wait_all" /\ ~fr[t].failed => ActiveAt(t) \subseteq fr[t].found
    /\ pc[t] = "progress" => Head(wait_sync_list) = t

\* Safety: a request never keeps the address of an object that was released,
\* so that no completion starts to use one.
NoDanglingSync ==
  \A r \in Requests : req_complete[r] \in Threads =>
    LET t == req_complete[r] IN sync[t].live /\ \E i \in fr[t].attached : Array[t][i] = r

\* Safety: when the signaling flag lets a call release its object, the
\* completions of wait, and those of wait_all when no request has failed, have
\* finished with it.  A completion of wait_any, wait_some or a failed wait_all
\* may still hold the address, in two ways only: it has a decrement left that
\* does not signal, or a request the call was attached to has failed, whose
\* completion signals whatever the count is (wait_sync.h:43 and 116).
SafeToRelease ==
  \A t, u \in Threads :
    At(t, "release") /\ sync[t].live /\ ~sync[t].signaling /\ cf[u].sync = t
    => /\ fr[t].kind # "wait"
       /\ fr[t].kind = "wait_all" => fr[t].failed
       /\ \/ cf[u].pc = "update" /\ ~req_error[cf[u].req] /\ sync[t].count <= 0
          \/ \E i \in fr[t].attached : req_error[Array[t][i]]

\* What MPI_Waitsome says: it waits until at least one operation is complete.
WaitSomeReturnsOne ==
  \A t \in Threads : pc[t] = "release" /\ fr[t].kind = "wait_some" => fr[t].found # {}

\* A wait_all that found a request complete with an error skips the wait, and
\* then waits for a signal that nobody has reason to send: the flag is set,
\* the object is in no request and no completion holds it (req_wait.c:234, 380).
Spins(t) ==
  /\ At(t, "release")
  /\ fr[t].kind = "wait_all" /\ fr[t].failed
  /\ sync[t].signaling /\ ~sync[t].error
  /\ \A u \in Threads : cf[u].sync # t
  /\ \A r \in Requests : req_complete[r] # t

\* Every call has returned, but for such a wait_all.
AllReturned == \A t \in Threads : ~InCall(t) \/ Spins(t)
=============================================================================
