------------------------------ MODULE MCWaiting ------------------------------
(***************************************************************************)
(* One instance for TLC of each component in which the calls of a program  *)
(* wait: threads for their requests, for the progress engine (two          *)
(* instances), for the connection to a peer, and ranks for one another in  *)
(* a barrier and in one-sided communication over messages.  As in          *)
(* MCSharedMemory, a behaviour is a behaviour of the one that the variable *)
(* part names.                                                             *)
(***************************************************************************)
EXTENDS Integers, Sequences, TLC

CONSTANTS
  t1, t2, t3, r1, r2, r3,  \* threads and requests
  A, B, ob1, fake,         \* callbacks of the progress engine
  NoThread, NoFrag, NoSocket, Unused

VARIABLES
  part,
  prog,
  req_complete, req_error, active, begun, sync, lock, asleep, wait_sync_list, wait_sync_lock,
  pc, fr, cf,
  mem, freed, cbs, progress_lock, num_calls, needed, send_pending, lacks, walk, op,
  ep, net, open, unread, next_frag, called_back, received, aborted,
  ops, pos, round, sending, posted, unexpected,
  at, last, win, wire, moving, unfinished, stray

requestVars ==
  <<req_complete, req_error, active, begun, sync, lock, asleep, wait_sync_list, wait_sync_lock,
    pc, fr, cf>>
engineVars ==
  <<mem, freed, cbs, progress_lock, num_calls, needed, send_pending, lacks, walk, op>>
connectionVars == <<ep, net, open, unread, next_frag, called_back, received, aborted>>
barrierVars == <<ops, pos, round, sending, posted, unexpected>>
windowVars == <<at, last, win, wire, moving, unfinished, stray>>
vars == <<part, prog, requestVars, engineVars, connectionVars, barrierVars, windowVars>>

\* t1 waits for its requests in every way, t2 for its one or not at all, t3
\* only polls.
Wait == INSTANCE RequestWait WITH
  Threads <- {t1, t2, t3}, Requests <- {r1, r2, r3}, MayFail <- {r1},
  Array <- t1 :> <<r1, r2>> @@ t2 :> <<r3>> @@ t3 :> <<>>,
  Programs <- { t1 :> p @@ t2 :> <<"wait">> @@ t3 :> <<>> :
                  p \in { <<"wait_any">>, <<"wait_all">> } }
         \cup { t1 :> p @@ t2 :> <<>> @@ t3 :> <<>> :
                  p \in { <<"wait_any", "wait">>, <<"wait_some", "test_all">>,
                          <<"test", "test_any">>, <<"test_some">> } }

\* Two threads complete the three requests that t1 waits for, twice.
WaitSome == INSTANCE RequestWait WITH
  Threads <- {t1, t2, t3}, Requests <- {r1, r2, r3}, MayFail <- {},
  Array <- t1 :> <<r1, r2, r3>> @@ t2 :> <<>> @@ t3 :> <<>>,
  Programs <- { t1 :> <<"wait_some", "wait_some">> @@ t2 :> <<>> @@ t3 :> <<>> }

\* Of two threads the one waits in opal_progress while the other has sends
\* that lack resources and takes a callback away; and one thread alone, whose
\* registrations outgrow the array and move between the priorities.
Reg(call, cb) == [call |-> call, cb |-> cb]
Sending == Reg("send", ob1)
Engine == INSTANCE OpalProgress WITH
  Threads <- {t1, t2}, Walkers <- {t1}, Callbacks <- {A, B, ob1}, Ob1 <- ob1, Fake <- fake,
  Programs <- t1 :> <<Reg("register", A), Reg("register_lp", B)>>
              @@ t2 :> <<Sending, Sending, Reg("unregister", A)>>,
  InitialSize <- 4, Period <- 2, Lacks <- 1
EngineAlone == INSTANCE OpalProgress WITH
  Threads <- {t1}, Walkers <- {t1}, Callbacks <- {A, B, ob1}, Ob1 <- ob1, Fake <- fake,
  Programs <- t1 :> <<Reg("register", A), Reg("register", B), Sending, Reg("register_lp", A),
                      Sending, Reg("register", A), Reg("unregister", B), Reg("unregister", A),
                      Sending>>,
  InitialSize <- 1, Period <- 2, Lacks <- 2

\* Both processes have something to send, so that both may connect.
Tcp == INSTANCE TcpEndpoint WITH Sends <- <<3, 3>>

\* Two barriers one after the other, of two, three and four ranks.
Barrier == INSTANCE CollBarrier WITH Sizes <- 2..4, Rounds <- 2

\* Three ranks, fragments of two operations.
Make(call) == [call |-> call, target |-> 2, mode |-> "shared", check |-> TRUE, group |-> {2},
               precede |-> TRUE, succeed |-> TRUE]
To(t, call) == [Make(call) EXCEPT !.target = t]
Exclusive(t) == [To(t, "lock") EXCEPT !.mode = "exclusive"]
Unchecked(c) == [c EXCEPT !.check = FALSE]
For(c, group) == [c EXCEPT !.group = group]
FirstFence == [Make("fence") EXCEPT !.precede = FALSE]
LastFence == [Make("fence") EXCEPT !.succeed = FALSE]
OnlyBarrier == [FirstFence EXCEPT !.succeed = FALSE]
Makes(calls) == [i \in DOMAIN calls |-> Make(calls[i])]
Ranks(a, b, c) == 0 :> a @@ 1 :> b @@ 2 :> c
WindowPrograms ==
  { \* locks of all kinds, and long operations and accumulates, at one target
    Ranks(<<Exclusive(2)>> \o Makes(<<"put", "put", "put", "unlock">>),
          Makes(<<"lock", "get", "acc", "unlock">>),
          <<Exclusive(2), Make("put"), Make("unlock")>>),
    Ranks(Makes(<<"lock", "put", "put_long", "flush", "get", "unlock">>),
          Makes(<<"lock", "acc_long", "acc", "unlock">>),
          << >>),
    Ranks(Makes(<<"lock", "acc_long", "unlock">>),
          Makes(<<"lock", "acc_long", "acc", "acc", "unlock">>),
          Makes(<<"lock", "acc", "unlock">>)),
    \* lock_all
    Ranks(<<Make("lock_all"), To(1, "put"), To(0, "acc"), Make("acc_long"), Make("flush_all"),
            To(1, "put"), Make("unlock_all")>>,
          <<Exclusive(1), To(1, "put"), To(1, "unlock")>>,
          << >>),
    \* epochs that start before the other side is there
    Ranks(Makes(<<"start", "put", "put_long", "get", "complete", "start", "put", "complete">>),
          Makes(<<"start", "put", "put", "acc", "complete">>),
          <<For(Make("post"), {0, 1}), Make("test"), Make("wait"), For(Make("post"), {0}), Make("wait")>>),
    Ranks(<<FirstFence, To(1, "put"), To(1, "put"), Make("get"), Make("fence"), To(1, "put_long"), LastFence>>,
          <<FirstFence, Make("put"), Make("fence"), LastFence>>,
          <<FirstFence, Make("fence"), LastFence>>),
    \* flush_local before the lock is granted, lock_all after a fence
    Ranks(Makes(<<"lock", "put", "flush_local", "unlock">>),
          Makes(<<"flush_local_all">>),
          <<Exclusive(2), Make("put"), Make("unlock")>>),
    Ranks(Makes(<<"fence", "lock_all", "put", "put", "put", "unlock_all">>),
          Makes(<<"fence">>),
          <<Make("fence"), Exclusive(2), Make("put"), Make("unlock")>>),
    \* what is not checked
    Ranks(<<Unchecked(Make("lock"))>> \o Makes(<<"put", "get", "flush", "unlock", "lock", "put", "unlock">>),
          <<Unchecked(Make("lock"))>> \o Makes(<<"put_long", "unlock">>),
          << >>),
    Ranks(<<Unchecked(Make("lock_all")), Make("get"), Make("unlock_all")>>,
          <<Exclusive(2), Make("put"), Make("unlock")>>,
          << >>),
    Ranks(<<Unchecked(Make("lock_all")), Make("put"), Make("unlock_all"),
            Exclusive(2), Make("put"), Make("unlock")>>,
          Makes(<<"lock", "put", "unlock">>),
          << >>),
    Ranks(<<OnlyBarrier, Unchecked(Make("start")), Make("put"), Make("complete")>>,
          <<OnlyBarrier>>,
          <<Unchecked(For(Make("post"), {0})), OnlyBarrier, Make("wait")>>),
    \* calls outside an epoch, or in the wrong one
    Ranks(Makes(<<"unlock", "put", "flush_all", "complete", "wait", "lock", "lock", "fence", "start">>)
            \o <<To(0, "flush"), To(1, "flush"), Make("flush_local_all"), Make("unlock")>>,
          << >>,
          <<For(Make("post"), {}), For(Make("post"), {}), Make("test")>>) }
Window == INSTANCE OscPt2pt WITH Size <- 3, Room <- 2, Programs <- WindowPrograms

\* One rank gets from another, flushes and unlocks, with a lock not checked.
WindowGet == INSTANCE OscPt2pt WITH Size <- 2, Room <- 2,
  Programs <- { 0 :> <<Unchecked(To(1, "lock")), To(1, "get"), To(1, "flush"), To(1, "unlock")>>
                @@ 1 :> << >> }

ASSUME WaitAssumption == Wait!ArrayAssumption /\ WaitSome!ArrayAssumption
ASSUME EngineAssumption == Engine!ProgressAssumption /\ EngineAlone!ProgressAssumption
ASSUME TcpAssumption == Tcp!TcpAssumption
ASSUME BarrierAssumption == Barrier!BarrierAssumption
ASSUME WindowAssumption == Window!OscPt2ptAssumption /\ WindowGet!OscPt2ptAssumption

-----------------------------------------------------------------------------

NoProg == prog = Unused
NoRequests ==
  /\ req_complete = Unused /\ req_error = Unused /\ active = Unused /\ begun = Unused
  /\ sync = Unused /\ lock = Unused /\ asleep = Unused /\ wait_sync_list = Unused
  /\ wait_sync_lock = Unused /\ pc = Unused /\ fr = Unused /\ cf = Unused
NoEngine ==
  /\ mem = Unused /\ freed = Unused /\ cbs = Unused /\ progress_lock = Unused
  /\ num_calls = Unused /\ needed = Unused /\ send_pending = Unused /\ lacks = Unused
  /\ walk = Unused /\ op = Unused
NoConnection ==
  /\ ep = Unused /\ net = Unused /\ open = Unused /\ unread = Unused /\ next_frag = Unused
  /\ called_back = Unused /\ received = Unused /\ aborted = Unused
NoBarrier ==
  /\ ops = Unused /\ pos = Unused /\ round = Unused /\ sending = Unused
  /\ posted = Unused /\ unexpected = Unused
NoWindow ==
  /\ at = Unused /\ last = Unused /\ win = Unused /\ wire = Unused /\ moving = Unused
  /\ unfinished = Unused /\ stray = Unused
NoWaiting == NoProg /\ NoRequests /\ NoEngine /\ NoConnection /\ NoBarrier /\ NoWindow

Init ==
  \/ part = "requests" /\ Wait!Init /\ NoEngine /\ NoConnection /\ NoBarrier /\ NoWindow
  \/ /\ \/ part = "engine" /\ Engine!Init
        \/ part = "engine alone" /\ EngineAlone!Init
     /\ NoRequests /\ NoConnection /\ NoBarrier /\ NoWindow
  \/ part = "connection" /\ Tcp!Init /\ NoProg /\ NoRequests /\ NoEngine /\ NoBarrier /\ NoWindow
  \/ part = "barrier" /\ Barrier!Init /\ NoProg /\ NoRequests /\ NoEngine /\ NoConnection /\ NoWindow
  \/ part = "window" /\ Window!Init /\ NoRequests /\ NoEngine /\ NoConnection /\ NoBarrier

\* The variables that each part leaves alone.
InWait ==
  part = "requests" /\ UNCHANGED <<part, engineVars, connectionVars, barrierVars, windowVars>>
InEngine(e) == part = e /\ UNCHANGED <<part, requestVars, connectionVars, barrierVars, windowVars>>
InTcp ==
  part = "connection" /\ UNCHANGED <<part, prog, requestVars, engineVars, barrierVars, windowVars>>
InBarrier ==
  part = "barrier" /\ UNCHANGED <<part, prog, requestVars, engineVars, connectionVars, windowVars>>
InWindow ==
  part = "window" /\ UNCHANGED <<part, requestVars, engineVars, connectionVars, barrierVars>>

Next ==
  \/ InWait /\ Wait!Next
  \/ InEngine("engine") /\ Engine!Next
  \/ InEngine("engine alone") /\ EngineAlone!Next
  \/ InTcp /\ Tcp!Next
  \/ InBarrier /\ Barrier!Next
  \/ InWindow /\ Window!Next

\* The fairness of the modules, each for its part.
Waits(t) == InWait /\ (Wait!WaitStep(t) \/ Wait!CompleteStep(t) \/ Wait!Progress(t))
First ==
  \/ Waits(t1)
  \/ InEngine("engine") /\ Engine!Step(t1)
  \/ InEngine("engine alone") /\ EngineAlone!Step(t1)
  \/ InTcp /\ Tcp!Step(1)
  \/ InBarrier /\ \E r \in Barrier!Ranks : Barrier!Step(r)
  \/ InWindow /\ Window!Step(0)
Second ==
  \/ Waits(t2)
  \/ InEngine("engine") /\ Engine!Step(t2)
  \/ InTcp /\ Tcp!Step(2)
  \/ InWindow /\ Window!Step(1)
Third == Waits(t3) \/ (InWindow /\ Window!Step(2))

\* The progress engine with two threads alone.
EngineSpec == part = "engine" /\ Init /\ [][Next]_vars

\* The three requests of one thread alone.
WaitSomeSpec ==
  /\ part = "requests" /\ WaitSome!Init /\ NoEngine /\ NoConnection /\ NoBarrier /\ NoWindow
  /\ [][InWait /\ WaitSome!Next]_vars

\* The get under a lock that is not checked alone.
WindowGetSpec ==
  /\ part = "window" /\ WindowGet!Init /\ NoRequests /\ NoEngine /\ NoConnection /\ NoBarrier
  /\ [][InWindow /\ WindowGet!Next]_vars

-----------------------------------------------------------------------------
(* The properties of the modules, each for its part *)

\* The type invariants; a thread is in the list of waiters at most once.
TypeOK ==
  CASE part = "requests" -> Wait!TypeOK
    [] part = "engine" -> Engine!TypeOK
    [] part = "engine alone" -> EngineAlone!TypeOK
    [] part = "connection" -> Tcp!TypeOK
    [] part = "barrier" -> Barrier!TypeOK
    [] part = "window" -> Window!TypeOK
    [] OTHER -> TRUE

\* Safety: RequestWait, what a call returns is complete, and the thread that
\* progresses is the head of the list (request.h:411, req_wait.c:167).
\* TcpEndpoint, the assertions of btl_tcp_endpoint.c:497, 562 and 684 hold, and
\* its handlers meet no state they call invalid.
AssertionsHold ==
  /\ part = "requests" => Wait!AssertionsHold
  /\ part = "connection" => Tcp!HandlersMeetTheirState

\* Safety: RequestWait, no request keeps the address of a released object; when
\* one is released, no completion signals it any more unless a request of the
\* call has failed, and none holds it at all where the call was a wait or a
\* wait_all without failures.  A decrement of wait_any or wait_some may still
\* be on its way to the object: see WaitSomeReturnsOne.
NoDanglingSync == part = "requests" => Wait!NoDanglingSync /\ Wait!SafeToRelease

\* Safety: RequestWait with three requests, a wait_some returns when a request
\* is complete, as MPI_Waitsome.3in:81 says.
WaitSomeReturnsOne == WaitSome!WaitSomeReturnsOne

\* Safety: OpalProgress, a callback is in one of the arrays and there once
\* (opal_progress.c:493); the count of ob1 does not reach zero before its
\* pending sends are served, and with one thread ob1 is registered while its
\* count tells so (pml_ob1_progress.c:61).
CallbacksAreKept ==
  /\ part = "engine" => Engine!CallbacksOnce /\ Engine!NeededCoversPending
  /\ part = "engine alone" =>
       EngineAlone!CallbacksOnce /\ EngineAlone!NeededCoversPending /\ EngineAlone!ProgressIsOn

\* Safety: OpalProgress with two threads, the same.
ProgressIsOn == part = "engine" => Engine!ProgressIsOn

\* Safety: TcpEndpoint, two connected processes use the same connection, only
\* connections that cross end the job (btl_tcp_endpoint.c:598), and fragments
\* arrive in order, each once, although the first ones wait for a connection
\* that may change.
OneConnection ==
  part = "connection" => Tcp!SameConnection /\ Tcp!OnlyCrossingAborts /\ Tcp!FragsInOrder

\* Safety: CollBarrier, nobody leaves a barrier before all have entered it.
BarrierHolds == part = "barrier" => Barrier!BarrierHolds

\* Safety: OscPt2pt, an exclusive lock of a window excludes every other, and an
\* origin that may send freely is one of those that hold the lock of the
\* target, in the mode it has asked for (osc_pt2pt_passive_target.c:734, 766);
\* the exception is a lock that an unchecked lock_all has left behind.
WindowLocksExclude == part = "window" => Window!WindowLocksExclude

\* Safety: OscPt2pt, an operation reaches a window only after its process has
\* granted the lock, posted, or entered the fence; the exceptions are a
\* flush_local before the lock is granted and a lock_all after a fence
\* (osc_pt2pt_passive_target.c:336, 496).
OperationsAreCovered == part = "window" => Window!OperationsAreCovered

\* Safety: OscPt2pt, when the call that ends an epoch returns, its operations
\* are done, although fragments and long data overtake one another; when a
\* flush returns they are done at the target; and between its epochs a process
\* has nothing left to send and no count that the next epoch would inherit
\* (osc_pt2pt_passive_target.c:424, 521, osc_pt2pt_active_target.c:178).  The
\* exception is the data of a get, which may still be on their way to the
\* origin after a flush and after the unlock of a lock that was not checked:
\* see UnlockCompletes.
EpochsComplete ==
  part = "window" => Window!EpochsComplete /\ Window!FlushCompletes /\ Window!CountsSettle

\* Safety: OscPt2pt, when unlock returns the operations of the epoch are done at
\* the origin and at the target, as MPI_Win_unlock.3in:59 says.
UnlockCompletes == WindowGet!UnlockCompletes

\* Liveness: every call of RequestWait returns, the duty to progress is always
\* handed on, but for a wait_all that finds a failed request: it skips the wait
\* and spins on the flag of its object (req_wait.c:234, 380); a callback of low
\* priority that stays registered is called by a thread that waits in
\* OpalProgress, and with one thread every pending send is served; every
\* fragment of TcpEndpoint arrives, unless the job was ended; all ranks leave
\* every barrier of CollBarrier, even where every send waits for its receive,
\* and leave no message behind; and every call of OscPt2pt returns, but for a
\* long operation under a lock that is not checked, and a request for a lock
\* that an unchecked lock_all has left behind (passive_target.c:126).
EveryWaitReturns ==
  []<>CASE part = "requests" -> Wait!AllReturned
        [] part = "engine" -> Engine!CalledOrGone(B)
        [] part = "engine alone" -> EngineAlone!NonePending
        [] part = "connection" -> Tcp!AllReceived
        [] part = "barrier" -> Barrier!AllOut
        [] part = "window" -> Window!AllReturned
        [] OTHER -> TRUE
=============================================================================
