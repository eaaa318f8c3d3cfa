------------------------------ MODULE CommCid ------------------------------
(***************************************************************************)
(* ompi/communicator/comm_cid.c: how the processes of a communicator agree *)
(* on the context id of a new one.  Each reserves its lowest free id, an   *)
(* allreduce takes the maximum, each tries to reserve that one, and a      *)
(* second allreduce tells whether all could.  Several creations may be     *)
(* under way in one process, from threads or from MPI_Comm_idup; the       *)
(* parent with the lowest id goes first.  A third allreduce is the barrier *)
(* of ompi_comm_activate.                                                  *)
(*                                                                         *)
(* A handler runs under ompi_cid_lock, and one that does not get the lock  *)
(* is scheduled again: a handler is one step.  Allreduces on one parent    *)
(* are matched in the order in which each process posts them.              *)
(***************************************************************************)
EXTENDS Integers, Sequences, FiniteSets, FiniteSetsExt

CONSTANTS
  Procs,
  Parents, Id, Members,   \* communicators there are, their context ids and processes
  Creations, Parent,      \* communicators to create, and from which one
  Group,                  \* per creation: the processes in the new communicator
  Before,                 \* pairs of creations that every process calls in this order
  NoComm,                 \* an empty slot of the table
  Marked,                 \* an empty slot whose bit says that it is in use
  MaxCid,                 \* pml_max_contextid
  Failing                 \* processes at which an allreduce or the choice of coll may fail

VARIABLES
  table,       \* ompi_mpi_communicators of each process
  lowest_id,   \* ompi_comm_cid_lowest_id of each process
  ctx,         \* per process and creation: its ompi_comm_cid_context_t
  posted       \* per parent and process: what it gave to the allreduces

vars == <<table, lowest_id, ctx, posted>>

CidAssumption ==
  /\ MaxCid \in Nat \ {0}
  /\ \A c \in Creations : Parent[c] \in Parents /\ Group[c] \subseteq Members[Parent[c]]
  /\ \A a, b \in Parents :
       a # b /\ Members[a] \cap Members[b] # {} => Id[a] # Id[b]

INT64_MAX == MaxCid + 1

Init ==
  /\ table = [p \in Procs |-> [i \in 0 .. MaxCid |->
                IF \E a \in Parents : p \in Members[a] /\ Id[a] = i
                THEN CHOOSE a \in Parents : p \in Members[a] /\ Id[a] = i ELSE NoComm]]
  /\ lowest_id = [p \in Procs |-> INT64_MAX]
  /\ ctx = [p \in Procs |-> [c \in Creations |->
              [pc |-> "none", start |-> 0, nextlocal |-> 0, nextcid |-> 0, flag |-> 0,
               turn |-> 0]]]
  /\ posted = [a \in Parents |-> [p \in Procs |-> << >>]]

Participates(p, c) == p \in Group[c]
Pc(p, c) == ctx[p][c].pc
FirstFree(p, start) ==
  Min({ i \in start .. MaxCid - 1 : table[p][i] \in {NoComm, Marked} } \cup {MaxCid})
lowest_free(p) == Min({ i \in 0 .. MaxCid : table[p][i] = NoComm } \cup {MaxCid})

\* An allreduce is posted; its turn on the parent is kept in x.
Post(p, c, v, x) ==
  /\ posted' = [posted EXCEPT ![Parent[c]][p] = Append(@, v)]
  /\ ctx' = [ctx EXCEPT ![p][c] = [x EXCEPT !.turn = Len(posted[Parent[c]][p]) + 1]]

Goto(p, c, l) == ctx' = [ctx EXCEPT ![p][c].pc = l]

\* The contributions to the allreduce p waits for, once all are there.
Complete(p, c) ==
  \A q \in Members[Parent[c]] : Len(posted[Parent[c]][q]) >= ctx[p][c].turn

\* Mutation: the reduction is over the process alone.
Contributions_mut(p, c) == {posted[Parent[c]][p][ctx[p][c].turn]}

Contributions(p, c) ==
  { posted[Parent[c]][q][ctx[p][c].turn] : q \in Members[Parent[c]] }

-----------------------------------------------------------------------------

\* ompi_comm_nextcid_nb
Start(p, c) ==
  /\ Pc(p, c) = "none" /\ p \in Members[Parent[c]]
  /\ \A b \in Creations : <<b, c>> \in Before => Pc(p, b) \in {"active", "freed", "error"}
  /\ ctx' = [ctx EXCEPT ![p][c].pc = "getnextcid", ![p][c].start = lowest_free(p)]
  /\ UNCHANGED <<table, lowest_id, posted>>

\* opal_pointer_array_test_and_set_item and _set_item
Reserve(p, i, comm) == table' = [table EXCEPT ![p][i] = comm]

\* ompi_comm_allreduce_getnextcid.  A process that is not in the new
\* communicator contributes 0; one without a free id leaves.
GetNextCid(p, c) ==
  LET x == ctx[p][c]
      local == IF Participates(p, c) THEN FirstFree(p, x.start) ELSE 0
      out == local = MaxCid
  IN  /\ x.pc = "getnextcid"
      /\ lowest_id[p] >= Id[Parent[c]]
      /\ lowest_id' = [lowest_id EXCEPT ![p] = IF out THEN INT64_MAX ELSE Id[Parent[c]]]
      /\ IF Participates(p, c) /\ ~out THEN Reserve(p, local, Parent[c]) ELSE UNCHANGED table
      /\ Post(p, c, local, [x EXCEPT !.nextlocal = local,
                                     !.pc = IF out THEN "error" ELSE "max"])

\* The allreduce cannot be posted.  The cleanup asks for NULL in a slot that
\* is taken, which changes nothing: the reservation stays.
GetNextCidFails(p, c) ==
  LET local == FirstFree(p, ctx[p][c].start) IN
  /\ p \in Failing
  /\ Pc(p, c) = "getnextcid"
  /\ lowest_id[p] >= Id[Parent[c]]
  /\ lowest_id' = [lowest_id EXCEPT ![p] = INT64_MAX]
  /\ IF Participates(p, c) /\ local # MaxCid
     THEN Reserve(p, local, Parent[c]) ELSE UNCHANGED table
  /\ Goto(p, c, "error")
  /\ UNCHANGED posted

\* Mutation: the maximum is taken over whatever is in its slot.
Checked_mut(p, c) ==
  LET nextcid == Max(Contributions(p, c)) IN
  [nextcid |-> nextcid, flag |-> 1,
   table |-> IF ~Participates(p, c) THEN table[p]
             ELSE [table[p] EXCEPT ![ctx[p][c].nextlocal] = NoComm, ![nextcid] = Parent[c]]]

\* ompi_comm_checkcid, with the table and the flag it comes to
Checked(p, c) ==
  LET x == ctx[p][c]
      nextcid == Max(Contributions(p, c))
      freed == [table[p] EXCEPT ![x.nextlocal] = NoComm]
      taken == freed[nextcid] \notin {NoComm, Marked}
  IN  IF ~Participates(p, c) \/ nextcid = x.nextlocal
      THEN [nextcid |-> nextcid, flag |-> 1, table |-> table[p]]
      ELSE IF taken THEN [nextcid |-> nextcid, flag |-> 0, table |-> freed]
      ELSE [nextcid |-> nextcid, flag |-> 1,
            table |-> [freed EXCEPT ![nextcid] = Parent[c]]]

CheckCid(p, c) ==
  LET d == Checked(p, c) IN
  /\ Pc(p, c) = "max" /\ Complete(p, c)
  /\ table' = [table EXCEPT ![p] = d.table]
  /\ Post(p, c, d.flag, [ctx[p][c] EXCEPT !.pc = "min", !.nextcid = d.nextcid, !.flag = d.flag])
  /\ UNCHANGED lowest_id

\* Here the cleanup may ask for NULL in the slot that was given back, and
\* leaves it marked; the one that was reserved instead stays.
CheckCidFails(p, c) ==
  LET d == Checked(p, c)
      local == ctx[p][c].nextlocal
      mark == Participates(p, c) /\ d.flag = 1 /\ d.table[local] = NoComm
  IN
  /\ p \in Failing
  /\ Pc(p, c) = "max" /\ Complete(p, c)
  /\ table' = [table EXCEPT ![p] = IF mark THEN [d.table EXCEPT ![local] = Marked] ELSE d.table]
  /\ lowest_id' = [lowest_id EXCEPT ![p] = INT64_MAX]
  /\ Goto(p, c, "error")
  /\ UNCHANGED posted

\* ompi_comm_nextcid_check_flag: all could reserve it, or it is given back.
Agreed(p, c) ==
  LET x == ctx[p][c]
      cid == IF Participates(p, c) THEN x.nextcid ELSE FirstFree(p, x.start)
  IN  /\ x.pc = "min" /\ Complete(p, c)
      /\ Min(Contributions(p, c)) = 1
      /\ Reserve(p, cid, c)
      /\ ctx' = [ctx EXCEPT ![p][c].pc = "cid", ![p][c].nextcid = cid]
      /\ lowest_id' = [lowest_id EXCEPT ![p] = INT64_MAX]
      /\ UNCHANGED posted

Refused(p, c) ==
  LET x == ctx[p][c]
      mine == Participates(p, c) /\ x.flag = 1
  IN  /\ x.pc = "min" /\ Complete(p, c)
      /\ Min(Contributions(p, c)) # 1
      /\ IF mine THEN Reserve(p, x.nextcid, NoComm) ELSE UNCHANGED table
      /\ ctx' = [ctx EXCEPT ![p][c].pc = "getnextcid",
                            ![p][c].start = IF mine THEN x.nextcid + 1 ELSE @]
      /\ UNCHANGED <<lowest_id, posted>>

\* ompi_comm_activate_nb: the PML learns of the communicator, then a barrier.
Activate(p, c) ==
  /\ Pc(p, c) = "cid"
  /\ Post(p, c, 1, [ctx[p][c] EXCEPT !.pc = "barrier"])
  /\ UNCHANGED <<table, lowest_id>>

\* Either the PML refuses and the communicator is released, or the barrier
\* cannot be posted.
ActivateFails(p, c) ==
  /\ p \in Failing
  /\ Pc(p, c) = "cid"
  /\ \/ Participates(p, c) /\ Reserve(p, ctx[p][c].nextcid, NoComm)
     \/ UNCHANGED table
  /\ Goto(p, c, "error")
  /\ UNCHANGED <<lowest_id, posted>>

\* Mutation: the barrier is not waited for.
ActivateComplete_mut(p, c) ==
  /\ Pc(p, c) = "barrier"
  /\ Goto(p, c, "active") /\ UNCHANGED table
  /\ UNCHANGED <<lowest_id, posted>>

\* ompi_comm_activate_nb_complete; a collective component may refuse.
ActivateComplete(p, c) ==
  /\ Pc(p, c) = "barrier" /\ Complete(p, c)
  /\ \/ Goto(p, c, "active") /\ UNCHANGED table
     \/ /\ p \in Failing /\ Participates(p, c)
        /\ Goto(p, c, "error") /\ Reserve(p, ctx[p][c].nextcid, NoComm)
  /\ UNCHANGED <<lowest_id, posted>>

\* ompi_comm_destruct
CommFree(p, c) ==
  /\ Pc(p, c) = "active"
  /\ Goto(p, c, "freed")
  /\ Reserve(p, ctx[p][c].nextcid, NoComm)
  /\ UNCHANGED <<lowest_id, posted>>

Step(p, c) ==
  \/ Start(p, c) \/ GetNextCid(p, c) \/ GetNextCidFails(p, c)
  \/ CheckCid(p, c) \/ CheckCidFails(p, c) \/ Agreed(p, c) \/ Refused(p, c)
  \/ Activate(p, c) \/ ActivateFails(p, c) \/ ActivateComplete(p, c)

Next == \E p \in Procs, c \in Creations : Step(p, c) \/ CommFree(p, c)

Spec == Init /\ [][Next]_vars

\* Some handler runs while one can: progress is made somewhere, and the
\* processes make their calls.
Fairness == WF_vars(\E p \in Procs, c \in Creations : Step(p, c))
FairSpec == Spec /\ Fairness

-----------------------------------------------------------------------------
(* Properties *)

HasCid == {"cid", "barrier", "active"}
Failed == \E p \in Procs, c \in Creations : Pc(p, c) = "error"

\* Safety: the processes of a new communicator know it by the same id.
Agreement ==
  \A c \in Creations : \A p, q \in Group[c] :
    Pc(p, c) \in HasCid /\ Pc(q, c) \in HasCid => ctx[p][c].nextcid = ctx[q][c].nextcid

\* Safety: the id a process uses for a communicator leads to it in its table,
\* so that no creation takes an id that is in use or reserved by another, and
\* the communicators there were keep theirs.
OwnsSlot ==
  \A p \in Procs :
    /\ \A c \in Creations : Pc(p, c) \in HasCid => table[p][ctx[p][c].nextcid] = c
    /\ \A a \in Parents : p \in Members[a] => table[p][Id[a]] = a

\* Safety: once the creations of a process are over, and none has failed, the
\* slots it reserved on the way are free again.
NothingLeaked ==
  \A p \in Procs :
    (\A c \in Creations : Pc(p, c) \in {"none", "active", "freed"}) =>
      \A i \in 0 .. MaxCid : table[p][i] \in Parents =>
        p \in Members[table[p][i]] /\ Id[table[p][i]] = i

\* Safety: a process that may send on a new communicator knows that all its
\* processes have told their PML of it (comm_cid.c:463).
NobodyIsEarly ==
  \A c \in Creations : \A p, q \in Group[c] :
    Pc(p, c) = "active" => Pc(q, c) \in {"barrier", "active", "freed", "error"}

\* Every creation has come to an end in every process, or one has failed.
AllEnded ==
  Failed \/ \A c \in Creations : \A p \in Members[Parent[c]] : Pc(p, c) \in {"active", "freed"}
=============================================================================
