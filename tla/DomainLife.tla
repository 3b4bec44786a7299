----------------------------- MODULE DomainLife -----------------------------
(***************************************************************************)
(* The life of a domain: the table of kernel/src/domain.rs, the departure  *)
(* counter and the marks of kernel/src/sched.rs, and the system calls that *)
(* create, start, end, watch and release a domain.                         *)
(*                                                                         *)
(* A domain is named by its slot in the table, and a slot is reused.  Each *)
(* critical section of the table lock is one step, so everything that may  *)
(* happen between two of them does.  What the code does not know and the   *)
(* properties need is the incarnation a slot number was meant for: `inc`,  *)
(* beside every slot number a thread, a handle or a pending end carries.   *)
(* No guard reads it.                                                      *)
(***************************************************************************)
EXTENDS Integers, Sequences, FiniteSets, SequencesExt

CONSTANTS
  MaxDomains,      \* the size of the table
  Threads,         \* every thread that may ever exist
  Beginnings,      \* what the kernel has set up when the model begins: the
                   \* supervisor's threads and its max_child_domains, the slots
                   \* of other services, the threads that have come and gone,
                   \* the creations still to come
  MaxCreated       \* bound: domains created after boot

ASSUME DomainLifeAssumption ==
  /\ MaxDomains \in Nat \ {0}
  /\ IsFiniteSet(Threads)
  /\ \A b \in Beginnings :
       /\ b.boot \subseteq Threads /\ b.gone \subseteq Threads \ b.boot
       /\ b.taken \subseteq 1 .. MaxDomains - 1
       /\ b.envelope \in Nat /\ b.creations \in 0 .. MaxCreated
  /\ MaxCreated \in Nat

VARIABLES
  domains,  \* TABLE: slot -> the entry
  count,    \* DOMAIN_LIVE_THREADS: slot -> threads counted there
  threads,  \* thread -> where it is, and what it is doing in the kernel
  created,  \* Table::created
  bound,    \* the incarnations whose end somebody asked to be told of
  told,     \* the incarnations whose end was signalled
  peopled   \* the incarnations in which a program began to run

vars == <<domains, count, threads, created, bound, told, peopled>>

Slots == 0 .. MaxDomains - 1
NoParent == MaxDomains
Incarnations == 0 .. MaxCreated + 1
Names == [slot : Slots, inc : Incarnations]

Domain ==
  [live : BOOLEAN, gen : Incarnations, parent : Slots \cup {NoParent},
   pgen : Incarnations, children : Nat, limit : Nat, ended : BOOLEAN,
   notify : BOOLEAN, pending : BOOLEAN, cspace : SUBSET Names]

\* Where a thread is: in the program, at one of its exit's steps, or between
\* two critical sections of the call it makes.
PCs == {"unborn", "collect", "user", "depart", "elect", "check", "finish",
        "finished", "install", "record", "launch", "insert", "mark",
        "table", "signal", "remove"}

Thread ==
  [pc : PCs, slot : Slots, inc : Incarnations, dying : BOOLEAN,
   departing : BOOLEAN, todo : Seq(Names), took : BOOLEAN,
   after : {"return", "depart", "finish"}]

Empty ==
  [live |-> FALSE, gen |-> 0, parent |-> NoParent, pgen |-> 0, children |-> 0,
   limit |-> 0, ended |-> FALSE, notify |-> FALSE, pending |-> FALSE,
   cspace |-> {}]

NewThread(s, g, pc) ==
  [pc |-> pc, slot |-> s, inc |-> g, dying |-> FALSE, departing |-> FALSE,
   todo |-> <<>>, took |-> FALSE, after |-> "return"]

Init ==
  /\ \E b \in Beginnings :
       /\ domains = [s \in Slots |->
            [Empty EXCEPT !.live = s \in b.taken \cup {0},
                          !.limit = IF s = 0 THEN b.envelope ELSE 0]]
       /\ count = [s \in Slots |-> IF s = 0 THEN Cardinality(b.boot) ELSE 0]
       /\ threads = [t \in Threads |->
            NewThread(0, 0, IF t \in b.boot THEN "user"
                            ELSE IF t \in b.gone THEN "finished" ELSE "unborn")]
       /\ created = MaxCreated - b.creations
  /\ bound = {}
  /\ told = {}
  /\ peopled = {[slot |-> 0, inc |-> 0]}

-----------------------------------------------------------------------------
Present(t) == threads[t].pc \notin {"unborn", "finished"}

\* A system call a thread of a live domain may begin.  The should_die check is
\* on the way back to the program, so a thread told to stop may still begin one.
InUser(t) == threads[t].pc = "user"
MayCall(t) == InUser(t) /\ domains[threads[t].slot].live

\* The way back to the program: a thread told to stop exits instead.
Back(th) == [th EXCEPT !.pc = IF th.dying THEN "depart" ELSE "user",
                       !.todo = <<>>]

At(t, pc, todo) == [threads[t] EXCEPT !.pc = pc, !.todo = todo]

Goal(t) == Head(threads[t].todo)

\* The worklist of `end`: a domain's children before whatever came after it.
NextGoal(th) ==
  IF Len(th.todo) > 1
  THEN [th EXCEPT !.pc = "mark", !.todo = Tail(th.todo)]
  ELSE IF th.after = "return" THEN Back([th EXCEPT !.took = FALSE])
  ELSE [th EXCEPT !.pc = th.after, !.todo = <<>>, !.took = FALSE]

-----------------------------------------------------------------------------
(* SPAWN: create_under, then the handle.                                   *)

IsFree(s) ==
  /\ ~domains[s].live
  /\ ~domains[s].ended
  /\ count[s] = 0

FirstFree(s) == IsFree(s) /\ \A r \in Slots : IsFree(r) => s <= r

CreateUnder(t) ==
  LET me == threads[t].slot
  IN /\ MayCall(t)
     /\ created < MaxCreated
     /\ domains[me].children < domains[me].limit
     /\ \E s \in Slots :
          /\ FirstFree(s)
          /\ domains' = [domains EXCEPT
               ![s] = [Empty EXCEPT !.live = TRUE, !.gen = domains[s].gen,
                                    !.parent = me, !.pgen = domains[me].gen],
               ![me].children = @ + 1]
          /\ threads' = [threads EXCEPT ![t] =
               At(t, "install", <<[slot |-> s, inc |-> domains[s].gen]>>)]
     /\ created' = created + 1
     /\ UNCHANGED <<count, bound, told, peopled>>

\* The creator may have been ended meanwhile; then the child is destroyed.
InstallHandle(t) ==
  LET me == threads[t].slot
  IN /\ threads[t].pc = "install"
     /\ IF domains[me].live
        THEN /\ domains' = [domains EXCEPT ![me].cspace = @ \cup {Goal(t)}]
             /\ threads' = [threads EXCEPT ![t] = Back(@)]
        ELSE /\ threads' = [threads EXCEPT ![t] =
                  [@ EXCEPT !.pc = "mark", !.after = "return"]]
             /\ UNCHANGED domains
     /\ UNCHANGED <<count, created, bound, told, peopled>>

-----------------------------------------------------------------------------
(* START: is anybody there, the image, the count, the thread.              *)

CouldStillRun(t, s) ==
  /\ Present(t)
  /\ threads[t].slot = s
  /\ ~threads[t].dying
  /\ ~threads[t].departing

StartProgram(t, h) ==
  /\ MayCall(t)
  /\ h \in domains[threads[t].slot].cspace
  /\ \A u \in Threads : ~CouldStillRun(u, h.slot)
  /\ threads' = [threads EXCEPT ![t] = At(t, "record", <<h>>)]
  /\ UNCHANGED <<domains, count, created, bound, told, peopled>>

RecordPendingStart(t) ==
  LET s == Goal(t).slot
  IN /\ threads[t].pc = "record"
     /\ IF domains[s].live /\ ~domains[s].pending
        THEN /\ domains' = [domains EXCEPT ![s].pending = TRUE]
             /\ threads' = [threads EXCEPT ![t].pc = "launch"]
        ELSE /\ threads' = [threads EXCEPT ![t] = Back(@)]
             /\ UNCHANGED domains
     /\ UNCHANGED <<count, created, bound, told, peopled>>

\* Bound: a thread is left for every insertion under way.
RoomForThread ==
  Cardinality({u \in Threads : threads[u].pc = "insert"})
    < Cardinality({u \in Threads : threads[u].pc = "unborn"})

\* The queue is full or no stack could be had: the image is taken back.
SpawnFails(t) ==
  /\ threads[t].pc = "launch"
  /\ domains' = [domains EXCEPT ![Goal(t).slot].pending = FALSE]
  /\ threads' = [threads EXCEPT ![t] = Back(@)]
  /\ UNCHANGED <<count, created, bound, told, peopled>>

DomainThreadArrives(t) ==
  /\ threads[t].pc = "launch"
  /\ RoomForThread
  /\ count' = [count EXCEPT ![Goal(t).slot] = @ + 1]
  /\ threads' = [threads EXCEPT ![t].pc = "insert"]
  /\ UNCHANGED <<domains, created, bound, told, peopled>>

InsertThread(t, n) ==
  /\ threads[t].pc = "insert"
  /\ threads[n].pc = "unborn"
  /\ threads' = [threads EXCEPT
       ![t] = Back(@),
       ![n] = NewThread(Goal(t).slot, Goal(t).inc, "collect")]
  /\ UNCHANGED <<domains, count, created, bound, told, peopled>>

\* started_program: the first thing the new thread does.
TakePendingStart(n) ==
  LET s == threads[n].slot
      here == [slot |-> s, inc |-> domains[s].gen]
  IN /\ threads[n].pc = "collect"
     /\ domains' = [domains EXCEPT ![s].pending = FALSE]
     /\ threads' = [threads EXCEPT ![n].pc =
          IF domains[s].pending THEN "user" ELSE "depart"]
     /\ peopled' = IF domains[s].pending THEN peopled \cup {here} ELSE peopled
     /\ UNCHANGED <<count, created, bound, told>>

-----------------------------------------------------------------------------
(* A thread's own end.                                                     *)

\* Exit: asked for, or at a safe point by a thread told to stop.
BeginExit(t) ==
  /\ InUser(t)
  /\ threads' = [threads EXCEPT ![t].pc = "depart"]
  /\ UNCHANGED <<domains, count, created, bound, told, peopled>>

\* A fault ends the whole domain, then the thread.
Fault(t) ==
  /\ InUser(t)
  /\ threads' = [threads EXCEPT ![t] =
       [At(t, "mark", <<[slot |-> @.slot, inc |-> @.inc]>>)
          EXCEPT !.after = "depart"]]
  /\ UNCHANGED <<domains, count, created, bound, told, peopled>>

MarkDeparting(t) ==
  /\ threads[t].pc = "depart"
  /\ threads' = [threads EXCEPT ![t] =
       [@ EXCEPT !.departing = TRUE, !.pc = "elect"]]
  /\ UNCHANGED <<domains, count, created, bound, told, peopled>>

\* Faulty: takes the old value of the counter for the new one.
IsLastOutOffByOne(s) == count[s] = 0

\* fetch_sub(1) == 1 elects the last one out.
IsLastOut(s) == count[s] = 1

\* Faulty: a thread told to stop leaves without its subtraction.
DomainThreadDepartsUnlessDying(t) ==
  LET s == threads[t].slot
  IN /\ threads[t].pc = "elect"
     /\ count' = [count EXCEPT ![s] = IF threads[t].dying THEN @ ELSE @ - 1]
     /\ threads' = [threads EXCEPT ![t].pc =
          IF IsLastOut(s) THEN "check" ELSE "finish"]
     /\ UNCHANGED <<domains, created, bound, told, peopled>>

DomainThreadDeparts(t) ==
  LET s == threads[t].slot
  IN /\ threads[t].pc = "elect"
     /\ count' = [count EXCEPT ![s] = @ - 1]
     /\ threads' = [threads EXCEPT ![t].pc =
          IF IsLastOut(s) THEN "check" ELSE "finish"]
     /\ UNCHANGED <<domains, created, bound, told, peopled>>

\* Faulty: waits for a domain that somebody else has ended.
EndedByLastThreadWaits(t) ==
  /\ threads[t].pc = "check"
  /\ domains[threads[t].slot].live
  /\ threads' = [threads EXCEPT ![t] =
       [At(t, "mark", <<[slot |-> @.slot, inc |-> @.inc]>>)
          EXCEPT !.after = "finish"]]
  /\ UNCHANGED <<domains, count, created, bound, told, peopled>>

EndedByLastThread(t) ==
  /\ threads[t].pc = "check"
  /\ threads' = [threads EXCEPT ![t] =
       IF domains[@.slot].live
       THEN [At(t, "mark", <<[slot |-> @.slot, inc |-> @.inc]>>)
               EXCEPT !.after = "finish"]
       ELSE [@ EXCEPT !.pc = "finish"]]
  /\ UNCHANGED <<domains, count, created, bound, told, peopled>>

Finish(t) ==
  /\ threads[t].pc = "finish"
  /\ threads' = [threads EXCEPT ![t].pc = "finished"]
  /\ UNCHANGED <<domains, count, created, bound, told, peopled>>

-----------------------------------------------------------------------------
(* The end of a domain: `end`, for one goal of the worklist at a time.     *)

MarkDomainDying(t) ==
  /\ threads[t].pc = "mark"
  /\ threads' = [u \in Threads |->
       [threads[u] EXCEPT
          !.dying = @ \/ (Present(u) /\ threads[u].slot = Goal(t).slot),
          !.pc = IF u = t THEN "table" ELSE @]]
  /\ UNCHANGED <<domains, count, created, bound, told, peopled>>

\* Faulty: only the children the parent holds a handle to.
ChildrenHeld(s) ==
  {c \in Slots : /\ domains[c].live
                 /\ domains[c].parent = s
                 /\ domains[c].pgen = domains[s].gen
                 /\ \E h \in domains[s].cspace : h.slot = c}

Children(s) ==
  {c \in Slots : /\ domains[c].live
                 /\ domains[c].parent = s
                 /\ domains[c].pgen = domains[s].gen}

Goals(S) == SetToSeq({[slot |-> c, inc |-> domains[c].gen] : c \in S})

\* Kept as a corpse only if somebody can ask.
IsWatched(s) ==
  domains[s].parent # NoParent /\ domains[domains[s].parent].live

IsCharged(s) ==
  /\ IsWatched(s)
  /\ domains[domains[s].parent].gen = domains[s].pgen

Ended(s) ==
  [domains[s] EXCEPT !.live = FALSE, !.ended = IsWatched(s), !.notify = FALSE,
                     !.parent = NoParent, !.gen = @ + 1, !.cspace = {},
                     !.pending = FALSE]

EndInTable(t) ==
  LET s == Goal(t).slot
      parent == domains[s].parent
  IN /\ threads[t].pc = "table"
     /\ IF domains[s].live
        THEN /\ domains' =
                  [d \in Slots |->
                     IF d = s THEN Ended(s)
                     ELSE [domains[d] EXCEPT
                             !.children = IF IsCharged(s) /\ d = parent
                                          THEN @ - 1 ELSE @]]
             /\ threads' = [threads EXCEPT ![t] =
                  [@ EXCEPT !.pc = "signal",
                            !.took = domains[s].notify,
                            !.todo = <<[slot |-> s, inc |-> domains[s].gen]>>
                                     \o Goals(Children(s)) \o Tail(@)]]
        ELSE /\ threads' = [threads EXCEPT ![t] = NextGoal(@)]
             /\ UNCHANGED domains
     /\ UNCHANGED <<count, created, bound, told, peopled>>

\* Everything has the table lock free again: the watcher is told, and the
\* children are next.
SignalEnd(t) ==
  /\ threads[t].pc = "signal"
  /\ told' = IF threads[t].took THEN told \cup {Goal(t)} ELSE told
  /\ threads' = [threads EXCEPT ![t] = NextGoal(@)]
  /\ UNCHANGED <<domains, count, created, bound, peopled>>

-----------------------------------------------------------------------------
(* What a handle is good for: BIND, END, RELEASE, and passing it on.       *)

\* Faulty: accepts a watch on a corpse.
NotifyOnEndUnchecked(t, h) ==
  /\ MayCall(t)
  /\ h \in domains[threads[t].slot].cspace
  /\ domains' = [domains EXCEPT ![h.slot].notify = TRUE]
  /\ bound' = bound \cup {[slot |-> h.slot, inc |-> domains[h.slot].gen]}
  /\ UNCHANGED <<count, threads, created, told, peopled>>

NotifyOnEnd(t, h) ==
  /\ MayCall(t)
  /\ h \in domains[threads[t].slot].cspace
  /\ domains[h.slot].live
  /\ domains' = [domains EXCEPT ![h.slot].notify = TRUE]
  /\ bound' = bound \cup {[slot |-> h.slot, inc |-> domains[h.slot].gen]}
  /\ UNCHANGED <<count, threads, created, told, peopled>>

EndDomain(t, h) ==
  /\ MayCall(t)
  /\ h \in domains[threads[t].slot].cspace
  /\ h.slot # threads[t].slot
  /\ domains[h.slot].live
  /\ threads' = [threads EXCEPT ![t] =
       [At(t, "mark", <<h>>) EXCEPT !.after = "return"]]
  /\ UNCHANGED <<domains, count, created, bound, told, peopled>>

Reap(t, h) ==
  /\ MayCall(t)
  /\ h \in domains[threads[t].slot].cspace
  /\ ~domains[h.slot].live
  /\ domains[h.slot].ended
  /\ domains' = [domains EXCEPT
       ![h.slot] = [@ EXCEPT !.ended = FALSE, !.notify = FALSE,
                             !.parent = NoParent, !.children = 0]]
  /\ threads' = [threads EXCEPT ![t] = At(t, "remove", <<h>>)]
  /\ UNCHANGED <<count, created, bound, told, peopled>>

RemoveHandle(t) ==
  LET me == threads[t].slot
  IN /\ threads[t].pc = "remove"
     /\ domains' = IF domains[me].live
                   THEN [domains EXCEPT ![me].cspace = @ \ {Goal(t)}]
                   ELSE domains
     /\ threads' = [threads EXCEPT ![t] = Back(@)]
     /\ UNCHANGED <<count, created, bound, told, peopled>>

\* A copy of the handle for another domain the caller holds a handle to.
GrantHandle(t, h, to) ==
  /\ MayCall(t)
  /\ {h, to} \subseteq domains[threads[t].slot].cspace
  /\ to.slot # threads[t].slot
  /\ domains[to.slot].live
  /\ h \notin domains[to.slot].cspace
  /\ domains' = [domains EXCEPT ![to.slot].cspace = @ \cup {h}]
  /\ UNCHANGED <<count, threads, created, bound, told, peopled>>

-----------------------------------------------------------------------------
\* What the kernel does by itself once a thread is in it.
KernelStep(t) ==
  \/ InstallHandle(t)
  \/ RecordPendingStart(t)
  \/ SpawnFails(t)
  \/ DomainThreadArrives(t)
  \/ \E n \in Threads : InsertThread(t, n)
  \/ TakePendingStart(t)
  \/ MarkDeparting(t)
  \/ DomainThreadDeparts(t)
  \/ EndedByLastThread(t)
  \/ Finish(t)
  \/ MarkDomainDying(t)
  \/ EndInTable(t)
  \/ SignalEnd(t)
  \/ RemoveHandle(t)

HandleCall(t, h) ==
  \/ StartProgram(t, h)
  \/ NotifyOnEnd(t, h)
  \/ EndDomain(t, h)
  \/ Reap(t, h)
  \/ \E to \in Names : GrantHandle(t, h, to)

Next ==
  \E t \in Threads :
    \/ KernelStep(t)
    \/ CreateUnder(t)
    \/ BeginExit(t)
    \/ Fault(t)
    \/ \E h \in domains[threads[t].slot].cspace : HandleCall(t, h)

Spec == Init /\ [][Next]_vars

\* A thread in the kernel goes on, and one told to stop meets a safe point.
Fairness ==
  \A t \in Threads :
    /\ WF_vars(KernelStep(t))
    /\ WF_vars(threads[t].dying /\ BeginExit(t))

FairSpec == Spec /\ Fairness

-----------------------------------------------------------------------------
TypeOK ==
  /\ domains \in [Slots -> Domain]
  /\ count \in [Slots -> Nat]
  /\ DOMAIN threads = Threads
  /\ \A t \in Threads : threads[t] \in Thread
  /\ created \in 0 .. MaxCreated
  /\ bound \subseteq Names
  /\ told \subseteq Names
  /\ peopled \subseteq Names

Name(s) == [slot |-> s, inc |-> domains[s].gen]
Over(n) == domains[n.slot].gen > n.inc

(***************************************************************************)
(* The budget a supervisor is charged is exactly the domains it created    *)
(* that still live: end refunds it under the lock that clears `live`, and  *)
(* only to the incarnation that paid, so no interleaving of ends loses or  *)
(* doubles a refund.                                                       *)
(***************************************************************************)
ChildrenExact ==
  \A s \in Slots :
    domains[s].live => domains[s].children = Cardinality(Children(s))

\* The threads the departure counter of a slot stands for.
Counted(s) ==
  {t \in Threads :
     \/ /\ threads[t].slot = s
        /\ Present(t)
        /\ threads[t].pc # "finish"
        /\ ~(threads[t].departing /\ threads[t].pc # "elect")}

(***************************************************************************)
(* The departure counter never drifts: it is the threads of the slot that  *)
(* have not been through their subtraction, and the one a START is about   *)
(* to insert.  Two last threads, or none, would be the consequence.        *)
(***************************************************************************)
CountExact ==
  \A s \in Slots :
    count[s] = Cardinality(Counted(s))
               + Cardinality({t \in Threads : /\ threads[t].pc = "insert"
                                              /\ Goal(t).slot = s})

(***************************************************************************)
(* A child is destroyed with its parent: a live domain whose parent is     *)
(* over is on the worklist of a thread that is ending the family, even     *)
(* when create_under and end race for the table.                           *)
(***************************************************************************)
OrphansAreBeingEnded ==
  \A s \in Slots :
    /\ domains[s].live
    /\ domains[s].parent # NoParent
    /\ Over([slot |-> domains[s].parent, inc |-> domains[s].pgen])
    => \E t \in Threads :
         \E i \in 1 .. Len(threads[t].todo) :
           threads[t].pc \in {"mark", "table", "signal"}
           /\ threads[t].todo[i] = Name(s)

(***************************************************************************)
(* An accepted BIND is answered: when the incarnation it was made for is   *)
(* over, the signal was sent or a thread in end holds it and is about to.  *)
(***************************************************************************)
WatchNeverLost ==
  \A n \in bound :
    Over(n) => \/ n \in told
               \/ \E t \in Threads : /\ threads[t].pc = "signal"
                                     /\ threads[t].took
                                     /\ Goal(t) = n

\* A live domain whose program has run and has no thread left.
Deserted(s) == domains[s].live /\ count[s] = 0 /\ Name(s) \in peopled

(***************************************************************************)
(* A domain whose threads ran out is over: the thread elected by the       *)
(* counter gets to end it, unless something was started in it meanwhile,   *)
(* so none stays deserted.                                                 *)
(***************************************************************************)
EmptyDomainEnds == []<>(\A s \in Slots : ~Deserted(s))

(***************************************************************************)
(* What mark_domain_dying promises the rest of the kernel: a thread of an  *)
(* ended domain stops, whatever it was doing.                              *)
(***************************************************************************)
DyingThreadsFinish ==
  []<>(\A t \in Threads : threads[t].dying => threads[t].pc = "finished")

-----------------------------------------------------------------------------
(* What the comments say and the slot numbers do not give.                 *)

(***************************************************************************)
(* The doc of threads_counted_in: a departure that ends the innocent       *)
(* domain that now holds the slot is what create_under's use of the        *)
(* counter prevents.  So the last thread out ends only the domain it was   *)
(* a thread of.                                                            *)
(***************************************************************************)
DepartureEndsOwnDomain ==
  [][\A s \in Slots : \A t \in Threads :
       /\ domains[s].live
       /\ ~domains'[s].live
       /\ threads[t].pc = "table" /\ threads'[t].pc = "signal"
       /\ threads[t].after = "finish"
       => Goal(t) = Name(s)]_vars

(***************************************************************************)
(* The doc of could_still_run: a thread carrying a previous incarnation's  *)
(* slot number is dying or departing, and there is no third case.          *)
(***************************************************************************)
NoThirdCase ==
  \A t \in Threads :
    Present(t) /\ Over([slot |-> threads[t].slot, inc |-> threads[t].inc])
    => threads[t].dying \/ threads[t].departing

(***************************************************************************)
(* The comment in end: a corpse is kept only while a living program can    *)
(* ask about it; otherwise the table would fill with corpses no living     *)
(* program can name.                                                       *)
(***************************************************************************)
CorpseHasReaper ==
  \A s \in Slots :
    domains[s].ended
    => \/ \E d \in Slots : /\ domains[d].live
                           /\ \E h \in domains[d].cspace : h.slot = s
       \/ \E t \in Threads : threads[t].pc = "install" /\ Goal(t).slot = s

(***************************************************************************)
(* The comment on RELEASE: the capability goes with the slot, so no holder *)
(* gets an answer about whatever took the slot next.                       *)
(***************************************************************************)
HandleNamesItsDomain ==
  \A d \in Slots : \A h \in domains[d].cspace :
    domains[d].live /\ domains[h.slot].live => domains[h.slot].gen = h.inc

(***************************************************************************)
(* The doc of record_pending_start: of two starts that race the second is  *)
(* refused, so a domain a program made never runs two programs at once.    *)
(***************************************************************************)
OneProgramPerDomain ==
  \A s \in Slots :
    domains[s].live /\ domains[s].parent # NoParent
    => Cardinality({t \in Threads : InUser(t) /\ CouldStillRun(t, s)}) <= 1

\* The table's invariant: besides the types, the counts of threads and of
\* children are exact for the incarnation each belongs to, no watch is lost, and
\* no child is left behind by the end of its parent.
DomainInv ==
  TypeOK /\ CountExact /\ ChildrenExact /\ WatchNeverLost /\ OrphansAreBeingEnded
=============================================================================
