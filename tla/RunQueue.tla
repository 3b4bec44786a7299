------------------------------ MODULE RunQueue ------------------------------
(***************************************************************************)
(* The run queues of kernel/src/sched.rs, one to a processor: preemption,  *)
(* the switch and the window in which it is under way, stealing, blocking  *)
(* in place and out of place, waking by a scan of the queues, exit, and    *)
(* spawning in its two holds of the target's lock.                         *)
(*                                                                         *)
(* Every hold of a runqueue lock is one action.  What the processor really *)
(* executes (onCpu) is kept apart from what its queue says (current): the  *)
(* two part between the decision, taken under the lock, and the exchange   *)
(* of registers, done outside it.  A slot carries the registers saved in   *)
(* it as the name of the thread they belong to.  The deadlines that order  *)
(* the fair class are left out: any of the equal-ranked threads may be the *)
(* next.                                                                   *)
(***************************************************************************)
EXTENDS Integers, FiniteSets, FiniteSetsExt, Functions

CONSTANTS
  Cpus,                    \* online processors: 0 .. n - 1
  Slots,                   \* slots of a queue: 1 .. MAX_THREADS_PER_CPU
  Threads, NoThread,
  Layouts,                 \* the queues when preemption starts, [CPU -> [slot -> thread]],
                           \* and the threads then still to be spawned
  Rank,                    \* [Threads -> Nat]: 0 idle, 1 fair, more for real time
  Utilisation, RtCap,      \* real-time share of a thread; RT_UTILISATION_CAP
  Pinned,                  \* threads that may not be moved
  Blockers, Exiters,       \* threads that sleep, that exit
  Killable,                \* threads whose domain may be ended
  Spawners, SpawnRemote,   \* threads that spawn; whether onto other processors
  StealImbalance           \* STEAL_IMBALANCE

ASSUME RunQueueAssumption ==
  /\ NoThread \notin Threads
  /\ \A l \in Layouts :
       /\ l.queues \in [Cpus -> [Slots -> Threads \cup {NoThread}]] /\ l.unborn \subseteq Threads
       /\ \A c, d \in Cpus, r, s \in Slots :
            l.queues[c][r] = l.queues[d][s] =>
              <<c, r>> = <<d, s>> \/ l.queues[c][r] = NoThread
       /\ \A c \in Cpus : l.queues[c][1] \in Pinned
  /\ StealImbalance \in Nat /\ SpawnRemote \in BOOLEAN

VARIABLES
  queue,       \* [CPU -> [slot -> thread in it]]
  context,     \* [CPU -> [slot -> whose registers are saved in it]]
  current,     \* [CPU -> slot]
  switching,   \* [CPU -> BOOLEAN]
  leaving,     \* [CPU -> slot whose registers are still to be saved, 0 for none]
  onCpu,       \* [CPU -> the thread whose stack the processor stands on]
  state, dying,
  pc, seen,    \* where a thread is in the kernel, the CPU it read or targets
  chosen,      \* the slot a spawn found free, and the thread meant for it
  scan         \* a wake under way: its target and the next CPU to look at

vars == <<queue, context, current, switching, leaving, onCpu, state, dying, pc, seen,
          chosen, scan>>

Running(c) == queue[c][current[c]]
NoScan == [target |-> NoThread, at |-> 0, slept |-> FALSE]
NoChoice == [slot |-> 0, thread |-> NoThread]
Schedulable(t) == t # NoThread /\ state[t] \in {"Ready", "Running"}
FreeSlots(c) == {s \in Slots : queue[c][s] = NoThread}

\* init_cpu, and the spawns that precede start_all: each processor runs the
\* thread in its first slot.  Threads neither placed nor unborn have been and gone.
Init ==
  /\ \E l \in Layouts :
       /\ queue = l.queues
       /\ state = [t \in Threads |->
            IF \E c \in Cpus : queue[c][1] = t THEN "Running"
            ELSE IF \E c \in Cpus : t \in Range(queue[c]) THEN "Ready"
            ELSE IF t \in l.unborn THEN "Unborn" ELSE "Finished"]
  /\ context = queue
  /\ current = [c \in Cpus |-> 1]
  /\ switching = [c \in Cpus |-> FALSE]
  /\ leaving = [c \in Cpus |-> 0]
  /\ onCpu = [c \in Cpus |-> queue[c][1]]
  /\ dying = [t \in Threads |-> FALSE]
  /\ pc = [t \in Threads |-> IF state[t] = "Finished" THEN "done" ELSE "run"]
  /\ seen = [t \in Threads |-> 0]
  /\ chosen = [t \in Threads |-> NoChoice]
  /\ scan = NoScan

To(t, label) == pc' = [pc EXCEPT ![t] = label]

\* The thread a processor executes, outside the switch (whose interrupts are off).
Executes(c, t) == ~switching[c] /\ onCpu[c] = t

-----------------------------------------------------------------------------
(* The switch.                                                              *)

\* RunQueue::pick_next: any schedulable slot of the highest rank, the running
\* one when there is none.
Pick(c) ==
  LET able == {s \in Slots : Schedulable(queue[c][s])}
      best == {s \in able : \A r \in able : Rank[queue[c][r]] <= Rank[queue[c][s]]}
  IN IF able = {} THEN {current[c]} ELSE best

Runnable(c) == Cardinality({s \in Slots : Schedulable(queue[c][s])})

Movable(t) == t # NoThread /\ t \notin Pinned /\ Rank[t] < 2

\* Faulty: a processor partway through a switch is stolen from.
CandidatesMidSwitch(victim, load) ==
  {s \in Slots :
     /\ Runnable(victim) >= load + StealImbalance
     /\ s # current[victim]
     /\ Movable(queue[victim][s]) /\ state[queue[victim][s]] = "Ready"}

\* RunQueue::steal_candidate.
Candidates(victim, load) ==
  {s \in Slots :
     /\ ~switching[victim]
     /\ Runnable(victim) >= load + StealImbalance
     /\ s # current[victim]
     /\ Movable(queue[victim][s]) /\ state[queue[victim][s]] = "Ready"}

\* The decision to run slot next: what is done under the lock, up to its release.
Switch(c, next, states) ==
  /\ state' = [states EXCEPT ![queue'[c][next]] = "Running"]
  /\ current' = [current EXCEPT ![c] = next]
  /\ leaving' = [leaving EXCEPT ![c] = current[c]]
  /\ switching' = [switching EXCEPT ![c] = TRUE]
  /\ UNCHANGED <<onCpu, dying, seen, chosen, scan>>

\* The outgoing thread goes back to Ready unless it blocked or finished.
Outgoing(c) ==
  IF state[Running(c)] = "Running" THEN [state EXCEPT ![Running(c)] = "Ready"] ELSE state

\* preempt_reporting, where another thread of the queue is chosen.  With every
\* lock held by nobody the holds veto and a lost try_lock only put it off.
Preempt(c) ==
  /\ ~switching[c]
  /\ \E next \in Pick(c) \ {current[c]} :
       /\ UNCHANGED <<queue, context, pc>>
       /\ Switch(c, next, Outgoing(c))

\* Faulty: the thread is copied.
PreemptCopy(c) ==
  /\ ~switching[c] /\ current[c] \in Pick(c) /\ FreeSlots(c) # {}
  /\ \E victim \in Cpus \ {c} : LET slots == Candidates(victim, Runnable(c)) IN
       /\ slots # {}
       /\ LET slot == Min(slots)
              free == Min(FreeSlots(c))
          IN /\ queue' = [queue EXCEPT ![c][free] = queue[victim][slot]]
             /\ context' = [context EXCEPT ![c][free] = context[victim][slot]]
             /\ UNCHANGED pc
             /\ Switch(c, free, Outgoing(c))

\* preempt_reporting, where the queue has nothing else and try_steal has: the
\* thread is taken from the victim's queue with its saved registers.
PreemptSteal(c) ==
  /\ ~switching[c] /\ current[c] \in Pick(c) /\ FreeSlots(c) # {}
  /\ \E victim \in Cpus \ {c} : LET slots == Candidates(victim, Runnable(c)) IN
       /\ slots # {}
       /\ LET slot == Min(slots)
              free == Min(FreeSlots(c))
          IN /\ queue' = [queue EXCEPT ![victim][slot] = NoThread,
                                       ![c][free] = queue[victim][slot]]
             /\ context' = [context EXCEPT ![victim][slot] = NoThread,
                                           ![c][free] = context[victim][slot]]
             /\ UNCHANGED pc
             /\ Switch(c, free, Outgoing(c))

\* Faulty: the registers go to the slot that is entered.
ExchangeInto(c) ==
  /\ switching[c] /\ leaving[c] # 0
  /\ context' = [context EXCEPT ![c][current[c]] = onCpu[c]]
  /\ onCpu' = [onCpu EXCEPT ![c] = context[c][current[c]]]
  /\ leaving' = [leaving EXCEPT ![c] = 0]
  /\ UNCHANGED <<queue, current, switching, state, dying, pc, seen, chosen, scan>>

\* bhaskix_context_switch: the registers go to the slot that is left, which may
\* have been emptied, and come from the slot that is entered.
Exchange(c) ==
  /\ switching[c] /\ leaving[c] # 0
  /\ context' = [context EXCEPT ![c][leaving[c]] =
                   IF queue[c][leaving[c]] = NoThread THEN NoThread ELSE onCpu[c]]
  /\ onCpu' = [onCpu EXCEPT ![c] = context[c][current[c]]]
  /\ leaving' = [leaving EXCEPT ![c] = 0]
  /\ UNCHANGED <<queue, current, switching, state, dying, pc, seen, chosen, scan>>

\* finish_switch; a thread that left through block_self returns from it.
FinishSwitch(c) ==
  /\ switching[c] /\ leaving[c] = 0
  /\ switching' = [switching EXCEPT ![c] = FALSE]
  /\ pc' = [pc EXCEPT ![onCpu[c]] = IF @ = "asleep" THEN "run" ELSE @]
  /\ UNCHANGED <<queue, context, current, leaving, onCpu, state, dying, seen, chosen, scan>>

-----------------------------------------------------------------------------
(* Sleeping.  The processor is read first and its lock taken after, and the *)
(* reader may have been moved in between.                                   *)

\* Entering block_unless or mark_blocked: the processor is read.
BeginBlock(c, way) ==
  LET t == onCpu[c] IN
  /\ Executes(c, t) /\ pc[t] = "run" /\ t \in Blockers
  /\ seen' = [seen EXCEPT ![t] = c]
  /\ To(t, way)
  /\ UNCHANGED <<queue, context, current, switching, leaving, onCpu, state, dying, chosen, scan>>

Block(t) == [state EXCEPT ![t] = IF dying[t] THEN @ ELSE "Blocked"]

\* Faulty: whoever runs on the processor that was read is marked.
BlockWhoeverRuns(c) ==
  LET t == onCpu[c] IN
  /\ Executes(c, t) /\ pc[t] = "unless"
  /\ state' = Block(Running(seen[t])) /\ To(t, "marked")
  /\ UNCHANGED <<queue, context, current, switching, leaving, onCpu, dying, seen, chosen, scan>>

\* block_unless with nothing to take: a caller that was moved is not marked.
BlockUnless(c) ==
  LET t == onCpu[c] IN
  /\ Executes(c, t) /\ pc[t] = "unless"
  /\ IF Running(seen[t]) = t THEN state' = Block(t) /\ To(t, "marked")
     ELSE To(t, "run") /\ UNCHANGED state
  /\ UNCHANGED <<queue, context, current, switching, leaving, onCpu, dying, seen, chosen, scan>>

\* mark_blocked: a caller that was moved is looked for (mark_blocked_anywhere),
\* and missed when it is moved again, behind the scan.
MarkBlocked(c) ==
  LET t == onCpu[c] IN
  /\ Executes(c, t) /\ pc[t] = "mark"
  /\ \/ state' = Block(t)
     \/ Running(seen[t]) # t /\ UNCHANGED state
  /\ To(t, "marked")
  /\ UNCHANGED <<queue, context, current, switching, leaving, onCpu, dying, seen, chosen, scan>>

\* One pass of block_self: return if the mark is gone, else switch, else halt
\* where it stands until an interrupt.
BlockSelf(c) ==
  LET t == onCpu[c] IN
  /\ Executes(c, t) /\ pc[t] \in {"marked", "halted"}
  /\ \/ /\ state[t] # "Blocked"
        /\ To(t, "run")
        /\ UNCHANGED <<queue, context, current, switching, leaving, onCpu, state, dying,
                       seen, chosen, scan>>
     \/ /\ state[t] = "Blocked" /\ Pick(c) = {current[c]} /\ pc[t] = "marked"
        /\ To(t, "halted")
        /\ UNCHANGED <<queue, context, current, switching, leaving, onCpu, state, dying,
                       seen, chosen, scan>>
     \/ /\ state[t] = "Blocked"
        /\ \E next \in Pick(c) \ {current[c]} :
             /\ UNCHANGED <<queue, context>>
             /\ To(t, "asleep")
             /\ Switch(c, next, state)

\* Faulty: the scan starts past the first processor.
WakeBeginLate(t) ==
  /\ scan = NoScan /\ t \in Blockers /\ state[t] # "Unborn"
  /\ scan' = [target |-> t, at |-> 1, slept |-> state[t] = "Blocked"]
  /\ UNCHANGED <<queue, context, current, switching, leaving, onCpu, state, dying, pc,
                 seen, chosen>>

\* wake: the queues are looked at one at a time.
WakeBegin(t) ==
  /\ scan = NoScan /\ t \in Blockers /\ state[t] # "Unborn"
  /\ scan' = [target |-> t, at |-> 0, slept |-> state[t] = "Blocked"]
  /\ UNCHANGED <<queue, context, current, switching, leaving, onCpu, state, dying, pc,
                 seen, chosen>>

\* wake_with's hold of one queue.
WakeScan ==
  /\ scan # NoScan
  /\ LET t == scan.target
         found == state[t] = "Blocked" /\ t \in Range(queue[scan.at])
     IN /\ state' = IF found THEN [state EXCEPT ![t] = "Ready"] ELSE state
        /\ scan' = IF found \/ scan.at + 1 \notin Cpus THEN NoScan
                   ELSE [scan EXCEPT !.at = @ + 1]
  /\ UNCHANGED <<queue, context, current, switching, leaving, onCpu, dying, pc, seen, chosen>>

\* mark_domain_dying, at the thread of the domain.
Kill(t) ==
  /\ t \in Killable /\ ~dying[t] /\ state[t] \notin {"Unborn", "Finished"}
  /\ dying' = [dying EXCEPT ![t] = TRUE]
  /\ state' = [state EXCEPT ![t] = IF @ = "Blocked" THEN "Ready" ELSE @]
  /\ scan' = [scan EXCEPT !.slept = @ /\ scan.target # t]
  /\ UNCHANGED <<queue, context, current, switching, leaving, onCpu, pc, seen, chosen>>

-----------------------------------------------------------------------------
(* Exit and spawn.                                                          *)

BeginExit(c) ==
  LET t == onCpu[c] IN
  /\ Executes(c, t) /\ pc[t] = "run" /\ t \in Exiters
  /\ seen' = [seen EXCEPT ![t] = c]
  /\ To(t, "exit")
  /\ UNCHANGED <<queue, context, current, switching, leaving, onCpu, state, dying, chosen, scan>>

\* The end of exit: lock_own_queue reads the processor again under the lock and
\* starts over when it moved; the running thread of the queue is marked.
Finish(c) ==
  LET t == onCpu[c] IN
  /\ Executes(c, t) /\ pc[t] = "exit"
  /\ IF seen[t] = c
       THEN /\ state' = [state EXCEPT ![Running(c)] = "Finished"]
            /\ To(t, "done")
            /\ UNCHANGED seen
       ELSE seen' = [seen EXCEPT ![t] = c] /\ UNCHANGED <<state, pc>>
  /\ UNCHANGED <<queue, context, current, switching, leaving, onCpu, dying, chosen, scan>>

\* reap_finished: the slots it empties.
Reaped(c) ==
  {s \in Slots : s # current[c] /\ queue[c][s] # NoThread /\ state[queue[c][s]] = "Finished"}

\* RunQueue::rt_utilisation.
RtUtilisation(c) ==
  MapThenSumSet(LAMBDA s : IF queue[c][s] # NoThread /\ state[queue[c][s]] # "Finished"
                             THEN Utilisation[queue[c][s]] ELSE 0, Slots)

Unborn == {t \in Threads : state[t] = "Unborn"}

\* Faulty: what is admitted already is not counted.
AdmittedAlone(target, n) == Utilisation[n] <= RtCap

Admitted(target, n) == RtUtilisation(target) + Utilisation[n] <= RtCap

\* spawn_on_with, its first hold of the target's lock: admission, the reaping,
\* the choice of a slot for n.
SpawnChoose(c, target, n) ==
  LET t == onCpu[c]
      reaped == Reaped(target)
      emptied(slots) == [s \in Slots |-> IF s \in reaped THEN NoThread ELSE slots[s]]
  IN
  /\ Executes(c, t) /\ pc[t] = "run" /\ t \in Spawners
  /\ n \in Unborn /\ \A u \in Threads : chosen[u].thread # n
  /\ target = c \/ SpawnRemote
  /\ Rank[n] >= 2 => Admitted(target, n)
  /\ FreeSlots(target) \cup reaped # {}
  /\ queue' = [queue EXCEPT ![target] = emptied(@)]
  /\ context' = [context EXCEPT ![target] = emptied(@)]
  /\ chosen' = [chosen EXCEPT ![t] = [slot |-> Min(FreeSlots(target) \cup reaped), thread |-> n]]
  /\ seen' = [seen EXCEPT ![t] = target]
  /\ To(t, "spawn")
  /\ UNCHANGED <<current, switching, leaving, onCpu, state, dying, scan>>

\* spawn_on_with, its second hold: the thread goes into the slot chosen before.
SpawnInsert(c) ==
  LET t == onCpu[c]
      n == chosen[t].thread
  IN
  /\ Executes(c, t) /\ pc[t] = "spawn"
  /\ queue' = [queue EXCEPT ![seen[t]][chosen[t].slot] = n]
  /\ context' = [context EXCEPT ![seen[t]][chosen[t].slot] = n]
  /\ state' = [state EXCEPT ![n] = "Ready"]
  /\ chosen' = [chosen EXCEPT ![t] = NoChoice]
  /\ To(t, "run")
  /\ UNCHANGED <<current, switching, leaving, onCpu, dying, seen, scan>>

Next ==
  \/ \E c \in Cpus :
       \/ Preempt(c) \/ PreemptSteal(c) \/ Exchange(c) \/ FinishSwitch(c)
       \/ BeginBlock(c, "unless") \/ BeginBlock(c, "mark")
       \/ BlockUnless(c) \/ MarkBlocked(c) \/ BlockSelf(c)
       \/ BeginExit(c) \/ Finish(c) \/ SpawnInsert(c)
       \/ \E target \in Cpus, n \in Threads : SpawnChoose(c, target, n)
  \/ \E t \in Threads : WakeBegin(t) \/ Kill(t)
  \/ WakeScan

Spec == Init /\ [][Next]_vars

-----------------------------------------------------------------------------
(* Properties.                                                              *)

Occupants == Threads \cup {NoThread}

\* Every field stays what its declaration says.
TypeOK ==
  /\ queue \in [Cpus -> [Slots -> Occupants]] /\ context \in [Cpus -> [Slots -> Occupants]]
  /\ current \in [Cpus -> Slots] /\ leaving \in [Cpus -> Slots \cup {0}]
  /\ switching \in [Cpus -> BOOLEAN] /\ onCpu \in [Cpus -> Threads]
  /\ state \in [Threads -> {"Unborn", "Ready", "Running", "Blocked", "Finished"}]
  /\ dying \in [Threads -> BOOLEAN] /\ seen \in [Threads -> Cpus]
  /\ pc \in [Threads -> {"run", "unless", "mark", "marked", "halted", "asleep", "exit",
                         "done", "spawn"}]
  /\ chosen \in [Threads -> [slot : Slots \cup {0}, thread : Occupants]]
  /\ scan \in [target : Occupants, at : Cpus, slept : BOOLEAN]

\* No two processors stand on one stack: a thread is never resumed from its saved
\* registers while another processor is still on it, be it in the middle of
\* leaving it, or halted in block_self with the thread already made Ready.
OneProcessor == IsInjective(onCpu)

\* Outside a switch a processor executes the thread its queue calls current, so
\* that block_self, exit and the charging of time act on the caller.
RunsAsItself == \A c \in Cpus : ~switching[c] => Running(c) = onCpu[c]

Alive(t) == state[t] \notin {"Unborn", "Finished"}

\* A thread that was made and has not finished is in one slot of one queue: no
\* steal, reaping or spawn loses or doubles it.
InOneSlot ==
  \A t \in Threads : Alive(t) =>
    Cardinality({p \in Cpus \X Slots : queue[p[1]][p[2]] = t}) = 1

\* A thread is Blocked only between its own request to sleep and its return from
\* it, and Finished only by its own exit: a caller that was moved between reading
\* its processor and taking that processor's lock marks nobody else.
AskedFor ==
  \A t \in Threads :
    /\ state[t] = "Blocked" => pc[t] \in {"marked", "halted", "asleep"}
    /\ state[t] = "Finished" => pc[t] = "done"

\* A wake that began when its thread was asleep finds it: no sleeper slips from a
\* queue the scan has yet to look at to one it has passed.
WakeFinds ==
  scan.slept /\ state[scan.target] = "Blocked" =>
    \E c \in Cpus : c >= scan.at /\ scan.target \in Range(queue[c])

\* What is admitted to a processor's real-time class stays within the cap.
RtWithinCap == \A c \in Cpus : RtUtilisation(c) <= RtCap

\* The registers saved in a slot are those of the thread in it.
OwnRegisters == \A c \in Cpus, s \in Slots : context[c][s] = queue[c][s]

\* The queues' invariant: besides the types, every live thread is in one slot of
\* one queue with its own registers, no two processors stand on one thread, a
\* processor outside a switch runs what its queue says, and the cap is kept.
RunQueueInv ==
  TypeOK /\ InOneSlot /\ RunsAsItself /\ OneProcessor /\ OwnRegisters /\ RtWithinCap
=============================================================================
