------------------------------- MODULE Sleep -------------------------------
(***************************************************************************)
(* The timers of kernel/src/time.rs, a table to a processor, and their two *)
(* users: sleep_micros, and the wait of kernel/src/virtio.rs for a device  *)
(* with a deadline (wake_at, wait_once, cancel_wake).  Each hold of a      *)
(* table's lock, and each mark or wake under a runqueue lock, is one       *)
(* action.  A thread may be on any processor when it arms.  A wake the     *)
(* handler could not deliver is the module Notify's subject: here it lands *)
(* or finds nobody asleep.                                                 *)
(***************************************************************************)
EXTENDS Integers, FiniteSets

CONSTANTS
  Cpus, Sleepers, Drivers,    \* threads in sleep_micros, threads waiting for a device
  MaxTimers,                  \* MAX_TIMERS
  MaxTime, MaxDuration        \* bounds: the clock, the length of a sleep

SleepAssumption ==
  /\ Sleepers \cap Drivers = {}
  /\ MaxTimers \in Nat /\ MaxTime \in Nat /\ MaxDuration \in Nat

VARIABLES
  now,
  timers,       \* [CPU -> set of timers]
  batch,        \* [CPU -> threads its handler has taken and is yet to wake]
  pc, deadline, blocked,
  answered,     \* [driver -> whether its device has completed]
  signalled     \* [driver -> bits of its notification]

vars == <<now, timers, batch, pc, deadline, blocked, answered, signalled>>

Threads == Sleepers \cup Drivers
Timer == [thread : Threads, deadline : 0 .. MaxTime]
Of(t) == [thread |-> t, deadline |-> deadline[t]]
Armed(t) == \E c \in Cpus : \E e \in timers[c] : e.thread = t

Init ==
  /\ now = 0
  /\ timers = [c \in Cpus |-> {}] /\ batch = [c \in Cpus |-> {}]
  /\ pc = [t \in Threads |-> "user"]
  /\ deadline = [t \in Threads |-> 0]
  /\ blocked = [t \in Threads |-> FALSE]
  /\ answered = [t \in Drivers |-> FALSE] /\ signalled = [t \in Drivers |-> FALSE]

To(t, label) == pc' = [pc EXCEPT ![t] = label]

\* The deadline is fixed once; a driver has rung its device's bell.
Begin(t, d) ==
  /\ pc[t] = "user" /\ now + d <= MaxTime
  /\ deadline' = [deadline EXCEPT ![t] = now + d]
  /\ answered' = [x \in Drivers |-> x # t /\ answered[x]]
  /\ signalled' = [x \in Drivers |-> x # t /\ signalled[x]]
  /\ To(t, IF t \in Drivers THEN "check" ELSE "arm")
  /\ UNCHANGED <<now, timers, batch, blocked>>

\* arm_for, on the processor the thread is on; a full table means a spin.
Arm(t, c) ==
  /\ pc[t] = "arm"
  /\ IF Cardinality(timers[c]) < MaxTimers
       THEN /\ timers' = [timers EXCEPT ![c] = @ \cup {Of(t)}]
            /\ To(t, IF t \in Drivers THEN "mark" ELSE "check")
       ELSE To(t, IF t \in Drivers THEN "check" ELSE "spin") /\ UNCHANGED timers
  /\ UNCHANGED <<now, batch, deadline, blocked, answered, signalled>>

\* sleep_micros without a timer.
Spin(t) ==
  /\ pc[t] = "spin" /\ now >= deadline[t]
  /\ To(t, "user")
  /\ UNCHANGED <<now, timers, batch, deadline, blocked, answered, signalled>>

\* The head of sleep_micros's loop.
CheckTime(t) ==
  /\ pc[t] = "check" /\ t \in Sleepers
  /\ To(t, IF now < deadline[t] THEN "mark" ELSE "cancel")
  /\ UNCHANGED <<now, timers, batch, deadline, blocked, answered, signalled>>

\* The head of the driver's loop: the completion, then the deadline.
CheckDevice(t) ==
  /\ pc[t] = "check" /\ t \in Drivers
  /\ To(t, IF answered[t] \/ now >= deadline[t] THEN "user" ELSE "arm")
  /\ UNCHANGED <<now, timers, batch, deadline, blocked, answered, signalled>>

\* mark_blocked; block_unless, which takes the bits instead when there are some.
Mark(t) ==
  /\ pc[t] = "mark"
  /\ IF t \in Drivers /\ signalled[t]
       THEN /\ signalled' = [signalled EXCEPT ![t] = FALSE]
            /\ To(t, "cancel") /\ UNCHANGED blocked
       ELSE /\ blocked' = [blocked EXCEPT ![t] = TRUE]
            /\ To(t, "sleep") /\ UNCHANGED signalled
  /\ UNCHANGED <<now, timers, batch, deadline, answered>>

\* Faulty: sleep_micros returns from its first wake.
ResumeOnce(t) ==
  /\ pc[t] = "sleep" /\ ~blocked[t]
  /\ signalled' = [x \in Drivers |-> x # t /\ signalled[x]]
  /\ To(t, "cancel")
  /\ UNCHANGED <<now, timers, batch, deadline, blocked, answered>>

\* block_self returns; wait_once takes what there is.
Resume(t) ==
  /\ pc[t] = "sleep" /\ ~blocked[t]
  /\ signalled' = [x \in Drivers |-> x # t /\ signalled[x]]
  /\ To(t, IF t \in Drivers THEN "cancel" ELSE "check")
  /\ UNCHANGED <<now, timers, batch, deadline, blocked, answered>>

\* Faulty: the table of one processor is cleared.
CancelHere(t) ==
  /\ pc[t] = "cancel"
  /\ \E c \in Cpus : timers' = [timers EXCEPT ![c] = {e \in @ : e.thread # t}]
  /\ To(t, IF t \in Drivers THEN "check" ELSE "user")
  /\ UNCHANGED <<now, batch, deadline, blocked, answered, signalled>>

\* cancel_for, on whichever processor armed it.
Cancel(t) ==
  /\ pc[t] = "cancel"
  /\ timers' = [c \in Cpus |-> {e \in timers[c] : e.thread # t}]
  /\ To(t, IF t \in Drivers THEN "check" ELSE "user")
  /\ UNCHANGED <<now, batch, deadline, blocked, answered, signalled>>

\* The interrupt of the device: the bits go down and the waiter is woken.
Complete(t) ==
  /\ t \in Drivers /\ pc[t] # "user" /\ ~answered[t]
  /\ answered' = [answered EXCEPT ![t] = TRUE]
  /\ signalled' = [signalled EXCEPT ![t] = TRUE]
  /\ blocked' = [blocked EXCEPT ![t] = FALSE]
  /\ UNCHANGED <<now, timers, batch, pc, deadline>>

Due(c) == {e \in timers[c] : e.deadline <= now}

\* on_tick: take_expired under the table's lock.
Tick(c) ==
  /\ batch[c] = {} /\ Due(c) # {}
  /\ timers' = [timers EXCEPT ![c] = @ \ Due(c)]
  /\ batch' = [batch EXCEPT ![c] = {e.thread : e \in Due(c)}]
  /\ UNCHANGED <<now, pc, deadline, blocked, answered, signalled>>

\* on_tick: the wake of one expired thread.
WakeExpired(c) ==
  /\ \E t \in batch[c] :
       /\ batch' = [batch EXCEPT ![c] = @ \ {t}]
       /\ blocked' = [blocked EXCEPT ![t] = FALSE]
  /\ UNCHANGED <<now, timers, pc, deadline, answered, signalled>>

Advance ==
  /\ now < MaxTime
  /\ now' = now + 1
  /\ UNCHANGED <<timers, batch, pc, deadline, blocked, answered, signalled>>

Step(t) ==
  \/ \E c \in Cpus : Arm(t, c)
  \/ Spin(t) \/ CheckTime(t) \/ CheckDevice(t) \/ Mark(t) \/ Resume(t) \/ Cancel(t)

Next ==
  \/ \E t \in Threads : Step(t) \/ \E d \in 1 .. MaxDuration : Begin(t, d)
  \/ \E t \in Drivers : Complete(t)
  \/ \E c \in Cpus : Tick(c) \/ WakeExpired(c)
  \/ Advance

Spec == Init /\ [][Next]_vars

\* Threads that are not Blocked run, time passes, and the interrupt of a processor
\* with a timer that is due comes and runs to its end.  No device need answer.
FairSpec ==
  /\ Spec /\ WF_vars(Advance)
  /\ \A t \in Threads : WF_vars(Step(t))
  /\ \A c \in Cpus : WF_vars(Tick(c)) /\ WF_vars(WakeExpired(c))

-----------------------------------------------------------------------------
(* Properties.                                                              *)

\* Every field stays what its declaration says, and no table overflows.
TypeOK ==
  /\ now \in 0 .. MaxTime
  /\ \A c \in Cpus : timers[c] \subseteq Timer /\ Cardinality(timers[c]) <= MaxTimers
  /\ batch \in [Cpus -> SUBSET Threads]
  /\ pc \in [Threads -> {"user", "arm", "spin", "check", "mark", "sleep", "cancel"}]
  /\ deadline \in [Threads -> 0 .. MaxTime] /\ blocked \in [Threads -> BOOLEAN]
  /\ answered \in [Drivers -> BOOLEAN] /\ signalled \in [Drivers -> BOOLEAN]

\* A sleep lasts at least as long as was asked for, also when the wake of an
\* earlier, cancelled timer arrives in the middle of it.
AtLeast == \A t \in Sleepers : pc[t] = "cancel" => now >= deadline[t]

\* A thread that has left its wait has no timer left on any processor, wherever
\* it was when it armed and wherever it is now.
NothingLeftArmed == \A t \in Threads : pc[t] \in {"user", "arm", "spin"} => ~Armed(t)

\* A thread asleep in sleep_micros has a timer, or a handler about to wake it.
SleeperIsArmed ==
  \A t \in Sleepers : blocked[t] => Armed(t) \/ \E c \in Cpus : t \in batch[c]

\* A request to a device ends, by its completion or by its deadline, though the
\* device never answers.
RequestEnds == \A t \in Drivers : pc[t] # "user" ~> pc[t] = "user"

\* The timers' invariant: besides the types, no timer stays armed for a thread
\* that has returned from the sleep it armed it for.
SleepInv == TypeOK /\ NothingLeftArmed
=============================================================================
