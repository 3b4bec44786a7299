----------------------------- MODULE MCWaiting -----------------------------
(***************************************************************************)
(* Small instances of the ways a thread waits for another, beside the      *)
(* notification: at an endpoint, on a wait queue and on a timer.  They     *)
(* share no state; a behaviour is of one of them.                          *)
(***************************************************************************)
EXTENDS Endpoint

CONSTANTS c1, c2, s1, s2

Quiet == [callers |-> {c1}, servers |-> {s1}, killable |-> {}, exits |-> {}, bound |-> {},
          endpoints |-> {1}, calls |-> 2, signals |-> 0, destroys |-> 0, creates |-> 0]

\* Two callers, one of which may be ended, compete for a server.
Crowded == [Quiet EXCEPT !.callers = {c1, c2}, !.killable = {c1}]

\* Two servers, one of which may exit owing an answer; the caller may be ended.
Dying == [Quiet EXCEPT !.servers = {s1, s2}, !.killable = {c1}, !.exits = {s1}]

\* A server that waits for calls and for its notification at once, on an
\* endpoint still to be made.
Notified == [Quiet EXCEPT !.endpoints = {}, !.creates = 1, !.bound = {s1}, !.calls = 3,
                          !.signals = 3]

\* The endpoint dies under those that wait on them.
Destroyed == [Quiet EXCEPT !.callers = {c1, c2}, !.calls = 1, !.destroys = 1]

MCPlays == {Crowded, Dying, Notified, Destroyed}

VARIABLES
  part,
  entries, wblocked, wpc, waking, items, published, order,
  now, timers, batch, step, deadline, asleep, answered, signalled

queueing == <<entries, wblocked, wpc, waking, items, published, order>>
timing == <<now, timers, batch, step, deadline, asleep, answered, signalled>>

\* Three consumers, one more than the queue holds, and two producers, one of which wakes one.
Consumers == {"c1", "c2", "c3"}
Producers == {"p1", "p2"}
Queue == INSTANCE WaitQueue WITH
  NoThread <- "none", MaxWaiters <- 2, WakesOne <- {"p1"}, MaxItems <- 4,
  blocked <- wblocked, pc <- wpc

Timing == INSTANCE Sleep WITH
  Cpus <- {0, 1}, Sleepers <- {s1}, Drivers <- {s2},
  MaxTimers <- 1, MaxTime <- 4, MaxDuration <- 2, pc <- step, blocked <- asleep

ASSUME Queue!WaitQueueAssumption /\ Timing!SleepAssumption

MCInit ==
  /\ part \in {"endpoint", "queue", "timers"} /\ Init /\ Queue!Init /\ Timing!Init
  /\ part # "endpoint" => play = Crowded

MCNext ==
  \/ part = "endpoint" /\ Next /\ UNCHANGED <<part, queueing, timing>>
  \/ part = "queue" /\ Queue!Next /\ UNCHANGED <<part, vars, timing>>
  \/ part = "timers" /\ Timing!Next /\ UNCHANGED <<part, vars, queueing>>

\* The fairness of the endpoints and of the wait queue; of the timers only invariants are checked.
MCSpec ==
  /\ MCInit /\ [][MCNext]_<<part, vars, queueing, timing>>
  /\ \A t \in Threads :
       /\ WF_vars(part = "endpoint" /\ KernelStep(t) /\ ~blocked[t])
       /\ WF_vars(part = "endpoint" /\ ServiceStep(t) /\ ~blocked[t])
       /\ WF_vars(part = "endpoint" /\ Exit(t) /\ dying[t])
       /\ WF_vars(part = "endpoint" /\ Kick(t))
  /\ \A t \in Consumers : WF_queueing(part = "queue" /\ Queue!Consume(t))
  /\ \A p \in Producers : WF_queueing(part = "queue" /\ Queue!Produce(p))

\* The invariants of the three.
WaitingInv == EndpointInv /\ Queue!WaitQueueInv /\ Timing!SleepInv

\* A sleep is never short.
AtLeast == Timing!AtLeast

\* What is published is taken.
EveryItemTaken == Queue!EveryItemTaken
=============================================================================
