------------------------------- MODULE Notify -------------------------------
(***************************************************************************)
(* One notification of kernel/src/notify.rs, and the sleeping and waking   *)
(* of kernel/src/sched.rs it rests on: wait, wait_once, signal from an     *)
(* interrupt, bind, destroy and create, and the table of wakes a handler   *)
(* could not deliver.                                                      *)
(*                                                                         *)
(* The words are atomics and no lock covers two of them, so each access is *)
(* an action.  block_unless alone looks and marks under one hold of the    *)
(* runqueue lock; a handler does not wait for that lock.  A badge is the   *)
(* incarnation of the notification it was sent to, so that the bits of one *)
(* can be told from the bits of the next.                                  *)
(***************************************************************************)
EXTENDS Integers, FiniteSets

CONSTANTS
  Threads, Handlers,
  NoThread,
  DeferredSlots,            \* the table of deferred wakes
  Plays,                    \* what may happen in one behaviour: see play
  MaxDestroys               \* bound: incarnations of the slot

ASSUME NotifyAssumption ==
  /\ NoThread \notin Threads
  /\ \A p \in Plays :
       /\ p.killable \cup p.binders \subseteq Threads
       /\ {p.live, p.busy} \subseteq BOOLEAN /\ p.modes \subseteq BOOLEAN
       /\ {p.signals, p.creates} \subseteq Nat /\ p.destroys \in 0 .. MaxDestroys
  /\ {DeferredSlots, MaxDestroys} \subseteq Nat

VARIABLES
  live, generation, pending, waiter, bound,   \* the slot
  pc, named, once, blocked, dying,            \* threads
  took,                                       \* what the last wait returned
  hpc, target, hgen,                          \* handlers
  deferred, drain,                            \* deferred wakes, the one being retried
  boundGen, relied,        \* history: the incarnation bound; threads whose wake
                           \* was left to a deferred entry about to be cleared
  play        \* whether the slot is live at first; who may be ended, who
              \* receives with the notification bound, which of wait (FALSE)
              \* and wait_once is called, whether others hold runqueue locks; the signals, destroys and creates still to come

slot == <<live, generation, pending, waiter, bound>>
thread == <<pc, named, once, blocked, dying, took>>
handler == <<hpc, target, hgen>>
retries == <<deferred, drain>>
history == <<boundGen, relied, play>>
vars == <<live, generation, pending, waiter, bound, pc, named, once, blocked, dying, took,
          hpc, target, hgen, deferred, drain, boundGen, relied, play>>

Table == 1 .. DeferredSlots
Nobody == [s \in Table |-> NoThread]
Generations == 0 .. MaxDestroys

Init ==
  /\ play \in Plays
  /\ live = play.live /\ generation = 0 /\ pending = {} /\ waiter = NoThread /\ bound = NoThread
  /\ pc = [t \in Threads |-> "user"]
  /\ named = [t \in Threads |-> 0]
  /\ once = [t \in Threads |-> FALSE]
  /\ blocked = [t \in Threads |-> FALSE]
  /\ dying = [t \in Threads |-> FALSE]
  /\ took = [t \in Threads |-> {}]
  /\ hpc = [h \in Handlers |-> "idle"]
  /\ target = [h \in Handlers |-> NoThread]
  /\ hgen = [h \in Handlers |-> 0]
  /\ deferred = Nobody /\ drain = 0
  /\ boundGen = [t \in Threads |-> 0] /\ relied = {}

To(t, label) == pc' = [pc EXCEPT ![t] = label]

-----------------------------------------------------------------------------
(* wait and wait_once.                                                      *)

Waiting == {"claim", "look", "mark", "die", "sleep", "last", "release"}

Wait(t, single) ==
  /\ pc[t] = "user" /\ live /\ t \notin play.binders
  /\ named' = [named EXCEPT ![t] = generation]
  /\ once' = [once EXCEPT ![t] = single]
  /\ took' = [took EXCEPT ![t] = {}]
  /\ To(t, "claim")
  /\ UNCHANGED <<slot, blocked, dying, handler, retries, history>>


Claim(t) ==
  /\ pc[t] = "claim"
  /\ IF waiter = NoThread THEN waiter' = t /\ To(t, "look")
     ELSE To(t, "user") /\ UNCHANGED waiter
  /\ UNCHANGED <<live, generation, pending, bound, named, once, blocked, dying, took,
                 handler, retries, history>>

\* The look takes the bits, with the runqueue lock held until the mark.
Look(t) ==
  /\ pc[t] = "look"
  /\ pending' = {}
  /\ took' = [took EXCEPT ![t] = pending]
  /\ To(t, IF pending # {} \/ (~once[t] /\ ~live) THEN "release" ELSE "mark")
  /\ UNCHANGED <<live, generation, waiter, bound, named, once, blocked, dying,
                 handler, retries, history>>

\* Faulty: a thread told to stop is put to sleep all the same.
MarkAnyone(t) ==
  /\ pc[t] = "mark"
  /\ blocked' = [blocked EXCEPT ![t] = TRUE]
  /\ To(t, IF once[t] THEN "sleep" ELSE "die")
  /\ UNCHANGED <<slot, named, once, dying, took, handler, retries, history>>

\* The mark is refused to a thread told to stop, and to a caller that was moved
\* to another processor before the lock.
Mark(t) ==
  /\ pc[t] = "mark"
  /\ \E asleep \in {FALSE, ~dying[t]} : blocked' = [blocked EXCEPT ![t] = asleep]
  /\ To(t, IF once[t] THEN "sleep" ELSE "die")
  /\ UNCHANGED <<slot, named, once, dying, took, handler, retries, history>>

\* should_die.
Die(t) ==
  /\ pc[t] = "die"
  /\ To(t, IF dying[t] THEN "release" ELSE "sleep")
  /\ UNCHANGED <<slot, named, once, blocked, dying, took, handler, retries, history>>

\* block_self returns.
Resume(t) ==
  /\ pc[t] = "sleep" /\ ~blocked[t]
  /\ To(t, IF once[t] THEN "last" ELSE "look")
  /\ UNCHANGED <<slot, named, once, blocked, dying, took, handler, retries, history>>

\* wait_once's second look.
Last(t) ==
  /\ pc[t] = "last"
  /\ pending' = {}
  /\ took' = [took EXCEPT ![t] = pending]
  /\ To(t, "release")
  /\ UNCHANGED <<live, generation, waiter, bound, named, once, blocked, dying,
                 handler, retries, history>>

Release(t) ==
  /\ pc[t] = "release"
  /\ waiter' = NoThread
  /\ To(t, "user")
  /\ UNCHANGED <<live, generation, pending, bound, named, once, blocked, dying, took,
                 handler, retries, history>>

-----------------------------------------------------------------------------
(* A receiver with the notification bound: bind_to, take_bound, and         *)
(* unbind_thread when it stops.  Its sleep is the endpoint's.               *)

Bind(t) ==
  /\ t \in play.binders /\ pc[t] = "user" /\ live /\ bound \in {NoThread, t}
  /\ bound' = t
  /\ boundGen' = [boundGen EXCEPT ![t] = generation]
  /\ UNCHANGED <<live, generation, pending, waiter, thread, handler, retries, relied, play>>

TakeBound(t) ==
  /\ t \in play.binders /\ pc[t] = "user" /\ live /\ bound = t
  /\ pending' = {}
  /\ took' = [took EXCEPT ![t] = pending]
  /\ UNCHANGED <<live, generation, waiter, bound, pc, named, once, blocked, dying,
                 handler, retries, history>>

Exit(t) ==
  /\ pc[t] = "user" /\ dying[t]
  /\ bound' = IF bound = t THEN NoThread ELSE bound
  /\ To(t, "gone")
  /\ UNCHANGED <<live, generation, pending, waiter, named, once, blocked, dying, took,
                 handler, retries, history>>

\* mark_domain_dying: marked, and woken if asleep, under the runqueue lock.
Kill(t) ==
  /\ t \in play.killable /\ ~dying[t] /\ pc[t] # "mark"
  /\ dying' = [dying EXCEPT ![t] = TRUE]
  /\ blocked' = [blocked EXCEPT ![t] = FALSE]
  /\ UNCHANGED <<slot, pc, named, once, took, handler, retries, history>>

-----------------------------------------------------------------------------
(* signal, from an interrupt handler.                                       *)

Signal(h) ==
  /\ hpc[h] = "idle" /\ live /\ play.signals > 0
  /\ play' = [play EXCEPT !.signals = @ - 1]
  /\ hgen' = [hgen EXCEPT ![h] = generation]
  /\ hpc' = [hpc EXCEPT ![h] = "bits"]
  /\ UNCHANGED <<slot, thread, target, retries, boundGen, relied>>

Bits(h) ==
  /\ hpc[h] = "bits"
  /\ pending' = pending \cup {hgen[h]}
  /\ hpc' = [hpc EXCEPT ![h] = "read"]
  /\ UNCHANGED <<live, generation, waiter, bound, thread, target, hgen, retries, history>>

ReadWaiter(h) ==
  /\ hpc[h] = "read"
  /\ target' = [target EXCEPT ![h] = waiter]
  /\ hpc' = [hpc EXCEPT ![h] = IF waiter = NoThread THEN "idle" ELSE "wake"]
  /\ UNCHANGED <<slot, thread, hgen, retries, history>>

\* try_lock on a runqueue: refused while the sleeper is deciding, and while
\* anyone else holds it.
QueueHeld(t) == pc[t] = "mark"
Contends(t) == play.busy \/ QueueHeld(t)


WakeFromInterrupt(h) ==
  /\ hpc[h] = "wake"
  /\ \/ /\ ~QueueHeld(target[h])
        /\ blocked' = [blocked EXCEPT ![target[h]] = FALSE]
        /\ hpc' = [hpc EXCEPT ![h] = "idle"]
     \/ /\ Contends(target[h])
        /\ hpc' = [hpc EXCEPT ![h] = "defer"]
        /\ UNCHANGED blocked
  /\ UNCHANGED <<slot, pc, named, once, dying, took, target, hgen, retries, history>>

\* defer_wake: a thread already in the table is not entered again.
DeferScan(h) ==
  /\ hpc[h] = "defer"
  /\ hpc' = [hpc EXCEPT ![h] =
               IF \E s \in Table : deferred[s] = target[h] THEN "idle" ELSE "insert"]
  /\ relied' = IF \E s \in Table : deferred[s] = target[h] /\ drain = s
               THEN relied \cup {target[h]} ELSE relied
  /\ UNCHANGED <<slot, thread, target, hgen, retries, boundGen, play>>

FreeEntry(s) ==
  deferred[s] = NoThread /\ \A r \in Table : deferred[r] = NoThread => s <= r

DeferInsert(h) ==
  /\ hpc[h] = "insert"
  /\ deferred' = IF \E s \in Table : FreeEntry(s)
                 THEN [deferred EXCEPT ![CHOOSE s \in Table : FreeEntry(s)] = target[h]]
                 ELSE deferred
  /\ hpc' = [hpc EXCEPT ![h] = "idle"]
  /\ UNCHANGED <<slot, thread, target, hgen, drain, history>>

\* drain_deferred_wakes, of one processor at a time.  A contended entry stays.
DrainWake(s) ==
  /\ drain = 0 /\ deferred[s] # NoThread /\ ~QueueHeld(deferred[s])
  /\ blocked' = [blocked EXCEPT ![deferred[s]] = FALSE]
  /\ drain' = s
  /\ UNCHANGED <<slot, pc, named, once, dying, took, handler, deferred, history>>

DrainClear ==
  /\ drain # 0
  /\ deferred' = [deferred EXCEPT ![drain] = NoThread]
  /\ drain' = 0
  /\ UNCHANGED <<slot, thread, handler, history>>

-----------------------------------------------------------------------------
(* destroy and create, under ALLOCATION.                                    *)

\* wake waits for the lock a deciding sleeper holds.
Destroy ==
  /\ live /\ play.destroys > 0
  /\ \A t \in Threads : waiter = t => ~QueueHeld(t)
  /\ live' = FALSE /\ generation' = generation + 1 /\ pending' = {} /\ waiter' = NoThread
  /\ blocked' = [t \in Threads |-> blocked[t] /\ t # waiter]
  /\ play' = [play EXCEPT !.destroys = @ - 1]
  /\ UNCHANGED <<bound, pc, named, once, dying, took, handler, retries, boundGen, relied>>

Create ==
  /\ ~live /\ play.creates > 0
  /\ live' = TRUE /\ pending' = {} /\ waiter' = NoThread
  /\ play' = [play EXCEPT !.creates = @ - 1]
  /\ UNCHANGED <<generation, bound, thread, handler, retries, boundGen, relied>>

-----------------------------------------------------------------------------
ThreadStep(t) ==
  \/ Claim(t) \/ Look(t) \/ Mark(t) \/ Die(t) \/ Resume(t) \/ Last(t) \/ Release(t) \/ Exit(t)

HandlerStep(h) ==
  Bits(h) \/ ReadWaiter(h) \/ WakeFromInterrupt(h) \/ DeferScan(h) \/ DeferInsert(h)

Drain == DrainClear \/ \E s \in Table : DrainWake(s)

Next ==
  \/ \E t \in Threads : \/ ThreadStep(t) \/ Bind(t) \/ TakeBound(t) \/ Kill(t)
                        \/ \E single \in play.modes : Wait(t, single)
  \/ \E h \in Handlers : Signal(h) \/ HandlerStep(h)
  \/ Drain \/ Destroy \/ Create

Spec == Init /\ [][Next]_vars

\* A thread that is not marked blocked is scheduled, a handler runs to its end
\* and the tick comes.
FairSpec ==
  /\ Spec
  /\ \A t \in Threads : WF_vars(ThreadStep(t) /\ ~blocked[t])
  /\ \A h \in Handlers : WF_vars(HandlerStep(h))
  /\ WF_vars(Drain)

-----------------------------------------------------------------------------
TypeOK ==
  /\ live \in BOOLEAN /\ generation \in Generations /\ pending \subseteq Generations
  /\ {waiter, bound} \subseteq Threads \cup {NoThread} /\ relied \subseteq Threads
  /\ pc \in [Threads -> Waiting \cup {"user", "gone"}]
  /\ named \in [Threads -> Generations] /\ boundGen \in [Threads -> Generations]
  /\ once \in [Threads -> BOOLEAN] /\ blocked \in [Threads -> BOOLEAN]
  /\ dying \in [Threads -> BOOLEAN] /\ took \in [Threads -> SUBSET Generations]
  /\ hpc \in [Handlers -> {"idle", "bits", "read", "wake", "defer", "insert"}]
  /\ \A h \in Handlers : hpc[h] \in {"wake", "defer", "insert"} => target[h] \in Threads
  /\ deferred \in [Table -> Threads \cup {NoThread}] /\ drain \in 0 .. DeferredSlots

Inside(t) == pc[t] \in Waiting \ {"claim"}

\* The registration belongs to a thread that is in its wait, and while the
\* notification lives a thread in its wait has it: a waiter that has gone
\* refuses nobody.
RegisteredIsWaiting ==
  /\ \A t \in Threads : waiter = t => Inside(t)
  /\ \A t \in Threads : live /\ Inside(t) => waiter = t

\* A thread that is gone holds no binding: no wake is sent to nobody, and the
\* notification can be bound again.
BindingIsAlive == \A t \in Threads : bound = t => pc[t] # "gone"

\* Two threads are never both in the wait of one live notification.
OneWaiter == live => Cardinality({t \in Threads : Inside(t)}) <= 1

Unheard(t) == live /\ waiter = t /\ blocked[t] /\ pending # {}

\* A waiter asleep on bits that have arrived is about to be woken: some handler
\* is still on its way to it, or its wake is in the deferred table.  The one
\* exception is a handler that found the thread in an entry whose wake had been
\* made and which was still to be cleared.
WakeIsOnItsWay ==
  \A t \in Threads \ relied : Unheard(t) =>
     \/ \E h \in Handlers : hpc[h] = "read" \/ (hpc[h] # "idle" /\ target[h] = t)
     \/ \E s \in Table : deferred[s] = t /\ (drain # s)


\* A waiter whose notification is destroyed, and one whose domain is ended,
\* leave the wait.  (wait_once does not look whether the notification lives.)
WaiterLeaves ==
  []<>(\A t \in Threads : Inside(t) => (live \/ once[t]) /\ ~dying[t])

\* A wait, and a bound receive, return the bits of the notification that was
\* named, never those of the next one in the slot.
OwnBits ==
  \A t \in Threads : pc[t] = "release" => took[t] \subseteq {named[t]}
BoundBits ==
  \A t \in play.binders : took[t] \subseteq {boundGen[t]}

\* The notification's invariant: besides the types, its one registration and its
\* one binding belong to threads that are in their wait and alive, and a sleeper
\* whose bits have arrived has a wake on its way.
NotifyInv ==
  TypeOK /\ RegisteredIsWaiting /\ OneWaiter /\ BindingIsAlive /\ WakeIsOnItsWay
=============================================================================
