----------------------------- MODULE WaitQueue -----------------------------
(***************************************************************************)
(* kernel/src/wait.rs: a queue of threads asleep until a condition holds,  *)
(* used as its module header asks: what the condition inspects is          *)
(* published first and the queue is woken after.  The condition here is an *)
(* item to take; each hold of the queue's lock is one action.              *)
(***************************************************************************)
EXTENDS Integers, Sequences, FiniteSets, Functions

CONSTANTS
  Consumers, Producers, NoThread,
  MaxWaiters,            \* MAX_WAITERS
  WakesOne,              \* the producers that call wake_one; the others wake_all
  MaxItems

WaitQueueAssumption ==
  /\ NoThread \notin Consumers
  /\ MaxWaiters \in Nat \ {0} /\ MaxItems \in Nat /\ WakesOne \subseteq Producers

VARIABLES
  entries,      \* [slot -> waiting thread]
  blocked,      \* [thread -> whether the scheduler has it Blocked]
  pc,           \* consumers: user, wait (in wait_until), sleep (in block_self)
  waking,       \* producers that have published and are yet to wake
  items,        \* what is published and not taken
  published,    \* items published so far
  order         \* history: the queued threads, longest waiting first

vars == <<entries, blocked, pc, waking, items, published, order>>

Slots == 1 .. MaxWaiters
Queued == Range(entries) \ {NoThread}
Free == {s \in Slots : entries[s] = NoThread}

Init ==
  /\ entries = [s \in Slots |-> NoThread]
  /\ blocked = [t \in Consumers |-> FALSE]
  /\ pc = [t \in Consumers |-> "user"]
  /\ waking = {} /\ items = 0 /\ published = 0
  /\ order = <<>>

Without(t) == [s \in Slots |-> IF entries[s] = t THEN NoThread ELSE entries[s]]
Leave(t) == SelectSeq(order, LAMBDA u : u # t)

\* The first free slot after t's own entry has been removed.
FirstFree(t) ==
  CHOOSE s \in Slots : /\ Without(t)[s] = NoThread
                       /\ \A r \in Slots : r < s => Without(t)[r] # NoThread

Call(t) ==
  /\ pc[t] = "user"
  /\ pc' = [pc EXCEPT ![t] = "wait"]
  /\ UNCHANGED <<entries, blocked, waking, items, published, order>>

\* One pass of wait_until under the lock: the thread's own entry goes, the
\* condition is looked at, and the thread is queued and marked together
\* (enqueue_and_block).  With the queue full it goes round again, awake.
Pass(t) ==
  /\ pc[t] = "wait"
  /\ \/ /\ items > 0
        /\ items' = items - 1
        /\ entries' = Without(t) /\ order' = Leave(t)
        /\ pc' = [pc EXCEPT ![t] = "user"]
        /\ UNCHANGED blocked
     \/ /\ items = 0 /\ NoThread \in Range(Without(t))
        /\ entries' = [Without(t) EXCEPT ![FirstFree(t)] = t]
        /\ order' = Append(Leave(t), t)
        /\ blocked' = [blocked EXCEPT ![t] = TRUE]
        /\ pc' = [pc EXCEPT ![t] = "sleep"]
        /\ UNCHANGED items
     \/ /\ items = 0 /\ NoThread \notin Range(Without(t))
        /\ entries' = Without(t) /\ order' = Leave(t)
        /\ UNCHANGED <<items, blocked, pc>>
  /\ UNCHANGED <<waking, published>>

\* block_self returns: woken, or for no reason (its own passes given up).
Resume(t) ==
  /\ pc[t] = "sleep" /\ ~blocked[t]
  /\ pc' = [pc EXCEPT ![t] = "wait"]
  /\ UNCHANGED <<entries, blocked, waking, items, published, order>>

\* The scheduler wakes the thread by another route: a timer of an earlier sleep.
StrayWake(t) ==
  /\ pc[t] = "sleep" /\ blocked[t]
  /\ blocked' = [blocked EXCEPT ![t] = FALSE]
  /\ UNCHANGED <<entries, pc, waking, items, published, order>>

Publish(p) ==
  /\ p \notin waking /\ published < MaxItems
  /\ items' = items + 1 /\ published' = published + 1
  /\ waking' = waking \cup {p}
  /\ UNCHANGED <<entries, blocked, pc, order>>

\* The slots whose wake lands: those of threads that are Blocked.
Landing == {s \in Slots : entries[s] # NoThread /\ blocked[entries[s]]}

\* Faulty: the entries are cleared first, and the wakes then find none.
WakeCleared(slots) ==
  /\ entries' = [s \in Slots |-> IF s \in slots THEN NoThread ELSE entries[s]]
  /\ order' = SelectSeq(order, LAMBDA u : \A s \in slots : entries[s] # u)
  /\ UNCHANGED blocked

Wake(slots) ==
  /\ entries' = [s \in Slots |-> IF s \in slots THEN NoThread ELSE entries[s]]
  /\ blocked' = [t \in Consumers |-> blocked[t] /\ \A s \in slots : entries[s] # t]
  /\ order' = SelectSeq(order, LAMBDA u : \A s \in slots : entries[s] # u)

WakeAll(p) ==
  /\ p \in waking \ WakesOne
  /\ Wake(Landing)
  /\ waking' = waking \ {p}
  /\ UNCHANGED <<pc, items, published>>

\* Faulty: the queue is given up on at the first entry, landed or not.
WakeFirst(p) ==
  /\ p \in waking \cap WakesOne
  /\ Wake({s \in Landing : \A r \in Slots : r < s => entries[r] = NoThread})
  /\ waking' = waking \ {p}
  /\ UNCHANGED <<pc, items, published>>

\* wake_one: the first slot whose wake lands; an entry whose wake does not is
\* kept and passed over.
WakeOne(p) ==
  /\ p \in waking \cap WakesOne
  /\ Wake({s \in Landing : \A r \in Landing : s <= r})
  /\ waking' = waking \ {p}
  /\ UNCHANGED <<pc, items, published>>

Consume(t) == Call(t) \/ Pass(t) \/ Resume(t)
Produce(p) == WakeAll(p) \/ WakeOne(p)

Next ==
  \/ \E t \in Consumers : Consume(t) \/ StrayWake(t)
  \/ \E p \in Producers : Publish(p) \/ Produce(p)

Spec == Init /\ [][Next]_vars

\* A thread that is not Blocked is run, and a producer gets to its wake.  Nothing
\* promises a publication or a stray wake.
FairSpec ==
  /\ Spec
  /\ \A t \in Consumers : WF_vars(Consume(t))
  /\ \A p \in Producers : WF_vars(Produce(p))

-----------------------------------------------------------------------------
(* Properties.                                                              *)

\* Every field stays what its declaration says.
TypeOK ==
  /\ entries \in [Slots -> Consumers \cup {NoThread}]
  /\ blocked \in [Consumers -> BOOLEAN]
  /\ pc \in [Consumers -> {"user", "wait", "sleep"}]
  /\ waking \subseteq Producers /\ items \in 0 .. MaxItems /\ published \in 0 .. MaxItems
  /\ order \in Seq(Consumers)

\* A Blocked thread has an entry: enqueue_and_block fuses the two, and a wake
\* gives up an entry only when it landed.
SleeperIsQueued == \A t \in Consumers : blocked[t] => t \in Queued

\* Nobody sleeps past an item: while a thread is asleep, each item is covered by
\* a wake still to come or by a thread already on its way to look.
NoLostWake ==
  (\E t \in Consumers : blocked[t]) =>
    items <= Cardinality(waking) +
             Cardinality({t \in Consumers : pc[t] # "user" /\ ~blocked[t]})

\* Every item is taken while there are threads to take it, whichever way the
\* queue is woken and whatever stray wakes come in between.
EveryItemTaken == items > 0 ~> items = 0

\* wake_one wakes the thread that has waited longest of those asleep.
LongestFirst ==
  [][\A p \in Producers : WakeOne(p) =>
       \A t \in Consumers : blocked[t] /\ ~blocked'[t] =>
         t = Head(SelectSeq(order, LAMBDA u : blocked[u]))]_vars

\* The queue's invariant: besides the types, a sleeper has its entry, and each
\* item it sleeps beside is covered by a wake or by a thread about to look.
WaitQueueInv == TypeOK /\ SleeperIsQueued /\ NoLostWake
=============================================================================
