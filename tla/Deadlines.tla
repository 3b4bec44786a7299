------------------------------ MODULE Deadlines ------------------------------
(***************************************************************************)
(* The deadline table of kernel/src/notify.rs: arm, disarm, destroy and    *)
(* expire, which share a few atomics and no lock.  expire runs from the    *)
(* timer interrupt on every processor, in between any two accesses of the  *)
(* others: loads tested together, a compare-exchange and a store are each  *)
(* an action.                                                              *)
(*                                                                         *)
(* Every notification is used by one client, which arms it, re-arms it,    *)
(* disarms it, or destroys it and makes another in its place.  Badges are  *)
(* left out: they are stored and read beside the deadline.                 *)
(***************************************************************************)
EXTENDS Integers, FiniteSets

CONSTANTS
  Notifications,      \* 1 .. n
  MaxDeadlines,       \* slots of the table
  Cpus,
  MaxTime,            \* bound: the clock
  Plays               \* the processors, clients and slots, the arms and destroys of a behaviour

Slots == 1 .. MaxDeadlines
FREE == 0
ARMING == -1

DeadlinesAssumption ==
  /\ Notifications = 1 .. Cardinality(Notifications)
  /\ MaxDeadlines \in Nat \ {0}
  /\ MaxTime \in Nat
  /\ \A p \in Plays : /\ p.clients \subseteq Notifications /\ p.cpus \subseteq Cpus /\ p.slots \in Slots
                     /\ {p.arms, p.destroys} \subseteq Nat

VARIABLES
  now, live, generation,
  who, armedGen, deadline,  \* one slot of DEADLINES: three atomics
  pc, at, req,              \* the client of a notification: step, slot, request
  cpc, cat, seen,           \* an expiring processor: step, slot, what it loaded
  asked,                    \* the deadlines a client may expect to be woken for
  published, fires,         \* by this incarnation: slots published, deadlines fired
  play

table == <<who, armedGen, deadline>>
clients == <<pc, at, req>>
expiry == <<cpc, cat, seen>>
vars == <<now, live, generation, who, armedGen, deadline, pc, at, req, cpc, cat, seen,
          asked, published, fires, play>>

Nothing == [who |-> FREE, gen |-> 0]

Init ==
  /\ play \in Plays
  /\ now = 0
  /\ live = [n \in Notifications |-> n \in play.clients]
  /\ generation = [n \in Notifications |-> 0]
  /\ who = [s \in Slots |-> FREE]
  /\ armedGen = [s \in Slots |-> 0]
  /\ deadline = [s \in Slots |-> 0]
  /\ pc = [n \in Notifications |-> "idle"]
  /\ at = [n \in Notifications |-> 1]
  /\ req = [n \in Notifications |-> 0]
  /\ cpc = [c \in Cpus |-> "idle"]
  /\ cat = [c \in Cpus |-> 1]
  /\ seen = [c \in Cpus |-> Nothing]
  /\ asked = [n \in Notifications |-> {}]
  /\ published = [n \in Notifications |-> 0]
  /\ fires = [n \in Notifications |-> 0]

GoTo(n, label) == pc' = [pc EXCEPT ![n] = label]
Slot(n, s) == at' = [at EXCEPT ![n] = s]
Holds(s, n) == who[s] = n /\ armedGen[s] = generation[n]

-----------------------------------------------------------------------------
(* arm: replace a deadline already there, or claim a free slot.             *)

Arm(n, when) ==
  /\ pc[n] = "idle" /\ live[n]
  /\ published[n] < play.arms
  /\ req' = [req EXCEPT ![n] = when]
  /\ asked' = [asked EXCEPT ![n] = @ \cup {when}]
  /\ Slot(n, 1)
  /\ GoTo(n, "find")
  /\ UNCHANGED <<play, now, live, generation, table, expiry, published, fires>>

ArmFind(n) ==
  /\ pc[n] = "find"
  /\ IF Holds(at[n], n) THEN GoTo(n, "replace") /\ UNCHANGED at
     ELSE IF at[n] < play.slots THEN Slot(n, at[n] + 1) /\ UNCHANGED pc
     ELSE Slot(n, 1) /\ GoTo(n, "claim")
  /\ UNCHANGED <<play, now, live, generation, table, req, expiry, asked, published, fires>>

\* The client is answered Ok: from here on only this deadline is expected.
Answered(n) == asked' = [asked EXCEPT ![n] = {req[n]}]

ArmReplace(n) ==
  /\ pc[n] = "replace"
  /\ deadline' = [deadline EXCEPT ![at[n]] = req[n]]
  /\ Answered(n)
  /\ GoTo(n, "idle")
  /\ UNCHANGED <<play, now, live, generation, who, armedGen, at, req, expiry, published, fires>>

ArmClaim(n) ==
  /\ pc[n] = "claim" /\ who[at[n]] = FREE
  /\ who' = [who EXCEPT ![at[n]] = ARMING]
  /\ GoTo(n, "fill")
  /\ UNCHANGED <<play, now, live, generation, armedGen, deadline, at, req, expiry, asked,
                 published, fires>>

ArmClaimNext(n) ==
  /\ pc[n] = "claim" /\ who[at[n]] # FREE /\ at[n] < play.slots
  /\ Slot(n, at[n] + 1)
  /\ UNCHANGED <<play, now, live, generation, table, pc, req, expiry, asked, published, fires>>

ArmExhausted(n) ==
  /\ pc[n] = "claim" /\ who[at[n]] # FREE /\ at[n] = play.slots
  /\ asked' = [asked EXCEPT ![n] = @ \ {req[n]}]
  /\ GoTo(n, "idle")
  /\ UNCHANGED <<play, now, live, generation, table, at, req, expiry, published, fires>>

ArmFill(n) ==
  /\ pc[n] = "fill"
  /\ armedGen' = [armedGen EXCEPT ![at[n]] = generation[n]]
  /\ deadline' = [deadline EXCEPT ![at[n]] = req[n]]
  /\ GoTo(n, "publish")
  /\ UNCHANGED <<play, now, live, generation, who, at, req, expiry, asked, published, fires>>

ArmPublish(n) ==
  /\ pc[n] = "publish"
  /\ who' = [who EXCEPT ![at[n]] = n]
  /\ Answered(n)
  /\ published' = [published EXCEPT ![n] = @ + 1]
  /\ GoTo(n, "idle")
  /\ UNCHANGED <<play, now, live, generation, armedGen, deadline, at, req, expiry, fires>>

-----------------------------------------------------------------------------
(* disarm, and destroy, which forgets deadlines by index alone.  Both zero  *)
(* the deadline and then free the slot.                                     *)

Disarm(n) ==
  /\ pc[n] = "idle" /\ asked[n] # {}
  /\ Slot(n, 1)
  /\ GoTo(n, "drop")
  /\ UNCHANGED <<play, now, live, generation, table, req, expiry, asked, published, fires>>

Destroy(n) ==
  /\ pc[n] = "idle" /\ live[n] /\ generation[n] < play.destroys
  /\ live' = [live EXCEPT ![n] = FALSE]
  /\ generation' = [generation EXCEPT ![n] = @ + 1]
  /\ asked' = [asked EXCEPT ![n] = {}]
  /\ published' = [published EXCEPT ![n] = 0]
  /\ fires' = [fires EXCEPT ![n] = 0]
  /\ Slot(n, 1)
  /\ GoTo(n, "drop")
  /\ UNCHANGED <<play, now, table, req, expiry>>

\* disarm compares the generation, destroy does not.
DropFind(n) ==
  /\ pc[n] = "drop"
  /\ IF who[at[n]] = n /\ (live[n] => armedGen[at[n]] = generation[n])
     THEN GoTo(n, "zero") /\ UNCHANGED <<at, asked>>
     ELSE IF at[n] < play.slots THEN Slot(n, at[n] + 1) /\ UNCHANGED <<pc, asked>>
     ELSE GoTo(n, "idle") /\ asked' = [asked EXCEPT ![n] = {}] /\ UNCHANGED at
  /\ UNCHANGED <<play, now, live, generation, table, req, expiry, published, fires>>

DropZero(n) ==
  /\ pc[n] = "zero"
  /\ deadline' = [deadline EXCEPT ![at[n]] = 0]
  /\ GoTo(n, "free")
  /\ UNCHANGED <<play, now, live, generation, who, armedGen, at, req, expiry, asked, published, fires>>

DropFree(n) ==
  /\ pc[n] = "free"
  /\ who' = [who EXCEPT ![at[n]] = FREE]
  /\ GoTo(n, "drop")
  /\ UNCHANGED <<play, now, live, generation, armedGen, deadline, at, req, expiry, asked,
                 published, fires>>

\* notify::create in the slot again.
Create(n) ==
  /\ pc[n] = "idle" /\ ~live[n] /\ n \in play.clients
  /\ live' = [live EXCEPT ![n] = TRUE]
  /\ UNCHANGED <<play, now, generation, table, clients, expiry, asked, published, fires>>

-----------------------------------------------------------------------------
(* expire, one processor's timer interrupt.                                 *)

Tick ==
  /\ now < MaxTime
  /\ now' = now + 1
  /\ UNCHANGED <<play, live, generation, table, clients, expiry, asked, published, fires>>

Armed(s) == who[s] \notin {FREE, ARMING}

ExpireBegin(c) ==
  /\ c \in play.cpus /\ cpc[c] = "idle" /\ \E s \in Slots : Armed(s)
  /\ cpc' = [cpc EXCEPT ![c] = "look"]
  /\ cat' = [cat EXCEPT ![c] = 1]
  /\ UNCHANGED <<play, now, live, generation, table, clients, seen, asked, published, fires>>

ExpireOn(c) ==
  IF cat[c] < play.slots
  THEN cat' = [cat EXCEPT ![c] = @ + 1] /\ cpc' = [cpc EXCEPT ![c] = "look"]
  ELSE cpc' = [cpc EXCEPT ![c] = "idle"] /\ UNCHANGED cat

\* Faulty: a deadline of zero is taken for an empty one.
PassedNotZero(s) == Armed(s) /\ deadline[s] <= now /\ deadline[s] # 0
Passed(s) == Armed(s) /\ deadline[s] <= now

ExpireLook(c) ==
  /\ cpc[c] = "look"
  /\ IF Passed(cat[c])
     THEN /\ seen' = [seen EXCEPT ![c] = [who |-> who[cat[c]], gen |-> 0]]
          /\ cpc' = [cpc EXCEPT ![c] = "generation"]
          /\ UNCHANGED cat
     ELSE ExpireOn(c) /\ UNCHANGED seen
  /\ UNCHANGED <<play, now, live, generation, table, clients, asked, published, fires>>

ExpireGeneration(c) ==
  /\ cpc[c] = "generation"
  /\ seen' = [seen EXCEPT ![c].gen = armedGen[cat[c]]]
  /\ cpc' = [cpc EXCEPT ![c] = "claim"]
  /\ UNCHANGED <<play, now, live, generation, table, clients, cat, asked, published, fires>>

\* Faulty: the slot is cleared whoever got there first.
ExpireClears(c) ==
  /\ cpc[c] = "claim"
  /\ who' = [who EXCEPT ![cat[c]] = FREE]
  /\ cpc' = [cpc EXCEPT ![c] = "fire"]
  /\ UNCHANGED <<play, now, live, generation, armedGen, deadline, clients, cat, seen, asked,
                 published, fires>>

ExpireClaim(c) ==
  /\ cpc[c] = "claim"
  /\ IF who[cat[c]] = seen[c].who
     THEN /\ who' = [who EXCEPT ![cat[c]] = FREE]
          /\ cpc' = [cpc EXCEPT ![c] = "fire"]
          /\ UNCHANGED cat
     ELSE ExpireOn(c) /\ UNCHANGED who
  /\ UNCHANGED <<play, now, live, generation, armedGen, deadline, clients, seen, asked,
                 published, fires>>

\* notify::resolve, on the name expire rebuilt.
Resolves(name) == live[name.who] /\ generation[name.who] = name.gen

\* The store of zero, then visit: notify::signal, which refuses a stale name.
ExpireFire(c) ==
  /\ cpc[c] = "fire"
  /\ deadline' = [deadline EXCEPT ![cat[c]] = 0]
  /\ LET n == seen[c].who IN
     IF Resolves(seen[c])
     THEN /\ fires' = [fires EXCEPT ![n] = @ + 1]
          /\ asked' = [asked EXCEPT ![n] = {d \in @ : d > now}]
     ELSE UNCHANGED <<fires, asked>>
  /\ ExpireOn(c)
  /\ UNCHANGED <<play, now, live, generation, who, armedGen, clients, seen, published>>

-----------------------------------------------------------------------------
ClientStep(n) ==
  \/ ArmFind(n) \/ ArmReplace(n) \/ ArmClaim(n) \/ ArmClaimNext(n) \/ ArmExhausted(n)
  \/ ArmFill(n) \/ ArmPublish(n)
  \/ DropFind(n) \/ DropZero(n) \/ DropFree(n) \/ Create(n)

ExpireStep(c) ==
  \/ ExpireBegin(c) \/ ExpireLook(c) \/ ExpireGeneration(c) \/ ExpireClaim(c) \/ ExpireFire(c)

Next ==
  \/ \E n \in Notifications : \/ ClientStep(n) \/ Disarm(n) \/ Destroy(n)
                              \/ \E when \in 0 .. MaxTime : Arm(n, when)
  \/ \E c \in Cpus : ExpireStep(c)
  \/ Tick

Spec == Init /\ [][Next]_vars

\* The clock runs, interrupts arrive and a system call begun is finished.
FairSpec ==
  /\ Spec
  /\ WF_vars(Tick)
  /\ \A n \in Notifications : WF_vars(ClientStep(n))
  /\ \A c \in Cpus : WF_vars(ExpireStep(c))

-----------------------------------------------------------------------------
TypeOK ==
  /\ now \in 0 .. MaxTime
  /\ live \in [Notifications -> BOOLEAN] /\ generation \in [Notifications -> Nat]
  /\ who \in [Slots -> Notifications \cup {FREE, ARMING}]
  /\ armedGen \in [Slots -> Nat] /\ deadline \in [Slots -> 0 .. MaxTime]
  /\ at \in [Notifications -> Slots] /\ req \in [Notifications -> 0 .. MaxTime]
  /\ cat \in [Cpus -> Slots]
  /\ asked \in [Notifications -> SUBSET (0 .. MaxTime)]
  /\ published \in [Notifications -> Nat]

\* A published deadline fires at most once, however many processors reach it,
\* and never at the next notification to be created in the slot.
FiresOnce == \A n \in Notifications : fires[n] <= published[n]

\* Every slot is free again once the clients stop arming: none is leaked to a
\* destroyed notification or left half claimed.
SlotsDrain == <>[](\A s \in Slots : who[s] = FREE)

\* "Not before the deadline": a client that waits for a deadline is not woken
\* while every deadline it asked for is still to come.
NeverEarly ==
  [][\A c \in Cpus : LET n == seen[c].who IN
       cpc[c] = "fire" /\ cpc'[c] # "fire" /\ fires' # fires =>
         pc[n] # "idle" \/ asked[n] = {} \/ \E d \in asked[n] : d <= now]_vars

\* A client that was told its deadline is armed has it in the table, or about
\* to be fired.
ArmedIsArmed ==
  \A n \in Notifications : live[n] /\ pc[n] = "idle" /\ asked[n] # {} =>
     \/ \E s \in Slots : Holds(s, n)
     \/ \E c \in Cpus : cpc[c] = "fire" /\ seen[c] = [who |-> n, gen |-> generation[n]]

\* A slot claimed by one client is not claimed by another before it is
\* published.
ClaimIsExclusive ==
  \A s \in Slots : Cardinality({n \in Notifications :
                      pc[n] \in {"fill", "publish"} /\ at[n] = s}) <= 1

\* The table's invariant: besides the types, a deadline that was published has
\* fired at most once, and only for the incarnation that armed it.
DeadlinesInv == TypeOK /\ FiresOnce
=============================================================================
