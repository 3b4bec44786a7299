----------------------------- MODULE Interrupts -----------------------------
(***************************************************************************)
(* Who receives an interrupt: kernel/src/irq.rs, the vector registry of    *)
(* kernel/src/vectors.rs and the I/O APIC of arch/x86_64/src/ioapic.rs.    *)
(*                                                                         *)
(* A driver claims a source, binds its notification, and serves: it waits, *)
(* drains its device and acknowledges.  The delivery path takes no lock    *)
(* and runs on one processor; the drivers run on it too, or on others.     *)
(* The chip is reached through one select register and one window, so an   *)
(* access is two steps and a change of the mask bit six.                   *)
(***************************************************************************)
EXTENDS Integers, FiniteSets, FiniteSetsExt

CONSTANTS
  Lines,          \* the global interrupts (gsi), numbers from 1
  Messages,       \* the message-signalled sources
  Drivers,        \* who claims; a driver has one source and one notification
  NoDriver,       \* nobody
  Reaper,         \* the thread that destroys domains
  Cpu,            \* the processor interrupts are delivered to
  MaxHandlers,    \* MAX_HANDLERS
  Vectors,        \* the allocatable vectors, numbers from 1
  Plays           \* what a behaviour may do, see Init

InterruptsAssumption ==
  /\ Lines \subseteq Nat \ {0} /\ Vectors \subseteq Nat \ {0}
  /\ Lines \cap Messages = {} /\ MaxHandlers \in Nat \ {0}
  /\ NoDriver \notin Drivers /\ Reaper \notin Drivers /\ Cpu \notin Drivers \cup {Reaper}

NoLine == 0      \* u32::MAX in Delivery.gsi, and the version register of the chip
Indices == 0 .. MaxHandlers - 1
Sources == Lines \cup Messages
Procs == Drivers \cup {Reaper}

VARIABLES
  handlers,   \* HANDLERS: slot -> [source, vector, generation, live, domain]
  lock,       \* who holds its lock
  taken,      \* the vectors that have an owner
  delivery,   \* DELIVERY: vector -> [handler, notification, gsi]
  select,     \* the chip's select register: the line whose entry it shows, or NoLine
  entry,      \* the chip's redirection entries: line -> [vector, masked]
  table,      \* the devices' MSI-X entries: message -> vector, 0 while unprogrammed
  access,     \* the change of the chip an actor is in the middle of
  pending,    \* what each device holds for its driver
  enabled,    \* the sources whose device was told to raise interrupts
  raised,     \* how often each device raised something
  request,    \* interrupts the local APIC has yet to deliver: <<source, vector>>
  irq,        \* on_interrupt: [at, source, vector]
  bits,       \* the drivers whose notification is signalled
  pc, id, vector, rounds, \* a driver's step, its HandlerId, its vector, its claims
  held,       \* the ids release_owned_by collected and has yet to release
  ended,      \* the domains that were destroyed: <<driver, round>>
  crossed,    \* signals that came from a source not the driver's
  play

vars == <<handlers, lock, taken, delivery, select, entry, table, access, pending, enabled,
          raised, request, irq, bits, pc, id, vector, rounds, held, ended, crossed, play>>

Idle == [kind |-> "none", gsi |-> NoLine, at |-> 0, low |-> [vector |-> 0, masked |-> TRUE]]
Resting == [at |-> "idle", source |-> NoLine, vector |-> 0]
NoId == [index |-> 0, generation |-> -1]

\* HANDLERS is empty (a slot never used has generation -1, so that its first is 0), the
\* chip's entries are masked, no device is enabled.
Init ==
  /\ play \in Plays
  /\ handlers = [i \in Indices |-> [source |-> NoLine, vector |-> 0, generation |-> -1,
                                  live |-> FALSE, domain |-> <<NoDriver, 0>>]]
  /\ lock = NoDriver /\ taken = {}
  /\ delivery = [v \in Vectors \cup {0} |->
                   [handler |-> 0, notification |-> NoDriver, gsi |-> NoLine]]
  /\ select = NoLine
  /\ entry = [g \in Lines |-> [vector |-> 0, masked |-> TRUE]]
  /\ table = [m \in Messages |-> 0]
  /\ access = [a \in Procs \cup {Cpu} |-> Idle]
  /\ pending = [s \in Sources |-> 0] /\ raised = [s \in Sources |-> 0]
  /\ enabled = {}
  /\ request = {} /\ irq = Resting /\ bits = {}
  /\ pc = [p \in Procs |-> "idle"] /\ id = [p \in Procs |-> NoId]
  /\ vector = [d \in Drivers |-> 0] /\ rounds = [d \in Drivers |-> 0]
  /\ held = {} /\ ended = {} /\ crossed = {}

-----------------------------------------------------------------------------
(* Who may take a step. *)

Source(d) == play.source[d]
Domain(d) == <<d, rounds[d]>>

\* The steps of acknowledge with interrupts off: the mask bit's read and write.  The
\* chip is looked up, and its version read, before they are off.
InterruptsOff(d) == pc[d] = "acking" /\ access[d].at \in 2 .. 5

\* Apart, the drivers run on other processors than the one interrupts come to.  On the
\* same one a handler runs to its end, and no thread is switched away from while it
\* holds the lock or has interrupts off.
MayRun(p) ==
  \/ play.apart
  \/ irq.at = "idle" /\ lock \in {NoDriver, p} /\ \A d \in Drivers \ {p} : ~InterruptsOff(d)
MayInterrupt == play.apart \/ \A d \in Drivers : ~InterruptsOff(d)

Goto(p, l) == pc' = [pc EXCEPT ![p] = l]

(* The chip. *)

\* IoApic::new asks the version register how many inputs there are; if another access
\* moved the select register in between, what it reads is an entry, and bits 16-23 of
\* one are its mask bit.
InputsRead == IF select = NoLine THEN Max(Lines) + 1 ELSE IF entry[select].masked THEN 2 ELSE 1

Access(a, kind, g) == access' = [access EXCEPT ![a] = [Idle EXCEPT !.kind = kind, !.gsi = g]]

\* chip(), then mask, unmask or route: select the version and read it; for mask and
\* unmask, select the entry and read it; select the entry and write it.  An input the
\* chip is not found to own is refused and nothing is written.
ChipStep(a) ==
  LET c == access[a]
      To(n) == access' = [access EXCEPT ![a].at = n]
  IN /\ c.kind # "none" /\ c.at < 6
     /\ CASE c.at = 0 -> select' = NoLine /\ To(1) /\ UNCHANGED entry
          [] c.at = 1 -> /\ UNCHANGED <<select, entry>>
                         /\ IF c.gsi >= InputsRead THEN To(7)
                            ELSE IF c.kind = "route" THEN To(4) ELSE To(2)
          [] c.at \in {2, 4} -> select' = c.gsi /\ To(c.at + 1) /\ UNCHANGED entry
          [] c.at = 3 -> /\ access' = [access EXCEPT ![a].at = 4,
                               ![a].low = IF select = NoLine THEN @ ELSE entry[select]]
                         /\ UNCHANGED <<select, entry>>
          [] c.at = 5 ->
               /\ entry' = IF select = NoLine THEN entry
                           ELSE [entry EXCEPT ![select] =
                                   IF c.kind = "route" THEN [vector |-> vector[a], masked |-> FALSE]
                                   ELSE [c.low EXCEPT !.masked = (c.kind = "mask")]]
               /\ To(6) /\ UNCHANGED select

Accessed(a) == access[a].at \in {6, 7}
EndAccess(a) == access' = [access EXCEPT ![a] = Idle]

claiming == <<handlers, lock, taken, delivery, table, held, ended>>
devices == <<pending, enabled, raised, request>>
chip == <<select, entry>>

-----------------------------------------------------------------------------
(* Claiming and binding. *)

\* Faulty: any handler in the slot will do.
ResolvesLive(i) == handlers[i.index].live

\* resolve: the slot is live and of the id's generation.
Resolves(i) == handlers[i.index].live /\ handlers[i.index].generation = i.generation

\* vectors::allocate takes the highest that is free, of those nobody reserved.
Free == play.vectors \ taken

\* Source::reserved: the timer's line and the cascade's (line 0 is none in this module).
Reserved == {0, 2}

\* claim_for, under the lock: refused if the source is reserved, has a live handler or no
\* slot is free; otherwise the slot is taken, with vector 0, before anything is routed.
Reserve(d) ==
  /\ pc[d] = "idle" /\ rounds[d] < play.rounds[d] /\ lock = NoDriver
  /\ rounds' = [rounds EXCEPT ![d] = @ + 1]
  /\ LET open == {i \in Indices : ~handlers[i].live}
         i == Min(open)
     IN IF \/ Source(d) \in Reserved \/ open = {}
           \/ \E j \in Indices : handlers[j].live /\ handlers[j].source = Source(d)
        THEN UNCHANGED <<handlers, pc, id>>
        ELSE /\ handlers' = [handlers EXCEPT ![i] =
                  [source |-> Source(d), vector |-> 0, generation |-> @.generation + 1,
                   live |-> TRUE, domain |-> <<d, rounds[d] + 1>>]]
             /\ id' = [id EXCEPT ![d] = [index |-> i, generation |-> handlers[i].generation + 1]]
             /\ Goto(d, "allocate")
  /\ UNCHANGED <<lock, taken, delivery, table, held, ended, devices, chip, access, irq, bits,
                 vector, crossed>>

Allocate(d) ==
  /\ pc[d] = "allocate"
  /\ IF Free = {} THEN Goto(d, "undo") /\ UNCHANGED <<taken, vector>>
     ELSE /\ taken' = taken \cup {Max(Free)}
          /\ vector' = [vector EXCEPT ![d] = Max(Free)]
          /\ Goto(d, "route")
  /\ UNCHANGED <<handlers, lock, delivery, table, held, ended, devices, chip, access, irq, bits,
                 id, rounds, crossed>>

\* The source is routed holding nothing: a line through the chip, a message by
\* programming the device's entry.  One that cannot be gives the vector back.  The
\* lines are claimed one after the other, by the thread that boots the machine.
Route(d) ==
  /\ pc[d] = "route"
  /\ \/ /\ Source(d) \in play.refused
        /\ taken' = taken \ {vector[d]} /\ Goto(d, "undo")
        /\ UNCHANGED <<table, access>>
     \/ /\ Source(d) \in Lines \ play.refused /\ \A e \in Drivers : pc[e] # "routing"
        /\ Access(d, "route", Source(d)) /\ Goto(d, "routing")
        /\ UNCHANGED <<taken, table>>
     \/ /\ Source(d) \in Messages \ play.refused
        /\ table' = [table EXCEPT ![Source(d)] = vector[d]] /\ Goto(d, "record")
        /\ UNCHANGED <<taken, access>>
  /\ UNCHANGED <<handlers, lock, delivery, held, ended, devices, chip, irq, bits, id, vector,
                 rounds, crossed>>

Routed(d) ==
  /\ pc[d] = "routing" /\ Accessed(d) /\ EndAccess(d)
  /\ IF access[d].at = 6
     THEN /\ delivery' = [delivery EXCEPT ![vector[d]].gsi = Source(d)]
          /\ Goto(d, "record") /\ UNCHANGED taken
     ELSE taken' = taken \ {vector[d]} /\ Goto(d, "undo") /\ UNCHANGED delivery
  /\ UNCHANGED <<handlers, lock, table, held, ended, devices, chip, irq, bits, id, vector,
                 rounds, crossed>>

Undo(d) ==
  /\ pc[d] = "undo" /\ lock = NoDriver
  /\ handlers' = [handlers EXCEPT ![id[d].index].live = FALSE]
  /\ Goto(d, "idle")
  /\ UNCHANGED <<lock, taken, delivery, table, held, ended, devices, chip, access, irq, bits, id,
                 vector, rounds, crossed>>

Record(d) ==
  /\ pc[d] = "record" /\ lock = NoDriver
  /\ handlers' = [handlers EXCEPT ![id[d].index].vector = vector[d]]
  /\ Goto(d, "publish")
  /\ UNCHANGED <<lock, taken, delivery, table, held, ended, devices, chip, access, irq, bits, id,
                 vector, rounds, crossed>>

Publish(d) ==
  /\ pc[d] = "publish"
  /\ delivery' = [delivery EXCEPT ![vector[d]].handler = id[d].index + 1]
  /\ Goto(d, "bind")
  /\ UNCHANGED <<handlers, lock, taken, table, held, ended, devices, chip, access, irq, bits, id,
                 vector, rounds, crossed>>

\* bind, and then the driver brings its device up, empty, and lets it raise interrupts.
Bind(d) ==
  /\ pc[d] = "bind" /\ lock = NoDriver
  /\ IF Resolves(id[d])
     THEN /\ delivery' = [delivery EXCEPT ![handlers[id[d].index].vector].notification = d]
          /\ enabled' = enabled \cup {Source(d)}
          /\ pending' = [pending EXCEPT ![Source(d)] = 0]
          /\ Goto(d, "waiting")
     ELSE Goto(d, "idle") /\ UNCHANGED <<delivery, enabled, pending>>
  /\ UNCHANGED <<handlers, lock, taken, table, held, ended, raised, request, chip, access,
                 irq, bits, id, vector, rounds, crossed>>

-----------------------------------------------------------------------------
(* Serving: wait, drain, acknowledge.  The programs that drive message-signalled devices
   acknowledge as soon as they wake, which for those changes nothing. *)

AfterWake(d) == IF Source(d) \in Lines THEN "draining" ELSE "ack"
AfterDrain(d) == IF Source(d) \in Lines THEN "ack" ELSE "waiting"

Wake(d) ==
  /\ pc[d] = "waiting" /\ d \in bits
  /\ bits' = bits \ {d} /\ Goto(d, AfterWake(d))
  /\ UNCHANGED <<claiming, devices, chip, access, irq, id, vector, rounds, crossed>>

\* Faulty: one byte or completion for each wake.
DrainOne(d) ==
  /\ pc[d] = "draining" /\ Goto(d, AfterDrain(d))
  /\ pending' = [pending EXCEPT ![Source(d)] = IF @ > 0 THEN @ - 1 ELSE 0]
  /\ UNCHANGED <<claiming, enabled, raised, request, chip, access, irq, bits, id, vector, rounds,
                 crossed>>

\* One byte or completion, or, when there is none left, on.
Drain(d) ==
  /\ pc[d] = "draining"
  /\ IF pending[Source(d)] > 0
     THEN pending' = [pending EXCEPT ![Source(d)] = @ - 1] /\ UNCHANGED pc
     ELSE Goto(d, AfterDrain(d)) /\ UNCHANGED pending
  /\ UNCHANGED <<claiming, enabled, raised, request, chip, access, irq, bits, id, vector, rounds,
                 crossed>>

\* acknowledge: resolved under the lock, which is dropped before the chip is touched.
\* A message-signalled source has nothing to unmask.  A driver finds its handler gone
\* when its domain was destroyed.
Acknowledge(d) ==
  /\ pc[d] = "ack" /\ lock = NoDriver
  /\ IF ~Resolves(id[d]) THEN Goto(d, "idle") /\ UNCHANGED access
     ELSE IF Source(d) \in Messages THEN Goto(d, "draining") /\ UNCHANGED access
     ELSE Access(d, "unmask", Source(d)) /\ Goto(d, "acking")
  /\ UNCHANGED <<claiming, devices, chip, irq, bits, id, vector, rounds, crossed>>

Acknowledged(d) ==
  /\ pc[d] = "acking" /\ Accessed(d) /\ EndAccess(d) /\ Goto(d, "waiting")
  /\ UNCHANGED <<claiming, devices, chip, irq, bits, id, vector, rounds, crossed>>

-----------------------------------------------------------------------------
(* Releasing. *)

\* A driver gives its handler back, or finds that its domain was destroyed.
Leave(d) ==
  /\ pc[d] = "waiting"
  /\ \/ d \in play.releases /\ Goto(d, "release")
     \/ Domain(d) \in ended /\ Goto(d, "idle")
  /\ UNCHANGED <<claiming, devices, chip, access, irq, bits, id, vector, rounds, crossed>>

\* release_owned_by: the handlers of a domain are collected under the lock and released
\* outside it.  A domain is started once its source is claimed for it, and may end with
\* its handler not bound yet.
Collect(d) ==
  /\ pc[Reaper] = "idle" /\ lock = NoDriver
  /\ d \in play.ends /\ Domain(d) \notin ended
  /\ pc[d] \in {"bind", "waiting", "draining", "ack", "acking", "release"}
  /\ ended' = ended \cup {Domain(d)}
  /\ held' = {[index |-> i, generation |-> handlers[i].generation] :
                i \in {j \in Indices : handlers[j].live /\ handlers[j].domain = Domain(d)}}
  /\ Goto(Reaper, "sweeping")
  /\ UNCHANGED <<handlers, lock, taken, delivery, table, devices, chip, access, irq, bits, id,
                 vector, rounds, crossed>>

Sweep ==
  /\ pc[Reaper] = "sweeping"
  /\ IF held = {} THEN Goto(Reaper, "idle") /\ UNCHANGED <<id, held>>
     ELSE \E i \in held : /\ id' = [id EXCEPT ![Reaper] = i] /\ held' = held \ {i}
                          /\ Goto(Reaper, "release")
  /\ UNCHANGED <<handlers, lock, taken, delivery, table, ended, devices, chip, access, irq, bits,
                 vector, rounds, crossed>>

Done(p) == Goto(p, IF p = Reaper THEN "sweeping" ELSE "idle")
Released(p) == handlers[id[p].index]

\* Faulty: the handler stays published until the slot is dead.
ReleaseUnseen(p) ==
  /\ pc[p] = "release" /\ lock = NoDriver
  /\ IF Resolves(id[p]) THEN lock' = p /\ Goto(p, "unbind") /\ UNCHANGED delivery
     ELSE Done(p) /\ UNCHANGED <<lock, delivery>>
  /\ UNCHANGED <<handlers, taken, table, held, ended, devices, chip, access, irq, bits, id, vector,
                 rounds, crossed>>

\* release: the lock is held from here to Kill.  The delivery path stops seeing the
\* handler first.
Release(p) ==
  /\ pc[p] = "release" /\ lock = NoDriver
  /\ IF Resolves(id[p])
     THEN /\ lock' = p
          /\ delivery' = [delivery EXCEPT ![Released(p).vector].handler = 0]
          /\ Goto(p, "unbind")
     ELSE Done(p) /\ UNCHANGED <<lock, delivery>>
  /\ UNCHANGED <<handlers, taken, table, held, ended, devices, chip, access, irq, bits, id, vector,
                 rounds, crossed>>

Unbind(p) ==
  /\ pc[p] = "unbind"
  /\ delivery' = [delivery EXCEPT ![Released(p).vector].notification = NoDriver]
  /\ IF Released(p).source \in Lines
     THEN Access(p, "mask", Released(p).source) /\ Goto(p, "masking")
     ELSE Goto(p, "free") /\ UNCHANGED access
  /\ UNCHANGED <<handlers, lock, taken, table, held, ended, devices, chip, irq, bits, id, vector,
                 rounds, crossed>>

MaskedOff(p) ==
  /\ pc[p] = "masking" /\ Accessed(p) /\ EndAccess(p) /\ Goto(p, "free")
  /\ UNCHANGED <<claiming, devices, chip, irq, bits, id, vector, rounds, crossed>>

FreeVector(p) ==
  /\ pc[p] = "free"
  /\ taken' = taken \ {Released(p).vector} /\ Goto(p, "kill")
  /\ UNCHANGED <<handlers, lock, delivery, table, held, ended, devices, chip, access, irq, bits, id,
                 vector, rounds, crossed>>

Kill(p) ==
  /\ pc[p] = "kill"
  /\ handlers' = [handlers EXCEPT ![id[p].index].live = FALSE]
  /\ lock' = NoDriver /\ Done(p)
  /\ UNCHANGED <<taken, delivery, table, held, ended, devices, chip, access, irq, bits, id, vector,
                 rounds, crossed>>

-----------------------------------------------------------------------------
(* Devices and the delivery path. *)

\* A device has something for its driver.  A line rises if it was low, and the chip
\* makes an interrupt of the edge unless the entry is masked, when the edge is lost; a
\* message is always sent.
Raise(s) ==
  /\ s \in enabled /\ raised[s] < play.raises
  /\ raised' = [raised EXCEPT ![s] = @ + 1]
  /\ pending' = [pending EXCEPT ![s] = @ + 1]
  /\ request' = request \cup
       IF s \in Messages THEN {<<s, table[s]>>}
       ELSE IF pending[s] = 0 /\ ~entry[s].masked THEN {<<s, entry[s].vector>>} ELSE {}
  /\ UNCHANGED <<claiming, enabled, chip, access, irq, bits, pc, id, vector, rounds, crossed>>

\* The dispatcher takes a vector nobody claimed for an unexpected interrupt.
Dispatch(r) ==
  /\ irq.at = "idle" /\ MayInterrupt
  /\ request' = request \ {r}
  /\ irq' = IF delivery[r[2]].handler = 0 THEN Resting
            ELSE [at |-> "check", source |-> r[1], vector |-> r[2]]
  /\ UNCHANGED <<claiming, pending, enabled, raised, chip, access, bits, pc, id, vector, rounds,
                 crossed>>

\* on_interrupt: looks again, masks the line recorded for the vector, and signals what
\* is bound to it then.
OnInterrupt ==
  /\ irq.at = "check"
  /\ LET e == delivery[irq.vector] IN
     IF e.handler = 0 THEN irq' = Resting /\ UNCHANGED access
     ELSE IF e.gsi = NoLine THEN irq' = [irq EXCEPT !.at = "signal"] /\ UNCHANGED access
     ELSE irq' = [irq EXCEPT !.at = "mask"] /\ Access(Cpu, "mask", e.gsi)
  /\ UNCHANGED <<claiming, devices, chip, bits, pc, id, vector, rounds, crossed>>

MaskedOn ==
  /\ irq.at = "mask" /\ Accessed(Cpu) /\ EndAccess(Cpu)
  /\ irq' = [irq EXCEPT !.at = "signal"]
  /\ UNCHANGED <<claiming, devices, chip, bits, pc, id, vector, rounds, crossed>>

Signal ==
  /\ irq.at = "signal"
  /\ LET n == delivery[irq.vector].notification IN
     /\ bits' = bits \cup ({n} \ {NoDriver})
     /\ crossed' = crossed \cup
          IF n # NoDriver /\ Source(n) # irq.source THEN {<<irq.source, n>>} ELSE {}
  /\ irq' = Resting
  /\ UNCHANGED <<claiming, devices, chip, access, pc, id, vector, rounds>>

AccessStep(a) ==
  /\ ChipStep(a)
  /\ UNCHANGED <<claiming, devices, irq, bits, pc, id, vector, rounds, crossed>>

ReleaseStep(p) == Release(p) \/ Unbind(p) \/ MaskedOff(p) \/ FreeVector(p) \/ Kill(p)

\* One step of a driver at its service, or at the chip.
ServeStep(d) ==
  /\ UNCHANGED play /\ MayRun(d)
  /\ Wake(d) \/ Drain(d) \/ Acknowledge(d) \/ Acknowledged(d) \/ AccessStep(d)

ClaimStep(d) ==
  /\ UNCHANGED play /\ MayRun(d)
  /\ \/ Reserve(d) \/ Allocate(d) \/ Route(d) \/ Routed(d) \/ Undo(d) \/ Record(d)
     \/ Publish(d) \/ Bind(d)

LeaveStep(d) == UNCHANGED play /\ MayRun(d) /\ (Leave(d) \/ ReleaseStep(d))

ReaperStep ==
  /\ UNCHANGED play /\ MayRun(Reaper)
  /\ (\E d \in Drivers : Collect(d)) \/ Sweep \/ ReleaseStep(Reaper) \/ AccessStep(Reaper)

CpuStep ==
  /\ UNCHANGED play
  /\ (\E r \in request : Dispatch(r)) \/ OnInterrupt \/ MaskedOn \/ Signal \/ AccessStep(Cpu)

DeviceStep == UNCHANGED play /\ \E s \in Sources : Raise(s)

Next ==
  \/ \E d \in Drivers : ClaimStep(d) \/ ServeStep(d) \/ LeaveStep(d)
  \/ ReaperStep \/ CpuStep \/ DeviceStep

\* What goes on without anybody's choice: a driver serves, a release under way ends, a
\* domain that ended is swept, the processor takes its interrupts.
Progress ==
  \/ \E d \in Drivers : ServeStep(d) \/ (pc[d] # "waiting" /\ LeaveStep(d))
  \/ pc[Reaper] # "idle" /\ ReaperStep
  \/ CpuStep

\* A processor is never idle while something can go on.  Claims, releases and what
\* devices raise are bounded, so nobody can be passed over for ever.
Spec == Init /\ [][Next]_vars /\ WF_vars(Progress)

-----------------------------------------------------------------------------
(* Properties. *)

Serving(d) == pc[d] \in {"waiting", "draining", "ack", "acking"}
Bound(d) == Serving(d) /\ Resolves(id[d]) /\ lock = NoDriver

\* Nobody serves a source that somebody else serves, and a vector belongs to one claim
\* and stays allocated while it does: claim_for marks the slot live before it lets the
\* lock go, and release frees the vector before the slot.
Exclusive ==
  \A i, j \in Indices :
    /\ i # j /\ handlers[i].live /\ handlers[j].live =>
         /\ handlers[i].source # handlers[j].source
         /\ handlers[i].vector = handlers[j].vector => handlers[i].vector = 0
    /\ handlers[i].live /\ lock = NoDriver => handlers[i].vector \in taken \cup {0}

\* What the delivery path sees of a vector without the lock is a live handler of that
\* vector: release withdraws it before it does anything else, claim_for publishes last.
PublishedIsLive ==
  \A v \in Vectors : delivery[v].handler # 0 =>
    LET h == handlers[delivery[v].handler - 1] IN h.live /\ h.vector = v

\* A driver that has neither released its handler nor lost its domain still holds it,
\* with its own notification bound: the sweep for a domain that ended releases by
\* generation, so it spares a handler claimed in the slot since it looked.
HolderHolds ==
  \A d \in Drivers : Serving(d) /\ Domain(d) \notin ended =>
    /\ Resolves(id[d]) /\ handlers[id[d].index].source = Source(d)
    /\ delivery[vector[d]].notification = d

\* A claimed line that is masked has a driver on its way to unmask it: the handler is
\* about to signal it, it is signalled, or it is between its wake and the unmask.
MaskedIsAttended ==
  \A d \in Drivers : Bound(d) /\ Source(d) \in Lines /\ entry[Source(d)].masked =>
    \/ irq.at \in {"mask", "signal"} /\ irq.vector = vector[d]
    \/ d \in bits \/ pc[d] \in {"draining", "ack"}
    \/ pc[d] = "acking" /\ access[d].at < 6

\* A claimed line is delivered on the vector its handler was given.
RoutedToOwner ==
  \A d \in Drivers : Bound(d) /\ Source(d) \in Lines => entry[Source(d)].vector = vector[d]

\* A driver is signalled by its own source only.
OwnSource == crossed = {}

InterruptsInv == Exclusive /\ PublishedIsLive /\ HolderHolds /\ MaskedIsAttended
                 /\ RoutedToOwner /\ OwnSource

Waits(d, kinds) ==
  Serving(d) /\ Domain(d) \notin ended /\ Source(d) \in kinds /\ pending[Source(d)] > 0
LineMasked(d) ==
  Serving(d) /\ Domain(d) \notin ended /\ Source(d) \in Lines /\ entry[Source(d)].masked

\* Whenever the devices fall silent, every line masked for a driver has been unmasked or
\* given up, and what a message-signalled device holds for a driver has been taken or the
\* driver is gone: the signal is not lost between a drain and the next wait.
Served == []<>(\A d \in Drivers : ~LineMasked(d) /\ ~Waits(d, Messages))

\* What a line's device holds is taken.  It does not hold: see the README.
LineServed == \A d \in Drivers : Waits(d, Lines) ~> ~Waits(d, Lines)

\* The line recorded for a vector is that of the source its handler claims, and none
\* if the source is message-signalled (Delivery.gsi).  It does not hold.
RecordedLine ==
  \A v \in Vectors : delivery[v].handler # 0 =>
    LET s == handlers[delivery[v].handler - 1].source IN
    delivery[v].gsi = IF s \in Lines THEN s ELSE NoLine

\* A source nobody holds raises no interrupt: release "masks the source permanently".
\* It does not hold for message-signalled sources.
ReleasedIsQuiet == \A r \in request : \E i \in Indices : handlers[i].live /\ handlers[i].source = r[1]
=============================================================================
