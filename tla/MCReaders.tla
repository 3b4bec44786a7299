----------------------------- MODULE MCReaders -----------------------------
(***************************************************************************)
(* What the kernel hands to a program that waits for it: audit records to  *)
(* bin/auditd, interrupts to their drivers, the console's bytes to its     *)
(* readers.  A behaviour is of one of the three.                           *)
(***************************************************************************)
EXTENDS Audit, TLC

\* Who asks for what: one thread gives authority, the other takes it away.
Asking(gives, takes) == ("t1" :> gives) @@ ("t2" :> takes)
Recording == [kinds |-> Asking({"grant"}, {"revoke"}), ops |-> 3, persist |-> TRUE,
              refuses |-> FALSE, reader |-> "runs"]

Stalled == [Recording EXCEPT !.reader = "stalls", !.ops = 5]

AuditPlays == {
  Recording,
  [Recording EXCEPT !.kinds = Asking({"derive", "grant", "created"}, {"revoke", "ended"}), !.ops = 2],
  \* Revocations past the end of the ring, and past the gap.
  [Recording EXCEPT !.kinds = Asking({}, {"revoke"}), !.ops = 6],
  [Recording EXCEPT !.refuses = TRUE, !.ops = 2],
  \* A machine with no clock, and a reader that never runs.
  [Recording EXCEPT !.reader = "once"],
  Stalled}
\* A line and a message-signalled device, their drivers on other processors.
Devices == [source |-> ("d1" :> 4 @@ "d2" :> 21 @@ "d3" :> 21), vectors |-> {1, 2},
            rounds |-> ("d1" :> 1 @@ "d2" :> 1 @@ "d3" :> 0), apart |-> TRUE, refused |-> {},
            releases |-> {}, ends |-> {}, raises |-> 2]

\* The same on the processor the interrupts come to.
Together == [Devices EXCEPT !.apart = FALSE]

\* A domain's handler is released by it and by its end, while others claim.
Churn == [Devices EXCEPT !.source = ("d1" :> 21 @@ "d2" :> 22 @@ "d3" :> 21), !.raises = 0,
                         !.rounds = ("d1" :> 2 @@ "d2" :> 1 @@ "d3" :> 0),
                         !.releases = {"d1"}, !.ends = {"d1"}]

\* A driver leaves or is ended while its device raises; another takes the device over.
Swept == [Devices EXCEPT !.rounds = ("d1" :> 0 @@ "d2" :> 1 @@ "d3" :> 1),
                         !.releases = {"d2"}, !.ends = {"d2"}]

\* A line with no device behind it is claimed twice.
SpareLine == [Devices EXCEPT !.rounds = ("d1" :> 2 @@ "d2" :> 1 @@ "d3" :> 0), !.raises = 0,
                             !.releases = {"d1"}, !.ends = {"d1"}]

\* A line that cannot be routed, one that is reserved, and one vector for two.
Scarce == [Devices EXCEPT !.source = ("d1" :> 4 @@ "d2" :> 21 @@ "d3" :> 2), !.refused = {4},
                          !.rounds = ("d1" :> 1 @@ "d2" :> 1 @@ "d3" :> 1), !.raises = 0,
                          !.vectors = {2}]

\* One reader of both sources, that blocks or that polls; the ring overflows.
Alone(mode) == [mode |-> ("r1" :> mode @@ "r2" :> "none"),
                types |-> ("serial" :> 4 @@ "keyboard" :> 1)]

\* One reader and one that only asks, on a machine without a keyboard.
Beside(mode) == [mode |-> ("r1" :> mode @@ "r2" :> "peek"),
                 types |-> ("serial" :> 3 @@ "keyboard" :> 0)]

VARIABLES
  handlers, lock, taken, delivery, select, entry, table, access, ipending, enabled, raised,
  request, irq, ibits, ipc, id, vector, rounds, held, ended, crossed, iplay

VARIABLES
  device, typed, masked, bit, rring, dropped, draining, rpc, src, byte, rat, rgot, rplay

claims == <<handlers, lock, taken, delivery, select, entry, table, access, ipending, enabled, raised,
            request, irq, ibits, ipc, id, vector, rounds, held, ended, crossed, iplay>>
reading == <<device, typed, masked, bit, rring, dropped, draining, rpc, src, byte, rat, rgot, rplay>>

Irqs == INSTANCE Interrupts WITH
  Lines <- {2, 4}, Messages <- {21, 22}, Drivers <- {"d1", "d2", "d3"}, NoDriver <- "none",
  Reaper <- "reaper", Cpu <- "cpu", MaxHandlers <- 2, Vectors <- {1, 2},
  Plays <- {Devices, Together, Churn, Swept, SpareLine, Scarce},
  bits <- ibits, pending <- ipending, pc <- ipc, play <- iplay

Input == INSTANCE ConsoleInput WITH
  Readers <- {"r1", "r2"}, Capacity <- 2,
  Plays <- {Alone("read"), Alone("poll"), Beside("read"), Beside("poll")},
  ring <- rring, pc <- rpc, at <- rat, got <- rgot, play <- rplay

VARIABLE part
mcvars == <<part, vars, claims, reading>>

ASSUME Irqs!InterruptsAssumption /\ Input!ConsoleAssumption

\* The parts a behaviour is not of stay where they start.
MCInit ==
  /\ part \in {"audit", "interrupts", "input"}
  /\ Init /\ Irqs!Init /\ Input!Init
  /\ part # "audit" => play = Stalled
  /\ part # "interrupts" => iplay = Scarce
  /\ part # "input" => rplay = Alone("read")

MCNext ==
  \/ part = "audit" /\ Next /\ UNCHANGED <<part, claims, reading>>
  \/ part = "interrupts" /\ Irqs!Next /\ UNCHANGED <<part, vars, reading>>
  \/ part = "input" /\ Input!Next /\ UNCHANGED <<part, vars, claims>>

\* The fairness of each part, in its own behaviours.
MCSpec ==
  /\ MCInit /\ [][MCNext]_mcvars
  /\ WF_claims(part = "interrupts" /\ Irqs!Progress)
  /\ WF_vars(part = "audit" /\ Attach) /\ WF_vars(part = "audit" /\ Publish)
  /\ WF_vars(part = "audit" /\ Finish) /\ WF_vars(part = "audit" /\ Reader)

\* The invariants of the audit log, the interrupt handlers and console input.
ReadersInv == AuditInv /\ Irqs!InterruptsInv /\ Input!ConsoleInv

\* A masked line comes back, and a message-signalled device is not left waiting.
Served == Irqs!Served
=============================================================================
