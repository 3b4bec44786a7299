---------------------------- MODULE ConsoleInput ----------------------------
(***************************************************************************)
(* Console input: kernel/src/input.rs and the keyboard's service in        *)
(* kernel/src/keyboard.rs.                                                 *)
(*                                                                         *)
(* The serial line and the keyboard signal one notification.  Whoever is   *)
(* woken services both, draining each device into a ring and acknowledging *)
(* its line, and takes bytes from the rings.  The interrupt itself, mask   *)
(* and signal, is one step here: module Interrupts takes it apart.         *)
(***************************************************************************)
EXTENDS Integers, Sequences, SequencesExt, FiniteSets

CONSTANTS
  Readers,    \* threads that read console input
  Capacity,   \* CAPACITY of a ring
  Plays       \* how each reader reads and how much is typed, see Init

ConsoleAssumption == Capacity \in Nat \ {0}

Sources == {"serial", "keyboard"}

VARIABLES
  device,     \* what each device holds, oldest first; bytes are numbered as typed
  typed,      \* how many bytes were typed at each
  masked,     \* the sources whose line is masked
  bit,        \* whether the notification is signalled
  ring,       \* source -> [bytes, head, tail]
  dropped,    \* bytes refused because the ring was full
  draining,   \* DRAINING
  pc, src,    \* a reader's step and the source it is at
  byte, at,   \* the byte it moves and the index it read
  got,        \* what readers took from each ring, in order
  play

vars == <<device, typed, masked, bit, ring, dropped, draining, pc, src, byte, at, got, play>>

\* Lines are claimed and unmasked, rings empty.  A reader blocks in read ("read"), polls
\* with take_or_service and parks when there is nothing ("poll"), or only asks with
\* peek_or_service ("peek").
Init ==
  /\ play \in Plays
  /\ device = [s \in Sources |-> <<>>] /\ typed = [s \in Sources |-> 0]
  /\ masked = {} /\ bit = FALSE
  /\ ring = [s \in Sources |-> [bytes |-> [i \in 0 .. Capacity - 1 |-> 0], head |-> 0, tail |-> 0]]
  /\ dropped = [s \in Sources |-> {}] /\ draining = FALSE
  /\ pc = [r \in Readers |-> CASE play.mode[r] = "none" -> "done"
                               [] play.mode[r] = "read" -> "look"
                               [] OTHER -> "service"]
  /\ src = [r \in Readers |-> "serial"]
  /\ byte = [r \in Readers |-> 0] /\ at = [r \in Readers |-> 0]
  /\ got = [s \in Sources |-> <<>>]

Goto(r, l) == pc' = [pc EXCEPT ![r] = l]
rings == <<ring, dropped, got>>
lines == <<device, typed, masked, bit>>

\* A byte arrives.  Its edge is an interrupt, which masks the line and signals, unless
\* the line was high already or is masked.
Type(s) ==
  /\ typed[s] < play.types[s]
  /\ typed' = [typed EXCEPT ![s] = @ + 1]
  /\ device' = [device EXCEPT ![s] = Append(@, typed[s] + 1)]
  /\ IF device[s] = <<>> /\ s \notin masked THEN masked' = masked \cup {s} /\ bit' = TRUE
     ELSE UNCHANGED <<masked, bit>>
  /\ UNCHANGED <<rings, draining, pc, src, byte, at>>

-----------------------------------------------------------------------------
(* service: drain the serial line unless somebody does, acknowledge it; drain the
   keyboard, acknowledge it. *)

\* Faulty: two processors empty the UART at once.
BeginAnyway(r) ==
  /\ pc[r] = "service" /\ src' = [src EXCEPT ![r] = "serial"]
  /\ Goto(r, "drain") /\ draining' = TRUE
  /\ UNCHANGED <<rings, lines, byte, at>>

\* The exchange on DRAINING: who finds it set leaves the draining to who set it.
Begin(r) ==
  /\ pc[r] = "service" /\ src' = [src EXCEPT ![r] = "serial"]
  /\ Goto(r, IF draining THEN "ack" ELSE "drain") /\ draining' = TRUE
  /\ UNCHANGED <<rings, lines, byte, at>>

\* Takes a byte from the device, or finds it empty.
DrainByte(r) ==
  LET s == src[r] IN
  /\ pc[r] = "drain"
  /\ IF device[s] = <<>>
     THEN /\ Goto(r, "ack") /\ draining' = IF s = "serial" THEN FALSE ELSE draining
          /\ UNCHANGED <<device, byte>>
     ELSE /\ device' = [device EXCEPT ![s] = Tail(@)]
          /\ byte' = [byte EXCEPT ![r] = Head(device[s])]
          /\ Goto(r, "push") /\ UNCHANGED draining
  /\ UNCHANGED <<typed, masked, bit, rings, src, at>>

\* Ring::push reads the head and the tail, and drops the newest when it is full ...
Push(r) ==
  LET q == ring[src[r]] IN
  /\ pc[r] = "push"
  /\ at' = [at EXCEPT ![r] = q.head]
  /\ IF q.head - q.tail >= Capacity
     THEN dropped' = [dropped EXCEPT ![src[r]] = @ \cup {byte[r]}] /\ Goto(r, "drain")
     ELSE Goto(r, "store") /\ UNCHANGED dropped
  /\ UNCHANGED <<ring, got, lines, draining, src, byte>>

\* ... or stores the byte ...
Store(r) ==
  /\ pc[r] = "store"
  /\ ring' = [ring EXCEPT ![src[r]].bytes[at[r] % Capacity] = byte[r]]
  /\ Goto(r, "publish")
  /\ UNCHANGED <<dropped, got, lines, draining, src, byte, at>>

\* ... and publishes it.
Publish(r) ==
  /\ pc[r] = "publish"
  /\ ring' = [ring EXCEPT ![src[r]].head = at[r] + 1]
  /\ Goto(r, "drain")
  /\ UNCHANGED <<dropped, got, lines, draining, src, byte, at>>

Acknowledge(r) ==
  /\ pc[r] = "ack" /\ masked' = masked \ {src[r]}
  /\ IF src[r] = "serial" THEN src' = [src EXCEPT ![r] = "keyboard"] /\ Goto(r, "drain")
     ELSE /\ src' = [src EXCEPT ![r] = "serial"]
          /\ Goto(r, IF play.mode[r] = "peek" THEN "done" ELSE "look")
  /\ UNCHANGED <<device, typed, bit, rings, draining, byte, at>>

-----------------------------------------------------------------------------
(* Reading. *)

\* try_read asks the serial ring, then the keyboard's.
Look(r) ==
  LET q == ring[src[r]] IN
  /\ pc[r] = "look"
  /\ at' = [at EXCEPT ![r] = q.tail]
  /\ IF q.head # q.tail THEN Goto(r, "take") /\ UNCHANGED src
     ELSE IF src[r] = "serial" THEN src' = [src EXCEPT ![r] = "keyboard"] /\ UNCHANGED pc
     ELSE src' = [src EXCEPT ![r] = "serial"] /\ Goto(r, "wait")
  /\ UNCHANGED <<rings, lines, draining, byte>>

\* Ring::take's load and store; a byte in hand, read asks again and a poller services.
Take(r) ==
  /\ pc[r] = "take"
  /\ got' = [got EXCEPT ![src[r]] = Append(@, ring[src[r]].bytes[at[r] % Capacity])]
  /\ ring' = [ring EXCEPT ![src[r]].tail = at[r] + 1]
  /\ src' = [src EXCEPT ![r] = "serial"]
  /\ Goto(r, IF play.mode[r] = "poll" THEN "service" ELSE "look")
  /\ UNCHANGED <<dropped, lines, draining, byte, at>>

\* Faulty: services only when there is nothing to take.
WakeOnMiss(r) ==
  /\ pc[r] = "wait" /\ bit /\ bit' = FALSE
  /\ Goto(r, IF \E s \in Sources : ring[s].head # ring[s].tail THEN "look" ELSE "service")
  /\ UNCHANGED <<device, typed, masked, rings, draining, src, byte, at>>

\* Every wake is followed by a service.
Wake(r) ==
  /\ pc[r] = "wait" /\ bit /\ bit' = FALSE /\ Goto(r, "service")
  /\ UNCHANGED <<device, typed, masked, rings, draining, src, byte, at>>

\* A reader that only asks asks again as often as it likes.
Ask(r) ==
  /\ pc[r] = "done" /\ play.mode[r] = "peek" /\ Goto(r, "service")
  /\ UNCHANGED <<lines, rings, draining, src, byte, at>>

ReaderStep(r) ==
  \/ Begin(r) \/ DrainByte(r) \/ Push(r) \/ Store(r) \/ Publish(r) \/ Acknowledge(r)
  \/ Look(r) \/ Take(r) \/ Wake(r) \/ Ask(r)

Next == UNCHANGED play /\ ((\E s \in Sources : Type(s)) \/ \E r \in Readers : ReaderStep(r))

Spec == Init /\ [][Next]_vars

-----------------------------------------------------------------------------
(* Properties. *)

InHand(s) == {byte[r] : r \in {x \in Readers : src[x] = s /\ pc[x] \in {"push", "store", "publish"}}}
InRing(s) == {ring[s].bytes[i % Capacity] : i \in ring[s].tail .. ring[s].head - 1}

\* Every byte typed is in the device, in the hand that moves it, in the ring, read or
\* dropped by a full ring: a ring's one producer and one consumer need no lock.
NothingLost ==
  \A s \in Sources :
    1 .. typed[s] = Range(device[s]) \cup InHand(s) \cup InRing(s) \cup Range(got[s]) \cup dropped[s]

\* Bytes of a source are read in the order they were typed and none is read twice.
InOrder == \A s \in Sources : \A i, j \in DOMAIN got[s] : i < j => got[s][i] < got[s][j]

\* A line that is masked is about to be unmasked: the notification is signalled or a
\* reader has been woken and has yet to acknowledge.
WakeIsServiced ==
  \A s \in masked :
    bit \/ \E r \in Readers : /\ pc[r] \in {"service", "drain", "push", "store", "publish", "ack"}
                              /\ src[r] \in {"serial", s}

ConsoleInv == NothingLost /\ InOrder /\ WakeIsServiced
=============================================================================
