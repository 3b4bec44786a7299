------------------------------- MODULE Audit -------------------------------
(***************************************************************************)
(* The audit log: the kernel's ledger and ring (audit.rs and               *)
(* telemetry::audit), the operations that ask it before they move          *)
(* authority and tell it after, bin/auditd, which chains what the ring     *)
(* holds and keeps it in a file, and the verifier of that file.            *)
(*                                                                         *)
(* A link of the chain is the sequence of the records it covers, which is  *)
(* what SHA-256 is taken to be: different records, different links.        *)
(***************************************************************************)
EXTENDS Naturals, Sequences, FiniteSets, FiniteSetsExt, SequencesExt

CONSTANTS
  Threads,     \* threads in system calls that move authority
  Slots,       \* SLOTS: records the ring holds
  Headroom,    \* HEADROOM: slots only a taking operation may use
  PerBlock,    \* PER_BLOCK: entries in a block of the file
  FlushEvery,  \* passes of auditd between two writes of a partial block
  Plays        \* what a behaviour may do

VARIABLES
  active, head, reserved, pending, gaps, before,  \* the ledger
  writing,    \* records the holder of the ledger's lock is storing
  ring,       \* slot -> the record in it
  published,  \* the ring header's head
  tail,       \* auditd's tail word
  op,         \* thread -> its operation and its reservation
  pc, upto, got, chain, kept, passes, page,  \* auditd
  file,       \* the boot's file
  log, happened, strays, started,  \* history
  play

ledger == <<active, head, reserved, pending, gaps, before>>
auditd == <<pc, upto, got, chain, kept, passes, page, tail>>
vars == <<ledger, writing, ring, published, auditd, op, file, log, happened, strays, started, play>>

ASSUME AuditAssumption ==
  /\ {Slots, Headroom, PerBlock, FlushEvery} \subseteq Nat \ {0}
  /\ Headroom < Slots

\* bin/fsd, which hands auditd the file it creates.
Fsd == "fsd"
Actors == Threads \cup {Fsd}

\* What gives authority may be refused; what takes it away may not.
Gives == {"derive", "grant", "created"}
Takes == {"revoke", "ended"}
Kinds == Gives \cup Takes

\* Done under the domain table's lock, from the reservation to the record.
Locked == {"derive", "created", "revoke"}

Torn == [sequence |-> 0, kind |-> "torn", count |-> 0]
Rec(n, k, c) == [sequence |-> n, kind |-> k, count |-> c]
Ticket(k, g) == [kind |-> k, gap |-> g]
Idle == [phase |-> "idle", kind |-> "none", ticket |-> Ticket("none", 0)]
Unkept == [state |-> 0, entries |-> 0, flushed |-> 0, written |-> 0]

-----------------------------------------------------------------------------
(* The ledger's arithmetic.                                                  *)

\* clamp_tail: the tail the producer believes.
ClampTail(h, claim) ==
  CASE claim > h -> h
    [] claim <= h /\ h - claim > Slots -> h - Slots
    [] OTHER -> claim

\* Faulty: what operations in flight have reserved is not counted.
UsedUnreserved == head - ClampTail(head, tail)

\* Everything that is not free: records not consumed, and slots reserved.
Used == (head - ClampTail(head, tail)) + reserved

Free == IF Used >= Slots THEN 0 ELSE Slots - Used
Need == IF pending > 0 THEN 2 ELSE 1

\* verdict.
Admits(k) == Free >= Need + (IF k \in Gives THEN Headroom ELSE 0)

\* Ledger::reserve, for an operation that is not refused.
Reservation(k) ==
  CASE ~active -> Ticket("inactive", 0)
    [] active /\ Admits(k) -> Ticket("slots", pending)
    [] OTHER -> Ticket("gap", 0)

Take(ticket) ==
  /\ reserved' = reserved + (CASE ticket.kind # "slots" -> 0 [] ticket.gap > 0 -> 2 [] OTHER -> 1)
  /\ pending' = IF ticket.kind = "slots" THEN 0 ELSE pending
  /\ UNCHANGED <<active, head, gaps, before>>

\* Ledger::commit's records: the gap the reservation took over, then the record.
Writes(ticket, kind) ==
  IF ticket.kind # "slots" THEN <<>>
  ELSE IF ticket.gap > 0
       THEN <<Rec(head, "gap", ticket.gap), Rec(head + 1, kind, 0)>>
       ELSE <<Rec(head, kind, 0)>>

-----------------------------------------------------------------------------
(* The kernel.  The ledger's lock is held while records are stored.          *)

Unlocked == writing = <<>>
TableFree == \A t \in Actors : ~(op[t].phase = "held" /\ op[t].kind \in Locked)
InSlot(n) == n % Slots

\* store: the slots are being written, and head is still the old one.
Storing(w) ==
  /\ writing' = w
  /\ ring' = [s \in 0 .. Slots - 1 |->
       IF \E i \in DOMAIN w : InSlot(w[i].sequence) = s THEN Torn ELSE ring[s]]
  /\ log' = log \o w
  /\ head' = head + Len(w)

\* store's end: the records are whole, head is published and the lock is released.
Publish ==
  /\ writing # <<>>
  /\ ring' = [s \in 0 .. Slots - 1 |->
       LET mine == {i \in DOMAIN writing : InSlot(writing[i].sequence) = s}
       IN  IF mine = {} THEN ring[s] ELSE writing[Max(mine)]]
  /\ published' = head
  /\ writing' = <<>>
  /\ UNCHANGED <<ledger, auditd, op, file, log, happened, strays, started, play>>

\* start_auditd: the reader has its grants, and the first record names the boot.
Attach ==
  /\ ~active /\ Unlocked
  /\ active' = TRUE
  /\ Storing(<<Rec(head, "attach", before)>>)
  /\ UNCHANGED <<reserved, pending, gaps, before, published, auditd, op, file,
                 happened, strays, started, play>>

\* What an operation of fsd's tells auditd, which waits for its file.
Answered(t, state) ==
  IF t = Fsd
  THEN kept' = [kept EXCEPT !.state = state] /\ pc' = "append"
  ELSE UNCHANGED <<kept, pc>>

Asks(t, k) ==
  /\ Unlocked /\ op[t].phase = "idle"
  /\ k \in Locked => TableFree
  /\ IF t = Fsd THEN pc = "creating" /\ k = "grant"
     ELSE started < play.ops /\ k \in play.kinds[t]
  /\ started' = IF t = Fsd THEN started ELSE started + 1

\* audit::reserve refuses: nothing has changed, and the caller is told.
Refuse(t, k) ==
  /\ Asks(t, k)
  /\ k \in Gives /\ active /\ ~Admits(k)
  /\ Answered(t, 2)
  /\ UNCHANGED <<ledger, writing, ring, published, upto, got, chain, passes, page, tail, op,
                 file, log, happened, strays, play>>

\* audit::reserve and audit::must, before the operation changes anything.
Reserve(t, k) ==
  /\ Asks(t, k)
  /\ k \in Gives => ~active \/ Admits(k)
  /\ Take(Reservation(k))
  /\ op' = [op EXCEPT ![t] = [phase |-> "held", kind |-> k, ticket |-> Reservation(k)]]
  /\ UNCHANGED <<writing, ring, published, auditd, file, log, happened, strays, play>>

\* Faulty: the gap a reservation took over is forgotten with it.
CancelForgets(t) ==
  /\ Unlocked /\ op[t].phase = "held"
  /\ reserved' = reserved - (CASE op[t].ticket.kind # "slots" -> 0
                               [] op[t].ticket.gap > 0 -> 2 [] OTHER -> 1)
  /\ op' = [op EXCEPT ![t] = Idle]
  /\ Answered(t, 2)
  /\ UNCHANGED <<active, head, pending, gaps, before, writing, ring, published, upto, got, chain,
                 passes, page, tail, file, log, happened, strays, started, play>>

\* The operation did not happen, for another reason: its reservation is dropped.
Cancel(t) ==
  /\ Unlocked /\ op[t].phase = "held"
  /\ reserved' = reserved - (CASE op[t].ticket.kind # "slots" -> 0
                               [] op[t].ticket.gap > 0 -> 2 [] OTHER -> 1)
  /\ pending' = pending + op[t].ticket.gap
  /\ op' = [op EXCEPT ![t] = Idle]
  /\ Answered(t, 2)
  /\ UNCHANGED <<active, head, gaps, before, writing, ring, published, upto, got, chain, passes,
                 page, tail, file, log, happened, strays, started, play>>

\* A grant, a hand or a gift is installed in the recipient; the record comes later.
Install(t) ==
  /\ op[t].phase = "held" /\ op[t].kind = "grant" /\ TableFree
  /\ op' = [op EXCEPT ![t].phase = "done"]
  /\ happened' = happened + 1
  /\ UNCHANGED <<ledger, writing, ring, published, auditd, file, log, strays, started, play>>

\* Reservation::commit.  Everything but a grant happens in the step that tells the log.
Commit(t) ==
  LET ticket == op[t].ticket IN
  /\ Unlocked
  /\ op[t].phase = IF op[t].kind = "grant" THEN "done" ELSE "held"
  /\ op[t].kind = "ended" => TableFree
  /\ Storing(Writes(ticket, op[t].kind))
  /\ reserved' = reserved - Len(Writes(ticket, op[t].kind))
  /\ before' = IF ticket.kind = "inactive" THEN before + 1 ELSE before
  /\ strays' = IF ticket.kind = "inactive" /\ active THEN strays + 1 ELSE strays
  /\ pending' = IF ticket.kind = "gap" THEN pending + 1 ELSE pending
  /\ gaps' = IF ticket.kind = "gap" THEN gaps + 1 ELSE gaps
  /\ happened' = IF op[t].phase = "done" THEN happened ELSE happened + 1
  /\ op' = [op EXCEPT ![t] = Idle]
  /\ Answered(t, 1)
  /\ UNCHANGED <<active, published, upto, got, chain, passes, page, tail, file, started, play>>

Operate ==
  \/ \E t \in Actors, k \in Kinds : Refuse(t, k) \/ Reserve(t, k)
  \/ \E t \in Actors : Cancel(t) \/ Install(t) \/ Commit(t)

-----------------------------------------------------------------------------
(* bin/auditd.                                                               *)

\* ring::readable.
Readable(h, t) == IF h < t THEN 0 ELSE Min({h - t, Slots})

\* Faulty: the newest record is left for the next pass.
LookShort ==
  /\ pc = "look"
  /\ upto' = tail + (IF Readable(published, tail) > 0 THEN Readable(published, tail) - 1 ELSE 0)
  /\ pc' = "read"
  /\ UNCHANGED <<got, chain, kept, passes, page, tail>>

\* A pass: head, then the tail.
Look ==
  /\ pc = "look"
  /\ upto' = tail + Readable(published, tail)
  /\ pc' = "read"
  /\ UNCHANGED <<got, chain, kept, passes, page, tail>>

\* The next record's bytes.  The attach record makes the boot's file first.
Read ==
  /\ pc = "read" /\ tail < upto
  /\ got' = ring[InSlot(tail)]
  /\ pc' = IF got'.kind = "attach" /\ play.persist /\ kept.state = 0
           THEN "creating" ELSE "append"
  /\ UNCHANGED <<upto, chain, kept, passes, page, tail>>

\* Chain::append: the entry to keep, with the link before it and its own.
Entry == [record |-> got, previous |-> chain, link |-> Append(chain, got)]

\* The record is chained, its slot is given back, and Kept::push places its entry.
Chained ==
  /\ pc = "append"
  /\ chain' = Append(chain, got)
  /\ tail' = tail + 1
  /\ IF kept.state # 1
     THEN pc' = "read" /\ UNCHANGED <<kept, page>>
     ELSE /\ page' = [page EXCEPT ![(kept.entries % PerBlock) + 1] = Entry]
          /\ kept' = [kept EXCEPT !.entries = @ + 1]
          /\ pc' = IF (kept.entries + 1) % PerBlock = 0 THEN "block" ELSE "read"
  /\ got' = Torn
  /\ UNCHANGED <<upto, passes>>

\* After a pass, the next one when its deadline comes; with no clock the program exits.
After == IF play.reader = "once" THEN "exited" ELSE "look"

\* A pass's end: a partial block is due every FlushEvery passes, if it holds anything new.
Flush ==
  /\ pc = "read" /\ tail = upto
  /\ pc' = IF passes = 0 /\ kept.state = 1 /\ kept.entries % PerBlock # 0
              /\ kept.entries # kept.flushed
           THEN "partial" ELSE After
  /\ passes' = (passes + 1) % FlushEvery
  /\ UNCHANGED <<upto, got, chain, kept, page, tail>>

\* Faulty: a block that has been begun is written after the others.
BlockStartNext == ((kept.entries - 1) \div PerBlock) * PerBlock + (kept.entries % PerBlock)

\* Where the block being filled starts.
BlockStart == ((kept.entries - 1) \div PerBlock) * PerBlock

Hole == [record |-> Torn, previous |-> <<>>, link |-> <<>>]

\* fsd's WRITE_FROM of the first entries of the page, at an offset.
Overwrite(f, start, count) ==
  [i \in 1 .. Max({Len(f), start + count}) |->
     CASE i \in start + 1 .. start + count -> page[i - start]
       [] i \notin start + 1 .. start + count /\ i <= Len(f) -> f[i]
       [] OTHER -> Hole]

\* Kept::write, of a full block or of a partial one, which fsd may refuse.
Write(refused) ==
  LET count == IF pc = "block" THEN PerBlock ELSE kept.entries % PerBlock IN
  /\ pc \in {"block", "partial"}
  /\ refused => play.refuses
  /\ file' = IF refused THEN file ELSE Overwrite(file, BlockStart, count)
  /\ kept' = [kept EXCEPT !.state = IF refused THEN 3 ELSE 1,
                          !.written = IF refused THEN @ ELSE Max({@, BlockStart + count}),
                          !.flushed = IF pc = "partial" THEN kept.entries ELSE @]
  /\ pc' = IF pc = "block" THEN "read" ELSE After
  /\ UNCHANGED <<upto, got, chain, passes, page, tail>>

\* fsd does not create the file: it never gets to the hand.
CreateRefused ==
  /\ pc = "creating" /\ play.refuses /\ op[Fsd].phase = "idle"
  /\ kept' = [kept EXCEPT !.state = 2]
  /\ pc' = "append"
  /\ UNCHANGED <<upto, got, chain, passes, page, tail>>

\* auditd runs once the ring is attached, unless it could not be started.
Start ==
  /\ pc = "unborn" /\ active /\ play.reader \in {"runs", "once"}
  /\ pc' = "look"
  /\ UNCHANGED <<upto, got, chain, kept, passes, page, tail>>

Reader ==
  /\ \/ (Start \/ Look \/ Read \/ Chained \/ Flush \/ CreateRefused)
        /\ UNCHANGED file
     \/ \E refused \in BOOLEAN : Write(refused)
  /\ UNCHANGED <<ledger, writing, ring, published, op, log, happened, strays, started, play>>

Init ==
  /\ active = FALSE /\ head = 0 /\ reserved = 0 /\ pending = 0 /\ gaps = 0 /\ before = 0
  /\ writing = <<>> /\ ring = [s \in 0 .. Slots - 1 |-> Torn] /\ published = 0 /\ tail = 0
  /\ op = [t \in Actors |-> Idle]
  /\ pc = "unborn" /\ upto = 0 /\ got = Torn /\ chain = <<>> /\ kept = Unkept /\ passes = 0
  /\ page = [i \in 1 .. PerBlock |-> Hole]
  /\ file = <<>> /\ log = <<>> /\ happened = 0 /\ strays = 0 /\ started = 0
  /\ play \in Plays

Next == Operate \/ Attach \/ Publish \/ Reader

Spec == Init /\ [][Next]_vars

\* Kernel threads finish what they began, the boot attaches the ring, fsd answers, and
\* auditd runs whenever its deadline comes.
Finish == \/ \E t \in Actors : Cancel(t) \/ Install(t) \/ Commit(t)
          \/ \E k \in Kinds : Refuse(Fsd, k) \/ Reserve(Fsd, k)

FairSpec ==
  /\ Spec
  /\ WF_vars(Attach) /\ WF_vars(Publish) /\ WF_vars(Finish) /\ WF_vars(Reader)

-----------------------------------------------------------------------------
(* The verifier.                                                             *)

RecordsBefore(f, i) == [j \in 1 .. i - 1 |-> f[j].record]

\* Faulty: an entry is only held against itself.
BreaksAloneOnly(f, i) ==
  \/ f[i].link # Append(f[i].previous, f[i].record)
  \/ f[i].record.sequence # i - 1
  \/ i = 1 /\ f[i].record.kind # "attach"

\* verify's checks of one entry.
Breaks(f, i) ==
  \/ f[i].previous # RecordsBefore(f, i)
  \/ f[i].link # Append(f[i].previous, f[i].record)
  \/ f[i].record.sequence # i - 1
  \/ i = 1 /\ f[i].record.kind # "attach"

\* verify: the first entry that breaks the log, or one past the end of a whole log.
Verify(f) == Min({i \in DOMAIN f : Breaks(f, i)} \cup {Len(f) + 1})

-----------------------------------------------------------------------------
(* Properties.                                                               *)

TypeOK ==
  /\ reserved \in 0 .. Slots /\ pending \in Nat /\ head = Len(log) /\ published \in 0 .. head
  /\ \A t \in Actors : op[t].phase \in {"idle", "held", "done"} /\ op[t].kind \in Kinds \cup {"none"}
  /\ kept.state \in 0 .. 3 /\ upto \in 0 .. head
  /\ pc \in {"unborn", "look", "read", "creating", "append", "block", "partial",
             "exited"}

Stated(k) == {i \in DOMAIN log : log[i].kind \in k}
CountOf(i) == log[i].count
GapHeld(t) == op[t].ticket.gap

\* No operation is silently absent: what happened is recorded, counted before the reader
\* attached, counted as a gap, or about to be told; every gap is stated by a record, taken
\* over by a reservation, or waiting; and the first record counts what came before it, but
\* for the operations that were in flight when it was written (reserve, commit, cancel).
NothingSilent ==
  /\ happened =
       Cardinality(Stated(Kinds)) + gaps + before + Cardinality({t \in Actors : op[t].phase = "done"})
  /\ gaps = pending + MapThenSumSet(GapHeld, Actors) + MapThenSumSet(CountOf, Stated({"gap"}))
  /\ active => log[1].kind = "attach" /\ log[1].count + strays = before

\* A reservation's slot is there when it is committed: no record the reader has still to take
\* is written over, and what it reads is what was committed, in order (reserve, store).
RoomHeld ==
  /\ (head - tail) + reserved <= Slots
  /\ \A n \in tail .. published - 1 : ring[InSlot(n)] = log[n + 1]
  /\ pc \in {"creating", "append"} => got = log[tail + 1]
  /\ IsPrefix(chain, log)
  /\ \A i \in DOMAIN log : log[i].sequence = i - 1

\* Whenever the machine stops, the file is a whole log: the first records of the chain, as
\* many as auditd reports (Kept::write, Kept::flush).
FileWhole ==
  /\ Verify(file) = Len(file) + 1
  /\ Len(file) = kept.written
  /\ IsPrefix([i \in DOMAIN file |-> file[i].record], chain)

\* The audit log's invariants.
AuditInv == TypeOK /\ NothingSilent /\ RoomHeld /\ FileWhole

Relinked(i) ==
  LET r == [file[i].record EXCEPT !.count = @ + 1]
  IN  [file EXCEPT ![i].record = r, ![i].link = Append(file[i].previous, r)]

Swapped(i) == [file EXCEPT ![i] = file[i + 1], ![i + 1] = file[i]]

\* A record of a kept log that is changed, removed or moved is named by the verifier: at its
\* own entry, or at the next one when its link is made to fit (auditlog::verify).
TamperShown ==
  \A i \in DOMAIN file :
    /\ Verify([file EXCEPT ![i].record.count = @ + 1]) = i
    /\ i < Len(file) => /\ Verify(RemoveAt(file, i)) = i
                        /\ Verify(Swapped(i)) = i
                        /\ Verify(Relinked(i)) = i + 1

\* While auditd runs, it comes again and again to where every published record is chained,
\* and kept unless the file could not be made or a write was refused; and the ring comes again
\* and again to where a grant has room (Look, Kept::flush).
LogDrains ==
  play.reader = "runs" =>
    []<>(/\ Len(chain) = published
         /\ play.persist => Len(file) = Len(chain) \/ kept.state \in {2, 3}
         /\ active /\ Free >= Headroom + Need)
=============================================================================
