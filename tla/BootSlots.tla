------------------------------ MODULE BootSlots ------------------------------
(***************************************************************************)
(* The two boot slots, their record and the rollback counter, as the       *)
(* loader uses them on every start: slotdisk, rollback and bhaskixboot.    *)
(* The machine may lose its power between any two steps, a disk write may  *)
(* tear or fail, and the TPM may not answer.  The owner updates the other  *)
(* slot, puts it on trial and marks it good from the system that runs.     *)
(***************************************************************************)
EXTENDS Naturals, FiniteSets, FiniteSetsExt

CONSTANTS
  Versions,    \* the security versions of sets
  MaxVersion,  \* the highest version the counter can record
  MaxTries,    \* the boots an owner gives a trial
  MaxFaults    \* bound: power cuts, torn and failed writes, silences of the TPM

VARIABLES
  record,  \* the slot record on the disk, or Damaged
  sets,    \* slot -> the boot set in it
  tpm,     \* the counter's index: whether it is defined, its bits, its lock
  secure,  \* Secure Boot is on
  pc,      \* where the machine is
  boot,    \* what the loader knows on this start
  faults,
  granted, taken  \* boots given to the trial, and boots it has had

vars == <<record, sets, tpm, secure, pc, boot, faults, granted, taken>>

Slots == {"A", "B"}
Other(s) == CHOOSE o \in Slots : o # s
NoSlot == "none"
Damaged == [active |-> NoSlot, trial |-> NoSlot, tries |-> 0]
Record == [active : Slots, trial : Slots \cup {NoSlot}, tries : 0 .. MaxTries]

\* A set reads or does not, is signed by the owner or not, and comes up or hangs.
\* Only a signature gives it a version.
Set == [kind : {"unreadable", "unsigned"}, version : {0}]
       \cup [kind : {"hangs", "runs"}, version : Versions]

-----------------------------------------------------------------------------
(* The decisions.                                                            *)

\* Faulty: a boot is spent, but never the last one.
PlanKeepsOne(r) ==
  CASE r = Damaged -> [first |-> "A", then |-> "B", trial |-> FALSE, write |-> r]
    [] r.trial # NoSlot ->
         [first |-> r.trial, then |-> r.active, trial |-> TRUE,
          write |-> [r EXCEPT !.tries = IF @ > 1 THEN @ - 1 ELSE @]]
    [] OTHER -> [first |-> r.active, then |-> Other(r.active), trial |-> FALSE, write |-> r]

\* plan: what to try, and the record to write first.  A trial's boot is spent on
\* the way in.
Plan(r) ==
  CASE r = Damaged -> [first |-> "A", then |-> "B", trial |-> FALSE, write |-> r]
    [] r.trial # NoSlot /\ r.tries > 0 ->
         [first |-> r.trial, then |-> r.active, trial |-> TRUE,
          write |-> [r EXCEPT !.tries = @ - 1]]
    [] r.trial # NoSlot /\ r.tries = 0 ->
         [first |-> r.active, then |-> Other(r.active), trial |-> FALSE,
          write |-> [r EXCEPT !.trial = NoSlot]]
    [] OTHER -> [first |-> r.active, then |-> Other(r.active), trial |-> FALSE, write |-> r]

\* floor: the highest version recorded.
Floor(bits) == Max(bits \cup {0})


\* advance: a verified set in the slot the record marks good, above the floor.
Advance(b) ==
  IF b.verified /\ b.record # Damaged /\ b.record.active = b.slot /\ b.version > b.floor
  THEN {b.version} \cap 1 .. MaxVersion
  ELSE {}


\* check: the signature, then the version against the floor this boot read.
Verifies(set, floor) == set.kind \in {"hangs", "runs"} /\ set.version >= floor

-----------------------------------------------------------------------------
(* The loader.                                                               *)

NoBoot == [record |-> Damaged, first |-> NoSlot, then |-> NoSlot, trial |-> FALSE,
           write |-> Damaged, here |-> FALSE, floor |-> 0, attempt |-> 0,
           slot |-> NoSlot, verified |-> FALSE, version |-> 0]

Init ==
  /\ record = [active |-> "A", trial |-> NoSlot, tries |-> 0]
  /\ sets = [s \in Slots |-> [kind |-> "runs", version |-> 1]]
  /\ tpm = [defined |-> FALSE, bits |-> {}, locked |-> FALSE]
  /\ secure \in BOOLEAN
  /\ pc = "off" /\ boot = NoBoot /\ faults = 0 /\ granted = 0 /\ taken = 0

Fault == faults < MaxFaults /\ faults' = faults + 1
NoFault == UNCHANGED faults

\* The TPM restarts with the machine and drops its lock.  slots::find reads the
\* record, or fails to.
PowerOn ==
  /\ pc = "off"
  /\ \E read \in {record, Damaged} :
       /\ IF read = record THEN NoFault ELSE Fault
       /\ \E p \in {Plan(read)} :
            /\ boot' = [NoBoot EXCEPT !.record = read, !.first = p.first, !.then = p.then,
                                      !.trial = p.trial, !.write = p.write]
            /\ pc' = IF p.write = read THEN "open" ELSE "write"
  /\ tpm' = [tpm EXCEPT !.locked = FALSE]
  /\ UNCHANGED <<record, sets, secure, granted, taken>>

\* plan_slots.  A trial whose boot is not recorded is not taken; the block may be
\* on the disk all the same, or half of it.
WriteRecord ==
  /\ pc = "write"
  /\ \/ record' = boot.write /\ NoFault /\ UNCHANGED boot
     \/ /\ Fault /\ record' \in {record, boot.write, Damaged}
        /\ boot' = [boot EXCEPT !.first = boot.record.active, !.then = Other(boot.record.active),
                                !.trial = FALSE]
  /\ pc' = "open"
  /\ UNCHANGED <<sets, tpm, secure, granted, taken>>

\* counter::open: the bits as this boot read them, an index made now, or none.
OpenCounter ==
  /\ pc = "open"
  /\ \/ /\ NoFault
        /\ tpm' = [tpm EXCEPT !.defined = TRUE]
        /\ boot' = [boot EXCEPT !.here = TRUE, !.floor = Floor(tpm.bits)]
     \/ Fault /\ tpm' \in {tpm, [tpm EXCEPT !.defined = TRUE]} /\ UNCHANGED boot
  /\ pc' = "read"
  /\ UNCHANGED <<record, sets, secure, granted, taken>>

\* The loop over the attempts: the first slot, the other, and the first again when
\* neither verified and Secure Boot is off.
Tried == IF boot.attempt = 1 THEN boot.then ELSE boot.first
Chosen(verified) ==
  /\ boot' = [boot EXCEPT !.slot = Tried, !.verified = verified, !.version = sets[Tried].version]
  /\ pc' = "advance"
NextAttempt == boot' = [boot EXCEPT !.attempt = @ + 1] /\ UNCHANGED pc
ReadSet ==
  /\ pc = "read"
  /\ \E reads \in BOOLEAN :
       /\ IF reads = (sets[Tried].kind # "unreadable") THEN NoFault ELSE ~reads /\ Fault
       /\ IF reads /\ Verifies(sets[Tried], boot.floor) THEN Chosen(TRUE)
          ELSE IF boot.attempt = 0 THEN NextAttempt
          ELSE IF ~reads THEN pc' = "refused" /\ UNCHANGED boot
          ELSE IF boot.attempt = 1 /\ ~secure THEN NextAttempt
          ELSE Chosen(FALSE)
  /\ UNCHANGED <<record, sets, tpm, secure, granted, taken>>

\* advance_and_lock, in two commands the TPM may refuse.
Moves == IF boot.here THEN Advance(boot) ELSE {}
AdvanceCounter ==
  /\ pc = "advance"
  /\ \/ NoFault /\ tpm' = [tpm EXCEPT !.bits = @ \cup Moves]
     \/ Fault /\ Moves # {} /\ UNCHANGED tpm
  /\ pc' = "lock"
  /\ UNCHANGED <<record, sets, secure, boot, granted, taken>>

\* Then the policy, and the set is on its own.
Outcomes(kind) == IF kind = "unsigned" THEN BOOLEAN ELSE {kind = "runs"}
LockAndGo ==
  /\ pc = "lock"
  /\ \/ NoFault /\ tpm' = [tpm EXCEPT !.locked = boot.here]
     \/ Fault /\ boot.here /\ UNCHANGED tpm
  /\ \E works \in Outcomes(sets[boot.slot].kind) :
       pc' = IF secure /\ ~boot.verified THEN "refused"
             ELSE IF works THEN "running" ELSE "hung"
  /\ taken' = IF pc' # "refused" /\ boot.trial /\ boot.slot = boot.first THEN taken + 1 ELSE taken
  /\ UNCHANGED <<record, sets, secure, boot, granted>>

Loader == PowerOn \/ WriteRecord \/ OpenCounter \/ ReadSet \/ AdvanceCounter \/ LockAndGo

-----------------------------------------------------------------------------
(* The world.                                                                *)

Off == pc' = "off" /\ boot' = NoBoot
\* A machine that hangs or refuses is started again, and one that runs may be.
Restart ==
  /\ pc \in {"hung", "refused", "running"}
  /\ Off /\ UNCHANGED <<record, sets, tpm, secure, faults, granted, taken>>

\* A power cut anywhere; in the middle of the record's write it may tear.
PowerCut ==
  /\ pc \notin {"off", "hung", "refused", "running"} /\ Fault
  /\ record' \in {record} \cup (IF pc = "write" THEN {Damaged} ELSE {})
  /\ Off /\ UNCHANGED <<sets, tpm, secure, granted, taken>>

\* The owner writes a set, of any version, whole or not, into the slot that is
\* neither active nor running nor on trial.
Update ==
  /\ pc = "running" /\ record # Damaged /\ record.trial = NoSlot
  /\ \E s \in Slots \ {record.active, boot.slot}, set \in Set :
       sets' = [sets EXCEPT ![s] = set]
  /\ UNCHANGED <<record, tpm, secure, pc, boot, faults, granted, taken>>

\* slot-disk.py record: puts the slot on trial, or marks the one that runs good:
\* verified, with the counter there.
PutOnTrial ==
  /\ pc = "running" /\ record # Damaged /\ record.trial = NoSlot
  /\ \E n \in 1 .. MaxTries :
       /\ record' = [record EXCEPT !.trial = Other(record.active), !.tries = n]
       /\ granted' = n
  /\ taken' = 0
  /\ UNCHANGED <<sets, tpm, secure, pc, boot, faults>>

MarkGood ==
  /\ pc = "running" /\ boot.verified /\ boot.here
  /\ record' = [active |-> boot.slot, trial |-> NoSlot, tries |-> 0]
  /\ UNCHANGED <<sets, tpm, secure, pc, boot, faults, granted, taken>>

Next == Loader \/ Restart \/ PowerCut \/ Update \/ PutOnTrial \/ MarkGood

Spec == Init /\ [][Next]_vars

-----------------------------------------------------------------------------
\* The types of the disk, the TPM and the loader's state.
TypeOK ==
  /\ record \in Record \cup {Damaged}
  /\ sets \in [Slots -> Set]
  /\ tpm \in [defined : BOOLEAN, bits : SUBSET (1 .. MaxVersion), locked : BOOLEAN]
  /\ pc \in {"off", "write", "open", "read", "advance", "lock", "running", "hung", "refused"}
  /\ boot.slot \in Slots \cup {NoSlot} /\ boot.attempt \in 0 .. 2

\* A trial never has more boots than it was given, whatever fails around the write
\* that spends them: a set that hangs cannot be tried for ever (plan, plan_slots).
TrialPaid ==
  record # Damaged /\ record.trial # NoSlot => taken + record.tries <= granted

\* The counter never rises above the set that is marked good, so it cannot strand
\* the machine: the active slot's set always passes it (rollback::advance).
ActiveAboveFloor ==
  record # Damaged /\ sets[record.active].kind \in {"hangs", "runs"} =>
    sets[record.active].version >= Floor(tpm.bits)

\* What runs under Secure Boot with the counter there is at or above everything that
\* was ever recorded, and the running system cannot move the counter unless the TPM
\* refused to lock it.
NoRollback ==
  pc = "running" /\ secure /\ boot.here =>
    /\ boot.verified /\ boot.version >= Floor(tpm.bits)
    /\ tpm.locked \/ faults > 0

\* The loader's invariant: trials are paid for, the counter strands nobody, and
\* nothing older than the counter runs.
BootSlotsInv == TypeOK /\ TrialPaid /\ ActiveAboveFloor /\ NoRollback

\* As long as the record is whole and the active set is, the machine always comes
\* up again, whatever the trial does and wherever the power went (plan, the
\* attempts of the loader's loop).
ActiveWhole == record # Damaged /\ sets[record.active].kind = "runs"
=============================================================================
