----------------------------- MODULE Delegation -----------------------------
(***************************************************************************)
(* Capabilities in use: CSpaces, quotas and the calls that move            *)
(* capabilities within and between domains (kernel/src/syscall.rs: invoke, *)
(* invoke_capability, grant_to_domain, grant, hand, complete_gift;         *)
(* kernel/src/cap.rs: CSpace; kernel/src/domain.rs: the quota).            *)
(*                                                                         *)
(* The arena is CapTree, which CapArena implements: a CSpace slot holds    *)
(* the serial of a capability, live or not.  Two domains' CSpaces cannot   *)
(* be locked at once, so a grant derives for the recipient in one step and *)
(* installs in another, and a revocation returns other domains' quota      *)
(* after the invoker's entry was given up.                                 *)
(***************************************************************************)
EXTENDS Integers, FiniteSets, Functions

CONSTANTS
  MaxDomains,       \* slots of the domain table
  CSlots,           \* positions of a CSpace
  Envelopes,        \* the values of ResourceEnvelope::max_capabilities
  MaxCapabilities, Object, Kernel, Rights, RequestedRights, MaxSerials,
  MaxGenerations    \* bound: ends of one slot

DelegationAssumption ==
  /\ MaxDomains \in Nat \ {0}
  /\ CSlots # {} /\ IsFiniteSet(CSlots)
  /\ Envelopes \subseteq Nat \ {0}
  /\ Kernel \notin 1 .. MaxDomains
  /\ {"DERIVE", "REVOKE", "GRANT"} \subseteq Rights

VARIABLES
  caps, serials,  \* the arena
  domains,        \* the table: live, gen, cspace, held of max, root
  calls,          \* domain -> the call its thread is in
  meant,          \* serial of a grant's copy -> the incarnation it was for
  placed,         \* serials of grants that answered OK
  doomed          \* roots of ended domains, not revoked yet

vars == <<caps, serials, domains, calls, meant, placed, doomed>>

Domains == 1 .. MaxDomains
Giver == 1
Empty == 0
Objects == {Object} \cup Domains
Tree == INSTANCE CapTree WITH MaxBadge <- 0, Charged <- Domains \cup {Kernel}

Live == Tree!Live
Serials == 0 .. MaxSerials

NoCall == [pc |-> "user", serial |-> Empty, to |-> Kernel,
           owed |-> [d \in Domains |-> 0]]

\* Each domain has its root; the giver holds a capability to the object.
RootCap(object, owner) ==
  [object |-> object, rights |-> Rights, badge |-> 0, parent |-> Tree!Root,
   owner |-> owner]

Init ==
  /\ caps = [s \in 1 .. MaxDomains + 1 |->
       IF s \in Domains THEN RootCap(s, Kernel) ELSE RootCap(Object, Giver)]
  /\ serials = MaxDomains + 1
  /\ \E first \in CSlots, max \in Envelopes :
       domains = [d \in Domains |->
         [live |-> TRUE, gen |-> 0, root |-> d, max |-> max,
          held |-> IF d = Giver THEN 1 ELSE 0,
          cspace |-> [i \in CSlots |-> IF d = Giver /\ i = first
                                       THEN MaxDomains + 1 ELSE Empty]]]
  /\ calls = [d \in Domains |-> NoCall]
  /\ meant = [s \in {} |-> 0]
  /\ placed = {}
  /\ doomed = {}

-----------------------------------------------------------------------------
(* CSpace and quota.                                                       *)

Occupied(cspace) == {i \in DOMAIN cspace : cspace[i] # Empty}
EmptyCSpace == [i \in CSlots |-> Empty]

MayCharge(domain) == domain.held < domain.max

Minus(a, b) == IF a > b THEN a - b ELSE 0
Released(domain, n) == [domain EXCEPT !.held = Minus(@, n)]

Charged(domain) == [domain EXCEPT !.held = @ + 1]

InUser(d) == calls[d].pc = "user" /\ domains[d].live

-----------------------------------------------------------------------------
(* DERIVE, REVOKE and DELETE: invoke and invoke_capability.                *)

\* revoke_tallied: who loses how many.
Tally(gone) ==
  [d \in Domains |-> Cardinality({s \in gone : caps[s].owner = d})]

\* The CSpace is taken out of the table while the arena is locked.  When the
\* charge is refused the call returns before it is put back.
Derive(d, i, j, rights) ==
  LET new == serials + 1
  IN /\ InUser(d)
     /\ domains[d].cspace[i] \in Live
     /\ domains[d].cspace[j] = Empty
     /\ Tree!DeriveFrom(domains[d].cspace[i], rights, 0, d)
     /\ domains' = [domains EXCEPT ![d] =
          IF MayCharge(@)
          THEN Charged([@ EXCEPT !.cspace[j] = new])
          ELSE [@ EXCEPT !.cspace = EmptyCSpace]]
     /\ UNCHANGED <<calls, meant, placed, doomed>>

\* The invoker's share of the tally is returned at once, beyond the slot that
\* leaves the CSpace; the other owners' shares when the table is free again.
Revoke(d, i) ==
  LET s == domains[d].cspace[i]
      gone == Tree!Subtree(s)
      tally == Tally(gone)
  IN /\ InUser(d)
     /\ s \in Live
     /\ "REVOKE" \in caps[s].rights
     /\ Tree!RevokeAt(s)
     /\ domains' = [domains EXCEPT ![d] =
          Released([@ EXCEPT !.cspace[i] = Empty], 1 + Minus(tally[d], 1))]
     /\ calls' = [calls EXCEPT ![d] =
          [NoCall EXCEPT !.pc = "returning", !.owed = [tally EXCEPT ![d] = 0]]]
     /\ UNCHANGED <<meant, placed, doomed>>

Owes(d) == {e \in Domains : calls[d].owed[e] > 0}

ReturnQuota(d) ==
  /\ calls[d].pc = "returning"
  /\ \E e \in Owes(d) :
       /\ domains' = [domains EXCEPT ![e] =
            IF @.live THEN Released(@, calls[d].owed[e]) ELSE @]
       /\ calls' = [calls EXCEPT ![d].owed[e] = 0]
  /\ UNCHANGED <<caps, serials, meant, placed, doomed>>

RevokeDone(d) ==
  /\ calls[d].pc = "returning"
  /\ Owes(d) = {}
  /\ calls' = [calls EXCEPT ![d] = NoCall]
  /\ UNCHANGED <<caps, serials, domains, meant, placed, doomed>>

\* Faulty: the slot stays charged.
DeleteUnreleased(d, i) ==
  /\ InUser(d)
  /\ domains[d].cspace[i] # Empty
  /\ domains' = [domains EXCEPT ![d].cspace[i] = Empty]
  /\ UNCHANGED <<caps, serials, calls, meant, placed, doomed>>

\* Of a live capability or of the remains of a revoked one.  The arena is not
\* told: the capability lives on without a holder.
Delete(d, i) ==
  /\ InUser(d)
  /\ domains[d].cspace[i] # Empty
  /\ domains' = [domains EXCEPT ![d] =
       Released([@ EXCEPT !.cspace[i] = Empty], 1)]
  /\ UNCHANGED <<caps, serials, calls, meant, placed, doomed>>

-----------------------------------------------------------------------------
(* GRANT, in the stages the two table entries force on it.                 *)

\* Faulty: the copy is charged to the giver.
GrantDeriveAtOwnCost(d, i, e, rights) ==
  LET s == domains[d].cspace[i]
  IN /\ InUser(d)
     /\ e # d
     /\ s \in Live
     /\ "GRANT" \in caps[s].rights
     /\ Tree!DeriveFrom(s, rights, 0, d)
     /\ calls' = [calls EXCEPT ![d] =
          [NoCall EXCEPT !.pc = "install", !.serial = serials + 1, !.to = e]]
     /\ meant' = [t \in DOMAIN meant \cup {serials + 1} |->
                    IF t = serials + 1 THEN domains[e].gen ELSE meant[t]]
     /\ UNCHANGED <<domains, placed, doomed>>

\* Stage one, in the giver: derive the copy, charged to the recipient.  The
\* recipient is a slot number; whether anybody lives there is not asked.
GrantDerive(d, i, e, rights) ==
  LET s == domains[d].cspace[i]
  IN /\ InUser(d)
     /\ e # d
     /\ s \in Live
     /\ "GRANT" \in caps[s].rights
     /\ Tree!DeriveFrom(s, rights, 0, e)
     /\ calls' = [calls EXCEPT ![d] =
          [NoCall EXCEPT !.pc = "install", !.serial = serials + 1, !.to = e]]
     /\ meant' = [t \in DOMAIN meant \cup {serials + 1} |->
                    IF t = serials + 1 THEN domains[e].gen ELSE meant[t]]
     /\ UNCHANGED <<domains, placed, doomed>>

\* Stage two, in the recipient: charge, then install.
GrantInstall(d, j) ==
  LET e == calls[d].to
      s == calls[d].serial
  IN /\ calls[d].pc = "install"
     /\ domains[e].live
     /\ MayCharge(domains[e])
     /\ domains[e].cspace[j] = Empty
     /\ domains' = [domains EXCEPT ![e] =
          Charged([@ EXCEPT !.cspace[j] = s])]
     /\ placed' = placed \cup {s}
     /\ calls' = [calls EXCEPT ![d] = NoCall]
     /\ UNCHANGED <<caps, serials, meant, doomed>>

\* Faulty: a refusal leaves the copy in the arena.
GrantRefusedKept(d, j) ==
  LET e == calls[d].to
  IN /\ calls[d].pc = "install"
     /\ ~(/\ domains[e].live
          /\ MayCharge(domains[e])
          /\ domains[e].cspace[j] = Empty)
     /\ calls' = [calls EXCEPT ![d] = NoCall]
     /\ UNCHANGED <<caps, serials, domains, meant, placed, doomed>>

\* No domain there, no quota, or the slot is taken: the copy is destroyed.
GrantRefused(d, j) ==
  LET e == calls[d].to
  IN /\ calls[d].pc = "install"
     /\ ~(/\ domains[e].live
          /\ MayCharge(domains[e])
          /\ domains[e].cspace[j] = Empty)
     /\ calls' = [calls EXCEPT ![d].pc = "undo"]
     /\ UNCHANGED <<caps, serials, domains, meant, placed, doomed>>

RevokeIfLive(s) ==
  IF s \in Live THEN Tree!RevokeAt(s) ELSE UNCHANGED <<caps, serials>>

GrantUndo(d) ==
  /\ calls[d].pc = "undo"
  /\ RevokeIfLive(calls[d].serial)
  /\ calls' = [calls EXCEPT ![d] = NoCall]
  /\ UNCHANGED <<domains, meant, placed, doomed>>

-----------------------------------------------------------------------------
(* Domains come and go: the table section of end, the revocation of the    *)
(* root after it, and create_under in the same slot.                       *)

End(d) ==
  /\ domains[d].live
  /\ domains[d].gen < MaxGenerations
  /\ domains' = [domains EXCEPT ![d] =
       [@ EXCEPT !.live = FALSE, !.gen = @ + 1, !.root = Empty, !.held = 0,
                 !.cspace = EmptyCSpace]]
  /\ doomed' = doomed \cup ({domains[d].root} \ {Empty})
  /\ UNCHANGED <<caps, serials, calls, meant, placed>>

RevokeRoot(s) ==
  /\ doomed' = doomed \ {s}
  /\ RevokeIfLive(s)
  /\ UNCHANGED <<domains, calls, meant, placed>>

\* A thread of the previous incarnation keeps the slot from being reused.
CreateUnder(d) ==
  /\ ~domains[d].live
  /\ calls[d].pc = "user"
  /\ Tree!Insert(d, Rights, 0, Kernel)
  /\ domains' = [domains EXCEPT ![d].live = TRUE, ![d].root = serials + 1]
  /\ UNCHANGED <<calls, meant, placed, doomed>>

-----------------------------------------------------------------------------
Invoke(d) ==
  \E i \in CSlots :
    \/ \E j \in CSlots, r \in RequestedRights : Derive(d, i, j, r)
    \/ Revoke(d, i)
    \/ Delete(d, i)
    \/ \E e \in Domains, r \in RequestedRights : GrantDerive(d, i, e, r)

Next ==
  \/ \E d \in Domains :
       \/ Invoke(d)
       \/ ReturnQuota(d)
       \/ RevokeDone(d)
       \/ \E j \in CSlots : GrantInstall(d, j) \/ GrantRefused(d, j)
       \/ GrantUndo(d)
       \/ End(d)
       \/ CreateUnder(d)
  \/ \E s \in doomed : RevokeRoot(s)

Spec == Init /\ [][Next]_vars

-----------------------------------------------------------------------------
Call == [pc : {"user", "returning", "install", "undo"}, serial : Serials,
         to : Domains \cup {Kernel}, owed : [Domains -> Nat]]
Entry == [live : BOOLEAN, gen : 0 .. MaxGenerations, root : Serials,
          max : Envelopes, held : Nat, cspace : [CSlots -> Serials]]

TypeOK ==
  /\ Live \subseteq 1 .. serials
  /\ \A s \in Live : caps[s] \in Tree!Cap
  /\ serials \in Serials
  /\ domains \in [Domains -> Entry] /\ \A d \in Domains : domains[d].held <= domains[d].max
  /\ calls \in [Domains -> Call]
  /\ DOMAIN meant \subseteq Serials
  /\ placed \subseteq DOMAIN meant
  /\ doomed \subseteq Serials

(***************************************************************************)
(* A grant is never half done: the copy derived for a recipient was        *)
(* installed there, or died, or is in the hands of the call that will do   *)
(* one of the two.  Left in the arena it would be held by no one and never *)
(* revoked, which is what the undo of grant, hand and complete_gift is for.*)
(***************************************************************************)
GiftAccounted ==
  \A s \in DOMAIN meant \cap Live :
    s \in placed \/ \E d \in Domains : calls[d].serial = s

(***************************************************************************)
(* The tally pays the right domain: a live capability in a CSpace is       *)
(* charged to the domain that holds it, however it came there, so that its *)
(* revocation by an ancestor's holder returns the holder's quota.          *)
(***************************************************************************)
HolderIsCharged ==
  \A d \in Domains : \A i \in CSlots :
    domains[d].cspace[i] \in Live => caps[domains[d].cspace[i]].owner = d

(***************************************************************************)
(* No charge without a slot: a domain is never charged for more            *)
(* capabilities than it has slots in use, so deleting slots always brings  *)
(* its quota back, whatever others revoke meanwhile.  For envelopes that   *)
(* cover the CSpace; a smaller one loses the CSpace (ChargedSlotsStay).    *)
(***************************************************************************)
ChargedForSlots ==
  \A d \in Domains :
    domains[d].max >= Cardinality(CSlots) =>
      domains[d].held <= Cardinality(Occupied(domains[d].cspace))

-----------------------------------------------------------------------------
(* What the comments say and the code does not do.                         *)

(***************************************************************************)
(* A call that is refused changes nothing (RFC 0101, as the comment on     *)
(* grant has it), and a domain at its limit gets an error it can cope      *)
(* with: while it stays charged to the limit it keeps the slots it is      *)
(* charged for.                                                            *)
(***************************************************************************)
ChargedSlotsStay ==
  [][\A d \in Domains :
       /\ domains[d].live /\ domains'[d].live
       /\ domains[d].held = domains[d].max /\ domains'[d].held = domains[d].max
       => Occupied(domains[d].cspace) \subseteq Occupied(domains'[d].cspace)]_vars

(***************************************************************************)
(* The doc of max_capabilities: a cap on live capabilities derived by this *)
(* domain, so that one deriving in a loop cannot exhaust the arena.        *)
(***************************************************************************)
QuotaBoundsLive ==
  \A d \in Domains : Cardinality({s \in Live : caps[s].owner = d}) <= domains[d].max

(***************************************************************************)
(* The doc of grant: there is no way to express a grant to a stranger.     *)
(***************************************************************************)
NoGrantToStranger ==
  [][\A d \in Domains : \A s \in placed' \ placed :
       calls[d].serial = s => domains[calls[d].to].gen = meant[s]]_vars

(***************************************************************************)
(* The doc of Domain::root: revoking it revokes everything the domain was  *)
(* ever granted, because everything was derived from it.                   *)
(***************************************************************************)
NoAuthorityAfterEnd ==
  \A d \in Domains :
    /\ ~domains[d].live
    /\ doomed = {}
    => \A s \in placed \cap Live : caps[s].owner # d

\* The table's invariant: besides the types, what a domain holds is charged to
\* it, whoever derived it and however many stages that took, and no gift is
\* stranded between two of them.
DelegationInv == TypeOK /\ HolderIsCharged /\ GiftAccounted
=============================================================================
