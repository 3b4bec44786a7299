------------------------------ MODULE CapArena ------------------------------
(***************************************************************************)
(* The capability arena of kernel/src/cap.rs: one fixed array of nodes     *)
(* that holds the derivation tree of every capability in the system.       *)
(*                                                                         *)
(* Every operation runs under the arena's spin lock, so insertion and      *)
(* derivation are one step each.  Revocation is a loop over the array: it  *)
(* is modelled index by index, with the lock held (mode # "idle"), because *)
(* whether the loop finds every descendant is what has to be shown.        *)
(*                                                                         *)
(* Slot references (an index and a generation) are never taken back from   *)
(* the CSpaces that hold them, so any reference the arena ever returned    *)
(* may be presented again: `issued' is the set of them.                    *)
(***************************************************************************)
EXTENDS Integers, FiniteSets

CONSTANTS
  MaxCapabilities,  \* arena entries (4096 in the code)
  Objects,          \* what a capability can name
  OtherRights,      \* rights besides the two the arena itself consults
  RequestedRights,  \* the sets of rights callers ask for
  MaxBadge,         \* badges are 0..MaxBadge, 0 meaning unbadged
  Owners,           \* domains the arena attributes capabilities to
  Kernel,           \* OWNER_KERNEL, never tallied
  GenerationSpan,   \* generations are kept modulo this (2^32 in the code)
  MaxSerials        \* bound: capabilities made in one behaviour

ASSUME ArenaAssumption ==
  /\ MaxCapabilities \in Nat \ {0}
  /\ MaxBadge \in Nat
  /\ MaxSerials \in Nat
  /\ GenerationSpan \in Nat
  /\ MaxSerials < GenerationSpan
  /\ Kernel \notin Owners
  /\ RequestedRights \subseteq SUBSET (OtherRights \cup {"DERIVE", "REVOKE"})

Index == 0 .. MaxCapabilities - 1
NoParent == -1
AllRights == OtherRights \cup {"DERIVE", "REVOKE"}
Badges == 0 .. MaxBadge
Charged == Owners \cup {Kernel}
NoTally == [o \in {} |-> 0]

VARIABLES
  nodes,      \* Arena::nodes
  live,       \* Arena::live
  serials,    \* Arena::serials
  tally,      \* Arena::tally, NoTally for None
  mode,       \* "idle": lock free; "roots", "sweep": where the holder is
  caller,     \* which operation destroy_subtree returns to
  target,     \* the object revoke_roots_naming was given, in a set; {} outside
  scan,       \* its loop index
  cursor,     \* destroy_subtree's loop index
  killed,     \* destroy_subtree's killed_this_pass
  issued,     \* history: every reference returned, with the serial it named
  lineage,    \* history: the serial of the node each entry was derived from
  owned       \* history: live nodes per owner when the tally was started

lockVars == <<tally, mode, caller, target, scan, cursor, killed, owned>>
vars == <<nodes, live, serials, issued, lineage, lockVars>>

Node == [object : Objects, rights : SUBSET AllRights, badge : Badges,
         parent : Index \cup {NoParent}, generation : 0 .. GenerationSpan - 1,
         owner : Charged, serial : 0 .. MaxSerials, live : BOOLEAN]

SlotRef == [node : Index, generation : 0 .. GenerationSpan - 1,
            serial : 1 .. MaxSerials]

LiveNodes == {i \in Index : nodes[i].live}
LiveOwnedBy(o) == {i \in LiveNodes : nodes[i].owner = o}

(***************************************************************************)
(* Arena::resolve: a reference names a node while the node lives and its   *)
(* generation is the one the reference was made against.                   *)
(***************************************************************************)
Resolves(ref) ==
  nodes[ref.node].live /\ nodes[ref.node].generation = ref.generation

\* Arena::free_index: the lowest entry that is not live.
IsFreeIndex(f) == ~ nodes[f].live /\ \A j \in Index : j < f => nodes[j].live

Init ==
  /\ \E o \in Objects :
       nodes = [i \in Index |->
                  [object |-> o, rights |-> {}, badge |-> 0,
                   parent |-> NoParent, generation |-> 0, owner |-> Kernel,
                   serial |-> 0, live |-> FALSE]]
  /\ live = 0
  /\ serials = 0
  /\ tally = NoTally
  /\ mode = "idle"
  /\ caller = "revoke"
  /\ target = {}
  /\ scan = 0
  /\ cursor = 0
  /\ killed = 0
  /\ issued = {}
  /\ lineage = [i \in Index |-> 0]
  /\ owned = NoTally

-----------------------------------------------------------------------------
(***************************************************************************)
(* Insertion and derivation.                                               *)
(***************************************************************************)

(***************************************************************************)
(* The common tail of insert_root_owned and derive_owned: the free entry   *)
(* keeps its generation and takes the next serial; the caller gets a       *)
(* reference to it.                                                        *)
(***************************************************************************)
Occupy(f, object, rights, badge, parent, owner, from) ==
  /\ serials < MaxSerials
  /\ serials' = serials + 1
  /\ nodes' = [nodes EXCEPT ![f] =
       [object |-> object, rights |-> rights, badge |-> badge,
        parent |-> parent, generation |-> nodes[f].generation,
        owner |-> owner, serial |-> serials + 1, live |-> TRUE]]
  /\ live' = live + 1
  /\ issued' = issued \cup {[node |-> f, generation |-> nodes[f].generation,
                             serial |-> serials + 1]}
  /\ lineage' = [lineage EXCEPT ![f] = from]
  /\ UNCHANGED lockVars

\* Arena::insert_root and insert_root_owned.
InsertRoot(object, rights, badge, owner) ==
  /\ mode = "idle"
  /\ \E f \in Index :
       IsFreeIndex(f) /\ Occupy(f, object, rights, badge, NoParent, owner, 0)

\* Faulty: the rights asked for are not compared with the parent's.
MayDeriveAnyRights(parent, rights, badge) ==
  /\ "DERIVE" \in parent.rights
  /\ (parent.badge # 0 => badge = parent.badge)

(***************************************************************************)
(* The three refusals of derive_owned, in the order the code makes them:   *)
(* DeriveNotPermitted, RightsNotMonotone, BadgeNotMonotone.                *)
(***************************************************************************)
MayDerive(parent, rights, badge) ==
  /\ "DERIVE" \in parent.rights
  /\ rights \subseteq parent.rights
  /\ (parent.badge # 0 => badge = parent.badge)

\* Arena::derive and derive_owned.
Derive(ref, rights, badge, owner) ==
  /\ mode = "idle"
  /\ Resolves(ref)
  /\ MayDerive(nodes[ref.node], rights, badge)
  /\ \E f \in Index :
       /\ IsFreeIndex(f)
       /\ Occupy(f, nodes[ref.node].object, rights, badge, ref.node, owner,
                 nodes[ref.node].serial)

-----------------------------------------------------------------------------
(***************************************************************************)
(* Revocation.                                                             *)
(***************************************************************************)

\* A faulty variant: the generation does not move on.
KilledOnReuse(node) == [node EXCEPT !.live = FALSE]

\* Arena::kill, as it changes one node: the generation moves on at death.
Killed(node) ==
  [node EXCEPT !.live = FALSE,
               !.generation = (@ + 1) % GenerationSpan]

\* A faulty variant: descendants are not attributed to anyone.
TallyNothing(node) == tally

(***************************************************************************)
(* Arena::kill, as it changes the tally.  Owners outside the table, the    *)
(* kernel among them, are not counted.                                     *)
(***************************************************************************)
TallyWith(node) ==
  IF tally # NoTally /\ node.owner \in Owners
  THEN [tally EXCEPT ![node.owner] = @ + 1]
  ELSE tally

\* A faulty variant: the count of live nodes is forgotten.
KillUncounted(i) ==
  nodes' = [nodes EXCEPT ![i] = Killed(@)] /\ UNCHANGED live

Kill(i) ==
  /\ nodes' = [nodes EXCEPT ![i] = Killed(@)]
  /\ live' = live - 1

\* destroy_subtree up to its loop: the root dies first.
BeginDestroy(i) ==
  /\ Kill(i)
  /\ mode' = "sweep"
  /\ cursor' = 0
  /\ killed' = 0
  /\ UNCHANGED <<serials, issued, lineage>>

StartTally(i) ==
  /\ owned' = [o \in Owners |-> Cardinality(LiveOwnedBy(o))]
  /\ tally' = [o \in Owners |-> IF nodes[i].owner = o THEN 1 ELSE 0]

\* Arena::revoke_tallied up to destroy_subtree's loop.
RevokeTallied(ref) ==
  /\ mode = "idle"
  /\ Resolves(ref)
  /\ "REVOKE" \in nodes[ref.node].rights
  /\ BeginDestroy(ref.node)
  /\ StartTally(ref.node)
  /\ caller' = "revoke"
  /\ UNCHANGED <<target, scan>>

\* Arena::revoke and revoke_unchecked, which differ in the right asked for.
RevokeUnchecked(ref) ==
  /\ mode = "idle"
  /\ Resolves(ref)
  /\ BeginDestroy(ref.node)
  /\ caller' = "revoke"
  /\ UNCHANGED <<tally, target, scan, owned>>

\* Arena::revoke_roots_naming, up to its loop.
RevokeRootsNaming(object) ==
  /\ mode = "idle"
  /\ mode' = "roots"
  /\ target' = {object}
  /\ scan' = 0
  /\ owned' = [o \in Owners |-> Cardinality(LiveOwnedBy(o))]
  /\ tally' = [o \in Owners |-> 0]
  /\ UNCHANGED <<nodes, live, serials, caller, cursor, killed, issued, lineage>>

\* A faulty variant: only roots that carry REVOKE are matched.
IsRevocableRootNaming(i) ==
  /\ nodes[i].live
  /\ nodes[i].parent = NoParent
  /\ nodes[i].object \in target
  /\ "REVOKE" \in nodes[i].rights

IsRootNaming(i) ==
  /\ nodes[i].live
  /\ nodes[i].parent = NoParent
  /\ nodes[i].object \in target

\* One iteration of revoke_roots_naming's loop that destroys a subtree.
ScanDestroy ==
  /\ mode = "roots"
  /\ scan < MaxCapabilities
  /\ IsRootNaming(scan)
  /\ BeginDestroy(scan)
  /\ tally' = TallyWith(nodes[scan])
  /\ caller' = "roots"
  /\ UNCHANGED <<target, scan, owned>>

\* A faulty variant: the loop's bound is off by one.
ScanPastTheEnd ==
  /\ mode = "roots"
  /\ scan <= MaxCapabilities
  /\ scan \in Index => ~ IsRootNaming(scan)
  /\ scan' = scan + 1
  /\ UNCHANGED <<nodes, live, serials, tally, mode, caller, target, cursor,
                 killed, issued, lineage, owned>>

\* One iteration of revoke_roots_naming's loop that does not.
ScanSkip ==
  /\ mode = "roots"
  /\ scan < MaxCapabilities
  /\ ~ IsRootNaming(scan)
  /\ scan' = scan + 1
  /\ UNCHANGED <<nodes, live, serials, tally, mode, caller, target, cursor,
                 killed, issued, lineage, owned>>

\* revoke_roots_naming returns, and the arena lock is released.
ScanDone ==
  /\ mode = "roots"
  /\ scan = MaxCapabilities
  /\ mode' = "idle"
  /\ tally' = NoTally
  /\ owned' = NoTally
  /\ target' = {}
  /\ scan' = 0
  /\ UNCHANGED <<nodes, live, serials, caller, cursor, killed, issued, lineage>>

\* A live node whose parent entry is not live: what a pass kills.
IsOrphan(i) ==
  /\ nodes[i].live
  /\ nodes[i].parent # NoParent
  /\ ~ nodes[nodes[i].parent].live

\* One iteration of destroy_subtree's inner loop that kills.
SweepKill ==
  /\ mode = "sweep"
  /\ cursor < MaxCapabilities
  /\ IsOrphan(cursor)
  /\ Kill(cursor)
  /\ tally' = TallyWith(nodes[cursor])
  /\ killed' = killed + 1
  /\ cursor' = cursor + 1
  /\ UNCHANGED <<serials, mode, caller, target, scan, issued, lineage, owned>>

\* One iteration of destroy_subtree's inner loop that does not.
SweepSkip ==
  /\ mode = "sweep"
  /\ cursor < MaxCapabilities
  /\ ~ IsOrphan(cursor)
  /\ cursor' = cursor + 1
  /\ UNCHANGED <<nodes, live, serials, tally, mode, caller, target, scan,
                 killed, issued, lineage, owned>>

\* A faulty variant: the kills of a pass are never reset.
SweepAgainStale ==
  /\ mode = "sweep"
  /\ cursor = MaxCapabilities
  /\ killed # 0
  /\ cursor' = 0
  /\ UNCHANGED <<nodes, live, serials, tally, mode, caller, target, scan,
                 killed, issued, lineage, owned>>

\* A pass that killed something is followed by another.
SweepAgain ==
  /\ mode = "sweep"
  /\ cursor = MaxCapabilities
  /\ killed # 0
  /\ cursor' = 0
  /\ killed' = 0
  /\ UNCHANGED <<nodes, live, serials, tally, mode, caller, target, scan,
                 issued, lineage, owned>>

\* A faulty variant: one pass is taken to be enough.
OnePassIsEnough == cursor = MaxCapabilities

PassKilledNothing == cursor = MaxCapabilities /\ killed = 0

\* destroy_subtree returns: to the lock's release, or to the roots loop.
SweepDone ==
  /\ mode = "sweep"
  /\ PassKilledNothing
  /\ cursor' = 0
  /\ killed' = 0
  /\ caller' = "revoke"
  /\ \/ /\ caller = "revoke"
        /\ mode' = "idle"
        /\ tally' = NoTally
        /\ owned' = NoTally
        /\ UNCHANGED scan
     \/ /\ caller = "roots"
        /\ mode' = "roots"
        /\ scan' = scan + 1
        /\ UNCHANGED <<tally, owned>>
  /\ UNCHANGED <<nodes, live, serials, target, issued, lineage>>

-----------------------------------------------------------------------------
Sweep == SweepKill \/ SweepSkip \/ SweepAgain \/ SweepDone
Scan == ScanDestroy \/ ScanSkip \/ ScanDone

Next ==
  \/ \E o \in Objects, r \in RequestedRights, b \in Badges, w \in Charged :
       InsertRoot(o, r, b, w)
  \/ \E ref \in issued, r \in RequestedRights, b \in Badges, w \in Charged :
       Derive(ref, r, b, w)
  \/ \E ref \in issued : RevokeTallied(ref) \/ RevokeUnchecked(ref)
  \/ \E o \in Objects : RevokeRootsNaming(o)
  \/ Scan
  \/ Sweep

Spec == Init /\ [][Next]_vars

(***************************************************************************)
(* The thread inside the arena runs to the lock's release: it holds a      *)
(* ranked spin lock, which the scheduler does not preempt.                 *)
(***************************************************************************)
FairSpec == Spec /\ WF_vars(Scan \/ Sweep)

-----------------------------------------------------------------------------
TypeOK ==
  /\ nodes \in [Index -> Node]
  /\ live \in Int
  /\ serials \in 0 .. MaxSerials
  /\ tally \in [Owners -> Nat] \cup {NoTally}
  /\ mode \in {"idle", "roots", "sweep"}
  /\ caller \in {"revoke", "roots"}
  /\ target \subseteq Objects
  /\ scan \in 0 .. MaxCapabilities
  /\ cursor \in 0 .. MaxCapabilities
  /\ killed \in Nat
  /\ issued \subseteq SlotRef
  /\ lineage \in [Index -> 0 .. MaxSerials]
  /\ owned \in [Owners -> Nat] \cup {NoTally}

(***************************************************************************)
(* No stale reference resolves to a reused entry (cap.rs, "Why slots carry *)
(* a generation"): whatever entries have died and been reused since, a     *)
(* reference that resolves names the very capability it was returned for.  *)
(***************************************************************************)
NoStaleReference ==
  \A ref \in issued : Resolves(ref) => nodes[ref.node].serial = ref.serial

(***************************************************************************)
(* Revocation is complete when it returns (Arena::revoke): with the lock   *)
(* free, no live capability has lost the one it was derived from.  The     *)
(* parent link is a bare index with no generation, so this also says that  *)
(* the index still holds the incarnation the capability was derived from.  *)
(***************************************************************************)
RevocationComplete ==
  mode = "idle" =>
    \A i \in LiveNodes : nodes[i].parent # NoParent =>
      /\ nodes[nodes[i].parent].live
      /\ nodes[nodes[i].parent].serial = lineage[i]

(***************************************************************************)
(* Monotone derivation (Arena::derive_owned): down every live link of the  *)
(* tree the object stays, rights only shrink and a badge, once set, never  *)
(* changes, whatever was revoked and reused in between.                    *)
(***************************************************************************)
Weakens(child, parent) ==
  /\ child.object = parent.object
  /\ child.rights \subseteq parent.rights
  /\ (parent.badge # 0 => child.badge = parent.badge)

MonotoneDerivation ==
  \A i \in LiveNodes : nodes[i].parent \in LiveNodes =>
    Weakens(nodes[i], nodes[nodes[i].parent])

(***************************************************************************)
(* The tally of a revocation attributes every destroyed capability to the  *)
(* domain charged for it (Arena::kill, revoke_tallied): at every point of  *)
(* the loop, what an owner still has plus what was tallied is what it had. *)
(***************************************************************************)
TallyExact ==
  tally # NoTally =>
    \A o \in Owners : tally[o] + Cardinality(LiveOwnedBy(o)) = owned[o]

\* Arena::live counts the live nodes, at every step of every operation.
LiveCountExact == live = Cardinality(LiveNodes)

(***************************************************************************)
(* The death of an object reaches all its names (revoke_roots_naming       *)
(* matches roots only): when it returns, nothing live names the object.    *)
(***************************************************************************)
ObjectDeathReachesAllNames ==
  [][ScanDone => \A i \in LiveNodes : nodes[i].object \notin target]_vars

\* A revocation always finishes, so the arena lock is always released.
RevocationTerminates == (mode # "idle") ~> (mode = "idle")

-----------------------------------------------------------------------------
(***************************************************************************)
(* The inductive strengthening the proofs use.                             *)
(***************************************************************************)

\* An entry has died at most as often as capabilities were made.
DeathsBounded ==
  \A i \in Index :
    nodes[i].generation + (IF nodes[i].live THEN 1 ELSE 0) <= serials

\* A node's serial has been drawn.
SerialsDrawn == \A i \in Index : nodes[i].serial <= serials

\* A reference is behind its entry's generation, or names what lives there.
RefsBehindOrCurrent ==
  \A ref \in issued :
    /\ ref.generation <= nodes[ref.node].generation
    /\ ref.generation = nodes[ref.node].generation =>
         nodes[ref.node].live /\ nodes[ref.node].serial = ref.serial

(***************************************************************************)
(* The entry a live node points to still holds the record of the node it   *)
(* was derived from, dead or alive: entries are reused only when the lock  *)
(* is free, and by then nothing points to a dead one.                      *)
(***************************************************************************)
LinksFaithful ==
  \A i \in Index : nodes[i].live /\ nodes[i].parent # NoParent =>
    /\ nodes[nodes[i].parent].serial = lineage[i]
    /\ nodes[nodes[i].parent].serial < nodes[i].serial
    /\ Weakens(nodes[i], nodes[nodes[i].parent])

NoOrphans == \A i \in Index : ~ IsOrphan(i)

\* destroy_subtree's loop invariant: a clean prefix in a pass without kills.
PassPrefixClean ==
  mode = "sweep" /\ killed = 0 => \A i \in Index : i < cursor => ~ IsOrphan(i)

\* revoke_roots_naming's loop invariant: no root naming the object behind it.
ScanPrefixClean ==
  /\ mode = "roots" => \A i \in Index : i < scan => ~ IsRootNaming(i)
  /\ mode = "sweep" /\ caller = "roots" =>
       /\ scan \in Index
       /\ \A i \in Index : i <= scan => ~ IsRootNaming(i)

ArenaInv ==
  /\ TypeOK
  /\ DeathsBounded
  /\ SerialsDrawn
  /\ RefsBehindOrCurrent
  /\ LinksFaithful
  /\ (mode # "sweep" => NoOrphans)
  /\ PassPrefixClean
  /\ ScanPrefixClean
=============================================================================
