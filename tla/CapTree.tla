------------------------------ MODULE CapTree ------------------------------
(***************************************************************************)
(* What the capability arena promises: a forest of capabilities, named     *)
(* once and for all by the serial each was made under, in which a          *)
(* revocation takes the whole subtree away in one step.                    *)
(*                                                                         *)
(* No entries, generations or loops: CapArena implements this, and the     *)
(* modules of the system calls are written against it.                     *)
(***************************************************************************)
EXTENDS Integers, FiniteSets

CONSTANTS
  MaxCapabilities,  \* capabilities that can live at once
  Objects, Rights, RequestedRights, MaxBadge,
  Charged,          \* who a capability can be charged to
  MaxSerials        \* bound: capabilities made in one behaviour

VARIABLES
  caps,             \* the live capabilities: serial -> capability
  serials           \* the last serial drawn

treeVars == <<caps, serials>>

Root == 0
Cap == [object : Objects, rights : SUBSET Rights, badge : 0 .. MaxBadge,
        parent : 0 .. MaxSerials, owner : Charged]

Live == DOMAIN caps
Without(dead) == [s \in Live \ dead |-> caps[s]]

\* s and everything derived from it.  A parent is older than its children.
Subtree(s) ==
  LET below[t \in 0 .. MaxSerials] ==
        \/ t = s
        \/ t \in Live /\ caps[t].parent < t /\ caps[t].parent # Root
           /\ below[caps[t].parent]
  IN {t \in Live : below[t]}

Naming(object) == {s \in Live : caps[s].object = object}

TreeInit == caps = [s \in {} |-> Root] /\ serials = 0

Add(cap) ==
  /\ serials < MaxSerials
  /\ Cardinality(Live) < MaxCapabilities
  /\ serials' = serials + 1
  /\ caps' = [s \in Live \cup {serials + 1} |->
                IF s = serials + 1 THEN cap ELSE caps[s]]

\* Arena::insert_root_owned.
Insert(object, rights, badge, owner) ==
  Add([object |-> object, rights |-> rights, badge |-> badge,
       parent |-> Root, owner |-> owner])

MayDeriveFrom(s, rights, badge) ==
  /\ "DERIVE" \in caps[s].rights
  /\ rights \subseteq caps[s].rights
  /\ (caps[s].badge # 0 => badge = caps[s].badge)

\* Arena::derive_owned.
DeriveFrom(s, rights, badge, owner) ==
  /\ s \in Live
  /\ MayDeriveFrom(s, rights, badge)
  /\ Add([object |-> caps[s].object, rights |-> rights, badge |-> badge,
          parent |-> s, owner |-> owner])

\* Arena::revoke, revoke_unchecked and revoke_tallied.
RevokeAt(s) ==
  /\ s \in Live
  /\ caps' = Without(Subtree(s))
  /\ UNCHANGED serials

\* Arena::revoke_roots_naming.
RevokeNaming(object) ==
  /\ caps' = Without(Naming(object))
  /\ UNCHANGED serials

TreeNext ==
  \/ \E o \in Objects, r \in RequestedRights, b \in 0 .. MaxBadge, w \in Charged :
       Insert(o, r, b, w)
  \/ \E s \in Live, r \in RequestedRights, b \in 0 .. MaxBadge, w \in Charged :
       DeriveFrom(s, r, b, w)
  \/ \E s \in Live : RevokeAt(s)
  \/ \E o \in Objects : RevokeNaming(o)

TreeSpec == TreeInit /\ [][TreeNext]_treeVars
=============================================================================
