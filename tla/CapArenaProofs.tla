--------------------------- MODULE CapArenaProofs ---------------------------
(***************************************************************************)
(* The capability arena, for every arena size, set of objects, rights and  *)
(* owners: references never resolve to a reused entry, revocation is       *)
(* complete when the lock is released, derivation is monotone, and the     *)
(* death of an object reaches all its names.                               *)
(***************************************************************************)
EXTENDS CapArena, FiniteSetTheorems, NaturalsInduction, TLAPS

\* The generation counter does not wrap below GenerationSpan.
LEMMA NoWrap ==
  ASSUME NEW g \in Nat, g < MaxSerials
  PROVE  (g + 1) % GenerationSpan = g + 1
BY ArenaAssumption

\* Every initial state satisfies the inductive invariant.
LEMMA InitInv == Init => ArenaInv
<1> SUFFICES ASSUME Init PROVE ArenaInv
  OBVIOUS
<1> USE ArenaAssumption
<1>0. PICK o \in Objects :
       nodes = [i \in Index |->
                  [object |-> o, rights |-> {}, badge |-> 0,
                   parent |-> NoParent, generation |-> 0, owner |-> Kernel,
                   serial |-> 0, live |-> FALSE]]
  BY DEF Init
<1>1. TypeOK
  BY <1>0 DEF Init, TypeOK, Node, Badges, Charged, AllRights, Index
<1>2. \A i \in Index :
        ~ nodes[i].live /\ nodes[i].generation = 0 /\ nodes[i].serial = 0
  BY <1>0
<1>3. DeathsBounded /\ SerialsDrawn /\ LinksFaithful /\ NoOrphans /\ PassPrefixClean
      /\ ScanPrefixClean
  BY <1>2 DEF Init, DeathsBounded, SerialsDrawn, LinksFaithful, NoOrphans, IsOrphan,
     PassPrefixClean, ScanPrefixClean
<1>4. RefsBehindOrCurrent
  BY DEF Init, RefsBehindOrCurrent
<1> QED
  BY <1>1, <1>3, <1>4 DEF ArenaInv

(***************************************************************************)
(* The part of the invariant that speaks of the array and its references,  *)
(* and not of where a revocation's loops stand.                            *)
(***************************************************************************)
ArrayInv ==
  /\ nodes \in [Index -> Node]
  /\ live \in Int
  /\ serials \in 0 .. MaxSerials
  /\ issued \subseteq SlotRef
  /\ lineage \in [Index -> 0 .. MaxSerials]
  /\ DeathsBounded
  /\ SerialsDrawn
  /\ RefsBehindOrCurrent
  /\ LinksFaithful

\* What one kill makes of the array, field by field.
LEMMA KillEffect ==
  ASSUME ArrayInv, NEW k \in Index, nodes[k].live, Kill(k), UNCHANGED serials
  PROVE  /\ nodes' \in [Index -> Node]
         /\ live' \in Int
         /\ \A i \in Index :
              /\ i # k => nodes'[i] = nodes[i]
              /\ nodes'[i].object = nodes[i].object
              /\ nodes'[i].rights = nodes[i].rights
              /\ nodes'[i].badge = nodes[i].badge
              /\ nodes'[i].parent = nodes[i].parent
              /\ nodes'[i].owner = nodes[i].owner
              /\ nodes'[i].serial = nodes[i].serial
         /\ ~ nodes'[k].live
         /\ nodes'[k].generation = nodes[k].generation + 1
<1> USE ArenaAssumption
<1>1. nodes[k] \in Node
  BY DEF ArrayInv
<1>2. nodes[k].generation \in Nat /\ nodes[k].generation + 1 <= MaxSerials
  BY <1>1 DEF ArrayInv, DeathsBounded, Node
<1>3. (nodes[k].generation + 1) % GenerationSpan = nodes[k].generation + 1
  BY <1>2, NoWrap
<1>4. nodes' = [nodes EXCEPT ![k] = Killed(nodes[k])]
  BY DEF Kill
<1>5. Killed(nodes[k]) = [nodes[k] EXCEPT !.live = FALSE,
                                    !.generation = nodes[k].generation + 1]
  BY <1>1, <1>3 DEF Killed, Node
<1>6. Killed(nodes[k]) \in Node
  <2>1. Killed(nodes[k]) =
          [object |-> nodes[k].object, rights |-> nodes[k].rights,
           badge |-> nodes[k].badge, parent |-> nodes[k].parent,
           generation |-> nodes[k].generation + 1, owner |-> nodes[k].owner,
           serial |-> nodes[k].serial, live |-> FALSE]
    BY <1>1, <1>5 DEF Node
  <2>2. nodes[k].generation + 1 \in 0 .. GenerationSpan - 1
    BY <1>2
  <2> QED
    BY <1>1, <2>1, <2>2 DEF Node
<1>7. /\ ~ Killed(nodes[k]).live
      /\ Killed(nodes[k]).generation = nodes[k].generation + 1
      /\ Killed(nodes[k]).object = nodes[k].object
      /\ Killed(nodes[k]).rights = nodes[k].rights
      /\ Killed(nodes[k]).badge = nodes[k].badge
      /\ Killed(nodes[k]).parent = nodes[k].parent
      /\ Killed(nodes[k]).owner = nodes[k].owner
      /\ Killed(nodes[k]).serial = nodes[k].serial
  BY <1>1, <1>5 DEF Node
<1>8. nodes' \in [Index -> Node]
  BY <1>4, <1>6 DEF ArrayInv
<1>9. \A i \in Index : i # k => nodes'[i] = nodes[i]
  BY <1>4 DEF ArrayInv
<1>10. nodes'[k] = Killed(nodes[k])
  BY <1>4 DEF ArrayInv
<1>11. live' \in Int
  BY DEF Kill, ArrayInv
<1> QED
  BY <1>7, <1>8, <1>9, <1>10, <1>11

\* Killing a live node keeps the array's invariant.
LEMMA KillKeepsArray ==
  ASSUME ArrayInv, NEW k \in Index, nodes[k].live, Kill(k),
         UNCHANGED <<serials, issued, lineage>>
  PROVE  ArrayInv'
<1>1. /\ nodes' \in [Index -> Node]
      /\ live' \in Int
      /\ \A i \in Index :
           /\ i # k => nodes'[i] = nodes[i]
           /\ nodes'[i].object = nodes[i].object
           /\ nodes'[i].rights = nodes[i].rights
           /\ nodes'[i].badge = nodes[i].badge
           /\ nodes'[i].parent = nodes[i].parent
           /\ nodes'[i].owner = nodes[i].owner
           /\ nodes'[i].serial = nodes[i].serial
      /\ ~ nodes'[k].live
      /\ nodes'[k].generation = nodes[k].generation + 1
  BY KillEffect
<1>2. DeathsBounded'
  <2> SUFFICES ASSUME NEW i \in Index
               PROVE  nodes'[i].generation
                        + (IF nodes'[i].live THEN 1 ELSE 0) <= serials
    BY DEF DeathsBounded
  <2>1. nodes[i].generation + (IF nodes[i].live THEN 1 ELSE 0) <= serials
    BY DEF ArrayInv, DeathsBounded
  <2>2. nodes[i].generation \in Nat /\ serials \in Nat
    BY ArenaAssumption DEF ArrayInv, Node
  <2> QED
    BY <1>1, <2>1, <2>2
<1>3. RefsBehindOrCurrent'
  <2> SUFFICES ASSUME NEW ref \in issued
               PROVE  /\ ref.generation <= nodes'[ref.node].generation
                      /\ ref.generation = nodes'[ref.node].generation =>
                           /\ nodes'[ref.node].live
                           /\ nodes'[ref.node].serial = ref.serial
    BY DEF RefsBehindOrCurrent
  <2>1. ref.node \in Index /\ ref.generation \in Nat
    BY ArenaAssumption DEF ArrayInv, SlotRef
  <2>2. nodes[ref.node].generation \in Nat
    BY <2>1, ArenaAssumption DEF ArrayInv, Node
  <2>3. /\ ref.generation <= nodes[ref.node].generation
        /\ ref.generation = nodes[ref.node].generation =>
             nodes[ref.node].live /\ nodes[ref.node].serial = ref.serial
    BY DEF ArrayInv, RefsBehindOrCurrent
  <2> QED
    BY <1>1, <2>1, <2>2, <2>3
<1>4. LinksFaithful'
  <2> SUFFICES ASSUME NEW i \in Index, nodes'[i].live,
                      nodes'[i].parent # NoParent
               PROVE  /\ nodes'[nodes'[i].parent].serial = lineage[i]
                      /\ nodes'[nodes'[i].parent].serial < nodes'[i].serial
                      /\ Weakens(nodes'[i], nodes'[nodes'[i].parent])
    BY DEF LinksFaithful, Weakens
  <2>1. nodes[i].live /\ nodes'[i] = nodes[i]
    BY <1>1
  <2>2. nodes[i].parent \in Index
    BY <2>1 DEF ArrayInv, Node
  <2>3. /\ nodes[nodes[i].parent].serial = lineage[i]
        /\ nodes[nodes[i].parent].serial < nodes[i].serial
        /\ Weakens(nodes[i], nodes[nodes[i].parent])
    BY <2>1 DEF ArrayInv, LinksFaithful
  <2> QED
    BY <1>1, <2>1, <2>2, <2>3 DEF Weakens
<1>5. SerialsDrawn'
  BY <1>1 DEF ArrayInv, SerialsDrawn
<1> QED
  BY <1>1, <1>2, <1>3, <1>4, <1>5 DEF ArrayInv

\* The record insert_root_owned and derive_owned write.
Fresh(f, object, rights, badge, parent, owner) ==
  [object |-> object, rights |-> rights, badge |-> badge, parent |-> parent,
   generation |-> nodes[f].generation, owner |-> owner,
   serial |-> serials + 1, live |-> TRUE]

\* Occupying a free entry keeps the array's invariant and orphans nobody.
LEMMA OccupyKeepsArray ==
  ASSUME ArrayInv, NoOrphans,
         NEW f \in Index, ~ nodes[f].live,
         NEW object \in Objects, NEW rights \in SUBSET AllRights,
         NEW badge \in Badges, NEW owner \in Charged,
         NEW parent \in Index \cup {NoParent}, NEW from \in 0 .. MaxSerials,
         Occupy(f, object, rights, badge, parent, owner, from),
         parent # NoParent =>
           /\ nodes[parent].live
           /\ from = nodes[parent].serial
           /\ Weakens(Fresh(f, object, rights, badge, parent, owner),
                      nodes[parent])
  PROVE  ArrayInv' /\ NoOrphans'
<1> USE ArenaAssumption
<1> DEFINE new == Fresh(f, object, rights, badge, parent, owner)
<1>1. serials \in Nat /\ serials' = serials + 1 /\ serials' \in 0 .. MaxSerials
  BY DEF ArrayInv, Occupy
<1>2. nodes' = [nodes EXCEPT ![f] = new]
  BY DEF Occupy, Fresh
<1>3. new \in Node
  <2>1. nodes[f].generation \in 0 .. GenerationSpan - 1
    BY DEF ArrayInv, Node
  <2>2. serials + 1 \in 0 .. MaxSerials
    BY <1>1
  <2> QED
    BY <2>1, <2>2 DEF Node, Fresh
<1>4. nodes' \in [Index -> Node]
  BY <1>2, <1>3 DEF ArrayInv
<1>5. nodes'[f] = new /\ \A i \in Index : i # f => nodes'[i] = nodes[i]
  BY <1>2 DEF ArrayInv
<1>6. /\ new.object = object /\ new.rights = rights /\ new.badge = badge
      /\ new.parent = parent /\ new.generation = nodes[f].generation
      /\ new.serial = serials + 1 /\ new.live
  BY DEF Fresh
<1> HIDE DEF new
<1>7. live' \in Int
  BY DEF Occupy, ArrayInv
<1>8. lineage' = [lineage EXCEPT ![f] = from]
      /\ lineage' \in [Index -> 0 .. MaxSerials]
  BY DEF Occupy, ArrayInv
<1>9. \A i \in Index : nodes[i].generation \in Nat /\ nodes[i].serial \in Nat
  BY DEF ArrayInv, Node
<1>10. issued' = issued \cup {[node |-> f, generation |-> nodes[f].generation,
                               serial |-> serials + 1]}
  BY DEF Occupy
<1>11. issued' \subseteq SlotRef
  <2>1. nodes[f].generation \in 0 .. GenerationSpan - 1
    BY DEF ArrayInv, Node
  <2> QED
    BY <1>1, <1>10, <2>1 DEF ArrayInv, SlotRef
<1>12. DeathsBounded'
  <2> SUFFICES ASSUME NEW i \in Index
               PROVE  nodes'[i].generation
                        + (IF nodes'[i].live THEN 1 ELSE 0) <= serials'
    BY DEF DeathsBounded
  <2>1. nodes[i].generation + (IF nodes[i].live THEN 1 ELSE 0) <= serials
    BY DEF ArrayInv, DeathsBounded
  <2>2. CASE i = f
    BY <2>1, <2>2, <1>1, <1>5, <1>6, <1>9
  <2>3. CASE i # f
    BY <2>1, <2>3, <1>1, <1>5, <1>9
  <2> QED
    BY <2>2, <2>3
<1>13. SerialsDrawn'
  BY <1>1, <1>5, <1>6, <1>9 DEF ArrayInv, SerialsDrawn
<1>14. RefsBehindOrCurrent'
  <2> SUFFICES ASSUME NEW ref \in issued'
               PROVE  /\ ref.generation <= nodes'[ref.node].generation
                      /\ ref.generation = nodes'[ref.node].generation =>
                           /\ nodes'[ref.node].live
                           /\ nodes'[ref.node].serial = ref.serial
    BY DEF RefsBehindOrCurrent
  <2>1. CASE ref \in issued
    <3>1. ref.node \in Index /\ ref.generation \in Nat
      BY <2>1 DEF ArrayInv, SlotRef
    <3>2. /\ ref.generation <= nodes[ref.node].generation
          /\ ref.generation = nodes[ref.node].generation =>
               nodes[ref.node].live /\ nodes[ref.node].serial = ref.serial
      BY <2>1 DEF ArrayInv, RefsBehindOrCurrent
    <3> QED
      BY <3>1, <3>2, <1>5, <1>6, <1>9
  <2>2. CASE ref \notin issued
    <3>1. ref = [node |-> f, generation |-> nodes[f].generation,
                 serial |-> serials + 1]
      BY <2>2, <1>10
    <3> QED
      BY <3>1, <1>5, <1>6, <1>9
  <2> QED
    BY <2>1, <2>2
<1>15. \A i \in Index : i # f /\ nodes[i].live => nodes[i].parent # f
  <2>1. f # NoParent
    BY DEF Index, NoParent
  <2> QED
    BY <2>1 DEF NoOrphans, IsOrphan
<1>16. \A i \in Index : nodes[i].live => nodes[i].parent \in Index \cup {NoParent}
  BY DEF ArrayInv, Node
<1>17. f # NoParent /\ parent # f
  BY DEF Index, NoParent
<1>18. LinksFaithful'
  <2> SUFFICES ASSUME NEW i \in Index, nodes'[i].live,
                      nodes'[i].parent # NoParent
               PROVE  /\ nodes'[nodes'[i].parent].serial = lineage'[i]
                      /\ nodes'[nodes'[i].parent].serial < nodes'[i].serial
                      /\ Weakens(nodes'[i], nodes'[nodes'[i].parent])
    BY DEF LinksFaithful, Weakens
  <2>1. CASE i = f
    <3>1. nodes'[i] = new /\ nodes'[i].parent = parent
      BY <2>1, <1>5, <1>6
    <3>2. parent \in Index /\ nodes'[parent] = nodes[parent]
      BY <3>1, <1>5, <1>17
    <3>3. nodes[parent].serial <= serials
      BY <3>2 DEF ArrayInv, SerialsDrawn
    <3>4. Weakens(new, nodes[parent])
      BY <3>1 DEF new
    <3>5. nodes'[i].serial = serials + 1
      BY <3>1, <1>6
    <3>6. lineage'[i] = nodes[parent].serial
      BY <2>1, <1>8, <3>1 DEF ArrayInv
    <3>7. nodes[parent].serial < serials + 1
      BY <3>2, <3>3, <1>1, <1>9
    <3> QED
      BY <3>1, <3>2, <3>4, <3>5, <3>6, <3>7
  <2>2. CASE i # f
    <3>1. nodes'[i] = nodes[i] /\ nodes[i].live
      BY <2>2, <1>5
    <3>2. nodes[i].parent \in Index /\ nodes[i].parent # f
      BY <3>1, <2>2, <1>15, <1>16
    <3>3. nodes'[nodes'[i].parent] = nodes[nodes[i].parent]
      BY <3>1, <3>2, <1>5
    <3>4. lineage'[i] = lineage[i]
      BY <2>2, <1>8 DEF ArrayInv
    <3> QED
      BY <3>1, <3>2, <3>3, <3>4 DEF ArrayInv, LinksFaithful
  <2> QED
    BY <2>1, <2>2
<1>19. NoOrphans'
  <2> SUFFICES ASSUME NEW i \in Index, nodes'[i].live,
                      nodes'[i].parent # NoParent
               PROVE  nodes'[nodes'[i].parent].live
    BY DEF NoOrphans, IsOrphan
  <2>1. CASE i = f
    BY <2>1, <1>5, <1>6, <1>17
  <2>2. CASE i # f
    BY <2>2, <1>5, <1>15, <1>16 DEF NoOrphans, IsOrphan
  <2> QED
    BY <2>1, <2>2
<1> QED
  BY <1>1, <1>4, <1>7, <1>8, <1>11, <1>12, <1>13, <1>14, <1>18, <1>19
  DEF ArrayInv

(***************************************************************************)
(* The rest of the invariant: the loops' own variables and how far they    *)
(* have cleaned the array.                                                 *)
(***************************************************************************)
LoopInv ==
  /\ tally \in [Owners -> Nat] \cup {NoTally}
  /\ mode \in {"idle", "roots", "sweep"}
  /\ caller \in {"revoke", "roots"}
  /\ target \subseteq Objects
  /\ scan \in 0 .. MaxCapabilities
  /\ cursor \in 0 .. MaxCapabilities
  /\ killed \in Nat
  /\ owned \in [Owners -> Nat] \cup {NoTally}
  /\ (mode # "sweep" => NoOrphans)
  /\ PassPrefixClean
  /\ ScanPrefixClean

\* The two halves are the invariant.
LEMMA Halves == /\ ArenaInv <=> ArrayInv /\ LoopInv
                /\ ArenaInv' <=> ArrayInv' /\ LoopInv'
BY DEF ArenaInv, TypeOK, ArrayInv, LoopInv

\* What an operation that inserted into the array owes the other half.
LEMMA OccupyKeepsLoops ==
  ASSUME LoopInv, mode = "idle", UNCHANGED lockVars, NoOrphans'
  PROVE  LoopInv'
BY DEF LoopInv, lockVars, PassPrefixClean, ScanPrefixClean

\* A kill leaves no root behind that was not there.
LEMMA KillMakesNoRoot ==
  ASSUME ArrayInv, NEW k \in Index, nodes[k].live, Kill(k),
         UNCHANGED <<serials, target>>
  PROVE  /\ \A i \in Index : IsRootNaming(i)' => IsRootNaming(i)
         /\ ~ IsRootNaming(k)'
BY KillEffect DEF IsRootNaming

\* The tally keeps its type whatever node is counted.
LEMMA TallyTyped ==
  ASSUME tally \in [Owners -> Nat] \cup {NoTally}, NEW node
  PROVE  TallyWith(node) \in [Owners -> Nat] \cup {NoTally}
BY DEF TallyWith

\* The live nodes of an owner can be counted.
LEMMA OwnedCount ==
  ASSUME NEW o PROVE Cardinality(LiveOwnedBy(o)) \in Nat
<1>1. IsFiniteSet(Index)
  BY FS_Interval, ArenaAssumption DEF Index
<1>2. LiveOwnedBy(o) \subseteq Index
  BY DEF LiveOwnedBy, LiveNodes
<1> QED
  BY <1>1, <1>2, FS_Subset, FS_CardinalityType

\* The entry to destroy_subtree's loop keeps both halves.
LEMMA BeginKeeps ==
  ASSUME ArrayInv, LoopInv, NEW k \in Index, nodes[k].live, BeginDestroy(k),
         UNCHANGED <<target, scan>>,
         tally' \in [Owners -> Nat] \cup {NoTally},
         owned' \in [Owners -> Nat] \cup {NoTally},
         \/ caller' = "revoke"
         \/ caller' = "roots" /\ mode = "roots" /\ k = scan
  PROVE  ArrayInv' /\ LoopInv'
<1>1. Kill(k) /\ mode' = "sweep" /\ cursor' = 0 /\ killed' = 0
      /\ UNCHANGED <<serials, issued, lineage>>
  BY DEF BeginDestroy
<1>2. ArrayInv'
  BY <1>1, KillKeepsArray
<1>3. PassPrefixClean'
  BY <1>1 DEF PassPrefixClean, Index
<1>4. ScanPrefixClean'
  <2>1. CASE caller' = "revoke"
    BY <2>1, <1>1 DEF ScanPrefixClean
  <2>2. CASE caller' = "roots" /\ mode = "roots" /\ k = scan
    <3>1. /\ \A i \in Index : IsRootNaming(i)' => IsRootNaming(i)
          /\ ~ IsRootNaming(k)'
      BY <1>1, KillMakesNoRoot
    <3>2. \A i \in Index : i < scan => ~ IsRootNaming(i)
      BY <2>2 DEF LoopInv, ScanPrefixClean
    <3>3. \A i \in Index : i <= scan => i < scan \/ i = k
      BY <2>2 DEF Index, LoopInv
    <3>4. \A i \in Index : i <= scan => ~ IsRootNaming(i)'
      BY <3>1, <3>2, <3>3
    <3> QED
      BY <1>1, <2>2, <3>4 DEF ScanPrefixClean
  <2> QED
    BY <2>1, <2>2
<1>5. 0 \in 0 .. MaxCapabilities
  BY ArenaAssumption
<1> QED
  BY <1>1, <1>2, <1>3, <1>4, <1>5 DEF LoopInv

\* A step that leaves the array alone leaves its half of the invariant.
LEMMA ArrayUntouched ==
  ASSUME ArrayInv, UNCHANGED <<nodes, live, serials, issued, lineage>>
  PROVE  ArrayInv'
BY DEF ArrayInv, DeathsBounded, SerialsDrawn, RefsBehindOrCurrent,
   LinksFaithful, Weakens

\* No step of any operation breaks the inductive invariant.
LEMMA StepInv == ArenaInv /\ [Next]_vars => ArenaInv'
<1> SUFFICES ASSUME ArrayInv, LoopInv, [Next]_vars PROVE ArrayInv' /\ LoopInv'
  BY Halves
<1> USE ArenaAssumption
<1>0. \A ref \in issued : ref.node \in Index
  BY DEF ArrayInv, SlotRef
<1>a. \A r \in RequestedRights : r \in SUBSET AllRights
  BY DEF AllRights
<1>1. ASSUME NEW o \in Objects, NEW r \in RequestedRights, NEW b \in Badges,
             NEW w \in Charged, InsertRoot(o, r, b, w)
      PROVE  ArrayInv' /\ LoopInv'
  <2>1. PICK f \in Index :
          IsFreeIndex(f) /\ Occupy(f, o, r, b, NoParent, w, 0)
    BY <1>1 DEF InsertRoot
  <2>2. mode = "idle" /\ NoOrphans /\ UNCHANGED lockVars /\ ~ nodes[f].live
    BY <1>1, <2>1 DEF InsertRoot, LoopInv, Occupy, IsFreeIndex
  <2>3. r \in SUBSET AllRights /\ 0 \in 0 .. MaxSerials
    BY <1>a
  <2>4. ArrayInv' /\ NoOrphans'
    BY <2>1, <2>2, <2>3, OccupyKeepsArray
  <2> QED
    BY <2>2, <2>4, OccupyKeepsLoops
<1>2. ASSUME NEW ref \in issued, NEW r \in RequestedRights, NEW b \in Badges,
             NEW w \in Charged, Derive(ref, r, b, w)
      PROVE  ArrayInv' /\ LoopInv'
  <2> DEFINE p == ref.node
  <2>1. PICK f \in Index :
          /\ IsFreeIndex(f)
          /\ Occupy(f, nodes[p].object, r, b, p, w, nodes[p].serial)
    BY <1>2 DEF Derive
  <2>2. /\ mode = "idle" /\ NoOrphans /\ UNCHANGED lockVars
        /\ ~ nodes[f].live /\ nodes[p].live /\ p \in Index
        /\ MayDerive(nodes[p], r, b)
    BY <1>0, <1>2, <2>1 DEF Derive, LoopInv, Occupy, IsFreeIndex, Resolves
  <2>3. /\ r \in SUBSET AllRights
        /\ nodes[p].object \in Objects
        /\ nodes[p].serial \in 0 .. MaxSerials
    BY <1>a, <2>2 DEF ArrayInv, Node
  <2>4. Weakens(Fresh(f, nodes[p].object, r, b, p, w), nodes[p])
    BY <2>2 DEF Weakens, Fresh, MayDerive
  <2> HIDE DEF p
  <2>5. ArrayInv' /\ NoOrphans'
    BY <2>1, <2>2, <2>3, <2>4, OccupyKeepsArray
  <2> QED
    BY <2>2, <2>5, OccupyKeepsLoops
<1>3. ASSUME NEW ref \in issued, RevokeTallied(ref)
      PROVE  ArrayInv' /\ LoopInv'
  <2>1. ref.node \in Index /\ nodes[ref.node].live /\ BeginDestroy(ref.node)
        /\ caller' = "revoke" /\ UNCHANGED <<target, scan>>
    BY <1>0, <1>3 DEF RevokeTallied, Resolves
  <2>2. tally' \in [Owners -> Nat] /\ owned' \in [Owners -> Nat]
    BY <1>3, OwnedCount DEF RevokeTallied, StartTally
  <2> QED
    BY <2>1, <2>2, BeginKeeps
<1>4. ASSUME NEW ref \in issued, RevokeUnchecked(ref)
      PROVE  ArrayInv' /\ LoopInv'
  <2>1. ref.node \in Index /\ nodes[ref.node].live /\ BeginDestroy(ref.node)
        /\ caller' = "revoke" /\ UNCHANGED <<target, scan, tally, owned>>
    BY <1>0, <1>4 DEF RevokeUnchecked, Resolves
  <2>2. tally' \in [Owners -> Nat] \cup {NoTally}
        /\ owned' \in [Owners -> Nat] \cup {NoTally}
    BY <2>1 DEF LoopInv
  <2> QED
    BY <2>1, <2>2, BeginKeeps
<1>5. ASSUME NEW o \in Objects, RevokeRootsNaming(o)
      PROVE  ArrayInv' /\ LoopInv'
  <2>1. ArrayInv'
    BY <1>5, ArrayUntouched DEF RevokeRootsNaming
  <2>2. tally' \in [Owners -> Nat] /\ owned' \in [Owners -> Nat]
    BY <1>5, OwnedCount DEF RevokeRootsNaming
  <2>3. mode' = "roots" /\ scan' = 0 /\ target' \subseteq Objects
        /\ 0 \in 0 .. MaxCapabilities /\ UNCHANGED <<nodes, caller, cursor, killed>>
    BY <1>5 DEF RevokeRootsNaming
  <2>4. NoOrphans'
    BY <1>5 DEF RevokeRootsNaming, LoopInv, NoOrphans, IsOrphan
  <2>5. PassPrefixClean' /\ ScanPrefixClean'
    BY <2>3 DEF PassPrefixClean, ScanPrefixClean, Index
  <2> QED
    BY <2>1, <2>2, <2>3, <2>4, <2>5 DEF LoopInv
<1>6. CASE ScanDestroy
  <2>1. scan \in Index /\ nodes[scan].live /\ BeginDestroy(scan)
        /\ caller' = "roots" /\ mode = "roots" /\ UNCHANGED <<target, scan, owned>>
    BY <1>6 DEF ScanDestroy, IsRootNaming, Index, LoopInv
  <2>2. tally' \in [Owners -> Nat] \cup {NoTally}
        /\ owned' \in [Owners -> Nat] \cup {NoTally}
    BY <1>6, <2>1, TallyTyped DEF ScanDestroy, LoopInv
  <2> QED
    BY <2>1, <2>2, BeginKeeps
<1>7. CASE ScanSkip
  <2>1. ArrayInv'
    BY <1>7, ArrayUntouched DEF ScanSkip
  <2>2. NoOrphans'
    BY <1>7 DEF ScanSkip, LoopInv, NoOrphans, IsOrphan
  <2>3. ScanPrefixClean'
    <3>1. \A i \in Index : i < scan' => i < scan \/ i = scan
      BY <1>7 DEF ScanSkip, Index, LoopInv
    <3>2. \A i \in Index : i < scan' => ~ IsRootNaming(i)
      BY <1>7, <3>1 DEF ScanSkip, LoopInv, ScanPrefixClean
    <3> QED
      BY <1>7, <3>2 DEF ScanSkip, ScanPrefixClean, IsRootNaming
  <2>4. PassPrefixClean'
    BY <1>7 DEF ScanSkip, PassPrefixClean
  <2>5. scan' \in 0 .. MaxCapabilities
    BY <1>7 DEF ScanSkip, LoopInv
  <2> QED
    BY <1>7, <2>1, <2>2, <2>3, <2>4, <2>5 DEF ScanSkip, LoopInv
<1>8. CASE ScanDone
  <2>1. ArrayInv'
    BY <1>8, ArrayUntouched DEF ScanDone
  <2>2. NoOrphans'
    BY <1>8 DEF ScanDone, LoopInv, NoOrphans, IsOrphan
  <2>3. PassPrefixClean' /\ ScanPrefixClean'
    BY <1>8 DEF ScanDone, PassPrefixClean, ScanPrefixClean
  <2>4. 0 \in 0 .. MaxCapabilities
    OBVIOUS
  <2> QED
    BY <1>8, <2>1, <2>2, <2>3, <2>4 DEF ScanDone, LoopInv
<1>9. CASE SweepKill
  <2>1. cursor \in Index /\ nodes[cursor].live /\ Kill(cursor)
        /\ mode = "sweep" /\ mode' = "sweep"
        /\ cursor' = cursor + 1 /\ killed' = killed + 1
        /\ UNCHANGED <<serials, issued, lineage, target, scan, caller, owned>>
    BY <1>9 DEF SweepKill, IsOrphan, Index, LoopInv
  <2>2. ArrayInv'
    BY <2>1, KillKeepsArray
  <2>3. PassPrefixClean'
    BY <2>1 DEF PassPrefixClean, LoopInv
  <2>4. ScanPrefixClean'
    <3>1. \A i \in Index : IsRootNaming(i)' => IsRootNaming(i)
      BY <2>1, KillMakesNoRoot
    <3> QED
      BY <2>1, <3>1 DEF ScanPrefixClean, LoopInv
  <2>5. tally' \in [Owners -> Nat] \cup {NoTally}
    BY <1>9, TallyTyped DEF SweepKill, LoopInv
  <2>6. cursor' \in 0 .. MaxCapabilities /\ killed' \in Nat
    BY <2>1 DEF LoopInv, Index
  <2> QED
    BY <2>1, <2>2, <2>3, <2>4, <2>5, <2>6 DEF LoopInv
<1>10. CASE SweepSkip
  <2>1. ArrayInv'
    BY <1>10, ArrayUntouched DEF SweepSkip
  <2>2. PassPrefixClean'
    <3>1. \A i \in Index : i < cursor' => i < cursor \/ i = cursor
      BY <1>10 DEF SweepSkip, Index, LoopInv
    <3>2. killed = 0 => \A i \in Index : i < cursor' => ~ IsOrphan(i)
      BY <1>10, <3>1 DEF SweepSkip, LoopInv, PassPrefixClean
    <3> QED
      BY <1>10, <3>2 DEF SweepSkip, PassPrefixClean, IsOrphan
  <2>3. ScanPrefixClean'
    BY <1>10 DEF SweepSkip, ScanPrefixClean, LoopInv, IsRootNaming
  <2>4. cursor' \in 0 .. MaxCapabilities
    BY <1>10 DEF SweepSkip, LoopInv
  <2> QED
    BY <1>10, <2>1, <2>2, <2>3, <2>4 DEF SweepSkip, LoopInv
<1>11. CASE SweepAgain
  <2>1. ArrayInv'
    BY <1>11, ArrayUntouched DEF SweepAgain
  <2>2. PassPrefixClean'
    BY <1>11 DEF SweepAgain, PassPrefixClean, Index
  <2>3. ScanPrefixClean'
    BY <1>11 DEF SweepAgain, ScanPrefixClean, LoopInv, IsRootNaming
  <2>4. 0 \in 0 .. MaxCapabilities
    OBVIOUS
  <2> QED
    BY <1>11, <2>1, <2>2, <2>3, <2>4 DEF SweepAgain, LoopInv
<1>12. CASE SweepDone
  <2>1. ArrayInv'
    BY <1>12, ArrayUntouched DEF SweepDone
  <2>2. NoOrphans
    BY <1>12 DEF SweepDone, PassKilledNothing, LoopInv, PassPrefixClean,
       NoOrphans, Index
  <2>3. NoOrphans'
    BY <1>12, <2>2 DEF SweepDone, NoOrphans, IsOrphan
  <2>4. PassPrefixClean'
    BY <1>12 DEF SweepDone, PassPrefixClean
  <2>5. ScanPrefixClean' /\ scan' \in 0 .. MaxCapabilities
    <3>1. CASE caller = "revoke"
      BY <1>12, <3>1 DEF SweepDone, ScanPrefixClean, LoopInv
    <3>2. CASE caller = "roots"
      <4>1. scan \in Index /\ scan' = scan + 1
            /\ \A i \in Index : i <= scan => ~ IsRootNaming(i)
        BY <1>12, <3>2 DEF SweepDone, ScanPrefixClean, LoopInv
      <4>2. \A i \in Index : i < scan' => ~ IsRootNaming(i)
        BY <4>1 DEF Index
      <4>3. scan' \in 0 .. MaxCapabilities
        BY <4>1 DEF Index
      <4> QED
        BY <1>12, <3>2, <4>2, <4>3 DEF SweepDone, ScanPrefixClean, IsRootNaming
    <3> QED
      BY <1>12, <3>1, <3>2 DEF SweepDone
  <2>6. 0 \in 0 .. MaxCapabilities /\ mode' \in {"idle", "roots"}
    BY <1>12 DEF SweepDone
  <2>7. tally' \in [Owners -> Nat] \cup {NoTally}
        /\ owned' \in [Owners -> Nat] \cup {NoTally}
    BY <1>12 DEF SweepDone, LoopInv
  <2> QED
    BY <1>12, <2>1, <2>3, <2>4, <2>5, <2>6, <2>7 DEF SweepDone, LoopInv
<1>13. CASE UNCHANGED vars
  <2>1. ArrayInv'
    BY <1>13, ArrayUntouched DEF vars
  <2>2. LoopInv'
    BY <1>13 DEF vars, lockVars, LoopInv, NoOrphans, IsOrphan,
       PassPrefixClean, ScanPrefixClean, IsRootNaming
  <2> QED
    BY <2>1, <2>2
<1> QED
  BY <1>1, <1>2, <1>3, <1>4, <1>5, <1>6, <1>7, <1>8, <1>9, <1>10, <1>11,
     <1>12, <1>13 DEF Next, Scan, Sweep

\* The inductive invariant holds in every reachable state.
THEOREM ArenaInvariant == Spec => []ArenaInv
<1>1. Init => ArenaInv
  BY InitInv
<1>2. ArenaInv /\ [Next]_vars => ArenaInv'
  BY StepInv
<1> QED
  BY <1>1, <1>2, PTL DEF Spec

\* Every variable keeps its type.
THEOREM TypeCorrect == Spec => []TypeOK
<1>1. ArenaInv => TypeOK
  BY DEF ArenaInv
<1> QED
  BY <1>1, ArenaInvariant, PTL

(***************************************************************************)
(* Arena::resolve never accepts a reference whose entry has been reused:   *)
(* kill moves the generation on before the entry can be occupied again.    *)
(***************************************************************************)
THEOREM StaleReferencesNeverResolve == Spec => []NoStaleReference
<1>1. ArenaInv => NoStaleReference
  BY DEF ArenaInv, RefsBehindOrCurrent, NoStaleReference, Resolves
<1> QED
  BY <1>1, ArenaInvariant, PTL

(***************************************************************************)
(* When destroy_subtree has returned and the lock is free, every live      *)
(* capability still has the very parent it was derived from, however the   *)
(* entries were ordered in the array.                                      *)
(***************************************************************************)
THEOREM RevocationIsComplete == Spec => []RevocationComplete
<1>1. ArenaInv => RevocationComplete
  BY DEF ArenaInv, RevocationComplete, NoOrphans, IsOrphan, LinksFaithful,
     LiveNodes
<1> QED
  BY <1>1, ArenaInvariant, PTL

\* No reuse of an entry ever gives a capability a weaker parent.
THEOREM DerivationIsMonotone == Spec => []MonotoneDerivation
<1>1. ArenaInv => MonotoneDerivation
  <2> SUFFICES ASSUME ArenaInv, NEW i \in LiveNodes,
                      nodes[i].parent \in LiveNodes
               PROVE  Weakens(nodes[i], nodes[nodes[i].parent])
    BY DEF MonotoneDerivation
  <2>1. nodes[i].parent # NoParent
    BY DEF LiveNodes, Index, NoParent
  <2> QED
    BY <2>1 DEF ArenaInv, LinksFaithful, LiveNodes
<1> QED
  BY <1>1, ArenaInvariant, PTL

(***************************************************************************)
(* revoke_roots_naming destroys roots only.  That is enough, because the   *)
(* live name of the object with the least serial would have to be a root.  *)
(***************************************************************************)
LEMMA NoNameLeft ==
  ASSUME ArenaInv, mode = "roots", scan = MaxCapabilities
  PROVE  \A i \in LiveNodes : nodes[i].object \notin target
<1> DEFINE T == {i \in LiveNodes : nodes[i].object \in target}
           S == {nodes[i].serial : i \in T}
<1> SUFFICES ASSUME T # {} PROVE FALSE
  OBVIOUS
<1>1. \A i \in Index : nodes[i].serial \in Nat
  BY ArenaAssumption DEF ArenaInv, TypeOK, Node
<1>2. S \subseteq Nat /\ S # {}
  BY <1>1 DEF LiveNodes
<1>3. PICK m \in S : \A y \in S : ~ (<<y, m>> \in OpToRel(<, Nat))
  <2> HIDE DEF S
  <2> QED
    BY <1>2, NatLessThanWellFounded, WFMin
<1>4. PICK i \in T : m = nodes[i].serial
  OBVIOUS
<1>5. i \in Index /\ nodes[i].live /\ nodes[i].object \in target
  BY DEF LiveNodes
<1>6. nodes[i].parent # NoParent
  <2>0. i < scan
    BY <1>5, ArenaAssumption DEF Index
  <2>1. ~ IsRootNaming(i)
    BY <1>5, <2>0 DEF ArenaInv, ScanPrefixClean
  <2> QED
    BY <1>5, <2>1 DEF IsRootNaming
<1>7. nodes[i].parent \in Index /\ nodes[nodes[i].parent].live
  BY <1>5, <1>6 DEF ArenaInv, TypeOK, Node, NoOrphans, IsOrphan
<1>8. /\ nodes[nodes[i].parent].serial < nodes[i].serial
      /\ nodes[nodes[i].parent].object = nodes[i].object
  BY <1>5, <1>6 DEF ArenaInv, LinksFaithful, Weakens
<1>9. nodes[i].parent \in T
  BY <1>5, <1>7, <1>8 DEF LiveNodes
<1>10. nodes[nodes[i].parent].serial \in S
  BY <1>9
<1>11. <<nodes[nodes[i].parent].serial, m>> \in OpToRel(<, Nat)
  BY <1>1, <1>4, <1>5, <1>7, <1>8 DEF OpToRel
<1> QED
  BY <1>3, <1>10, <1>11

\* When revoke_roots_naming returns, no live capability names the object.
THEOREM ObjectDeathIsComplete == Spec => ObjectDeathReachesAllNames
<1>1. ArenaInv /\ [Next]_vars =>
        [ScanDone => \A i \in LiveNodes : nodes[i].object \notin target]_vars
  BY NoNameLeft DEF ScanDone
<1> QED
  BY <1>1, ArenaInvariant, PTL DEF Spec, ObjectDeathReachesAllNames

\* The live nodes are a finite set.
LEMMA LiveFinite == IsFiniteSet(LiveNodes)
<1>1. IsFiniteSet(Index)
  BY FS_Interval, ArenaAssumption DEF Index
<1> QED
  BY <1>1, FS_Subset DEF LiveNodes

\* A kill removes one live node from the set and one from the count.
LEMMA KillCounts ==
  ASSUME ArrayInv, LiveCountExact, NEW k \in Index, nodes[k].live, Kill(k),
         UNCHANGED serials
  PROVE  LiveCountExact'
<1>1. LiveNodes' = LiveNodes \ {k} /\ k \in LiveNodes
  BY KillEffect DEF LiveNodes
<1>2. Cardinality(LiveNodes \ {k}) = Cardinality(LiveNodes) - 1
  BY <1>1, LiveFinite, FS_RemoveElement
<1> QED
  BY <1>1, <1>2 DEF Kill, LiveCountExact

\* An insertion adds one live node to the set and one to the count.
LEMMA OccupyCounts ==
  ASSUME ArrayInv, LiveCountExact, NEW f \in Index, ~ nodes[f].live,
         NEW o, NEW r, NEW b, NEW p, NEW w, NEW from,
         Occupy(f, o, r, b, p, w, from)
  PROVE  LiveCountExact'
<1>1. LiveNodes' = LiveNodes \cup {f} /\ f \notin LiveNodes
  BY DEF LiveNodes, Occupy, ArrayInv
<1>2. Cardinality(LiveNodes \cup {f}) = Cardinality(LiveNodes) + 1
  BY <1>1, LiveFinite, FS_AddElement
<1> QED
  BY <1>1, <1>2 DEF Occupy, LiveCountExact

(***************************************************************************)
(* Arena::live is exact at every step, inside the loops too, so the arena  *)
(* reports itself full exactly when no entry is free.                      *)
(***************************************************************************)
THEOREM LiveCountIsExact == Spec => []LiveCountExact
<1>1. Init => LiveCountExact
  <2> SUFFICES ASSUME Init PROVE LiveCountExact
    OBVIOUS
  <2>1. LiveNodes = {}
    BY DEF Init, LiveNodes
  <2> QED
    BY <2>1, FS_EmptySet DEF Init, LiveCountExact
<1>2. ArenaInv /\ LiveCountExact /\ [Next]_vars => LiveCountExact'
  <2> SUFFICES ASSUME ArrayInv, LoopInv, LiveCountExact, [Next]_vars
               PROVE  LiveCountExact'
    BY Halves
  <2>0. \A ref \in issued : ref.node \in Index
    BY DEF ArrayInv, SlotRef
  <2>a. scan \in Int /\ cursor \in Int /\ scan >= 0 /\ cursor >= 0
    BY ArenaAssumption DEF LoopInv
  <2>1. ASSUME NEW o \in Objects, NEW r \in RequestedRights, NEW b \in Badges,
               NEW w \in Charged, InsertRoot(o, r, b, w)
        PROVE  LiveCountExact'
    BY <2>1, OccupyCounts DEF InsertRoot, IsFreeIndex
  <2>2. ASSUME NEW ref \in issued, NEW r \in RequestedRights, NEW b \in Badges,
               NEW w \in Charged, Derive(ref, r, b, w)
        PROVE  LiveCountExact'
    BY <2>2, OccupyCounts DEF Derive, IsFreeIndex
  <2>3. ASSUME NEW ref \in issued, RevokeTallied(ref) \/ RevokeUnchecked(ref)
        PROVE  LiveCountExact'
    BY <2>0, <2>3, KillCounts
    DEF RevokeTallied, RevokeUnchecked, BeginDestroy, Resolves
  <2>4. CASE ScanDestroy
    BY <2>4, <2>a, KillCounts, ArenaAssumption
    DEF ScanDestroy, BeginDestroy, IsRootNaming, Index
  <2>5. CASE SweepKill
    BY <2>5, <2>a, KillCounts, ArenaAssumption DEF SweepKill, IsOrphan, Index
  <2>6. ASSUME UNCHANGED <<nodes, live>> PROVE LiveCountExact'
    BY <2>6 DEF LiveCountExact, LiveNodes
  <2>7. \A o \in Objects : RevokeRootsNaming(o) => UNCHANGED <<nodes, live>>
    BY DEF RevokeRootsNaming
  <2>8. ScanSkip \/ ScanDone \/ SweepSkip \/ SweepAgain \/ SweepDone
        \/ UNCHANGED vars => UNCHANGED <<nodes, live>>
    BY DEF ScanSkip, ScanDone, SweepSkip, SweepAgain, SweepDone, vars
  <2> QED
    BY <2>1, <2>2, <2>3, <2>4, <2>5, <2>6, <2>7, <2>8 DEF Next, Scan, Sweep
<1> QED
  BY <1>1, <1>2, ArenaInvariant, PTL DEF Spec
=============================================================================
