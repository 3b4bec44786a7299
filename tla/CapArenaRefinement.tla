------------------------- MODULE CapArenaRefinement -------------------------
(***************************************************************************)
(* The arena implements the capability tree.  A capability is in the tree  *)
(* while its node and every node above it live and its object is not the   *)
(* one whose death is being carried out: the abstract revocation happens   *)
(* where the root of the subtree dies, or where revoke_roots_naming        *)
(* begins, and the passes that follow change nothing.                      *)
(***************************************************************************)
EXTENDS CapArena

\* The nodes whose chain of parents is alive, by their serials.
Anchored ==
  LET up[s \in 0 .. MaxSerials] ==
        \E i \in LiveNodes :
          /\ nodes[i].serial = s
          /\ \/ nodes[i].parent = NoParent
             \/ /\ nodes[nodes[i].parent].live
                /\ nodes[nodes[i].parent].serial < s
                /\ up[nodes[nodes[i].parent].serial]
  IN {i \in LiveNodes : up[nodes[i].serial] /\ nodes[i].object \notin target}

NodeOf(s) == CHOOSE i \in Anchored : nodes[i].serial = s

TreeCaps ==
  [s \in {nodes[i].serial : i \in Anchored} |->
     LET n == nodes[NodeOf(s)]
     IN [object |-> n.object, rights |-> n.rights, badge |-> n.badge,
         parent |-> IF n.parent = NoParent THEN 0 ELSE nodes[n.parent].serial,
         owner |-> n.owner]]

Tree == INSTANCE CapTree WITH Rights <- AllRights, caps <- TreeCaps

(***************************************************************************)
(* Every step of the arena is a step of the tree or changes nothing in it. *)
(* In particular a revocation is atomic to whoever looks with the lock     *)
(* free, and insertion never reaches a capability that is being destroyed. *)
(***************************************************************************)
ImplementsTree == Tree!TreeSpec
=============================================================================
