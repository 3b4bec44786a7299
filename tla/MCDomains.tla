------------------------------ MODULE MCDomains ------------------------------
(***************************************************************************)
(* The lives of domains and the delegation between them.  The two share    *)
(* the table of domains and look at different fields of it; a behaviour is *)
(* of one of them.                                                         *)
(***************************************************************************)
EXTENDS DomainLife

CONSTANTS t1, t2, t3, o, Nobody

\* Two threads race in the supervisor for one slot and one child.
Crowded == [boot |-> {t1, t2}, gone |-> {}, taken |-> {2}, envelope |-> 1, creations |-> 1]

\* A chain of domains: a child of the supervisor that may have one itself.
Chain == [boot |-> {t1}, gone |-> {t3}, taken |-> {}, envelope |-> 2, creations |-> 2]

MCBeginnings == {Crowded, Chain}

VARIABLES part, caps, serials, holders, calls, meant, placed, doomed

delegation == <<caps, serials, holders, calls, meant, placed, doomed>>
mcvars == <<part, vars, delegation>>

MCRights == {"DERIVE", "REVOKE", "GRANT"}

\* Two domains with two slots each, and quotas of one or two.
Delegating == INSTANCE Delegation WITH
  MaxDomains <- 2, CSlots <- {1, 2}, Envelopes <- {1, 2}, MaxCapabilities <- 6,
  Object <- o, Kernel <- Nobody, Rights <- MCRights, RequestedRights <- {MCRights},
  MaxSerials <- 6, MaxGenerations <- 1, domains <- holders

ASSUME Delegating!DelegationAssumption

\* The part a behaviour is not of stays where it starts.  The slots of a CSpace are
\* interchangeable, so the first capability is in the first.
MCInit ==
  /\ part \in {"lives", "delegation"}
  /\ Init /\ Delegating!Init
  /\ part = "lives" => \A d \in 1 .. 2 : holders[d].max = 2
  /\ part = "delegation" => domains[2] # Empty /\ holders[1].cspace[1] # 0

MCNext ==
  \/ part = "lives" /\ Next /\ UNCHANGED <<part, delegation>>
  \/ part = "delegation" /\ Delegating!Next /\ UNCHANGED <<part, vars>>

\* The fairness of DomainLife; of delegation only invariants are checked.
MCSpec ==
  /\ MCInit /\ [][MCNext]_mcvars
  /\ \A t \in Threads :
       /\ WF_vars(part = "lives" /\ KernelStep(t))
       /\ WF_vars(part = "lives" /\ threads[t].dying /\ BeginExit(t))

\* The table's invariants: exact counts, watches and children that are not lost;
\* holders that are charged and gifts that are not stranded.
DomainsInv == DomainInv /\ Delegating!DelegationInv

\* Deleting slots brings a domain's quota back.
ChargedForSlots == Delegating!ChargedForSlots
=============================================================================
