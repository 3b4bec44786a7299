---------------------------- MODULE MCDelegation ----------------------------
EXTENDS Delegation

CONSTANTS o, Nobody

MCRights == {"DERIVE", "REVOKE", "GRANT"}
MCRequestedRights == {MCRights}
MCCSlots == {1, 2}
=============================================================================
