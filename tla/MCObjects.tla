------------------------------ MODULE MCObjects ------------------------------
(***************************************************************************)
(* Small instances of what capabilities name things with and of what they  *)
(* name: the capability arena with its refinement, and memory objects.     *)
(***************************************************************************)
EXTENDS CapArenaRefinement

CONSTANTS o1, d1

MCRequestedRights == {{"DERIVE"}, AllRights}

VARIABLES
  part,  \* which of the two this behaviour is of
  objects, regions, table, window, free, charged, spaces, sender, address, pending, ipi, on,
  loaded, tlb, calls, play

\* Two threads on two processors, in two spaces.
Shared ==
  [on |-> <<"t1", "t2">>, space |-> [t1 |-> "x", t2 |-> "y"], pages |-> 1, mappings |-> 2,
   quota |-> 3, scratch |-> {}, starts |-> 4, ops |-> {"create", "map", "revoke", "unmap"},
   by |-> {"t1", "t2"}, late |-> 0, moves |-> FALSE, race |-> FALSE, fails |-> FALSE]
OneSpace == [t1 |-> "x", t2 |-> "x"]

MemoryPlays ==
  { Shared,
    \* A device, a window of two addresses, and a quota.
    [Shared EXCEPT !.ops = {"create", "device", "revoke", "unmap"}, !.quota = 2],
    \* Threads moved, each in a space of its own.
    [Shared EXCEPT !.moves = TRUE],
    \* Objects of two pages, and a space that keeps what is revoked as scratch.
    [Shared EXCEPT !.pages = 2, !.scratch = {"y"}],
    \* Two threads of one space, one mapping an object, no memory for a page table.
    [Shared EXCEPT !.space = OneSpace, !.fails = TRUE, !.mappings = 1],
    \* An acknowledgement that is late, from a processor that never ran the space.
    [Shared EXCEPT !.by = {"t1"}, !.late = 1, !.starts = 6],
    \* An object ended twice at once; a loan mapped while it is taken back.
    [Shared EXCEPT !.race = TRUE, !.ops = {"create", "revoke"}],
    [Shared EXCEPT !.race = TRUE, !.ops = {"create", "map", "unmap"}] }

\* A holder maps what its lender, ending, is revoking.
RacePlays == {[Shared EXCEPT !.race = TRUE, !.starts = 3]}

CONSTANTS Parts, Plays

memVars == <<objects, regions, table, window, free, charged, spaces, sender, address, pending,
             ipi, on, loaded, tlb, calls, play>>

Mem == INSTANCE Memory WITH
         Threads <- {"t1", "t2"}, Cpus <- 1 .. 2, Spaces <- {"x", "y"}, Frames <- {"f", "g", "h"},
         NoThread <- "none", NoFrame <- "none", NoSpace <- "none",
         MaxObjects <- 2, MaxPages <- 2, Addresses <- 1 .. 2

MCInit ==
  /\ part \in Parts /\ Init /\ Mem!Init
  /\ part = "arena" => play = Shared

MCNext ==
  \/ part = "arena" /\ Next /\ UNCHANGED <<part, memVars>>
  \/ part = "memory" /\ Mem!Next /\ UNCHANGED <<part, vars>>

MCSpec ==
  /\ MCInit /\ [][MCNext]_<<part, vars, memVars>>
  /\ WF_vars(part = "arena" /\ (Scan \/ Sweep))
  /\ \A t \in {"t1", "t2"} : WF_memVars(part = "memory" /\ Mem!Step(t))
  /\ \A c \in 1 .. 2 : WF_memVars(part = "memory" /\ Mem!HandleIpi(c))

\* The properties of the second part, by their names there.
MemoryInv == Mem!MemoryInv
CallsReturn == Mem!CallsReturn
FreedUnreachable == Mem!FreedUnreachable

=============================================================================
