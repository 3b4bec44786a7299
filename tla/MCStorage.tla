----------------------------- MODULE MCStorage -----------------------------
(***************************************************************************)
(* Small instances of what the disk has to keep through a stop: a volume   *)
(* of three inodes and a few blocks under several plays, and the boot      *)
(* slots.  They share no state; a behaviour is of one of them.             *)
(***************************************************************************)
EXTENDS Volume

Quiet == [ops |-> 4, crashes |-> 0, errors |-> 0, refused |-> {}, places |-> 1,
          runs |-> FALSE, grows |-> FALSE]

\* The machine stops twice, in the recovery from the first stop included.
Stops == [Quiet EXCEPT !.ops = 3, !.crashes = 2]
\* The store refuses writes, and the machine stops later.
Refusals == [Quiet EXCEPT !.ops = 4, !.crashes = 1, !.errors = 1,
             !.refused = {"data", "payload", "home", "clearing", "replay", "reclearing"}]
\* Blocks past the direct ones, alone or in a run, and a stop.
Tables == [Quiet EXCEPT !.ops = 3, !.crashes = 1, !.places = Direct + TableSlots, !.runs = TRUE]
\* Tables that grow, with no stop.
Growth == [Quiet EXCEPT !.places = Direct + TableSlots, !.runs = TRUE, !.grows = TRUE]

\* A longer history, in which blocks and inodes are used again.
Reuse == [Quiet EXCEPT !.ops = 5]

AllPlays == {Reuse, Stops, Refusals, Tables, Growth}

\* A table that grows, and a stop.
GrowAndStop ==
  {[Quiet EXCEPT !.ops = 5, !.crashes = 1, !.places = Direct + TableSlots, !.grows = TRUE]}

CONSTANT Parts

VARIABLES part, record, sets, tpm, secure, step, boot, faults, granted, taken

booting == <<record, sets, tpm, secure, step, boot, faults, granted, taken>>

Boot == INSTANCE BootSlots WITH
  Versions <- {1, 2, 3}, MaxVersion <- 2, MaxTries <- 2, MaxFaults <- 1, pc <- step

MCInit ==
  /\ part \in Parts /\ Init /\ Boot!Init
  /\ part = "volume" => secure
  /\ part = "boot" => play = CHOOSE p \in Plays : TRUE

MCNext ==
  \/ part = "volume" /\ Next /\ UNCHANGED <<part, booting>>
  \/ part = "boot" /\ Boot!Next /\ UNCHANGED <<part, vars>>

\* A mount runs on to its end, and so does the loader; a machine that hangs or refuses is
\* started again.
MCSpec ==
  /\ MCInit /\ [][MCNext]_<<part, vars, booting>>
  /\ WF_vars(part = "volume" /\ Step)
  /\ WF_booting(part = "boot" /\ Boot!Loader)
  /\ WF_booting(part = "boot" /\ step \in {"hung", "refused"} /\ Boot!Restart)


=============================================================================
