---------------------------- MODULE MCRunQueue ----------------------------
(***************************************************************************)
(* Two processors, from two layouts of their queues.                       *)
(***************************************************************************)
EXTENDS RunQueue, TLC

CONSTANTS b0, b1, w1, w2, r1, r2, r3

MCCpus == {0, 1}
MCSlots == 1 .. 4

\* Two workers on the first processor, none on the second: a steal is worth it.
Uneven == [queues |-> (0 :> <<b0, w1, w2, NoThread>>) @@ (1 :> <<b1, NoThread, NoThread, NoThread>>),
           unborn |-> {}]

\* The boot threads alone, and real-time threads of which two fit a processor.
Bare == [queues |-> (0 :> <<b0, NoThread, NoThread, NoThread>>)
                    @@ (1 :> <<b1, NoThread, NoThread, NoThread>>),
         unborn |-> {r1, r2, r3}]

MCLayouts == {Uneven, Bare}
RealTime == {r1, r2, r3}
MCRank == [t \in Threads |-> IF t \in RealTime THEN 2 ELSE 1]
MCUtilisation == [t \in Threads |-> IF t \in RealTime THEN 40 ELSE 0]
=============================================================================
