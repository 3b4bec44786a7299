----------------------------- MODULE ByteStream -----------------------------
(***************************************************************************)
(* What a TCP connection promises the two programs that hold it: each      *)
(* reads the other's bytes in the order they were written, none missing,   *)
(* none twice, none invented, and is told of the end only after the last.  *)
(***************************************************************************)
EXTENDS Integers, Sequences

VARIABLES
  written,    \* [end -> how many bytes its program wrote]
  shut,       \* [end -> it will write no more]
  read,       \* [end -> the bytes its program read, each the peer's position]
  eof         \* [end -> it was told there are no more]

svars == <<written, shut, read, eof>>

SEnds == {1, 2}
Other(e) == 3 - e

SInit ==
  /\ written = [e \in SEnds |-> 0] /\ shut = [e \in SEnds |-> FALSE]
  /\ read = [e \in SEnds |-> <<>>] /\ eof = [e \in SEnds |-> FALSE]

SWrite(e) ==
  /\ ~shut[e]
  /\ written[e]' > written[e]
  /\ written' = [written EXCEPT ![e] = written[e]']
  /\ UNCHANGED <<shut, read, eof>>

SShut(e) ==
  /\ ~shut[e]
  /\ shut' = [shut EXCEPT ![e] = TRUE]
  /\ UNCHANGED <<written, read, eof>>

\* The next bytes of the peer's stream, and the end when there is no next.
SRead(e) ==
  \E n \in 0 .. written[Other(e)] - Len(read[e]) :
    /\ ~eof[e]
    /\ read' = [read EXCEPT ![e] = @ \o [i \in 1 .. n |-> Len(read[e]) + i]]
    /\ \/ UNCHANGED eof
       \/ /\ shut[Other(e)] /\ Len(read[e]) + n = written[Other(e)]
          /\ eof' = [eof EXCEPT ![e] = TRUE]
    /\ UNCHANGED <<written, shut>>

SNext == \E e \in SEnds : SWrite(e) \/ SShut(e) \/ SRead(e)
SSpec == SInit /\ [][SNext]_svars
=============================================================================
