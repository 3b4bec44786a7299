------------------------------- MODULE MCTcp -------------------------------
EXTENDS Tcp

\* A program dials, the other's listener answers with a cookie; sequence numbers
\* wrap during the first bytes of the dialler's stream.
Base == [open |-> <<"dial", "cookie">>, iss |-> <<14, 5>>, bytes |-> <<1, 0>>, chunk |-> 2,
  shuts |-> <<TRUE, TRUE>>, aborts |-> <<FALSE, FALSE>>, losses |-> 0, repeats |-> 0,
  reorders |-> FALSE, slow |-> FALSE]

TcpPlays == {
  [Base EXCEPT !.bytes = <<1, 1>>],
  [Base EXCEPT !.bytes = <<3, 0>>],                      \* past the ring: the probe
  [Base EXCEPT !.losses = 1],
  [Base EXCEPT !.bytes = <<0, 1>>, !.losses = 1],
  [Base EXCEPT !.open = <<"dial", "listen">>, !.bytes = <<0, 1>>, !.losses = 1],
  [Base EXCEPT !.open = <<"dial", "dial">>, !.bytes = <<0, 0>>],
  [Base EXCEPT !.repeats = 1],
  [Base EXCEPT !.bytes = <<0, 1>>, !.reorders = TRUE],
  [Base EXCEPT !.aborts = <<TRUE, TRUE>>],
  [Base EXCEPT !.slow = TRUE]}

\* Two segments outstanding, one of them lost.
OneLoss == {[Base EXCEPT !.bytes = <<2, 0>>, !.losses = 1]}
=============================================================================
