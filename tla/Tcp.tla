-------------------------------- MODULE Tcp --------------------------------
(***************************************************************************)
(* One TCP connection between two ends that both run this stack: the state *)
(* machine of net/src/tcp/state.rs (step, one operator per function of     *)
(* it), driven the way bin/tcpd drives it (perform, drain_forward,         *)
(* accept_syn and accept_cookie, fire_due), over a network that may lose,  *)
(* repeat and reorder segments.  A byte of a stream is its position in it. *)
(* Sequence numbers wrap at Modulus.  Round-trip measurement and the       *)
(* instants of the timers are left out: a timer is armed or not.           *)
(***************************************************************************)
EXTENDS Integers, Sequences, SequencesExt, FiniteSetsExt

CONSTANTS
  Modulus,                        \* 2^32
  Ring,                           \* STREAM_RING_BYTES, which is WINDOW too
  Mss,                            \* DEFAULT_MSS
  MaxRetransmits, MaxSynAck,      \* MAX_RETRANSMITS, MAX_SYNACK_RETRANSMITS
  NetBound,                       \* bound: segments in flight before a timer fires
  Plays                           \* the scenarios the run plays

ASSUME TcpAssumption ==
  /\ Modulus % 2 = 0 /\ Modulus % Ring = 0
  /\ MaxSynAck < MaxRetransmits

\* A play: how each end opens, where its numbers start, the bytes its program
\* writes and at most how many at once, whether it then shuts down, whether it may
\* abort, and what the network may do: lose, repeat, reorder, and be slower than
\* the timers.
VARIABLES
  play,
  conn,       \* [end -> its control block, timers and ending]
  net,        \* [end -> segments on their way to it, oldest first]
  lost, repeated,
  sendr, recvr,     \* [end -> the rings its program gave]
  app               \* [end -> its program]

vars == <<play, conn, net, lost, repeated, sendr, recvr, app>>

Ends == {1, 2}
Peer(e) == 3 - e
Add(a, n) == (a + n) % Modulus
Sub(a, b) == (a - b) % Modulus
Precedes(a, b) == Sub(a, b) >= Modulus \div 2
Follows(a, b) == Precedes(b, a)
None == -1

\* A segment's length is replaced by its bytes when it leaves (perform).
Seg(flags, seq, ack, wnd, length) ==
  [flags |-> flags, seq |-> seq, ack |-> ack, wnd |-> wnd, data |-> length]

-----------------------------------------------------------------------------
(* The helpers of step: each takes a connection and gives it back changed,   *)
(* what it emits appended to out.                                            *)

Push(c, segment) == [c EXCEPT !.out = Append(@, segment)]
Arm(c, timer) == [c EXCEPT !.timers = @ \cup {timer}]
Cancel(c, timer) == [c EXCEPT !.timers = @ \ {timer}]

\* The state Closed with its reason; the first reason is the one kept.
Close(c, why) ==
  [c EXCEPT !.state = "Closed", !.ended = IF @ = "No" THEN why ELSE @]

CanSend(c) == c.state \in {"Established", "CloseWait"}
CanReceive(c) == c.state \in {"Established", "FinWait1", "FinWait2"}
Unsent(c) == IF Follows(c.avail, c.nxt) THEN Sub(c.avail, c.nxt) ELSE 0

ArmRetransmit(c) ==
  IF c.una # c.nxt THEN Arm(c, "Retransmit") ELSE Cancel(c, "Retransmit")

AcknowledgeNow(c) ==
  Cancel([Push(c, Seg({}, c.nxt, c.rnxt, c.rwnd, 0)) EXCEPT !.since = 0], "DelayedAck")

SynAck(c) == Push(c, Seg({"SYN"}, c.iss, c.rnxt, c.rwnd, 0))

AdvanceCloseState(state) ==
  CASE state \in {"Established", "SynReceived"} -> "FinWait1"
    [] state = "CloseWait" -> "LastAck"
    [] OTHER -> state

\* One segment of data, a FIN, or both, within the peer's window.
Sent(c, length, fin) ==
  LET end == Add(c.nxt, length)
      sent == [Push(c, Seg(IF fin THEN {"FIN"} ELSE {}, c.nxt, c.rnxt, c.rwnd, length))
                 EXCEPT !.since = 0, !.nxt = end]
  IN IF ~fin THEN sent
     ELSE [sent EXCEPT !.fin = end, !.nxt = Add(end, 1), !.state = AdvanceCloseState(@)]

\* How far the peer's window reaches beyond what was sent.
Allowed(c) ==
  LET end == Add(c.una, c.wnd) IN IF Follows(end, c.nxt) THEN Sub(end, c.nxt) ELSE 0

SendSegment(c, again) ==
  LET length == Min({Unsent(c), Allowed(c), Mss})
      fin == /\ c.finq /\ c.fin = None /\ length = Unsent(c)
             /\ again \/ Allowed(c) >= Unsent(c)
  IN IF length = 0 /\ ~fin THEN c ELSE Sent(c, length, fin)

\* At most two segments to a call; a closed window arms the probe.
SecondSegment(c, one) == IF one = c THEN c ELSE SendSegment(one, FALSE)
ArmProbe(c) == IF c.wnd = 0 /\ Unsent(c) > 0 THEN Arm(c, "Probe") ELSE c
\* Faulty: what was sent is not timed.
AfterSendingUntimed(c, sent) == sent
AfterSending(c, sent) == IF sent.out = c.out THEN sent ELSE ArmRetransmit(sent)
SendWhatWeCan(c) ==
  IF ~CanSend(c) /\ c.state # "SynReceived" THEN c
  ELSE AfterSending(c, ArmProbe(SecondSegment(c, SendSegment(c, FALSE))))

-----------------------------------------------------------------------------
(* The program's events.                                                     *)

Connect(c) ==
  ArmRetransmit([Push([c EXCEPT !.state = "SynSent"], Seg({"SYN"}, c.iss, None, c.rwnd, 0))
                   EXCEPT !.nxt = Add(c.iss, 1), !.avail = Add(c.iss, 1)])

Wrote(c, n) == SendWhatWeCan([c EXCEPT !.avail = Add(@, n)])


\* reopen_window: a window that was shut is announced at once.
Read(c, n) ==
  LET opened == [c EXCEPT !.rwnd = Min({Ring, @ + n})]
  IN IF c.rwnd = 0 /\ opened.rwnd > 0 /\ CanReceive(c) THEN AcknowledgeNow(opened) ELSE opened

Shutdown(c) ==
  CASE c.state \in {"Established", "CloseWait", "SynReceived"} ->
         SendWhatWeCan([c EXCEPT !.finq = TRUE])
    [] c.state \in {"Listen", "SynSent"} -> Close(c, "Aborted")
    [] OTHER -> c

Abort(c) ==
  Close(IF c.state \in {"Closed", "Listen"} THEN c
        ELSE Push(c, Seg({"RST"}, c.nxt, None, 0, 0)), "Aborted")

-----------------------------------------------------------------------------
(* The timers' events.                                                       *)

\* The first unacknowledged thing, again.  A FIN keeps the number it was given and
\* goes out once everything before it has.
Resend(c) ==
  LET sent == SendSegment(c, TRUE)
      syn == [c EXCEPT !.nxt = Add(c.una, 1)]
  IN CASE c.state = "SynSent" -> Push(syn, Seg({"SYN"}, c.una, None, c.rwnd, 0))
       [] c.state = "SynReceived" -> Push(syn, Seg({"SYN"}, c.una, c.rnxt, c.rwnd, 0))
       [] c.fin # None /\ ~Follows(c.una, c.fin) /\ sent.nxt = c.fin ->
            [Push(sent, Seg({"FIN"}, c.fin, c.rnxt, c.rwnd, 0)) EXCEPT !.nxt = Add(c.fin, 1)]
       [] OTHER -> sent

Retransmit(c) ==
  LET limit == IF c.state = "SynReceived" THEN MaxSynAck ELSE MaxRetransmits
  IN CASE c.state = "Closed" \/ c.una = c.nxt -> c
       [] c.rtx >= limit -> Close(c, "Unreachable")
       [] OTHER -> ArmRetransmit(Resend([c EXCEPT !.rtx = @ + 1, !.nxt = c.una]))

\* One byte past the window.
Probe(c) ==
  IF ~CanSend(c) \/ c.wnd # 0 \/ Unsent(c) = 0 THEN c
  ELSE ArmRetransmit(Arm([Push(c, Seg({}, c.nxt, c.rnxt, c.rwnd, 1))
                            EXCEPT !.nxt = Add(@, 1)], "Probe"))

Expired(c, timer) ==
  CASE timer = "Retransmit" -> Retransmit(c)
    [] timer = "DelayedAck" -> IF c.state = "Closed" THEN c ELSE AcknowledgeNow(c)
    [] timer = "Probe" -> Probe(c)
    [] timer = "TimeWait" -> IF c.state = "TimeWait" THEN Close(c, "Orderly") ELSE c

-----------------------------------------------------------------------------
(* A segment's arrival.                                                      *)

Has(m, flag) == flag \in m.flags
Length(m) == Len(m.data) + (IF Has(m, "SYN") THEN 1 ELSE 0) + (IF Has(m, "FIN") THEN 1 ELSE 0)

\* reset_for.
ResetFor(c, m) ==
  CASE Has(m, "RST") -> c
    [] m.ack # None -> Push(c, Seg({"RST"}, m.ack, None, 0, 0))
    [] OTHER -> Push(c, Seg({"RST"}, 0, Add(m.seq, Length(m)), 0, 0))

\* What a SYN tells the end that takes it.
TakeSyn(c, m) == [c EXCEPT !.irs = m.seq, !.rnxt = Add(m.seq, 1), !.wnd = m.wnd]

ListenArrival(c, m) ==
  CASE Has(m, "RST") -> c
    [] m.ack # None -> ResetFor(c, m)
    [] ~Has(m, "SYN") -> c
    [] OTHER -> ArmRetransmit([SynAck(TakeSyn(c, m))
                  EXCEPT !.state = "SynReceived", !.nxt = Add(c.iss, 1), !.avail = Add(c.iss, 1)])

SynSentArrival(c, m) ==
  LET took == TakeSyn(c, m)
  IN CASE m.ack # None /\ (~Follows(m.ack, c.iss) \/ Follows(m.ack, c.nxt)) ->
            IF Has(m, "RST") THEN c ELSE Push(c, Seg({"RST"}, m.ack, None, 0, 0))
       [] Has(m, "RST") -> IF m.ack # None THEN Close(c, "Refused") ELSE c
       [] ~Has(m, "SYN") -> c
       [] m.ack # None ->
            SendWhatWeCan(ArmRetransmit(AcknowledgeNow(
              [took EXCEPT !.una = m.ack, !.state = "Established"])))
       [] OTHER ->                              \* simultaneous open
            ArmRetransmit([SynAck(took) EXCEPT !.state = "SynReceived", !.nxt = Add(c.iss, 1)])

Acceptable(c, m) ==
  LET end == Add(c.rnxt, c.rwnd)
      InWindow(n) == ~Precedes(n, c.rnxt) /\ Precedes(n, end)
  IN CASE Length(m) = 0 /\ c.rwnd = 0 -> m.seq = c.rnxt
       [] Length(m) = 0 -> InWindow(m.seq)
       [] c.rwnd = 0 -> FALSE
       [] OTHER -> InWindow(m.seq) \/ InWindow(Add(m.seq, Length(m) - 1))

\* Faulty: TimeWait is entered without its deadline.
EnterTimeWaitForEver(c) == Cancel([c EXCEPT !.state = "TimeWait"], "Retransmit")
EnterTimeWait(c) == Arm(Cancel([c EXCEPT !.state = "TimeWait"], "Retransmit"), "TimeWait")

AdvanceAfterAck(c) ==
  CASE c.fin = None \/ ~Follows(c.una, c.fin) -> c
    [] c.state = "FinWait1" -> [c EXCEPT !.state = "FinWait2"]
    [] c.state = "Closing" -> EnterTimeWait(c)
    [] c.state = "LastAck" -> Close(c, "Orderly")
    [] OTHER -> c

\* The acknowledgement of a segment whose acknowledgement is in what was sent, and
\* in SynReceived names the SYN.
ProcessAck(c, m) ==
  LET open == IF c.state # "SynReceived" THEN c
              ELSE ArmRetransmit([c EXCEPT !.state = "Established", !.una = m.ack])
      freed == IF ~Follows(m.ack, open.una) THEN open
               ELSE AdvanceAfterAck(ArmRetransmit([open EXCEPT !.una = m.ack, !.rtx = 0]))
      wnd == [freed EXCEPT !.wnd = m.wnd]
  IN IF freed.wnd = 0 /\ m.wnd > 0 THEN Cancel(wnd, "Probe") ELSE wnd

\* How much of the payload is taken: only what starts where the stream left off.
Taken(c, m) ==
  IF ~CanReceive(c) \/ m.seq # c.rnxt THEN 0 ELSE Min({Len(m.data), c.rwnd})

AcknowledgeOrDelay(c) ==
  IF c.since + 1 >= 2 \/ c.rwnd = 0 THEN AcknowledgeNow(c)
  ELSE Arm([c EXCEPT !.since = @ + 1], "DelayedAck")

PeerClosed(c) ==
  LET told == AcknowledgeNow(c)
  IN CASE c.state \in {"Established", "SynReceived"} -> [told EXCEPT !.state = "CloseWait"]
       [] c.state = "FinWait1" -> [told EXCEPT !.state = "Closing"]
       [] c.state = "FinWait2" -> EnterTimeWait(told)
       [] OTHER -> told

\* Faulty: a FIN is taken wherever it stands in the stream.
TakeDataFinAhead(c, m) ==
  LET n == Taken(c, m)
      took == [c EXCEPT !.rnxt = Add(@, n), !.rwnd = @ - n]
      fin == Has(m, "FIN") /\ n = Len(m.data) /\ ~c.finr
  IN CASE fin -> PeerClosed([took EXCEPT !.finr = TRUE, !.rnxt = Add(@, 1)])
       [] n > 0 -> AcknowledgeOrDelay(took)
       [] OTHER -> took

\* Data, then the FIN behind it if every byte in front of it was taken.
TakeData(c, m) ==
  LET n == Taken(c, m)
      took == [c EXCEPT !.rnxt = Add(@, n), !.rwnd = @ - n]
      fin == /\ Has(m, "FIN") /\ n = Len(m.data) /\ Add(m.seq, n) = took.rnxt /\ ~c.finr
  IN CASE fin -> PeerClosed([took EXCEPT !.finr = TRUE, !.rnxt = Add(@, 1)])
       [] n > 0 -> AcknowledgeOrDelay(took)
       [] OTHER -> took

SynchronisedArrival(c, m) ==
  CASE ~Acceptable(c, m) ->
         IF ~Has(m, "RST") /\ Precedes(m.seq, c.rnxt) THEN AcknowledgeNow(c) ELSE c
    [] Has(m, "RST") -> Close(c, IF c.state = "SynReceived" THEN "Refused" ELSE "Reset")
    [] Has(m, "SYN") /\ m.seq # c.irs -> Abort(c)
    [] m.ack = None -> c
    [] Follows(m.ack, c.nxt) -> AcknowledgeNow(c)
    [] c.state = "SynReceived" /\ ~Follows(m.ack, c.iss) -> c
    [] OTHER -> SendWhatWeCan(TakeData(ProcessAck(c, m), m))

Arrived(c, m) ==
  CASE c.state = "Closed" -> ResetFor(c, m)
    [] c.state = "Listen" -> ListenArrival(c, m)
    [] c.state = "SynSent" -> SynSentArrival(c, m)
    [] OTHER -> SynchronisedArrival(c, m)

-----------------------------------------------------------------------------
(* bin/tcpd around the machine.                                              *)

\* Tcb::new and the open that fills it in.
Fresh(state, iss) ==
  [state |-> state, iss |-> iss, una |-> iss, nxt |-> iss, avail |-> iss, wnd |-> 0,
   fin |-> None, finq |-> FALSE, irs |-> 0, rnxt |-> 0, rwnd |-> Ring, finr |-> FALSE,
   rtx |-> 0, since |-> 0, timers |-> {}, ended |-> "No", out |-> <<>>]

\* Tcb::from_cookie: this end's number is the cookie, the peer's is read off the
\* segment that brought the cookie back.
FromCookie(c, m) ==
  LET next == Add(c.iss, 1)
  IN [c EXCEPT !.state = "Established", !.una = next, !.nxt = next, !.avail = next,
               !.wnd = m.wnd, !.irs = Sub(m.seq, 1), !.rnxt = m.seq]

\* accept_syn answers a SYN and keeps nothing; accept_cookie builds the connection
\* from the acknowledgement that names the cookie.  Anything else is dropped.
Answers(m) == Has(m, "SYN") /\ ~Has(m, "RST") /\ m.ack = None
ComesHome(c, m) == m.flags \cap {"SYN", "RST"} = {} /\ m.ack = Add(c.iss, 1)
CookieArrival(c, m) ==
  CASE Answers(m) -> Push(c, Seg({"SYN"}, c.iss, Add(m.seq, 1), Ring, 0))
    [] ComesHome(c, m) -> Arrived(FromCookie(c, m), m)
    [] OTHER -> c

\* A connection is received into the ring only if it was synchronised before the
\* segment: the cookie's is, from its birth.
Synchronised(e, m) ==
  \/ CanReceive(conn[e])
  \/ conn[e].state = "Listen" /\ play.open[e] = "cookie" /\ ComesHome(conn[e], m)

\* drain_forward: the connection a segment finds, the one it leaves (is), and the
\* bytes of it that go into the receive ring.
After(e, m) ==
  IF conn[e].state = "Listen" /\ play.open[e] = "cookie"
    THEN CookieArrival(conn[e], m) ELSE Arrived(conn[e], m)
Before(e, m) ==
  IF conn[e].state = "Listen" THEN FromCookie(conn[e], m) ELSE conn[e]
Delivered(was, is) == Sub(is.rnxt, was.rnxt) - (IF is.finr /\ ~was.finr THEN 1 ELSE 0)
IntoRing(ring, was, n, m) ==
  LET at == Sub(was.rnxt, Add(was.irs, 1))
      Landing(k) == {i \in 1 .. n : (at + i - 1) % Ring = k}
  IN [k \in 0 .. Ring - 1 |-> IF Landing(k) # {} THEN m.data[Max(Landing(k))] ELSE ring[k]]

\* perform: each emitted range of the stream becomes bytes of the send ring.
OnWire(c, ring) ==
  [i \in DOMAIN c.out |->
     [c.out[i] EXCEPT !.data =
        [j \in 1 .. @ |-> ring[(Sub(c.out[i].seq, Add(c.iss, 1)) + j - 1) % Ring]]]]

\* drive_at: the step's connection is kept and what it emitted is on the wire.
Drive(e, c, ring, here) ==
  /\ conn' = [conn EXCEPT ![e] = [c EXCEPT !.out = <<>>]]
  /\ net' = [net EXCEPT ![e] = here, ![Peer(e)] = @ \o OnWire(c, ring)]

Empty == [k \in 0 .. Ring - 1 |-> None]
Program == [opened |-> FALSE, written |-> 0, shut |-> FALSE,
            delivered |-> 0, consumed |-> 0, told |-> 0, got |-> <<>>]

Init ==
  /\ play \in Plays
  /\ conn = [e \in Ends |-> Fresh(IF play.open[e] = "dial" THEN "Closed" ELSE "Listen", play.iss[e])]
  /\ net = [e \in Ends |-> <<>>]
  /\ lost = 0 /\ repeated = 0
  /\ sendr = [e \in Ends |-> Empty] /\ recvr = [e \in Ends |-> Empty]
  /\ app = [e \in Ends |-> Program]

-----------------------------------------------------------------------------
(* The programs.                                                             *)

CanDial(e) == play.open[e] = "dial" /\ ~app[e].opened
Dial(e) ==
  /\ CanDial(e)
  /\ app' = [app EXCEPT ![e].opened = TRUE]
  /\ Drive(e, Connect(conn[e]), sendr[e], net[e])
  /\ UNCHANGED <<play, lost, repeated, sendr, recvr>>

\* A program holds a connection it dialled, or one that was established for it.
Holds(e) ==
  IF play.open[e] = "dial" THEN app[e].opened ELSE conn[e].state \notin {"Listen", "SynReceived"}
Alive(e) == Holds(e) /\ conn[e].ended = "No"

\* What the peer has acknowledged of this end's stream.
Acked(e) ==
  IF conn[e].una = conn[e].iss THEN 0
  ELSE Min({app[e].written, Sub(conn[e].una, Add(conn[e].iss, 1))})

\* SEND, after the bytes are in the ring; the program keeps within its ring.
CanWrite(e, n) ==
  /\ Alive(e) /\ ~app[e].shut /\ app[e].written + n <= play.bytes[e]
  /\ app[e].written + n - Acked(e) <= Ring
Write(e, n) ==
  /\ CanWrite(e, n)
  /\ LET first == app[e].written
         ring == [k \in 0 .. Ring - 1 |->
                    IF \E i \in 1 .. n : (first + i - 1) % Ring = k
                    THEN first + (CHOOSE i \in 1 .. n : (first + i - 1) % Ring = k)
                    ELSE sendr[e][k]]
     IN /\ sendr' = [sendr EXCEPT ![e] = ring]
        /\ Drive(e, Wrote(conn[e], n), ring, net[e])
  /\ app' = [app EXCEPT ![e].written = @ + n]
  /\ UNCHANGED <<play, lost, repeated, recvr>>

\* RECV: what was consumed before is told first, then everything delivered is read.
CanReceiveOrTell(e) == Holds(e) /\ app[e].told < app[e].delivered
Receive(e) ==
  LET a == app[e]
      tell == a.consumed - a.told
      new == [i \in 1 .. a.delivered - a.consumed |-> recvr[e][(a.consumed + i - 1) % Ring]]
  IN /\ CanReceiveOrTell(e)
     /\ Drive(e, IF tell > 0 THEN Read(conn[e], tell) ELSE conn[e], sendr[e], net[e])
     /\ app' = [app EXCEPT ![e].told = a.consumed, ![e].consumed = a.delivered,
                           ![e].got = a.got \o new]
     /\ UNCHANGED <<play, lost, repeated, sendr, recvr>>

\* SHUTDOWN, once everything is written.
CanFinish(e) == Alive(e) /\ play.shuts[e] /\ ~app[e].shut /\ app[e].written = play.bytes[e]
Finish(e) ==
  /\ CanFinish(e)
  /\ app' = [app EXCEPT ![e].shut = TRUE]
  /\ Drive(e, Shutdown(conn[e]), sendr[e], net[e])
  /\ UNCHANGED <<play, lost, repeated, sendr, recvr>>

\* RELEASE with the abort flag.
GiveUp(e) ==
  /\ Alive(e) /\ play.aborts[e]
  /\ Drive(e, Abort(conn[e]), sendr[e], net[e])
  /\ UNCHANGED <<play, lost, repeated, sendr, recvr, app>>

-----------------------------------------------------------------------------
(* The network and the clock.                                                *)

\* Nothing on its way, and no program with something left to read.
Quiet == \A e \in Ends : net[e] = <<>> /\ app[e].told = app[e].delivered

\* The segment m arrives, here is what stays on its way.
Take(e, m, is, n, here) ==
  /\ Drive(e, is, sendr[e], here)
  /\ recvr' = [recvr EXCEPT ![e] = IntoRing(@, Before(e, m), n, m)]
  /\ app' = [app EXCEPT ![e].delivered = @ + n]
  /\ UNCHANGED <<play, lost, sendr>>
Arrive(e, m, here) ==
  \E is \in {After(e, m)} :
    Take(e, m, is, IF Synchronised(e, m) THEN Delivered(Before(e, m), is) ELSE 0, here)

\* The first segment on its way, or any when the network reorders.
Deliver(e) ==
  /\ \E i \in DOMAIN net[e] :
       /\ i = 1 \/ play.reorders
       /\ Arrive(e, net[e][i], RemoveAt(net[e], i))
  /\ UNCHANGED repeated

Repeat(e) ==
  /\ repeated < play.repeats /\ net[e] # <<>>
  /\ repeated' = repeated + 1
  /\ Arrive(e, Head(net[e]), net[e])

Lose(e) ==
  /\ lost < play.losses /\ net[e] # <<>>
  /\ lost' = lost + 1
  /\ net' = [net EXCEPT ![e] = Tail(@)]
  /\ UNCHANGED <<play, conn, repeated, sendr, recvr, app>>

\* What the timers' lengths say of their order.  2 MSL outlast every segment.  Unless
\* the play's network is slow, a retransmission or a probe outlasts what is in
\* flight, the end that backed off less is first, and all the retransmissions
\* together outlast the peer's delayed acknowledgement.
Turn(e) ==
  /\ "Retransmit" \in conn[Peer(e)].timers => conn[e].rtx <= conn[Peer(e)].rtx
  /\ "DelayedAck" \in conn[Peer(e)].timers => conn[e].rtx = 0
CanExpire(e, timer) ==
  /\ timer \in conn[e].timers
  /\ timer = "TimeWait" => Quiet
  /\ timer \in {"Retransmit", "Probe"} /\ ~play.slow => Quiet /\ Turn(e)
  /\ Len(net[Peer(e)]) < NetBound

\* fire_due.
Expire(e, timer) ==
  /\ CanExpire(e, timer)
  /\ Drive(e, Expired(Cancel(conn[e], timer), timer), sendr[e], net[e])
  /\ UNCHANGED <<play, lost, repeated, sendr, recvr, app>>

Timers == {"Retransmit", "DelayedAck", "Probe", "TimeWait"}

Next ==
  \E e \in Ends :
    \/ Dial(e) \/ Receive(e) \/ Finish(e) \/ GiveUp(e)
    \/ \E n \in 1 .. play.chunk : Write(e, n)
    \/ Deliver(e) \/ Repeat(e) \/ Lose(e)
    \/ \E timer \in Timers : Expire(e, timer)

Spec == Init /\ [][Next]_vars

Fairness ==
  \A e \in Ends :
    /\ []<>~CanDial(e) \/ []<><<Dial(e)>>_vars
    /\ []<>~CanReceiveOrTell(e) \/ []<><<Receive(e)>>_vars
    /\ []<>~CanFinish(e) \/ []<><<Finish(e)>>_vars
    /\ []<>(net[e] = <<>>) \/ []<><<Deliver(e)>>_vars
    /\ []<>~CanWrite(e, 1) \/ []<><<\E n \in 1 .. play.chunk : Write(e, n)>>_vars
    /\ \A timer \in Timers : []<>~CanExpire(e, timer) \/ []<><<Expire(e, timer)>>_vars

FairSpec == Spec /\ Fairness

-----------------------------------------------------------------------------
(* Properties.                                                               *)

States == {"Closed", "Listen", "SynSent", "SynReceived", "Established", "FinWait1", "FinWait2",
           "CloseWait", "Closing", "LastAck", "TimeWait"}
Numbers == 0 .. Modulus - 1
Synced(e) == conn[e].state \notin {"Closed", "Listen", "SynSent"}

\* The types of the two ends and of what is between them.
TypeOK ==
  /\ play \in Plays
  /\ \A e \in Ends :
       /\ conn[e].state \in States
       /\ {conn[e].iss, conn[e].una, conn[e].nxt, conn[e].avail, conn[e].irs, conn[e].rnxt}
            \subseteq Numbers
       /\ conn[e].wnd \in 0 .. Ring /\ conn[e].rwnd \in 0 .. Ring
       /\ conn[e].fin \in Numbers \cup {None}
       /\ conn[e].rtx \in 0 .. MaxRetransmits /\ conn[e].since \in 0 .. 1
       /\ conn[e].timers \subseteq Timers
       /\ conn[e].ended \in {"No", "Orderly", "Aborted", "Refused", "Reset", "Unreachable"}
  /\ lost \in 0 .. play.losses /\ repeated \in 0 .. play.repeats

\* Both sides of the window hold: this end's numbers stay in the order una, nxt,
\* avail and the FIN's; the window it announces is its ring less what its program
\* has not said it read, and every byte in that span is still in the ring; and an
\* acknowledged byte is one the peer took (process_ack, deliver, reopen_window).
WindowExact ==
  \A e \in Ends : Synced(e) =>
    LET c == conn[e]  a == app[e]
        At(n) == Sub(n, c.iss)
    IN /\ At(c.una) <= At(c.nxt)
       /\ At(c.nxt) <= At(c.avail) + (IF c.fin = None THEN 0 ELSE 1)
       /\ c.rwnd = Ring - (a.delivered - a.told)
       /\ \A i \in a.consumed + 1 .. a.delivered : recvr[e][(i - 1) % Ring] = i
       /\ Synced(Peer(e)) => At(c.una) <= At(conn[Peer(e)].rnxt)

\* An orderly ending means both streams arrived whole (Ended::Orderly).
OrderlyIsWhole ==
  \A e \in Ends : conn[e].ended = "Orderly" =>
    \A d \in Ends : app[d].shut /\ app[Peer(d)].delivered = app[d].written

\* A network that loses no more than the retransmissions make good never ends a
\* connection as unreachable (MAX_RETRANSMITS).
WorkingConnectionKept == ~play.slow => \A e \in Ends : conn[e].ended # "Unreachable"

\* What an end has yet to get across, bytes or its FIN, has a timer that will send it
\* again (send_what_we_can, arm_retransmit, resend).
Owes(c) == Follows(c.avail, c.una) \/ (c.finq /\ (c.fin = None \/ ~Follows(c.una, c.fin)))
OwedIsTimed ==
  \A e \in Ends : Synced(e) /\ Owes(conn[e]) => conn[e].timers \cap {"Retransmit", "Probe"} # {}


\* What a program has read is what the peer's program wrote, from its first byte on
\* and in its order.
StreamIntact ==
  \A e \in Ends : \A i \in DOMAIN app[e].got : app[e].got[i] = i /\ i <= app[Peer(e)].written

\* The two programs see the connection as two byte streams (recvr and the counts of
\* drain_forward; the FIN is the end of the stream).
Stream == INSTANCE ByteStream WITH
  written <- [e \in Ends |-> app[e].written],
  shut <- [e \in Ends |-> app[e].shut],
  read <- [e \in Ends |-> app[e].got],
  eof <- [e \in Ends |-> conn[e].finr /\ Len(app[e].got) = app[e].delivered]
ImplementsStream == Stream!SSpec

\* Everything written is read, its writer learns so, and the end of the stream
\* follows, unless one of the two ends gave the connection up.
Failed == \E e \in Ends : conn[e].ended \in {"Aborted", "Refused", "Reset", "Unreachable"}
Arrives(e) ==
  /\ app[Peer(e)].got = [i \in 1 .. play.bytes[e] |-> i]
  /\ Acked(e) = play.bytes[e]
  /\ play.shuts[e] => conn[Peer(e)].finr
Completes == \A e \in Ends : Holds(e) /\ Holds(Peer(e)) ~> Failed \/ Arrives(e)

\* When both programs shut down, both connections end.
AllEnd == play.shuts[1] /\ play.shuts[2] ~> \A e \in Ends : Holds(e) => conn[e].ended # "No"
=============================================================================
