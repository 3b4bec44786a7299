------------------------------ MODULE Endpoint ------------------------------
(***************************************************************************)
(* Synchronous IPC (kernel/src/ipc.rs) and the parts of the scheduler it   *)
(* is made of: the mailbox, the reply obligation, the blocked mark and the *)
(* wake (kernel/src/sched.rs).                                             *)
(*                                                                         *)
(* Every hold of the endpoint table's lock or of a run queue's lock is one *)
(* action, so a rendezvous, the handover of its message and the wake are   *)
(* three steps with anything in between.  A thread whose blocked mark is   *)
(* set may still run, and may equally be switched away until a wake takes  *)
(* the mark off: it steps, but nothing makes it step.                      *)
(*                                                                         *)
(* A call is named by its caller and a number no guard reads.              *)
(***************************************************************************)
EXTENDS Integers, Sequences, FiniteSets, Functions

CONSTANTS
  Callers, Servers,   \* threads that call, threads that serve (may overlap)
  Nobody,
  MaxEndpoints, MaxQueued,
  MaxCalls,           \* bound: calls of one thread
  Plays               \* what the threads of one behaviour may do: see Play

Threads == Callers \cup Servers
Endpoints == 1 .. MaxEndpoints
Slots == 1 .. MaxQueued

ASSUME EndpointAssumption ==
  /\ Nobody \notin Threads
  /\ MaxEndpoints \in Nat \ {0} /\ MaxQueued \in Nat \ {0}
  /\ MaxCalls \in Nat
  /\ \A p \in Plays :
       /\ p.callers \subseteq Callers /\ p.servers \subseteq Servers
       /\ p.killable \cup p.exits \cup p.bound \subseteq Threads
       /\ p.endpoints \subseteq Endpoints
       /\ {p.calls, p.signals, p.destroys, p.creates} \subseteq Nat /\ p.calls <= MaxCalls

VARIABLES
  live, generation,   \* the endpoint table
  senders, receivers, \* endpoint -> slot -> call, or thread
  pc, hand,           \* where a thread is, and the call or partner it works for
  at,                 \* the endpoint and generation a thread called or serves
  calls,              \* calls each thread has made
  mailbox, reply_to, answer_lost, call_refused, dying, blocked,
  pending,            \* the bound notification has bits
  kicks,              \* threads a killer, signaller or destroyer is about to wake
  play,               \* who calls, serves, may be ended, may exit, has bound a
                      \* notification; the calls each makes; the signals,
                      \* destroys and creates still to come
  line                \* per endpoint, the queued calls in order of arrival

table == <<live, generation, senders, receivers, line>>
slotted == <<mailbox, reply_to, answer_lost, call_refused>>
env == <<pending, kicks, play>>
vars == <<live, generation, senders, receivers, pc, hand, at, calls, mailbox, reply_to,
          answer_lost, call_refused, dying, blocked, pending, kicks, play, line>>

CallIds == [by : Threads, n : 1 .. MaxCalls]
NoCall == [by |-> Nobody, n |-> 0]
\* What a thread works for: the thread to answer, and the call it answers.
Owed == [to : Threads, call : CallIds]
NoOne == [to |-> Nobody, call |-> NoCall]
Messages == [kind : {"request", "reply"}, from : Threads, call : CallIds]
NoMessage == [kind |-> "none", from |-> Nobody, call |-> NoCall]

Current(t) == [by |-> t, n |-> calls[t]]

InCall == {"deliver", "nudge", "await", "sleep"}
InRecv == {"recv", "gift", "refuse", "listen", "bound", "doze", "unmark", "cancel"}
InExit == {"release", "abandon", "tell", "finish", "finished"}
PCs == {"user", "answered"} \cup InCall \cup InRecv \cup InExit

Init ==
  /\ play \in Plays
  /\ live = [e \in Endpoints |-> e \in play.endpoints]
  /\ generation = [e \in Endpoints |-> 0]
  /\ senders = [e \in Endpoints |-> [i \in Slots |-> NoCall]]
  /\ receivers = [e \in Endpoints |-> [i \in Slots |-> Nobody]]
  /\ line = [e \in Endpoints |-> <<>>]
  /\ pc = [t \in Threads |-> "user"]
  /\ hand = [t \in Threads |-> NoOne]
  /\ at = [t \in Threads |-> [ep |-> 1, gen |-> 0]]
  /\ calls = [t \in Threads |-> 0]
  /\ mailbox = [t \in Threads |-> NoMessage]
  /\ reply_to = [t \in Threads |-> NoOne]
  /\ answer_lost = [t \in Threads |-> FALSE]
  /\ call_refused = [t \in Threads |-> FALSE]
  /\ dying = [t \in Threads |-> FALSE]
  /\ blocked = [t \in Threads |-> FALSE]
  /\ pending = [t \in Threads |-> FALSE]
  /\ kicks = {}

-----------------------------------------------------------------------------
(* The queues of one endpoint: the first occupied slot is taken, the first  *)
(* free one filled.                                                         *)

Least(S) == CHOOSE i \in S : \A j \in S : i <= j
Taken(q, none) == {i \in Slots : q[i] # none}
Free(q, none) == {i \in Slots : q[i] = none}

GoTo(t, label) == pc' = [pc EXCEPT ![t] = label]
Unblock(t) == blocked' = [blocked EXCEPT ![t] = FALSE]

\* sched::deliver: a full mailbox, or a thread already reaped, refuses.
CanDeliver(t) == mailbox[t] = NoMessage
Put(t, m) == mailbox' = [mailbox EXCEPT ![t] = m]

-----------------------------------------------------------------------------
(* Call.                                                                    *)

\* ipc::call up to rendezvous_send.  A dead endpoint and a full queue answer
\* at once and change nothing.
SendMatched(t, e) ==
  /\ Taken(receivers[e], Nobody) # {}
  /\ LET i == Least(Taken(receivers[e], Nobody)) IN
     /\ receivers' = [receivers EXCEPT ![e][i] = Nobody]
     /\ hand' = [hand EXCEPT ![t] = [to |-> receivers[e][i],
                                     call |-> [by |-> t, n |-> calls[t] + 1]]]
  /\ GoTo(t, "deliver")
  /\ UNCHANGED <<senders, line>>

SendQueued(t, e) ==
  /\ Taken(receivers[e], Nobody) = {}
  /\ Free(senders[e], NoCall) # {}
  /\ LET c == [by |-> t, n |-> calls[t] + 1] IN
     /\ senders' = [senders EXCEPT ![e][Least(Free(senders[e], NoCall))] = c]
     /\ line' = [line EXCEPT ![e] = Append(@, c)]
  /\ GoTo(t, "await")
  /\ UNCHANGED <<receivers, hand>>

Call(t, e) ==
  /\ t \in play.callers /\ pc[t] = "user" /\ calls[t] < play.calls
  /\ live[e]
  /\ SendMatched(t, e) \/ SendQueued(t, e)
  /\ calls' = [calls EXCEPT ![t] = @ + 1]
  /\ at' = [at EXCEPT ![t] = [ep |-> e, gen |-> generation[e]]]
  /\ UNCHANGED <<live, generation, slotted, dying, blocked, env>>

\* sched::deliver after a match.  The queue entry is gone: a refusal drops the
\* message.
Deliver(t) ==
  /\ pc[t] = "deliver"
  /\ LET r == hand[t].to IN
     \/ CanDeliver(r) /\ Put(r, [kind |-> "request", from |-> t, call |-> hand[t].call])
     \/ (~CanDeliver(r) \/ pc[r] = "finished") /\ UNCHANGED mailbox
  /\ GoTo(t, "nudge")
  /\ UNCHANGED <<table, hand, at, calls, reply_to, answer_lost, call_refused, dying,
                 blocked, env>>

\* sched::wake of the partner.
Nudge(t) ==
  /\ pc[t] = "nudge"
  /\ Unblock(hand[t].to)
  /\ hand' = [hand EXCEPT ![t] = NoOne]
  /\ GoTo(t, "await")
  /\ UNCHANGED <<table, at, calls, slotted, dying, env>>

\* sched::take_message_or_block, under one hold of the thread's run queue.
Outcome(t) ==
  CASE mailbox[t] # NoMessage -> "message"
    [] mailbox[t] = NoMessage /\ answer_lost[t] -> "revoked"
    [] mailbox[t] = NoMessage /\ ~answer_lost[t] /\ call_refused[t] -> "refused"
    [] OTHER -> IF dying[t] THEN "dying"
                ELSE IF live[at[t].ep] THEN "blocked" ELSE "abandoned"

TakeMessageOrBlock(t) ==
  LET outcome == Outcome(t) IN
  /\ mailbox' = [mailbox EXCEPT ![t] = NoMessage]
  /\ answer_lost' = [answer_lost EXCEPT ![t] = @ /\ outcome # "revoked"]
  /\ call_refused' = [call_refused EXCEPT ![t] = @ /\ outcome # "refused"]
  /\ blocked' = [blocked EXCEPT ![t] = outcome = "blocked"]

\* The loop of ipc::call.
Await(t) ==
  /\ pc[t] = "await"
  /\ TakeMessageOrBlock(t)
  /\ GoTo(t, IF Outcome(t) = "blocked" THEN "sleep" ELSE "user")
  /\ UNCHANGED <<table, hand, at, calls, reply_to, dying, env>>

\* sched::block_self returns once a wake has taken the mark off.
BlockSelf(t) ==
  /\ pc[t] \in {"sleep", "doze"}
  /\ ~blocked[t]
  /\ GoTo(t, IF pc[t] = "sleep" THEN "await" ELSE "listen")
  /\ UNCHANGED <<table, hand, at, calls, slotted, dying, blocked, env>>

-----------------------------------------------------------------------------
(* Receive.  A service answers what it holds before it receives again,      *)
(* unless the caller is gone: the loop of the services under user/.    *)

Settled(s) == \A t \in Threads : reply_to[s].to = t => pc[t] = "finished"

\* recv_either finds the notification already pending.
RecvNotified(s) ==
  /\ s \in play.servers /\ pc[s] = "user" /\ pending[s]
  /\ pending' = [pending EXCEPT ![s] = FALSE]
  /\ UNCHANGED <<table, pc, hand, at, calls, slotted, dying, blocked, kicks, play>>

Recv(s, e) ==
  /\ s \in play.servers /\ pc[s] = "user" /\ Settled(s) /\ ~pending[s]
  /\ live[e]
  /\ at' = [at EXCEPT ![s] = [ep |-> e, gen |-> generation[e]]]
  /\ GoTo(s, "recv")
  /\ UNCHANGED <<table, hand, calls, slotted, dying, blocked, env>>

\* rendezvous_recv.
RecvMatched(s, e) ==
  /\ live[e] /\ Taken(senders[e], NoCall) # {}
  /\ LET i == Least(Taken(senders[e], NoCall))
         c == senders[e][i]
     IN /\ senders' = [senders EXCEPT ![e][i] = NoCall]
        /\ line' = [line EXCEPT ![e] = SelectSeq(@, LAMBDA x : x # c)]
        /\ hand' = [hand EXCEPT ![s] = [to |-> c.by, call |-> c]]
  /\ GoTo(s, "gift")
  /\ UNCHANGED receivers

RecvQueued(s, e) ==
  /\ live[e] /\ Taken(senders[e], NoCall) = {} /\ Free(receivers[e], Nobody) # {}
  /\ receivers' = [receivers EXCEPT ![e][Least(Free(receivers[e], Nobody))] = s]
  /\ GoTo(s, "listen")
  /\ UNCHANGED <<senders, line, hand>>

RecvRefused(s, e) ==
  /\ \/ ~live[e]
     \/ Taken(senders[e], NoCall) = {} /\ Free(receivers[e], Nobody) = {}
  /\ GoTo(s, "user")
  /\ UNCHANGED <<senders, receivers, line, hand>>

RendezvousRecv(s) ==
  /\ pc[s] = "recv"
  /\ LET e == at[s].ep IN RecvMatched(s, e) \/ RecvQueued(s, e) \/ RecvRefused(s, e)
  /\ UNCHANGED <<live, generation, at, calls, slotted, dying, blocked, env>>

\* The inner loop of recv_either.
Listen(s) ==
  /\ pc[s] = "listen"
  /\ TakeMessageOrBlock(s)
  /\ CASE Outcome(s) = "message" ->
            /\ hand' = [hand EXCEPT ![s] = [to |-> mailbox[s].from, call |-> mailbox[s].call]]
            /\ GoTo(s, "gift")
       [] Outcome(s) = "blocked" -> GoTo(s, "bound") /\ UNCHANGED hand
       [] OTHER -> GoTo(s, "cancel") /\ UNCHANGED hand
  /\ UNCHANGED <<table, at, calls, reply_to, dying, env>>

\* complete_gift, then either the obligation or the refusal.
CompleteGift(s) ==
  /\ pc[s] = "gift"
  /\ reply_to' = [reply_to EXCEPT ![s] = hand[s]]
  /\ hand' = [hand EXCEPT ![s] = NoOne]
  /\ GoTo(s, "user")
  /\ UNCHANGED <<table, at, calls, mailbox, answer_lost, call_refused, dying, blocked, env>>

\* Faulty: the server goes back to receiving and the caller is not told.
RefuseSilently(s) ==
  /\ pc[s] = "gift"
  /\ GoTo(s, "refuse")
  /\ UNCHANGED <<table, hand, at, calls, slotted, dying, blocked, env>>

RefuseGift(s) ==
  /\ pc[s] = "gift"
  /\ call_refused' = [call_refused EXCEPT ![hand[s].to] = TRUE]
  /\ GoTo(s, "refuse")
  /\ UNCHANGED <<table, hand, at, calls, mailbox, reply_to, answer_lost, dying, blocked, env>>

\* refuse_call's wake; the outer loop queues the server again.
RefuseCall(s) ==
  /\ pc[s] = "refuse"
  /\ Unblock(hand[s].to)
  /\ hand' = [hand EXCEPT ![s] = NoOne]
  /\ GoTo(s, "recv")
  /\ UNCHANGED <<table, at, calls, slotted, dying, env>>

\* Marked blocked, the mailbox empty: only now is the notification read.
TakeBound(s) ==
  /\ pc[s] = "bound"
  /\ pending' = [pending EXCEPT ![s] = FALSE]
  /\ GoTo(s, IF pending[s] THEN "unmark" ELSE "doze")
  /\ UNCHANGED <<table, hand, at, calls, slotted, dying, blocked, kicks, play>>

\* Faulty: the notified return leaves the mark on.
KeepBlockedMark(s) ==
  /\ pc[s] = "unmark"
  /\ GoTo(s, "cancel")
  /\ UNCHANGED <<table, hand, at, calls, slotted, dying, blocked, env>>

ClearBlockedMark(s) ==
  /\ pc[s] = "unmark"
  /\ Unblock(s)
  /\ GoTo(s, "cancel")
  /\ UNCHANGED <<table, hand, at, calls, slotted, dying, env>>

\* Endpoint::remove, on the endpoints of es.
Remove(t, es) ==
  /\ senders' = [e \in Endpoints |-> [i \in Slots |->
       IF e \in es /\ live[e] /\ senders[e][i].by = t THEN NoCall ELSE senders[e][i]]]
  /\ receivers' = [e \in Endpoints |-> [i \in Slots |->
       IF e \in es /\ live[e] /\ receivers[e][i] = t THEN Nobody ELSE receivers[e][i]]]
  /\ line' = [e \in Endpoints |->
       IF e \in es THEN SelectSeq(line[e], LAMBDA c : c.by # t) ELSE line[e]]

\* ipc::cancel on every failed or notified return of recv_either.
Cancel(s) ==
  /\ pc[s] = "cancel"
  /\ Remove(s, {at[s].ep})
  /\ GoTo(s, "user")
  /\ UNCHANGED <<live, generation, hand, at, calls, slotted, dying, blocked, env>>

-----------------------------------------------------------------------------
(* Reply.  The obligation is taken; a mailbox that refuses puts it back,    *)
(* which leaves the state as it was.                                        *)

\* Faulty: the obligation is read and not taken.
ReplyKeepsObligation(s) ==
  /\ pc[s] = "user" /\ reply_to[s] # NoOne
  /\ CanDeliver(reply_to[s].to)
  /\ Put(reply_to[s].to, [kind |-> "reply", from |-> s, call |-> reply_to[s].call])
  /\ hand' = [hand EXCEPT ![s] = reply_to[s]]
  /\ GoTo(s, "answered")
  /\ UNCHANGED <<table, at, calls, reply_to, answer_lost, call_refused, dying, blocked, env>>

Reply(s) ==
  /\ pc[s] = "user" /\ reply_to[s] # NoOne
  /\ CanDeliver(reply_to[s].to)
  /\ Put(reply_to[s].to, [kind |-> "reply", from |-> s, call |-> reply_to[s].call])
  /\ reply_to' = [reply_to EXCEPT ![s] = NoOne]
  /\ hand' = [hand EXCEPT ![s] = reply_to[s]]
  /\ GoTo(s, "answered")
  /\ UNCHANGED <<table, at, calls, answer_lost, call_refused, dying, blocked, env>>

WakeCaller(s) ==
  /\ pc[s] = "answered"
  /\ Unblock(hand[s].to)
  /\ hand' = [hand EXCEPT ![s] = NoOne]
  /\ GoTo(s, "user")
  /\ UNCHANGED <<table, at, calls, slotted, dying, env>>

-----------------------------------------------------------------------------
(* Exit, from ipc::cancel_all on.  The domain's part is DomainLife's.       *)

\* Faulty: the thread leaves its queue entries behind.
ExitWithoutCancel(t) ==
  /\ pc[t] = "user" /\ (t \in play.exits \/ dying[t])
  /\ pending' = [pending EXCEPT ![t] = FALSE]
  /\ GoTo(t, "release")
  /\ UNCHANGED <<table, hand, at, calls, slotted, dying, blocked, kicks, play>>

Exit(t) ==
  /\ pc[t] = "user" /\ (t \in play.exits \/ dying[t])
  /\ Remove(t, Endpoints)
  /\ pending' = [pending EXCEPT ![t] = FALSE]
  /\ GoTo(t, "release")
  /\ UNCHANGED <<live, generation, hand, at, calls, slotted, dying, blocked, kicks, play>>

TakeObligation(t) ==
  /\ pc[t] = "release"
  /\ hand' = [hand EXCEPT ![t] = reply_to[t]]
  /\ reply_to' = [reply_to EXCEPT ![t] = NoOne]
  /\ GoTo(t, IF reply_to[t] = NoOne THEN "finish" ELSE "abandon")
  /\ UNCHANGED <<table, at, calls, mailbox, answer_lost, call_refused, dying, blocked, env>>

\* sched::abandon_caller: the flag, then the wake.
AbandonCaller(t) ==
  /\ pc[t] = "abandon"
  /\ answer_lost' = [answer_lost EXCEPT ![hand[t].to] = TRUE]
  /\ GoTo(t, "tell")
  /\ UNCHANGED <<table, hand, at, calls, mailbox, reply_to, call_refused, dying, blocked, env>>

TellCaller(t) ==
  /\ pc[t] = "tell"
  /\ Unblock(hand[t].to)
  /\ hand' = [hand EXCEPT ![t] = NoOne]
  /\ GoTo(t, "finish")
  /\ UNCHANGED <<table, at, calls, slotted, dying, env>>

Finish(t) ==
  /\ pc[t] = "finish"
  /\ GoTo(t, "finished")
  /\ UNCHANGED <<table, hand, at, calls, slotted, dying, blocked, env>>

-----------------------------------------------------------------------------
(* What others do to a thread: end its domain, signal the notification it   *)
(* bound, destroy the endpoint it waits on.  The wake is a later step.      *)

\* sched::mark_domain_dying.
MarkDying(t) ==
  /\ t \in play.killable /\ ~dying[t] /\ pc[t] # "finished"
  /\ dying' = [dying EXCEPT ![t] = TRUE]
  /\ kicks' = IF blocked[t] THEN kicks \cup {t} ELSE kicks
  /\ UNCHANGED <<table, pc, hand, at, calls, slotted, blocked, pending, play>>

\* notify::signal, for a bound thread.
Signal(t) ==
  /\ t \in play.bound /\ pc[t] \notin InExit /\ play.signals > 0
  /\ pending' = [pending EXCEPT ![t] = TRUE]
  /\ kicks' = kicks \cup {t}
  /\ play' = [play EXCEPT !.signals = @ - 1]
  /\ UNCHANGED <<table, pc, hand, at, calls, slotted, dying, blocked>>

Kick(t) ==
  /\ t \in kicks
  /\ kicks' = kicks \ {t}
  /\ Unblock(t)
  /\ UNCHANGED <<table, pc, hand, at, calls, slotted, dying, pending, play>>

Waiters(e) == {senders[e][i].by : i \in Taken(senders[e], NoCall)}
              \cup {receivers[e][i] : i \in Taken(receivers[e], Nobody)}

\* Faulty: the waiters are dropped and not woken.
DestroySilently(e) ==
  /\ live[e] /\ play.destroys > 0
  /\ live' = [live EXCEPT ![e] = FALSE]
  /\ generation' = [generation EXCEPT ![e] = @ + 1]
  /\ senders' = [senders EXCEPT ![e] = [i \in Slots |-> NoCall]]
  /\ receivers' = [receivers EXCEPT ![e] = [i \in Slots |-> Nobody]]
  /\ line' = [line EXCEPT ![e] = <<>>]
  /\ play' = [play EXCEPT !.destroys = @ - 1]
  /\ UNCHANGED <<pc, hand, at, calls, slotted, dying, blocked, pending, kicks>>

Destroy(e) ==
  /\ live[e] /\ play.destroys > 0
  /\ live' = [live EXCEPT ![e] = FALSE]
  /\ generation' = [generation EXCEPT ![e] = @ + 1]
  /\ senders' = [senders EXCEPT ![e] = [i \in Slots |-> NoCall]]
  /\ receivers' = [receivers EXCEPT ![e] = [i \in Slots |-> Nobody]]
  /\ line' = [line EXCEPT ![e] = <<>>]
  /\ kicks' = kicks \cup Waiters(e)
  /\ play' = [play EXCEPT !.destroys = @ - 1]
  /\ UNCHANGED <<pc, hand, at, calls, slotted, dying, blocked, pending>>

\* The first endpoint that is not live.
Create ==
  /\ play.creates > 0
  /\ \E e \in Endpoints : ~live[e]
  /\ LET e == Least({x \in Endpoints : ~live[x]}) IN
     live' = [live EXCEPT ![e] = TRUE]
  /\ play' = [play EXCEPT !.creates = @ - 1]
  /\ UNCHANGED <<generation, senders, receivers, line, pc, hand, at, calls, slotted,
                 dying, blocked, pending, kicks>>

-----------------------------------------------------------------------------
\* The steps a thread takes inside the kernel, once it is there.
KernelStep(t) ==
  \/ Deliver(t) \/ Nudge(t) \/ Await(t) \/ BlockSelf(t)
  \/ RendezvousRecv(t) \/ Listen(t) \/ CompleteGift(t) \/ RefuseGift(t) \/ RefuseCall(t)
  \/ TakeBound(t) \/ ClearBlockedMark(t) \/ Cancel(t)
  \/ WakeCaller(t)
  \/ TakeObligation(t) \/ AbandonCaller(t) \/ TellCaller(t) \/ Finish(t)

\* What a service does in its own code: answer, receive, take a notification.
ServiceStep(s) == Reply(s) \/ RecvNotified(s) \/ \E e \in Endpoints : Recv(s, e)

Next ==
  \/ \E t \in Threads : \/ KernelStep(t) \/ ServiceStep(t) \/ Exit(t)
                        \/ MarkDying(t) \/ Signal(t) \/ Kick(t)
                        \/ \E e \in Endpoints : Call(t, e)
  \/ \E e \in Endpoints : Destroy(e)
  \/ Create

Spec == Init /\ [][Next]_vars

(* A runnable thread runs: the fair class picks the least virtual runtime   *)
(* and a blocked mark is the only thing that keeps a thread from being      *)
(* picked.  A wake begun is finished.  A service keeps serving.             *)
FairSpec ==
  /\ Spec
  /\ \A t \in Threads :
       /\ WF_vars(KernelStep(t) /\ ~blocked[t])
       /\ WF_vars(ServiceStep(t) /\ ~blocked[t])
       /\ WF_vars(Exit(t) /\ dying[t])
       /\ WF_vars(Kick(t))

-----------------------------------------------------------------------------
TypeOK ==
  /\ live \in [Endpoints -> BOOLEAN] /\ generation \in [Endpoints -> Nat]
  /\ senders \in [Endpoints -> [Slots -> CallIds \cup {NoCall}]]
  /\ receivers \in [Endpoints -> [Slots -> Servers \cup {Nobody}]]
  /\ pc \in [Threads -> PCs] /\ hand \in [Threads -> Owed \cup {NoOne}]
  /\ at \in [Threads -> [ep : Endpoints, gen : Nat]]
  /\ calls \in [Threads -> 0 .. MaxCalls]
  /\ mailbox \in [Threads -> Messages \cup {NoMessage}]
  /\ reply_to \in [Threads -> Owed \cup {NoOne}]
  /\ {answer_lost, call_refused, dying, blocked, pending} \subseteq [Threads -> BOOLEAN]
  /\ kicks \subseteq Threads
  /\ \A e \in Endpoints : IsInjective(line[e])
       /\ Range(line[e]) = {senders[e][i] : i \in Taken(senders[e], NoCall)}

\* Where the request, or the answer, of the call c is making can be.
Places(c) ==
  {<<"queued", x[1], x[2]>> : x \in {y \in Endpoints \X Slots :
                                        senders[y[1]][y[2]] = Current(c)}}
  \cup {<<"mail", s>> : s \in {x \in Threads : mailbox[x].call = Current(c)}}
  \cup {<<"hand", s>> : s \in {x \in Threads : /\ hand[x].call = Current(c)
                                               /\ pc[x] \in {"gift", "abandon"}}}
  \cup {<<"owed", s>> : s \in {x \in Threads : reply_to[x].call = Current(c)}}
  \cup {<<"lost">> : x \in {y \in {c} : answer_lost[y]}}
  \cup {<<"refused">> : x \in {y \in {c} : call_refused[y]}}

Waiting(c) == pc[c] \in {"await", "sleep"}
OnDestroyed(c) == at[c].gen # generation[at[c].ep]

\* A caller that waits has its request or its answer in exactly one place: the
\* endpoint's queue, a server's mailbox or hands, one server's obligation, or
\* back with the caller as a reply, a loss or a refusal.  Nothing is dropped
\* between the match and the handover, and no call is owed twice.
CallAccounted ==
  \A c \in Callers : Waiting(c) /\ ~dying[c] =>
     \/ Cardinality(Places(c)) = 1
     \/ OnDestroyed(c) /\ Places(c) = {}

\* What a caller finds in its mailbox is the answer to the call it is making,
\* never the answer to an earlier one or a request meant for a server.
AnswersTheCall ==
  \A c \in Callers : Waiting(c) /\ ~dying[c] /\ mailbox[c] # NoMessage =>
     mailbox[c].kind = "reply" /\ mailbox[c].call = Current(c)

\* A queue entry belongs to a thread still inside that call or receive, on
\* that endpoint, and a thread has at most one: a slot is never lost to a
\* thread that has stopped waiting.  (A dying caller keeps its entry until it
\* exits.  A server notified between its match and the handover queues again
\* with the request already in its mailbox, and leaves that entry behind it.)
EntriesAreWaiting ==
  \A e \in Endpoints : \A i \in Slots :
     /\ senders[e][i] # NoCall =>
          LET c == senders[e][i].by IN
          \/ at[c].ep = e /\ senders[e][i] = Current(c) /\ Waiting(c)
          \/ dying[c] /\ pc[c] \notin InExit
     /\ receivers[e][i] \in Servers \ play.bound =>
          LET s == receivers[e][i] IN
          /\ at[s].ep = e /\ pc[s] \in {"listen", "bound", "doze", "unmark", "cancel"}
          /\ \A f \in Endpoints, j \in Slots : receivers[f][j] = s => <<f, j>> = <<e, i>>

\* Every call returns: neither the check-then-block of the caller and of the
\* server, nor a death on either side, loses the wake it depends on.
CallReturns == \A c \in Callers : pc[c] \in InCall ~> pc[c] \notin InCall

\* Waiting on an endpoint that was destroyed, with nothing on its way.
Stranded(t) ==
  /\ Waiting(t) \/ pc[t] \in {"listen", "bound", "doze"}
  /\ OnDestroyed(t)
  /\ t \in Callers => Places(t) = {}

\* A thread queued on an endpoint that is destroyed does not stay asleep.
DestroyReleases == []<>(\A t \in Threads : ~Stranded(t))

\* The queue is served first come, first served: what a server takes is the
\* call that has waited longest.
TakesLongestWaiting ==
  [][\A e \in Endpoints, s \in Servers :
       pc[s] = "recv" /\ pc'[s] = "gift" /\ at[s].ep = e => line'[e] = Tail(line[e])]_vars

\* No request is left with a server that has finished while its caller waits.
NoCallLostToTheDead ==
  \A s \in Servers, c \in Callers :
     pc[s] = "finished" /\ Waiting(c) => mailbox[s].call # Current(c)

\* The endpoints' invariant: besides the types, whoever is in a queue is still
\* waiting there, so that no slot is lost to a thread that has gone, and a
\* waiting caller's request or answer is in exactly one place.
EndpointInv == TypeOK /\ EntriesAreWaiting /\ CallAccounted
=============================================================================
