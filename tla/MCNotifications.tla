--------------------------- MODULE MCNotifications ---------------------------
(***************************************************************************)
(* A notification and the deadlines that signal one.  They share the       *)
(* signal, which each models as it sees it; a behaviour is of one of them. *)
(***************************************************************************)
EXTENDS Notify, Integers

CONSTANTS t1, t2, h1, p1, p2

\* Both wait, either way; the notification is destroyed and one of them may be ended.
Destroyed == [live |-> TRUE, killable |-> {t1}, binders |-> {}, modes |-> BOOLEAN,
              busy |-> TRUE, signals |-> 2, destroys |-> 1, creates |-> 0]

\* wait_once beside a receiver that binds, on a notification still to be made;
\* both may be ended.
Bound == [Destroyed EXCEPT !.live = FALSE, !.killable = {t1, t2}, !.binders = {t2},
                           !.modes = {TRUE}, !.destroys = 0, !.creates = 1]

MCPlays == {Destroyed, Bound}

\* Two clients compete for one slot of the deadline table.
Contended == [cpus |-> {p1, p2}, clients |-> {1, 2}, slots |-> 1, arms |-> 1, destroys |-> 0]

\* One client arms again and destroys, with a slot to spare.
Rearmed == [cpus |-> {p1, p2}, clients |-> {1}, slots |-> 2, arms |-> 2, destroys |-> 1]

\* Two clients, a slot for each, one processor.
Paired == [Contended EXCEPT !.slots = 2, !.cpus = {p1}]

VARIABLES
  part,
  now, dlive, dgen, who, armedGen, deadline, step, at, req, cpc, cat, seen, asked,
  published, fires, dplay

alarms == <<now, dlive, dgen, who, armedGen, deadline, step, at, req, cpc, cat, seen, asked,
            published, fires, dplay>>
mcvars == <<part, vars, alarms>>

Alarms == INSTANCE Deadlines WITH
  Notifications <- {1, 2}, MaxDeadlines <- 2, Cpus <- {p1, p2}, MaxTime <- 1,
  Plays <- {Contended, Rearmed, Paired},
  live <- dlive, generation <- dgen, pc <- step, play <- dplay

ASSUME Alarms!DeadlinesAssumption

\* The part a behaviour is not of stays where it starts.
MCInit ==
  /\ part \in {"notify", "deadlines"}
  /\ Init /\ Alarms!Init
  /\ part = "notify" => dplay = Paired
  /\ part = "deadlines" => play = Destroyed

MCNext ==
  \/ part = "notify" /\ Next /\ UNCHANGED <<part, alarms>>
  \/ part = "deadlines" /\ Alarms!Next /\ UNCHANGED <<part, vars>>

\* The fairness of each part, in its own behaviours.
MCSpec ==
  /\ MCInit /\ [][MCNext]_mcvars
  /\ \A t \in Threads : WF_vars(part = "notify" /\ ThreadStep(t) /\ ~blocked[t])
  /\ \A h \in Handlers : WF_vars(part = "notify" /\ HandlerStep(h))
  /\ WF_vars(part = "notify" /\ Drain)
  /\ WF_alarms(part = "deadlines" /\ Alarms!Tick)
  /\ \A n \in {1, 2} : WF_alarms(part = "deadlines" /\ Alarms!ClientStep(n))
  /\ \A c \in {p1, p2} : WF_alarms(part = "deadlines" /\ Alarms!ExpireStep(c))


\* A slot of the deadline table that was taken is given back.
SlotsDrain == Alarms!SlotsDrain
=============================================================================
