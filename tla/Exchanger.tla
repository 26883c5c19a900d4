----------------------------- MODULE Exchanger -----------------------------
(***************************************************************************)
(* The Exchanger (space/src/wave/exchange/asynch.rs) pairs the directed    *)
(* waves a particle sends (requests) with the reflected waves that come    *)
(* back (replies).  exchange() registers a request before it is routed and *)
(* returns a oneshot receiver; reflected() is called, by any task, for     *)
(* each reply; a timer per request bounds the wait.  A request for several *)
(* replies has a collector task, fed by a channel that reflected() finds   *)
(* in the map multis; the right to answer is the sender kept in singles.   *)
(*                                                                         *)
(* The tasks run in parallel.  Each access to one of the two maps is       *)
(* atomic, and nothing else is, except that reflected() keeps the lock on  *)
(* the shard of multis across the await of its send.                       *)
(***************************************************************************)
EXTENDS Naturals, FiniteSets

CONSTANTS
    Requests,       \* directed waves, each exchanged once (an id is never reused)
    Replies,        \* reflected waves
    ReflectionOf,   \* the request a reply reflects
    Kind,           \* per request: its BounceBacks, "single", "count" or "timer"
    Cap,            \* per request: capacity of the collector's channel, which
                    \* for Count(n) is also n, and for a Timer 32 in the code
    Shard           \* per request: the shard of multis its id hashes to

\* Count(0) is left out: mpsc::channel(0) panics.
ASSUME ExchangerAssumption ==
    /\ IsFiniteSet(Replies)
    /\ ReflectionOf \in [Replies -> Requests]
    /\ Kind \in [Requests -> {"single", "count", "timer"}]
    /\ Cap \in [Requests -> Nat \ {0}]

RepliesTo(r) == {p \in Replies : ReflectionOf[p] = r}
Multi(r)     == Kind[r] /= "single"

\* ReflectedAggregate, together with whether it is a reply or the made up 408.
NoAnswer        == [agg |-> "none",   status |-> "none", of |-> {}]
SingleAnswer(p) == [agg |-> "Single", status |-> "ok",   of |-> {p}]
SingleTimeout   == [agg |-> "Single", status |-> "408",  of |-> {}]
MultiAnswer(S)  == [agg |-> "Multi",  status |-> "ok",   of |-> S]
MultiTimeout    == [agg |-> "Multi",  status |-> "408",  of |-> {}]

VARIABLES
    asked,      \* requests registered by exchange()
    singles,    \* requests whose answer can still be given
    multis,     \* requests whose replies go to a collector
    stage,      \* per reply, how far it got:
                \*   "away"     reflected() has not been called with it
                \*   "sending"  in send().await to the collector, shard locked
                \*   "missed"   not found in multis, singles not tried yet
                \*   "queued"   in the collector's channel
                \*   "taken"    in the collector's agg
                \*   "dropped"  its collector had ended
                \*   "claimed"  it took the sender out of singles
                \*   "refused"  reflected() returned an error
    collector,  \* per request: "none", "running" or "done"
    timer,      \* per request: "off", "armed" or "fired"
    answer      \* per request: what the oneshot receiver got

vars == <<asked, singles, multis, stage, collector, timer, answer>>

At(r, s)  == {p \in RepliesTo(r) : stage[p] = s}

\* insert and remove lock a shard of multis for writing: they wait while a
\* call of reflected() is suspended with that shard locked for reading.
ShardFree(r) ==
    \A p \in Replies : stage[p] = "sending" => Shard[ReflectionOf[p]] /= Shard[r]

Init ==
    /\ asked = {} /\ singles = {} /\ multis = {}
    /\ stage = [p \in Replies |-> "away"]
    /\ collector = [r \in Requests |-> "none"]
    /\ timer = [r \in Requests |-> "off"]
    /\ answer = [r \in Requests |-> NoAnswer]

-----------------------------------------------------------------------------
\* exchange(): nobody can reflect the request before it returns and the
\* caller routes the wave.
Exchange(r) ==
    /\ r \notin asked
    /\ Multi(r) => ShardFree(r)
    /\ asked' = asked \union {r}
    /\ singles' = singles \union {r}
    /\ multis' = IF Multi(r) THEN multis \union {r} ELSE multis
    /\ collector' = [collector EXCEPT ![r] = IF Multi(r) THEN "running" ELSE "none"]
    /\ timer' = [timer EXCEPT ![r] = "armed"]
    /\ UNCHANGED <<stage, answer>>

\* tx.send of the oneshot sender that was removed from singles.
Give(r, a) ==
    /\ singles' = singles \ {r}
    /\ answer' = [answer EXCEPT ![r] = a]

-----------------------------------------------------------------------------
(* reflected(), for the reply p.                                           *)

Lookup(p) ==
    /\ stage[p] = "away" /\ ReflectionOf[p] \in asked
    /\ stage' = [stage EXCEPT ![p] =
                   IF ReflectionOf[p] \in multis THEN "sending" ELSE "missed"]
    /\ UNCHANGED <<asked, singles, multis, collector, timer, answer>>

\* The send ends when the channel has room or its receiver is gone; an error
\* of the send is ignored and reflected() reports success.
SendToCollector(p) ==
    LET r == ReflectionOf[p] IN
    /\ stage[p] = "sending"
    /\ \/ /\ collector[r] = "running" /\ Cardinality(At(r, "queued")) < Cap[r]
          /\ stage' = [stage EXCEPT ![p] = "queued"]
       \/ /\ collector[r] = "done"
          /\ stage' = [stage EXCEPT ![p] = "dropped"]
    /\ UNCHANGED <<asked, singles, multis, collector, timer, answer>>

ClaimSingle(p) ==
    LET r == ReflectionOf[p] IN
    /\ stage[p] = "missed"
    /\ \/ /\ r \in singles
          /\ stage' = [stage EXCEPT ![p] = "claimed"]
          /\ Give(r, SingleAnswer(p))
       \/ /\ r \notin singles
          /\ stage' = [stage EXCEPT ![p] = "refused"]
          /\ UNCHANGED <<singles, answer>>
    /\ UNCHANGED <<asked, multis, collector, timer>>

-----------------------------------------------------------------------------
(* The timers.                                                             *)

TimeoutSingle(r) ==
    /\ timer[r] = "armed" /\ ~Multi(r)
    /\ timer' = [timer EXCEPT ![r] = "fired"]
    /\ IF r \in singles THEN Give(r, SingleTimeout) ELSE UNCHANGED <<singles, answer>>
    /\ UNCHANGED <<asked, multis, stage, collector>>

\* (mutant) the timer gives the whole request up, its answer too
TimeoutMulti_ClearsBoth(r) ==
    /\ timer[r] = "armed" /\ Multi(r) /\ ShardFree(r)
    /\ timer' = [timer EXCEPT ![r] = "fired"]
    /\ multis' = multis \ {r}
    /\ singles' = singles \ {r}
    /\ UNCHANGED <<asked, stage, collector, answer>>

\* (mutant) the timer does nothing once the request has been answered
TimeoutMulti_OnlyPending(r) ==
    /\ timer[r] = "armed" /\ Multi(r) /\ ShardFree(r)
    /\ timer' = [timer EXCEPT ![r] = "fired"]
    /\ multis' = IF r \in singles THEN multis \ {r} ELSE multis
    /\ UNCHANGED <<asked, singles, stage, collector, answer>>

\* The collector's channel is closed by dropping its only sender.
TimeoutMulti(r) ==
    /\ timer[r] = "armed" /\ Multi(r) /\ ShardFree(r)
    /\ timer' = [timer EXCEPT ![r] = "fired"]
    /\ multis' = multis \ {r}
    /\ UNCHANGED <<asked, singles, stage, collector, answer>>

-----------------------------------------------------------------------------
(* The collector.  When it ends, the replies still in its channel are lost. *)

\* (mutant) the count is compared before the reply just received is added
Full_Early(r, S) == Kind[r] = "count" /\ Cardinality(S) + 1 = Cap[r]

Full(r, S) == Kind[r] = "count" /\ Cardinality(S) = Cap[r]

Collect(r) ==
    /\ collector[r] = "running"
    /\ \E p \in At(r, "queued") :
         LET agg == At(r, "taken") \union {p} IN
         \/ /\ Full(r, agg) /\ r \in singles
            /\ Give(r, MultiAnswer(agg))
            /\ collector' = [collector EXCEPT ![r] = "done"]
            /\ stage' = [q \in Replies |-> IF q = p THEN "taken"
                           ELSE IF q \in At(r, "queued") THEN "dropped" ELSE stage[q]]
         \/ /\ ~(Full(r, agg) /\ r \in singles)
            /\ stage' = [stage EXCEPT ![p] = "taken"]
            /\ UNCHANGED <<singles, answer, collector>>
    /\ UNCHANGED <<asked, multis, timer>>

\* (mutant) the loop looks at multis and not at what is left in its channel
Closed_Backlog(r) == r \notin multis

\* recv() yields None once the sender is gone and the channel is empty.
Closed(r) == r \notin multis /\ At(r, "queued") = {}

\* (mutant) a count that was not reached never ends the wait
OnClose_Nothing(r) == IF Kind[r] = "count" THEN NoAnswer ELSE MultiAnswer(At(r, "taken"))

\* What the collector has taken is discarded when a count was not reached.
OnClose(r) == IF Kind[r] = "count" THEN MultiTimeout ELSE MultiAnswer(At(r, "taken"))

\* When singles has nothing to remove the loop goes round without a change,
\* for ever, which is a stuttering step here.
CollectorClosed(r) ==
    /\ collector[r] = "running" /\ Closed(r) /\ r \in singles
    /\ Give(r, OnClose(r))
    /\ collector' = [collector EXCEPT ![r] = "done"]
    /\ stage' = [q \in Replies |-> IF q \in At(r, "queued") THEN "dropped" ELSE stage[q]]
    /\ UNCHANGED <<asked, multis, timer>>

-----------------------------------------------------------------------------
Timer(r)     == TimeoutSingle(r) \/ TimeoutMulti(r)
Collector(r) == Collect(r) \/ CollectorClosed(r)
Reflected(p) == SendToCollector(p) \/ ClaimSingle(p)

Next ==
    \/ \E r \in Requests : Exchange(r) \/ Timer(r) \/ Collector(r)
    \/ \E p \in Replies : Lookup(p) \/ Reflected(p)

Spec == Init /\ [][Next]_vars

\* Sleeps end, spawned tasks run and so does a call of reflected() once made;
\* nothing obliges a request to be sent or a reply to come.
FairSpec ==
    /\ Spec
    /\ \A r \in Requests : WF_vars(Timer(r)) /\ WF_vars(Collector(r))
    /\ \A p \in Replies : WF_vars(Reflected(p))

-----------------------------------------------------------------------------
(* Properties.                                                             *)

Acceptable == [r \in Requests |->
    {SingleAnswer(p) : p \in RepliesTo(r)} \union
    IF Multi(r) THEN {MultiTimeout} \union {MultiAnswer(S) : S \in SUBSET RepliesTo(r)}
    ELSE {SingleTimeout}]

Stages == {"away", "sending", "missed", "queued", "taken", "dropped", "claimed", "refused"}

\* The types, and the capacity of the collectors' channels.
TypeOK ==
    /\ asked \subseteq Requests
    /\ singles \subseteq asked
    /\ multis \subseteq {r \in asked : Multi(r)}
    /\ stage \in [Replies -> Stages]
    /\ \A p \in Replies : stage[p] /= "away" => ReflectionOf[p] \in asked
    /\ \A r \in Requests : Cardinality(At(r, "queued")) <= Cap[r]
    /\ collector \in [Requests -> {"none", "running", "done"}]
    /\ timer \in [Requests -> {"off", "armed", "fired"}]
    /\ DOMAIN answer = Requests
    /\ \A r \in Requests : answer[r] \in Acceptable[r] \union {NoAnswer}

\* The sender of a request is in singles exactly as long as the request waits:
\* whichever of the collector, the timer and a late reply answers it, no two of
\* them can, and none can take the right to answer without using it.
WaitingIffInSingles ==
    \A r \in Requests : r \in singles <=> r \in asked /\ answer[r] = NoAnswer

Fits(r, a) ==
    /\ a.of \subseteq RepliesTo(r)
    /\ a.status = "408" => timer[r] = "fired"
    /\ a.agg = "Single" /\ Multi(r) => timer[r] = "fired"
    /\ a.agg = "Multi" => /\ Multi(r)
                          /\ Kind[r] = "timer" => timer[r] = "fired"
                          /\ Kind[r] = "count" /\ a.status = "ok" => Cardinality(a.of) = Cap[r]

\* An answer is made of replies to its own request; a Count(n) that did not time
\* out is answered with exactly n of them, a 408 and the replies of a Timer come
\* only after the wait, and only after the wait can a request for many replies
\* end up with a single one.
AnswersFit == \A r \in Requests : Fits(r, answer[r])

\* reflected() returns "Not expecting reflected message" only to replies of a
\* request that has its answer, though it looks in two maps one after the other.
RefusedOnlyIfAnswered ==
    \A p \in Replies : stage[p] = "refused" => answer[ReflectionOf[p]] /= NoAnswer

\* Every echo reflected() accepted for a Timer is in its answer: those that were
\* in the channel, or still being sent, when the timer removed the request too.
AcceptedIsAnswered ==
    \A r \in Requests : Kind[r] = "timer" /\ answer[r].agg = "Multi" =>
        answer[r].of = {p \in RepliesTo(r) : stage[p] \notin {"away", "missed", "refused"}}

-----------------------------------------------------------------------------
\* What the invariants above rest on.  A request for many replies is in multis
\* exactly until its timer fires; a reply that missed multis came after that; a
\* call suspended in its send keeps the request there; and the collector of a
\* Timer ends with nothing left in its channel or on its way there.
TasksInStep ==
    /\ \A r \in Requests :
         /\ r \notin asked => answer[r] = NoAnswer
         /\ timer[r] = "off" <=> r \notin asked
         /\ Multi(r) => (r \in multis <=> timer[r] = "armed")
         /\ collector[r] = "none" <=> ~Multi(r) \/ r \notin asked
         /\ collector[r] = "done" => answer[r].agg = "Multi"
         /\ answer[r].agg = "Multi" => collector[r] = "done"
         /\ Kind[r] = "timer" /\ collector[r] = "done" => r \notin multis /\ At(r, "queued") = {}
    /\ \A p \in Replies :
         /\ stage[p] = "missed" /\ Multi(ReflectionOf[p]) => timer[ReflectionOf[p]] = "fired"
         /\ stage[p] \in {"sending", "queued", "taken", "dropped"} => Multi(ReflectionOf[p])
         /\ stage[p] = "sending" => ReflectionOf[p] \in multis
         /\ stage[p] = "dropped" => collector[ReflectionOf[p]] = "done"
         /\ stage[p] = "claimed" => answer[ReflectionOf[p]].agg = "Single"

IInv == /\ TypeOK /\ WaitingIffInSingles /\ TasksInStep
        /\ AnswersFit /\ RefusedOnlyIfAnswered /\ AcceptedIsAnswered

\* Nothing leaks: when no more requests are made both maps end up empty for
\* good, whatever replies came, late, twice or never.
NothingLeaks == <>[](singles \union multis = {})

\* Abstractly: one answer per request, and each request gets it.
Contract == INSTANCE ExchangeContract

ImplementsContract == Contract!FairSpec

\* What the comments at asynch.rs:445 and 474 say of a timer ("all we have to do
\* is remove it, the multi loop will take care of the rest"): once the timer has
\* removed the request from multis, its collector answers, if need be, and ends.
MultiLoopTakesCareOfTheRest ==
    \A r \in Requests : (Multi(r) /\ timer[r] = "fired") ~> (collector[r] = "done")

=============================================================================
