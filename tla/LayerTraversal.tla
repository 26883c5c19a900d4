--------------------------- MODULE LayerTraversal ---------------------------
(***************************************************************************)
(* How a wave gets from a particle to the code that handles it, and its    *)
(* answer back (hyperspace/src/star.rs, layer/field.rs, layer/shell.rs,    *)
(* driver/mod.rs, space/src/particle/traversal.rs).                        *)
(*                                                                         *)
(* A particle is a stack of layers between the fabric and its core.  A     *)
(* wave is injected at one of them and goes from layer to layer towards    *)
(* the fabric or towards the core.  At the Field of the particle it is     *)
(* addressed to, the bind decides: the pipeline it names asks the core, or *)
(* another particle, in waves of its own, and reflects the last answer.    *)
(* Between stars a wave travels as the load of a transport, itself a wave  *)
(* that goes through the layers of the star it is for; its way there is    *)
(* module StarFabric's.                                                    *)
(*                                                                         *)
(* Every visit of a layer is a task of its own, so that all that is in     *)
(* flight may interleave.  Whoever asks waits in the exchanger of its star *)
(* until an answer comes or its time is up (module Exchanger).             *)
(***************************************************************************)
EXTENDS Integers, Sequences, FiniteSets, SequencesExt

CONSTANTS
    Systems,    \* particles (home star, layers, shell, bind, driver) and what they ask
    MaxEarly    \* asks that time out although something is still under way

\* The layers, by their ordinals; Portal and Host are 3 and 4.  None: there is no such layer.
Gravity == 0
Field   == 1
Shell   == 2
Guest   == 5
Core    == 6
None    == 7

\* The particles live on stars, which live on themselves and whose bind hands a transport to the
\* core (star.bind); a bind reflects at its end or not at all, as all of the repository's do; the
\* driver takes waves at a layer beyond the Shell.  Whoever asks is a particle; the client of a
\* control, a layer of the control that is not its driver's.
ParticleAssumption(particles, p) ==
    LET q == particles[p]
    IN  /\ q.home \in DOMAIN particles
        /\ particles[q.home].home = q.home /\ particles[q.home].bind = <<"Core">>
        /\ q.bind \in Seq(STRING) /\ \A k \in DOMAIN q.bind : q.bind[k] = "Reflect" => k = Len(q.bind)
        /\ q.does \in STRING /\ q.layer \in (Shell + 1) .. Core
AskAssumption(particles, a) ==
    /\ a.kind \in {"ping", "signal"} /\ a.inject \in Gravity .. Core
    /\ a.to \in [p : STRING, l : Gravity .. Core] /\ a.from \in [p : STRING, l : Field .. Core]
    /\ a.from.p \in DOMAIN particles
    /\ particles[a.from.p].does = "remote" => a.from.l \notin {Field, Shell, particles[a.from.p].layer}
ASSUME SystemsAssumption ==
    /\ MaxEarly \in Nat
    /\ \A s \in Systems :
          /\ DOMAIN s.particles \subseteq STRING \ {"GLOBAL"} /\ DOMAIN s.asks \subseteq Nat
          /\ \A p \in DOMAIN s.particles : ParticleAssumption(s.particles, p)
          /\ \A i \in DOMAIN s.asks : AskAssumption(s.particles, s.asks[i])

VARIABLES
    sys,        \* the system
    flight,     \* waves under way, each with the stage it is at
    asks,       \* who waits for an answer, or what it got: "waiting", "ok", "error", "late"
    pipes,      \* pipelines being executed (PipeEx)
    busy,       \* cores that wait for an answer before they give their own
    unexpected, \* ids of answers an exchanger had no use for
    early       \* asks that gave up early

vars == <<sys, flight, asks, pipes, busy, unexpected, early>>

Particles  == DOMAIN sys.particles
Of(p)      == sys.particles[p]
Registered(p) == p = "GLOBAL" \/ p \in Particles
At(p, l)   == [p |-> p, l |-> l]

\* TraversalPlan: the layers of a kind, and the next one in a direction.
PlanOf(p) == IF p \in Particles /\ Of(p).routed THEN Field .. Core ELSE {Field, Shell, Core}
TowardsFabric(plan, l) == LET below == {k \in plan : k < l}
                          IN  IF below = {} THEN None ELSE Max(below)
TowardsCore(plan, l)   == LET above == {k \in plan : k > l}
                          IN  IF above = {} THEN None ELSE Min(above)
NextLayer(p, dir, l)   == IF dir = "Fabric" THEN TowardsFabric(PlanOf(p), l)
                          ELSE TowardsCore(PlanOf(p), l)

\* Waves.  An id says what a wave is part of: stop k of the pipeline of w is Append(w.id, k),
\* what the core asks meanwhile Append(w.id, 0), and a transport carries a whole wave.
Directed(kind, id, from, to, via) ==
    [kind |-> kind, id |-> id, from |-> from, to |-> to, via |-> via, ok |-> TRUE, load |-> <<>>]
\* Mutant: the answer goes to whoever the wave is from, whatever it came via.
Reflect_ToFrom(w, ok, from) ==
    [kind |-> "pong", id |-> w.id, from |-> from, to |-> w.from, via |-> w.from, ok |-> ok, load |-> <<>>]

Reflect(w, ok, from) ==
    [kind |-> "pong", id |-> w.id, from |-> from, to |-> w.via, via |-> w.via, ok |-> ok, load |-> <<>>]
Transport(star, to, w) ==
    [Directed("signal", Append(w.id, IF w.kind = "pong" THEN -2 ELSE -1),
              At(star, Core), At(to, Core), At(star, Core)) EXCEPT !.load = <<w>>]
IsDirected(w) == w.kind # "pong"

Injected(star, w, l, gravity) ==
    [stage |-> "inject", star |-> star, w |-> w, layer |-> l, gravity |-> gravity]
InGravity(star, w) == [stage |-> "gravity", star |-> star, w |-> w]
Stage(x, stage)    == [x EXCEPT !.stage = stage]

TypeOK ==
    /\ sys \in Systems
    /\ \A x \in flight :
         /\ x.stage \in {"inject", "field", "shell", "next", "core", "gravity"}
         /\ Of(x.star).home = x.star
         /\ x.w.kind \in {"ping", "signal", "pong"}
         /\ x.stage \in {"field", "shell", "next", "core"} =>
              x.layer \in PlanOf(x.to.p) \union {Field, Shell} /\ x.dest \in Gravity .. None
         /\ x.stage = "field" => x.layer = Field
         /\ x.stage = "shell" => x.layer = Shell /\ x.star = Of(x.point).home /\ Of(x.point).shell
         /\ x.stage = "core"  => x.layer \notin {Field, Shell} /\ x.dir = "Core"
    /\ \A id \in DOMAIN asks : asks[id].st \in {"waiting", "ok", "error", "late"}
    /\ \A x \in pipes : x.next \in 1 .. Len(Of(x.t.point).bind) + 1
    /\ \A x \in busy : Append(x.w.id, 0) \in DOMAIN asks
    /\ early \in 0 .. MaxEarly

Init ==
    /\ sys \in Systems
    /\ flight = {} /\ asks = <<>> /\ pipes = {} /\ busy = {} /\ unexpected = {} /\ early = 0

\* Exchanger.exchange and Exchanger.reflected, of one star or of a client of a control.
Entered(id, ask) == [i \in DOMAIN asks \union {id} |-> IF i = id THEN ask ELSE asks[i]]
Exchange(id, at) == Entered(id, [at |-> at, st |-> "waiting"])
Waits(id, at)    == id \in DOMAIN asks /\ asks[id].at = at /\ asks[id].st = "waiting"
Reflected(w, at) ==
    /\ asks' = IF Waits(w.id, at) THEN [asks EXCEPT ![w.id].st = IF w.ok THEN "ok" ELSE "error"] ELSE asks
    /\ unexpected' = IF Waits(w.id, at) THEN unexpected ELSE unexpected \union {w.id}

-----------------------------------------------------------------------------
\* A particle, or the client of a control, sends a wave of its own.
Ask(i) ==
    /\ <<i>> \notin DOMAIN asks
    /\ LET a == sys.asks[i]
           w == Directed(a.kind, <<i>>, a.from, a.to, a.from)
           p == Of(a.from.p)
       IN  /\ flight' = flight \union {Injected(p.home, w, a.inject, FALSE)}
           /\ asks' = Entered(<<i>>, [at |-> IF p.does = "remote" THEN "client" ELSE p.home,
                                      st |-> IF a.kind = "ping" THEN "waiting" ELSE "ok"])
    /\ UNCHANGED <<sys, pipes, busy, unexpected, early>>

-----------------------------------------------------------------------------

\* LayerTraversalEngine.
HasShell(x) == x.point \in Particles /\ Of(x.point).shell /\ Of(x.point).home = x.star

\* visit_layer and exit: what becomes of a traversal that is at its layer.
Visit(t) ==
    CASE t.layer = Field -> {Stage(t, "field")}
      [] t.layer = Shell -> IF HasShell(t) THEN {Stage(t, "shell")} ELSE {}
      [] OTHER -> IF t.dir = "Core" THEN {Stage(t, "core")} ELSE {InGravity(t.star, t.w)}

\* start_layer_traversal: direction, destination, and the first layer.
Start(x) ==
    LET w     == x.w
        same  == w.to.p = w.from.p /\ w.to.p # "GLOBAL"
        dir   == IF x.gravity \/ (same /\ x.layer < w.to.l) THEN "Core" ELSE "Fabric"
        first == IF x.layer \in {Field, Shell} THEN x.layer ELSE NextLayer(w.to.p, dir, x.layer)
    IN  [stage |-> "inject", star |-> x.star, w |-> w, to |-> w.to, dir |-> dir,
         dest |-> IF x.gravity \/ same THEN w.to.l ELSE None,
         point |-> IF dir = "Core" THEN w.to.p ELSE w.from.p, layer |-> first]

\* The traversal cannot start: no record, no such layer, no shell.
NoStart(x) ==
    \/ ~Registered(x.w.to.p)
    \/ /\ ~x.gravity
       /\ x.w.to.p = x.w.from.p
       /\ x.w.to.l # Gravity /\ x.w.to.l \notin PlanOf(x.w.to.p)
    \/ Start(x).layer = Shell /\ ~HasShell(Start(x))

\* What becomes of a wave that is injected; None: exit without a layer.
Traversed(x) ==
    LET t == Start(x)
    IN  IF NoStart(x) THEN {}
        ELSE IF t.layer = None /\ t.dir = "Core" THEN {Stage(t, "core")} ELSE Visit(t)

\* inject: a ping that cannot start is answered by the star, at the same layer.
Bounced(x) ==
    IF NoStart(x) /\ x.w.kind = "ping"
    THEN Traversed([x EXCEPT !.w = Reflect(x.w, FALSE, At(x.star, Core)), !.gravity = FALSE])
    ELSE {}

Inject(x) ==
    /\ x.stage = "inject"
    /\ flight' = (flight \ {x}) \union Traversed(x) \union Bounced(x)
    /\ UNCHANGED <<sys, asks, pipes, busy, unexpected, early>>

\* traverse_to_next_layer
Onwards(x) == [x EXCEPT !.layer = NextLayer(x.to.p, x.dir, x.layer)]
TraverseToNextLayer(x) ==
    /\ x.stage = "next"
    /\ flight' = (flight \ {x}) \union
                 (IF Onwards(x).layer # None THEN Visit(Onwards(x))
                  ELSE IF x.dir = "Fabric" THEN {InGravity(x.star, x.w)} ELSE {})
    /\ UNCHANGED <<sys, asks, pipes, busy, unexpected, early>>

-----------------------------------------------------------------------------
\* TraversalLayer.visit, of a layer that is the destination of an answer,
Delivered(x) ==
    /\ x.stage \in {"field", "shell"} /\ x.dest = x.layer /\ ~IsDirected(x.w)
    /\ flight' = flight \ {x}
    /\ Reflected(x.w, x.star)
    /\ UNCHANGED <<sys, pipes, busy, early>>

\* ... and of a layer that only lets the wave pass.
Pass(x) ==
    /\ x.stage \in {"field", "shell"} /\ x.dest # x.layer
    /\ x.stage = "field" => x.dir = "Fabric" \/ ~IsDirected(x.w)
    /\ flight' = (flight \ {x}) \union {Stage(x, "next")}
    /\ UNCHANGED <<sys, asks, pipes, busy, unexpected, early>>

\* Mutant: a wave that no route matches goes on to the core.
EnterPipeline_FallsThrough(x) ==
    /\ x.stage = "field" /\ IsDirected(x.w) /\ (x.dest = Field \/ x.dir = "Core")
    /\ flight' = (flight \ {x}) \union (IF x.dest # Field /\ Of(x.point).bind = <<>> THEN {Stage(x, "next")} ELSE {})
    /\ pipes' = IF x.dest = Field \/ Of(x.point).bind = <<>> THEN pipes
                ELSE pipes \union {[t |-> x, next |-> 1]}
    /\ UNCHANGED <<sys, asks, busy, unexpected, early>>

\* Field: a wave for the core goes into the pipeline of the bind; one that no route matches, and
\* one that is for the Field itself, ends in the log.
EnterPipeline(x) ==
    /\ x.stage = "field" /\ IsDirected(x.w) /\ (x.dest = Field \/ x.dir = "Core")
    /\ flight' = flight \ {x}
    /\ pipes' = IF x.dest = Field \/ Of(x.point).bind = <<>> THEN pipes
                ELSE pipes \union {[t |-> x, next |-> 1]}
    /\ UNCHANGED <<sys, asks, busy, unexpected, early>>

\* Shell.deliver_directed: new_session, for layers of this particle only.
ShellHandles(x) ==
    /\ x.stage = "shell" /\ x.dest = Shell /\ IsDirected(x.w)
    /\ LET pong == Reflect(x.w, x.w.from.p = x.w.to.p, At(x.point, Shell))
       IN  flight' = (flight \ {x}) \union
                     (IF x.w.kind = "ping" THEN {Injected(x.star, pong, Shell, FALSE)} ELSE {})
    /\ UNCHANGED <<sys, asks, pipes, busy, unexpected, early>>

-----------------------------------------------------------------------------
\* PipeEx.  Every stop but Reflect asks in a wave of its own, and waits if it is a ping.
Bind(x)      == Of(x.t.point).bind
InnerId(x, k) == Append(x.t.w.id, k)
StopStatus(x) == IF x.next = 1 THEN "ok"
                 ELSE IF x.t.w.kind = "signal" \/ Bind(x)[x.next - 1] = "Reflect" THEN "ok"
                 ELSE asks[InnerId(x, x.next - 1)].st
StopDone(x)   == StopStatus(x) = "ok"
StopFailed(x) == StopStatus(x) \in {"error", "late"}

PipeStep(x) ==
    /\ x.next <= Len(Bind(x)) /\ StopDone(x)
    /\ LET stop  == Bind(x)[x.next]
           t     == x.t
           inner == [Directed(t.w.kind, InnerId(x, x.next), t.w.from,
                              At(IF stop = "Core" THEN t.point ELSE stop, Core), At(t.point, Field))
                     EXCEPT !.load = t.w.load]
       IN  /\ flight' = flight \union
                (CASE stop = "Core" -> {Stage([t EXCEPT !.w = inner], "next")}
                   [] stop = "Reflect" /\ t.w.kind = "ping" -> {InGravity(t.star, Reflect(t.w, TRUE, t.to))}
                   [] stop = "Reflect" /\ t.w.kind = "signal" -> {}
                   [] OTHER -> {InGravity(t.star, [inner EXCEPT !.from = At(t.star, Core)])})
           /\ asks' = IF stop # "Reflect" /\ t.w.kind = "ping" THEN Exchange(InnerId(x, x.next), t.star)
                      ELSE asks
    /\ pipes' = (pipes \ {x}) \union {[x EXCEPT !.next = @ + 1]}
    /\ UNCHANGED <<sys, busy, unexpected, early>>

\* Mutant: a pipeline that fails says nothing.
PipeEnds_Silent(x) ==
    /\ (x.next > Len(Bind(x)) /\ StopDone(x)) \/ StopFailed(x)
    /\ pipes' = pipes \ {x}
    /\ UNCHANGED <<sys, flight, asks, busy, unexpected, early>>

\* The last stop was done, or one failed; the failure is reflected.
PipeEnds(x) ==
    /\ \/ x.next > Len(Bind(x)) /\ StopDone(x) /\ flight' = flight
       \/ /\ StopFailed(x)
          /\ flight' = flight \union {InGravity(x.t.star, Reflect(x.t.w, FALSE, At(x.t.point, Field)))}
    /\ pipes' = pipes \ {x}
    /\ UNCHANGED <<sys, asks, busy, unexpected, early>>

-----------------------------------------------------------------------------
\* Drivers.visit, DriverRunner.traverse, ParticleOuter.
\* The particle's answer, injected at Guest.
CoreAnswers(star, w, ok) ==
    IF w.kind = "ping"
    THEN {Injected(star, Reflect(w, ok, At(w.to.p, Of(w.to.p).layer)), Guest, FALSE)} ELSE {}

CoreHandles(x) ==
    LET p == x.to.p
        w == x.w
        nested == Append(w.id, 0)
    IN  /\ x.stage = "core" /\ IsDirected(x.w)
        /\ CASE x.w.load # <<>> ->      \* Star.transport: the load comes out of the fabric here
                  /\ flight' = (flight \ {x}) \union {Injected(x.star, x.w.load[1], Gravity, TRUE)}
                  /\ UNCHANGED <<asks, busy>>
             [] x.w.load = <<>> /\ Of(p).does \in {"reflect", "refuse"} ->
                  /\ flight' = (flight \ {x}) \union CoreAnswers(x.star, w, Of(p).does = "reflect")
                  /\ UNCHANGED <<asks, busy>>
             [] x.w.load = <<>> /\ Of(p).does \in {"absorb", "remote"} ->
                  /\ flight' = flight \ {x}
                  /\ UNCHANGED <<asks, busy>>
             [] OTHER ->                \* it asks another particle first
                  /\ flight' = (flight \ {x}) \union
                       {Injected(x.star, Directed("ping", nested, At(p, Of(p).layer), At(Of(p).does, Core),
                                                  At(p, Of(p).layer)), Of(p).layer, FALSE)}
                  /\ asks' = Exchange(nested, x.star)
                  /\ busy' = busy \union {[star |-> x.star, w |-> w]}
        /\ UNCHANGED <<sys, pipes, unexpected, early>>

\* Mutant: goes on only when the answer is good.
CoreResumes_IfOk(b) ==
    /\ asks[Append(b.w.id, 0)].st = "ok"
    /\ busy' = busy \ {b}
    /\ flight' = flight \union CoreAnswers(b.star, b.w, TRUE)
    /\ UNCHANGED <<sys, asks, pipes, unexpected, early>>

CoreResumes(b) ==
    LET st == asks[Append(b.w.id, 0)].st
    IN  /\ st # "waiting"
        /\ busy' = busy \ {b}
        /\ flight' = flight \union CoreAnswers(b.star, b.w, st = "ok")
        /\ UNCHANGED <<sys, asks, pipes, unexpected, early>>

\* ParticleOuter.deliver_reflected: to the exchanger of the star, or out to the client.
CoreGetsAnswer(x) ==
    /\ x.stage = "core" /\ ~IsDirected(x.w)
    /\ flight' = flight \ {x}
    /\ IF x.w.to.l = Of(x.to.p).layer THEN Reflected(x.w, x.star)
       ELSE IF Of(x.to.p).does = "remote" THEN Reflected(x.w, "client")
       ELSE UNCHANGED <<asks, unexpected>>
    /\ UNCHANGED <<sys, pipes, busy, early>>

-----------------------------------------------------------------------------
\* to_gravity and shard: the global executor, this star, or a transport to another.
Arrives(x) ==
    IF x.w.to.p = "GLOBAL"
    THEN IF x.w.kind = "ping" THEN {InGravity(x.star, Reflect(x.w, TRUE, At("GLOBAL", Core)))} ELSE {}
    ELSE IF ~Registered(x.w.to.p) THEN {}
    ELSE LET home == Of(x.w.to.p).home
         IN  IF home = x.star THEN {Injected(home, x.w, Gravity, TRUE)}
             ELSE {Injected(home, Transport(x.star, home, x.w), Gravity, TRUE)}

Shard(x) ==
    /\ x.stage = "gravity"
    /\ flight' = (flight \ {x}) \union Arrives(x)
    /\ UNCHANGED <<sys, asks, pipes, busy, unexpected, early>>

\* The exchanger's timer: nothing can answer any more, or (seldom) something still could.
Quiet == /\ flight = {}
         /\ \A x \in pipes : StopStatus(x) = "waiting"
         /\ \A b \in busy : asks[Append(b.w.id, 0)].st = "waiting"
Timeout(id) ==
    /\ asks[id].st = "waiting"
    /\ Quiet \/ early < MaxEarly
    /\ early' = IF Quiet THEN early ELSE early + 1
    /\ asks' = [asks EXCEPT ![id].st = "late"]
    /\ UNCHANGED <<sys, flight, pipes, busy, unexpected>>

Step(x) == \/ Inject(x) \/ TraverseToNextLayer(x) \/ Delivered(x) \/ Pass(x)
           \/ EnterPipeline(x) \/ ShellHandles(x) \/ CoreHandles(x) \/ CoreGetsAnswer(x) \/ Shard(x)

Next ==
    \/ \E i \in DOMAIN sys.asks : Ask(i)
    \/ \E x \in flight : Step(x)
    \/ \E x \in pipes : PipeStep(x) \/ PipeEnds(x)
    \/ \E b \in busy : CoreResumes(b)
    \/ \E id \in DOMAIN asks : Timeout(id)

Spec == Init /\ [][Next]_vars
\* Tasks run, channels have room, and every ask has a timer.
FairSpec == Spec /\ WF_vars(Next)

-----------------------------------------------------------------------------
\* A core hears only what came through the pipeline of its own Field, whose answer that Field
\* will see, or what another layer of its particle asks.
CoreOnlyThroughField ==
    \A x \in flight :
        x.stage = "core" /\ IsDirected(x.w) =>
            x.w.via = At(x.to.p, Field) \/ x.w.from.p = x.to.p

\* No ask is answered twice: an exchanger has no use for an answer only if its ask had timed out.
UnexpectedOnlyIfLate ==
    \A id \in unexpected : id \in DOMAIN asks /\ asks[id].st = "late"

\* Every ask ends, with all the pipelines and cores that were working on it, whatever layers,
\* drivers and cores make of its waves or swallow.  (No transport between stars is lost here.)
EverythingEnds ==
    <>[](flight = {} /\ pipes = {} /\ busy = {} /\ \A id \in DOMAIN asks : asks[id].st # "waiting")

=============================================================================
