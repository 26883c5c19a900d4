---------------------------- MODULE LayerAnswers ----------------------------
(***************************************************************************)
(* What the layers promise to whoever asks through them: the answer of the *)
(* particles asked, whatever way it took.  The reference reads it off the  *)
(* binds and cores alone; module LayerTraversal says how it gets there.    *)
(***************************************************************************)
EXTENDS LayerTraversal

\* A star has a shell, a driver's layer is one of its kind's, and what a core asks is another
\* particle.  Whoever asks does so at a layer of its own or at its Shell, in the name of a layer
\* that it has beyond the Field.
ASSUME AnswersAssumption ==
    \A s \in Systems :
        /\ \A p \in DOMAIN s.particles :
              LET q == s.particles[p]
              IN  s.particles[q.home].shell /\ q.does # p /\ (q.routed \/ q.layer = Core)
        /\ \A i \in DOMAIN s.asks :
              LET a == s.asks[i]
              IN  /\ a.from.l \in {Shell, Core} \/ (s.particles[a.from.p].routed /\ Shell < a.from.l)
                  /\ a.inject \in {Shell, a.from.l}

\* Told by a whole that goes on with more only if a part, which is told, is well.  A part that
\* never answers is heard of as late, or as the error its asker makes of it.
OrElse(told, more) == (told \ {"ok"}) \union (IF "late" \in told THEN {"error"} ELSE {})
                      \union (IF "ok" \in told THEN more ELSE {})

\* Who is behind the Field for a wave: the core, or the Shell, which has sessions for its own only.
Hearers == {"core", "session", "stranger"}
Hearer(from, to) == IF to.l # Shell THEN "core" ELSE IF from.p = to.p THEN "session" ELSE "stranger"

\* Told by the particle to which a wave comes from the fabric, by its core, and by the hearer
\* behind its Field; rest says it of what is left of a pipeline, stop k and all after it.
RestOf(p, k, hearer) == [p |-> p, k |-> k, hearer |-> hearer]
FabricTells(rest, to, hearer) ==
    IF to.p = "GLOBAL" THEN {"ok"}
    ELSE IF ~Registered(to.p) \/ to.l = Field THEN {"late"}
    ELSE IF Of(to.p).bind = <<>> THEN {"late"} ELSE rest[RestOf(to.p, 1, hearer)]
CoreTells(rest, p) ==
    CASE Of(p).does = "reflect" -> {"ok"}
      [] Of(p).does = "refuse" -> {"error"}
      [] Of(p).does \in {"absorb", "remote"} -> {"late"}
      [] OTHER -> OrElse(IF Registered(Of(p).does) THEN FabricTells(rest, At(Of(p).does, Core), "core")
                         ELSE {"error"}, {"ok"})
HearerTells(rest, p, hearer) ==
    IF ~Of(p).shell THEN {"late"}
    ELSE IF hearer = "session" THEN {"ok"} ELSE IF hearer = "stranger" THEN {"error"} ELSE CoreTells(rest, p)
StopTells(rest, q) ==
    IF Of(q.p).bind[q.k] = "Core" THEN HearerTells(rest, q.p, q.hearer)
    ELSE FabricTells(rest, At(Of(q.p).bind[q.k], Core), "core")
PipelineTells[q \in [p : Particles, k : Nat \ {0}, hearer : Hearers]] ==
    IF q.k > Len(Of(q.p).bind) THEN {"late"}
    ELSE IF Of(q.p).bind[q.k] = "Reflect" THEN {"ok"}
    ELSE OrElse(StopTells(PipelineTells, q), PipelineTells[RestOf(q.p, q.k + 1, q.hearer)])

\* An answer, too, has to pass the Shell, and a core takes answers for its driver's layer only.
Hears(v) == v.l = Field \/ (Of(v.p).shell /\ (v.l \in {Shell, Of(v.p).layer} \/ Of(v.p).does = "remote"))
Back(v, told) == IF Hears(v) THEN told ELSE {"late"}

\* Told to whoever asks at layer l: on the way to the fabric a particle's own Shell may come first.
Told(from, to, l) ==
    LET own  == to.p = from.p
        plan == PlanOf(to.p)
    IN  IF ~Registered(to.p) \/ (own /\ to.l \notin plan \union {Gravity}) THEN {"error"}
        ELSE IF own /\ l < to.l THEN CoreTells(PipelineTells, to.p)
        ELSE IF own /\ to.l = Shell /\ Shell \in {l, TowardsFabric(plan, l)} THEN {"ok"}
        ELSE FabricTells(PipelineTells, to, Hearer(from, to))

\* What an asker may be told, read off the particles alone: no layers, no stars, no tasks.
Tells(a) == Back(a.from, Told(a.from, a.to, a.inject))

\* Whoever asks is told what the particles asked make of it, across layers, stars and nested
\* asks: an answer that exists gets back to the asker's own exchanger and to no other, errors
\* included.  Only a timer that fires too early may stand in for it.
ToldWhatIsSo ==
    \A i \in DOMAIN sys.asks :
        LET a == sys.asks[i] IN
        a.kind = "ping" /\ <<i>> \in DOMAIN asks =>
            asks[<<i>>].st \in {"waiting"} \union Tells(a)
                               \union (IF early > 0 THEN {"late", "error"} ELSE {})

=============================================================================
