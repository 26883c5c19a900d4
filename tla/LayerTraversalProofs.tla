------------------------ MODULE LayerTraversalProofs ------------------------
(***************************************************************************)
(* Theorems about LayerTraversal, for any particles, binds, drivers and    *)
(* asks.                                                                   *)
(*                                                                         *)
(* Parts says of each wave under way, pipeline and waiting core by itself  *)
(* where it may be and what it carries.  Books relates them to each other  *)
(* and to the exchangers: everything that may still become an answer is a  *)
(* token, and a ledger of tokens says that no two of them are for the same *)
(* ask and that whoever is asked is owed the answer.  Promised compares    *)
(* them with what the particles tell (LayerAnswers): whatever may still    *)
(* become an answer comes to one that its asker may be told.               *)
(***************************************************************************)
EXTENDS LayerAnswers, FiniteSetTheorems, TLAPS

-----------------------------------------------------------------------------
(* The systems.                                                            *)

\* A particle, and the star it lives on.
HomeOf(p, star) == p \in Particles /\ star = Of(p).home

LEMMA ParticleFacts ==
    ASSUME sys \in Systems, NEW p \in Particles
    PROVE  /\ p \in STRING /\ p # "GLOBAL" /\ Registered(p)
           /\ HomeOf(p, Of(p).home) /\ HomeOf(Of(p).home, Of(p).home) /\ Of(p).home \in STRING
           /\ Of(Of(p).home).bind = <<"Core">>
           /\ Of(p).bind \in Seq(STRING)
           /\ \A k \in 1 .. Len(Of(p).bind) : Of(p).bind[k] = "Reflect" => k = Len(Of(p).bind)
           /\ Of(p).does \in STRING /\ Of(p).layer \in 3 .. 6
<1> USE DEF Particles, Of
<1>1. ParticleAssumption(sys.particles, p) /\ DOMAIN sys.particles \subseteq STRING \ {"GLOBAL"}
  BY SystemsAssumption
<1>2. /\ Of(p).home \in Particles /\ Of(Of(p).home).home = Of(p).home
      /\ Of(Of(p).home).bind = <<"Core">>
      /\ Of(p).bind \in Seq(STRING)
      /\ \A k \in DOMAIN Of(p).bind : Of(p).bind[k] = "Reflect" => k = Len(Of(p).bind)
      /\ Of(p).does \in STRING /\ Of(p).layer \in 3 .. 6
  BY <1>1 DEF ParticleAssumption, Shell, Core
<1>3. DOMAIN Of(p).bind = 1 .. Len(Of(p).bind)
  BY <1>2
<1> QED
  BY <1>1, <1>2, <1>3 DEF HomeOf, Registered

LEMMA AskFacts ==
    ASSUME sys \in Systems, NEW i \in DOMAIN sys.asks
    PROVE  /\ i \in Nat
           /\ sys.asks[i].kind \in {"ping", "signal"} /\ sys.asks[i].inject \in 0 .. 6
           /\ sys.asks[i].to \in [p : STRING, l : 0 .. 6] /\ sys.asks[i].from \in [p : STRING, l : 1 .. 6]
           /\ sys.asks[i].from.p \in Particles
           /\ Of(sys.asks[i].from.p).does = "remote"
              => sys.asks[i].from.l \notin {1, 2, Of(sys.asks[i].from.p).layer}
<1>1. AskAssumption(sys.particles, sys.asks[i]) /\ DOMAIN sys.asks \subseteq Nat
  BY SystemsAssumption
<1> QED
  BY <1>1 DEF AskAssumption, Particles, Of, Gravity, Field, Shell, Core

-----------------------------------------------------------------------------
(* Layers.                                                                 *)

LEMMA Plans == \A p : PlanOf(p) \subseteq 1 .. 6 /\ {1, 2, 6} \subseteq PlanOf(p)
  BY DEF PlanOf, Field, Shell, Core

LEMMA Extremes ==
    ASSUME NEW S \in SUBSET (1 .. 6), S # {}
    PROVE  /\ Min(S) \in S /\ \A k \in S : Min(S) <= k
           /\ Max(S) \in S /\ \A k \in S : k <= Max(S)
<1>1. S \subseteq Int /\ \A k \in S : k = 1 \/ k = 2 \/ k = 3 \/ k = 4 \/ k = 5 \/ k = 6
  OBVIOUS
<1>2. \E x \in S : \A y \in S : x <= y
  <2>1. CASE 1 \in S
    BY <1>1, <2>1
  <2>2. CASE 1 \notin S /\ 2 \in S
    BY <1>1, <2>2
  <2>3. CASE 1 \notin S /\ 2 \notin S /\ 3 \in S
    BY <1>1, <2>3
  <2>4. CASE 1 \notin S /\ 2 \notin S /\ 3 \notin S /\ 4 \in S
    BY <1>1, <2>4
  <2>5. CASE 1 \notin S /\ 2 \notin S /\ 3 \notin S /\ 4 \notin S
    <3>1. \A k \in S : k = 5 \/ k = 6
      BY <1>1, <2>5
    <3>2. CASE 5 \in S
      BY <3>1, <3>2
    <3>3. CASE 5 \notin S
      <4>1. 6 \in S /\ \A k \in S : k = 6
        BY <3>1, <3>3
      <4> QED
        BY <4>1
    <3> QED
      BY <3>2, <3>3
  <2> QED
    BY <2>1, <2>2, <2>3, <2>4, <2>5
<1>3. \E x \in S : \A y \in S : x >= y
  <2>1. CASE 6 \in S
    BY <1>1, <2>1
  <2>2. CASE 6 \notin S /\ 5 \in S
    BY <1>1, <2>2
  <2>3. CASE 6 \notin S /\ 5 \notin S /\ 4 \in S
    BY <1>1, <2>3
  <2>4. CASE 6 \notin S /\ 5 \notin S /\ 4 \notin S /\ 3 \in S
    BY <1>1, <2>4
  <2>5. CASE 6 \notin S /\ 5 \notin S /\ 4 \notin S /\ 3 \notin S
    <3>1. \A k \in S : k = 1 \/ k = 2
      BY <1>1, <2>5
    <3>2. CASE 2 \in S
      BY <3>1, <3>2
    <3>3. CASE 2 \notin S
      <4>1. 1 \in S /\ \A k \in S : k = 1
        BY <3>1, <3>3
      <4> QED
        BY <4>1
    <3> QED
      BY <3>2, <3>3
  <2> QED
    BY <2>1, <2>2, <2>3, <2>4, <2>5
<1>4. Min(S) \in S /\ \A k \in S : Min(S) <= k
  BY <1>2 DEF Min
<1>5. Max(S) \in S /\ \A k \in S : Max(S) >= k
  BY <1>3 DEF Max
<1> QED
  BY <1>1, <1>4, <1>5

\* Towards the core: the next layer above, if there is one.
LEMMA CoreWards ==
    ASSUME NEW p, NEW l \in 0 .. 6
    PROVE  LET n == NextLayer(p, "Core", l) IN
           \/ n = 7 /\ \A k \in PlanOf(p) : k <= l
           \/ n \in PlanOf(p) /\ l < n /\ \A k \in PlanOf(p) : l < k => n <= k
<1> DEFINE above == {k \in PlanOf(p) : k > l}
<1>1. above \in SUBSET (1 .. 6)
  BY Plans
<1>2. NextLayer(p, "Core", l) = IF above = {} THEN 7 ELSE Min(above)
  BY DEF NextLayer, TowardsCore, None
<1>3. CASE above = {}
  <2>1. \A k \in PlanOf(p) : k <= l
    BY <1>3, Plans
  <2> QED
    BY <1>2, <1>3, <2>1
<1>4. CASE above # {}
  <2>1. Min(above) \in above /\ \A k \in above : Min(above) <= k
    BY <1>1, <1>4, Extremes
  <2> QED
    BY <1>2, <1>4, <2>1
<1> QED
  BY <1>3, <1>4

LEMMA FabricWards ==
    ASSUME NEW p, NEW l \in 0 .. 6
    PROVE  LET n == NextLayer(p, "Fabric", l) IN n = 7 \/ (n \in PlanOf(p) /\ n < l)
<1> DEFINE below == {k \in PlanOf(p) : k < l}
<1>1. below \in SUBSET (1 .. 6)
  BY Plans
<1>2. NextLayer(p, "Fabric", l) = IF below = {} THEN 7 ELSE Max(below)
  BY DEF NextLayer, TowardsFabric, None
<1>3. CASE below # {}
  <2>1. Max(below) \in below
    BY <1>1, <1>3, Extremes
  <2> QED
    BY <1>2, <1>3, <2>1
<1> QED
  BY <1>2, <1>3

\* A wave out of the fabric comes to the Field, then to the Shell, then to what is beyond.
LEMMA FirstLayers ==
    ASSUME NEW p
    PROVE  /\ NextLayer(p, "Core", 0) = 1 /\ NextLayer(p, "Core", 1) = 2
           /\ NextLayer(p, "Core", 2) \in PlanOf(p) /\ 2 < NextLayer(p, "Core", 2)
<1> DEFINE n(l) == NextLayer(p, "Core", l)
<1>1. \A l \in 0 .. 6 : \/ n(l) = 7 /\ \A k \in PlanOf(p) : k <= l
                        \/ n(l) \in PlanOf(p) /\ l < n(l) /\ \A k \in PlanOf(p) : l < k => n(l) <= k
  BY CoreWards
<1> HIDE DEF n
<1>2. PlanOf(p) \subseteq 1 .. 6 /\ 1 \in PlanOf(p) /\ 2 \in PlanOf(p) /\ 6 \in PlanOf(p)
  BY Plans
<1>3. n(0) \in PlanOf(p) /\ n(0) <= 1
  BY <1>1, <1>2
<1>4. n(1) \in PlanOf(p) /\ 1 < n(1) /\ n(1) <= 2
  BY <1>1, <1>2
<1>5. n(2) \in PlanOf(p) /\ 2 < n(2)
  BY <1>1, <1>2
<1>6. n(0) = 1 /\ n(1) = 2
  BY <1>2, <1>3, <1>4
<1> QED
  BY <1>5, <1>6 DEF n

-----------------------------------------------------------------------------
(* What is under way.                                                      *)

Places == [p : STRING, l : Gravity .. Core]
WavesWith(loads) == [kind : {"ping", "signal", "pong"}, id : Seq(Int), from : Places, to : Places,
                     via : Places, ok : BOOLEAN, load : loads]
PlainWaves == WavesWith({<<>>})

\* The load of a transport, or the wave itself.
Payload(w) == IF w.load = <<>> THEN w ELSE w.load[1]

\* Pings and answers know where an answer goes; only a signal carries another wave.
WaveOK(w) ==
    /\ w \in WavesWith(Seq(PlainWaves))
    /\ w.kind # "signal" => w.load = <<>> /\ w.via.p \in Particles /\ Field <= w.via.l
    /\ w.kind = "pong" => w.to = w.via
CarriedOK(w) == WaveOK(w) /\ WaveOK(Payload(w)) /\ Payload(w) \in PlainWaves

\* A transport is for the core of a star on which the particle lives that its load is for.
LoadOK(w, star) == w.load # <<>> => w.to = At(star, Core) /\ HomeOf(Payload(w).to.p, star)

InjectOK(x) ==
    /\ x \in [stage : {"inject"}, star : STRING, w : WavesWith(Seq(PlainWaves)), layer : Gravity .. Core,
              gravity : BOOLEAN]
    /\ HomeOf(x.star, x.star) /\ LoadOK(x.w, x.star)
    /\ x.gravity => x.layer = Gravity /\ HomeOf(x.w.to.p, x.star)
    /\ ~x.gravity => HomeOf(x.w.from.p, x.star) /\ x.w.load = <<>>

GravityOK(x) == x \in [stage : {"gravity"}, star : STRING, w : PlainWaves] /\ HomeOf(x.star, x.star)

Traversals == [stage : {"inject", "field", "shell", "next", "core"}, star : STRING,
               w : WavesWith(Seq(PlainWaves)), to : Places, dir : {"Core", "Fabric"},
               dest : Gravity .. None, point : STRING, layer : Field .. None]

\* Where a traversal is.
StageOK(x) ==
    /\ x.stage # "inject"
    /\ x.stage = "field" => x.layer = Field
    /\ x.stage = "shell" => x.layer = Shell /\ HasShell(x)
    /\ x.stage = "next"  => x.layer \in {Field, Shell}
    /\ x.stage = "core"  => x.layer \in PlanOf(x.to.p) \ {Field, Shell} /\ x.dir = "Core"

\* Where it goes: towards the core only on the star of its particle.
WayOK(x) ==
    /\ HomeOf(x.star, x.star) /\ x.to.p = x.w.to.p
    /\ x.dir = "Core" => HomeOf(x.to.p, x.star) /\ x.point = x.to.p
    /\ x.dest # None => HomeOf(x.to.p, x.star) /\ x.dest = x.to.l
    /\ x.w.load # <<>> => x.dir = "Core" /\ x.to = x.w.to /\ x.dest = Core
    /\ LoadOK(x.w, x.star)

\* An answer does not go beyond the layer it is for.
AnswerWayOK(x) ==
    x.w.kind = "pong" =>
        /\ x.to = x.w.to
        /\ x.dir = "Core" =>
              /\ x.dest = x.w.to.l
              /\ x.stage \in {"field", "shell"} => x.layer <= x.dest
              /\ x.stage = "next" => x.layer < x.dest
              /\ x.stage = "core" => Shell < x.dest

\* Past the Field, towards the core, goes only what the pipeline sent and what is from the
\* particle itself.
ThroughField(x) ==
    x.dir = "Core" /\ IsDirected(x.w) /\ x.stage # "field" =>
        x.w.via = At(x.to.p, Field) \/ x.w.from.p = x.to.p

TraversalOK(x) == x \in Traversals /\ StageOK(x) /\ WayOK(x) /\ AnswerWayOK(x) /\ ThroughField(x)

FlightOK(x) == CarriedOK(x.w) /\ (InjectOK(x) \/ GravityOK(x) \/ TraversalOK(x))

\* A pipeline works on what came to a Field and is for the core.
PipeOK(y) ==
    /\ y \in [t : Traversals, next : Nat] /\ CarriedOK(y.t.w) /\ TraversalOK(y.t)
    /\ y.t.stage = "field" /\ y.t.dir = "Core" /\ IsDirected(y.t.w)
    /\ y.next \in 1 .. Len(Bind(y)) + 1

BusyOK(b) ==
    /\ b \in [star : STRING, w : PlainWaves] /\ CarriedOK(b.w) /\ IsDirected(b.w)
    /\ HomeOf(b.w.to.p, b.star) /\ HomeOf(b.star, b.star)

Statuses == {"waiting", "ok", "error", "late"}
AskOK(a) == a = [at |-> a.at, st |-> a.st] /\ a.st \in Statuses
AsksOK   == \A id \in DOMAIN asks : AskOK(asks[id])

Parts ==
    /\ sys \in Systems /\ early \in 0 .. MaxEarly /\ AsksOK
    /\ \A x \in flight : FlightOK(x)
    /\ \A y \in pipes : PipeOK(y)
    /\ \A b \in busy : BusyOK(b) /\ Append(b.w.id, 0) \in DOMAIN asks

-----------------------------------------------------------------------------
(* These say nothing that a step can change but the system, and it is the  *)
(* same for good.                                                          *)

LEMMA SameSystem ==
    ASSUME sys' = sys
    PROVE  /\ \A p, s : HomeOf(p, s)' = HomeOf(p, s)
           /\ \A p : PlanOf(p)' = PlanOf(p) /\ Of(p)' = Of(p)
           /\ Particles' = Particles
<1>1. Particles' = Particles /\ \A p : Of(p)' = Of(p)
  BY DEF Particles, Of
<1>2. \A p, s : HomeOf(p, s)' = HomeOf(p, s)
  BY <1>1 DEF HomeOf
<1>3. \A p : PlanOf(p)' = PlanOf(p)
  BY <1>1 DEF PlanOf
<1> QED
  BY <1>1, <1>2, <1>3

LEMMA SameItems ==
    ASSUME sys' = sys
    PROVE  /\ \A x : FlightOK(x) => FlightOK(x)'
           /\ \A y : PipeOK(y) => PipeOK(y)'
           /\ \A b : BusyOK(b) => BusyOK(b)'
<1>1. /\ \A p, s : HomeOf(p, s)' = HomeOf(p, s)
      /\ \A p : PlanOf(p)' = PlanOf(p) /\ Of(p)' = Of(p)
      /\ Particles' = Particles
  BY SameSystem
<1>2. \A w : CarriedOK(w) => CarriedOK(w)'
  <2>1. \A w : WaveOK(w) => WaveOK(w)'
    BY <1>1 DEF WaveOK
  <2> QED
    BY <2>1 DEF CarriedOK
<1>3. \A w, s : LoadOK(w, s)' = LoadOK(w, s)
  BY <1>1 DEF LoadOK
<1>4. ASSUME NEW x, InjectOK(x) PROVE InjectOK(x)'
  BY <1>1, <1>3, <1>4 DEF InjectOK
<1>5. ASSUME NEW x, GravityOK(x) PROVE GravityOK(x)'
  BY <1>1, <1>5 DEF GravityOK
<1>6. ASSUME NEW x, TraversalOK(x) PROVE TraversalOK(x)'
  <2>1. HasShell(x)' = HasShell(x)
    BY <1>1 DEF HasShell
  <2>2. StageOK(x)'
    BY <1>1, <1>6, <2>1 DEF TraversalOK, StageOK
  <2>3. WayOK(x)'
    BY <1>1, <1>3, <1>6 DEF TraversalOK, WayOK
  <2> QED
    BY <1>6, <2>2, <2>3 DEF TraversalOK, AnswerWayOK, ThroughField
<1>7. ASSUME NEW x, FlightOK(x) PROVE FlightOK(x)'
  <2>1. CarriedOK(x.w)'
    BY <1>2, <1>7 DEF FlightOK
  <2>2. (InjectOK(x) \/ GravityOK(x) \/ TraversalOK(x))'
    BY <1>4, <1>5, <1>6, <1>7 DEF FlightOK
  <2> QED
    BY <2>1, <2>2 DEF FlightOK
<1>8. ASSUME NEW y, PipeOK(y) PROVE PipeOK(y)'
  <2>1. CarriedOK(y.t.w)' /\ TraversalOK(y.t)'
    BY <1>2, <1>6, <1>8 DEF PipeOK
  <2>2. Bind(y)' = Bind(y)
    BY <1>1 DEF Bind
  <2> QED
    BY <1>8, <2>1, <2>2 DEF PipeOK
<1>9. ASSUME NEW b, BusyOK(b) PROVE BusyOK(b)'
  <2>1. CarriedOK(b.w)'
    BY <1>2, <1>9 DEF BusyOK
  <2> QED
    BY <1>1, <1>9, <2>1 DEF BusyOK
<1> QED
  BY <1>7, <1>8, <1>9

-----------------------------------------------------------------------------
(* Waves.                                                                  *)

\* A wave carries nothing, or one wave that carries nothing.
LEMMA Loads ==
    ASSUME NEW w, WaveOK(w)
    PROVE  /\ w \in WavesWith(Seq(PlainWaves)) /\ w.kind \in {"ping", "signal", "pong"}
           /\ w.from \in Places /\ w.to \in Places /\ w.via \in Places /\ w.id \in Seq(Int) /\ w.ok \in BOOLEAN
           /\ w.load = <<>> => w \in PlainWaves /\ CarriedOK(w) /\ Payload(w) = w
           /\ w.load # <<>> => Payload(w) = w.load[1] /\ Payload(w) \in PlainWaves /\ w.kind = "signal"
           /\ w.kind # "signal" => w.load = <<>>
<1>1. w \in WavesWith(Seq(PlainWaves)) /\ (w.kind # "signal" => w.load = <<>>)
  BY DEF WaveOK
<1>2. /\ w.kind \in {"ping", "signal", "pong"}
      /\ w.from \in Places /\ w.to \in Places /\ w.via \in Places /\ w.id \in Seq(Int) /\ w.ok \in BOOLEAN
      /\ w.load \in Seq(PlainWaves)
  BY <1>1 DEF WavesWith
<1>3. CASE w.load = <<>>
  <2>1. w \in PlainWaves
    BY <1>1, <1>3 DEF WavesWith, PlainWaves
  <2>2. Payload(w) = w
    BY <1>3 DEF Payload
  <2> QED
    BY <1>1, <1>2, <1>3, <2>1, <2>2 DEF CarriedOK
<1>4. CASE w.load # <<>>
  <2>1. Len(w.load) \in Nat /\ Len(w.load) # 0
    BY <1>2, <1>4
  <2>2. w.load[1] \in PlainWaves
    BY <1>2, <2>1
  <2> QED
    BY <1>1, <1>2, <1>4, <2>2 DEF Payload
<1> QED
  BY <1>3, <1>4

LEMMA PlainFields ==
    ASSUME NEW w \in PlainWaves
    PROVE  /\ w.kind \in {"ping", "signal", "pong"} /\ w.id \in Seq(Int) /\ w.ok \in BOOLEAN /\ w.load = <<>>
           /\ w.from \in Places /\ w.to \in Places /\ w.via \in Places
           /\ w.from.p \in STRING /\ w.from.l \in 0 .. 6 /\ w.to.p \in STRING /\ w.to.l \in 0 .. 6
           /\ w.via.p \in STRING /\ w.via.l \in 0 .. 6
           /\ w \in WavesWith(Seq(PlainWaves)) /\ Payload(w) = w
<1>1. /\ w.kind \in {"ping", "signal", "pong"} /\ w.id \in Seq(Int) /\ w.ok \in BOOLEAN /\ w.load = <<>>
      /\ w.from \in Places /\ w.to \in Places /\ w.via \in Places
  BY DEF PlainWaves, WavesWith
<1>2. <<>> \in Seq(PlainWaves)
  OBVIOUS
<1>3. w \in WavesWith(Seq(PlainWaves))
  BY <1>2 DEF PlainWaves, WavesWith
<1>4. \A v \in Places : v.p \in STRING /\ v.l \in 0 .. 6
  BY DEF Places, Gravity, Core
<1> QED
  BY <1>1, <1>3, <1>4 DEF Payload

LEMMA PlainMade ==
    ASSUME NEW w \in PlainWaves,
           w.kind # "signal" => w.via.p \in Particles /\ Field <= w.via.l,
           w.kind = "pong" => w.to = w.via
    PROVE  WaveOK(w) /\ CarriedOK(w)
<1>1. w \in WavesWith(Seq(PlainWaves)) /\ w.load = <<>> /\ Payload(w) = w
  BY PlainFields
<1>2. WaveOK(w)
  BY <1>1 DEF WaveOK
<1> QED
  BY <1>1, <1>2 DEF CarriedOK

LEMMA PlacesMade == \A p \in STRING, l \in 0 .. 6 : At(p, l) \in Places /\ At(p, l).p = p /\ At(p, l).l = l
  BY DEF At, Places, Gravity, Core

LEMMA DirectedMade ==
    ASSUME NEW kind \in {"ping", "signal"}, NEW id \in Seq(Int), NEW from \in Places, NEW to \in Places,
           NEW via \in Places, kind = "ping" => via.p \in Particles /\ Field <= via.l
    PROVE  LET w == Directed(kind, id, from, to, via) IN
           /\ w \in PlainWaves /\ CarriedOK(w) /\ Payload(w) = w /\ IsDirected(w)
           /\ w.kind = kind /\ w.id = id /\ w.from = from /\ w.to = to /\ w.via = via /\ w.load = <<>>
<1> DEFINE w == Directed(kind, id, from, to, via)
<1>1. w \in PlainWaves
  BY DEF Directed, PlainWaves, WavesWith
<1>2. w.kind = kind /\ w.id = id /\ w.from = from /\ w.to = to /\ w.via = via /\ w.load = <<>>
  BY DEF Directed
<1> HIDE DEF w
<1>3. CarriedOK(w)
  BY <1>1, <1>2, PlainMade
<1>4. Payload(w) = w /\ IsDirected(w)
  BY <1>2 DEF Payload, IsDirected
<1> QED
  BY <1>1, <1>2, <1>3, <1>4 DEF w

\* An answer to a ping.
LEMMA ReflectMade ==
    ASSUME NEW w, CarriedOK(w), w.kind = "ping", NEW ok \in BOOLEAN, NEW from \in Places
    PROVE  LET r == Reflect(w, ok, from) IN
           /\ r \in PlainWaves /\ CarriedOK(r) /\ Payload(r) = r /\ Payload(w) = w
           /\ r.kind = "pong" /\ r.id = w.id /\ r.from = from /\ r.to = w.via /\ r.via = w.via /\ r.load = <<>>
<1> DEFINE r == Reflect(w, ok, from)
<1>1. w \in PlainWaves /\ w.via.p \in Particles /\ Field <= w.via.l /\ Payload(w) = w
  BY Loads DEF CarriedOK, WaveOK
<1>2. w.id \in Seq(Int) /\ w.via \in Places
  BY <1>1, PlainFields
<1>3. r \in PlainWaves
  BY <1>2 DEF Reflect, PlainWaves, WavesWith
<1>4. r.kind = "pong" /\ r.id = w.id /\ r.from = from /\ r.to = w.via /\ r.via = w.via /\ r.load = <<>>
  BY DEF Reflect
<1> HIDE DEF r
<1>5. CarriedOK(r)
  BY <1>1, <1>3, <1>4, PlainMade
<1>6. Payload(r) = r
  BY <1>4 DEF Payload
<1> QED
  BY <1>1, <1>3, <1>4, <1>5, <1>6 DEF r

LEMMA TransportMade ==
    ASSUME NEW star \in STRING, NEW to \in STRING, NEW w \in PlainWaves, WaveOK(w)
    PROVE  LET t == Transport(star, to, w) IN
           /\ CarriedOK(t) /\ Payload(t) = w /\ t.load # <<>> /\ t.to = At(to, Core)
<1> DEFINE t == Transport(star, to, w)
           n == Append(w.id, IF w.kind = "pong" THEN -2 ELSE -1)
<1>1. n \in Seq(Int)
  <2>1. w.id \in Seq(Int)
    BY PlainFields
  <2> QED
    BY <2>1
<1>2. At(star, Core) \in Places /\ At(to, Core) \in Places
  BY PlacesMade DEF Core
<1>3. t = [kind |-> "signal", id |-> n, from |-> At(star, Core), to |-> At(to, Core),
           via |-> At(star, Core), ok |-> TRUE, load |-> <<w>>]
  <2>1. t = [Directed("signal", n, At(star, Core), At(to, Core), At(star, Core)) EXCEPT !.load = <<w>>]
    BY DEF Transport
  <2> HIDE DEF t, n
  <2> QED
    BY <2>1 DEF Directed
<1> HIDE DEF t, n
<1>4. <<w>> \in Seq(PlainWaves) /\ <<w>> # <<>> /\ <<w>>[1] = w
  OBVIOUS
<1>5. t \in WavesWith(Seq(PlainWaves)) /\ t.kind = "signal" /\ t.to = At(to, Core) /\ t.load = <<w>>
  BY <1>1, <1>2, <1>3, <1>4 DEF WavesWith
<1>6. Payload(t) = w /\ t.load # <<>>
  BY <1>4, <1>5 DEF Payload
<1>7. WaveOK(t)
  BY <1>5 DEF WaveOK
<1> QED
  BY <1>5, <1>6, <1>7 DEF CarriedOK, t

-----------------------------------------------------------------------------
(* What is put under way.                                                  *)

LEMMA InjectMade ==
    ASSUME NEW star, NEW w, NEW l \in 0 .. 6, NEW g \in BOOLEAN, CarriedOK(w), HomeOf(star, star),
           star \in STRING, LoadOK(w, star),
           g => l = 0 /\ HomeOf(w.to.p, star),
           ~g => HomeOf(w.from.p, star) /\ w.load = <<>>
    PROVE  FlightOK(Injected(star, w, l, g))
<1>1. w \in WavesWith(Seq(PlainWaves))
  BY Loads DEF CarriedOK
<1>2. InjectOK(Injected(star, w, l, g))
  BY <1>1 DEF Injected, InjectOK, Gravity, Core
<1>3. Injected(star, w, l, g).w = w
  BY DEF Injected
<1> QED
  BY <1>2, <1>3 DEF FlightOK

LEMMA GravityMade ==
    ASSUME NEW star, NEW w \in PlainWaves, CarriedOK(w), HomeOf(star, star), star \in STRING
    PROVE  FlightOK(InGravity(star, w))
<1>1. GravityOK(InGravity(star, w)) /\ InGravity(star, w).w = w
  BY DEF GravityOK, InGravity
<1> QED
  BY <1>1 DEF FlightOK

\* Which of the three a thing under way is.
LEMMA FlightKinds ==
    ASSUME NEW x, FlightOK(x)
    PROVE  /\ CarriedOK(x.w) /\ x.star \in STRING /\ HomeOf(x.star, x.star)
           /\ x.stage = "inject" => InjectOK(x)
           /\ x.stage = "gravity" => GravityOK(x)
           /\ x.stage \notin {"inject", "gravity"} => TraversalOK(x)
<1>1. CarriedOK(x.w)
  BY DEF FlightOK
<1>2. CASE InjectOK(x)
  BY <1>1, <1>2 DEF InjectOK
<1>3. CASE GravityOK(x)
  BY <1>1, <1>3 DEF GravityOK
<1>4. CASE TraversalOK(x)
  <2>1. x.star \in STRING /\ x.stage \in {"field", "shell", "next", "core"} /\ HomeOf(x.star, x.star)
    BY <1>4 DEF TraversalOK, Traversals, StageOK, WayOK
  <2> QED
    BY <1>1, <1>4, <2>1
<1> QED
  BY <1>2, <1>3, <1>4 DEF FlightOK

-----------------------------------------------------------------------------
(* Layer by layer.                                                         *)

\* A traversal at another stage.
LEMMA Staged ==
    ASSUME NEW t \in Traversals, NEW s \in {"field", "shell", "next", "core"}
    PROVE  LET y == Stage(t, s) IN
           /\ y \in Traversals /\ y.stage = s /\ y.star = t.star /\ y.w = t.w /\ y.to = t.to /\ y.dir = t.dir
           /\ y.dest = t.dest /\ y.point = t.point /\ y.layer = t.layer
           /\ HasShell(y) = HasShell(t) /\ WayOK(y) = WayOK(t)
<1> DEFINE y == Stage(t, s)
<1>1. /\ y \in Traversals /\ y.stage = s /\ y.star = t.star /\ y.w = t.w /\ y.to = t.to /\ y.dir = t.dir
      /\ y.dest = t.dest /\ y.point = t.point /\ y.layer = t.layer
  BY DEF Stage, Traversals
<1> HIDE DEF y
<1>2. HasShell(y) = HasShell(t)
  BY <1>1 DEF HasShell
<1>3. WayOK(y) = WayOK(t)
  BY <1>1 DEF WayOK
<1> QED
  BY <1>1, <1>2, <1>3 DEF y

LEMMA TraversalFields ==
    ASSUME NEW t \in Traversals
    PROVE  /\ t.star \in STRING /\ t.w \in WavesWith(Seq(PlainWaves)) /\ t.to \in Places /\ t.to.p \in STRING
           /\ t.to.l \in 0 .. 6 /\ t.dir \in {"Core", "Fabric"} /\ t.dest \in 0 .. 7 /\ t.point \in STRING
           /\ t.layer \in 1 .. 7
  BY DEF Traversals, Places, Gravity, Field, Core, None

\* A traversal that may visit its layer.
MayVisit(t) ==
    /\ t \in Traversals /\ CarriedOK(t.w) /\ WayOK(t)
    /\ t.dir = "Core" => t.layer \in PlanOf(t.to.p)
    /\ t.w.kind = "pong" =>
          /\ t.to = t.w.to
          /\ t.dir = "Core" => t.dest = t.w.to.l /\ (t.layer <= t.dest \/ Shell < t.dest)
    /\ t.dir = "Core" /\ IsDirected(t.w) /\ t.layer # Field =>
          t.w.via = At(t.to.p, Field) \/ t.w.from.p = t.to.p

LEMMA VisitMade ==
    ASSUME NEW t, MayVisit(t)
    PROVE  \A y \in Visit(t) : FlightOK(y) /\ y.w = t.w
<1>1. t \in Traversals /\ CarriedOK(t.w) /\ WayOK(t) /\ (t.dir = "Core" => t.layer \in PlanOf(t.to.p))
  BY DEF MayVisit
<1>2. t.dest \in 0 .. 7 /\ t.layer \in 1 .. 7 /\ t.star \in STRING
  BY <1>1, TraversalFields
<1>3. \A y : TraversalOK(y) /\ y.w = t.w => FlightOK(y) /\ y.w = t.w
  BY <1>1 DEF FlightOK
<1>4. CASE t.layer = Field
  <2> DEFINE y == Stage(t, "field")
  <2>1. Visit(t) = {y}
    BY <1>4 DEF Visit, Field, Shell
  <2>2. /\ y \in Traversals /\ y.stage = "field" /\ y.star = t.star /\ y.w = t.w /\ y.to = t.to /\ y.dir = t.dir
        /\ y.dest = t.dest /\ y.point = t.point /\ y.layer = t.layer /\ WayOK(y)
    BY <1>1, Staged
  <2> HIDE DEF y
  <2>3. StageOK(y) /\ ThroughField(y)
    BY <1>4, <2>2 DEF StageOK, ThroughField
  <2>4. AnswerWayOK(y)
    BY <1>2, <1>4, <2>2 DEF MayVisit, AnswerWayOK, Field, Shell
  <2>5. TraversalOK(y)
    BY <2>2, <2>3, <2>4 DEF TraversalOK
  <2> QED
    BY <1>3, <2>1, <2>2, <2>5
<1>5. CASE t.layer = Shell /\ HasShell(t)
  <2> DEFINE y == Stage(t, "shell")
  <2>1. Visit(t) = {y}
    BY <1>5 DEF Visit, Field, Shell
  <2>2. /\ y \in Traversals /\ y.stage = "shell" /\ y.star = t.star /\ y.w = t.w /\ y.to = t.to /\ y.dir = t.dir
        /\ y.dest = t.dest /\ y.point = t.point /\ y.layer = t.layer /\ WayOK(y) /\ HasShell(y)
    BY <1>1, <1>5, Staged
  <2> HIDE DEF y
  <2>3. StageOK(y)
    BY <1>5, <2>2 DEF StageOK
  <2>4. ThroughField(y)
    BY <1>5, <2>2 DEF MayVisit, ThroughField, Field, Shell
  <2>5. AnswerWayOK(y)
    BY <1>2, <1>5, <2>2 DEF MayVisit, AnswerWayOK, Shell
  <2>6. TraversalOK(y)
    BY <2>2, <2>3, <2>4, <2>5 DEF TraversalOK
  <2> QED
    BY <1>3, <2>1, <2>2, <2>6
<1>6. CASE t.layer = Shell /\ ~HasShell(t)
  BY <1>6 DEF Visit, Field, Shell
<1>7. CASE t.layer \notin {Field, Shell} /\ t.dir = "Core"
  <2> DEFINE y == Stage(t, "core")
  <2>1. Visit(t) = {y}
    BY <1>7 DEF Visit
  <2>2. /\ y \in Traversals /\ y.stage = "core" /\ y.star = t.star /\ y.w = t.w /\ y.to = t.to /\ y.dir = t.dir
        /\ y.dest = t.dest /\ y.point = t.point /\ y.layer = t.layer /\ WayOK(y)
    BY <1>1, Staged
  <2> HIDE DEF y
  <2>3. StageOK(y)
    BY <1>1, <1>7, <2>2 DEF StageOK
  <2>4. ThroughField(y)
    BY <1>7, <2>2 DEF MayVisit, ThroughField
  <2>5. AnswerWayOK(y)
    BY <1>2, <1>7, <2>2 DEF MayVisit, AnswerWayOK, Field, Shell
  <2>6. TraversalOK(y)
    BY <2>2, <2>3, <2>4, <2>5 DEF TraversalOK
  <2> QED
    BY <1>3, <2>1, <2>2, <2>6
<1>8. CASE t.layer \notin {Field, Shell} /\ t.dir # "Core"
  <2>1. Visit(t) = {InGravity(t.star, t.w)}
    BY <1>8 DEF Visit
  <2>2. t.w.load = <<>> /\ HomeOf(t.star, t.star)
    BY <1>1, <1>8 DEF WayOK
  <2>3. t.w \in PlainWaves
    BY <1>1, <2>2, Loads DEF CarriedOK
  <2>4. FlightOK(InGravity(t.star, t.w))
    BY <1>1, <1>2, <2>2, <2>3, GravityMade
  <2>5. InGravity(t.star, t.w).w = t.w
    BY DEF InGravity
  <2> QED
    BY <2>1, <2>4, <2>5
<1> QED
  BY <1>4, <1>5, <1>6, <1>7, <1>8

LEMMA StartFields ==
    ASSUME NEW x
    PROVE  LET t    == Start(x)
               w    == x.w
               same == w.to.p = w.from.p /\ w.to.p # "GLOBAL"
           IN  /\ t.star = x.star /\ t.w = w /\ t.to = w.to /\ t.stage = "inject"
               /\ t.dir = IF x.gravity \/ (same /\ x.layer < w.to.l) THEN "Core" ELSE "Fabric"
               /\ t.dest = IF x.gravity \/ same THEN w.to.l ELSE None
               /\ t.point = IF t.dir = "Core" THEN w.to.p ELSE w.from.p
               /\ t.layer = IF x.layer \in {Field, Shell} THEN x.layer ELSE NextLayer(w.to.p, t.dir, x.layer)
               /\ t = [stage |-> t.stage, star |-> t.star, w |-> t.w, to |-> t.to, dir |-> t.dir,
                       dest |-> t.dest, point |-> t.point, layer |-> t.layer]
  BY DEF Start

LEMMA StartMade ==
    ASSUME sys \in Systems, NEW x, InjectOK(x), CarriedOK(x.w)
    PROVE  MayVisit(Start(x)) /\ Start(x).w = x.w /\ ~(Start(x).layer = None /\ Start(x).dir = "Core")
<1> DEFINE t == Start(x)
           w == x.w
           same == w.to.p = w.from.p /\ w.to.p # "GLOBAL"
<1>1. /\ t.star = x.star /\ t.w = w /\ t.to = w.to /\ t.stage = "inject"
      /\ t.dir = IF x.gravity \/ (same /\ x.layer < w.to.l) THEN "Core" ELSE "Fabric"
      /\ t.dest = IF x.gravity \/ same THEN w.to.l ELSE None
      /\ t.point = IF t.dir = "Core" THEN w.to.p ELSE w.from.p
      /\ t.layer = IF x.layer \in {Field, Shell} THEN x.layer ELSE NextLayer(w.to.p, t.dir, x.layer)
      /\ t = [stage |-> t.stage, star |-> t.star, w |-> t.w, to |-> t.to, dir |-> t.dir,
              dest |-> t.dest, point |-> t.point, layer |-> t.layer]
  BY StartFields
<1> HIDE DEF t
<1>2. /\ x.star \in STRING /\ w \in WavesWith(Seq(PlainWaves)) /\ x.layer \in 0 .. 6 /\ x.gravity \in BOOLEAN
      /\ HomeOf(x.star, x.star) /\ LoadOK(w, x.star)
      /\ x.gravity => x.layer = 0 /\ HomeOf(w.to.p, x.star)
      /\ ~x.gravity => HomeOf(w.from.p, x.star) /\ w.load = <<>>
  BY DEF InjectOK, Gravity, Core
<1>3. /\ WaveOK(w) /\ w.to \in Places /\ w.from \in Places
      /\ w.kind = "pong" => w.to = w.via /\ 1 <= w.via.l
  BY Loads DEF CarriedOK, WaveOK, Field
<1> HIDE DEF w
<1>4. w.to.p \in STRING /\ w.to.l \in 0 .. 6 /\ w.from.p \in STRING
  BY <1>3 DEF Places, Gravity, Core
<1>5. \A l \in 0 .. 6 : LET n == NextLayer(w.to.p, "Core", l) IN
           \/ n = 7 /\ \A k \in PlanOf(w.to.p) : k <= l
           \/ n \in PlanOf(w.to.p) /\ l < n /\ \A k \in PlanOf(w.to.p) : l < k => n <= k
  BY CoreWards
<1>6. \A l \in 0 .. 6 : LET n == NextLayer(w.to.p, "Fabric", l) IN n = 7 \/ (n \in PlanOf(w.to.p) /\ n < l)
  BY FabricWards
<1>7. /\ PlanOf(w.to.p) \subseteq 1 .. 6 /\ 1 \in PlanOf(w.to.p) /\ 2 \in PlanOf(w.to.p)
      /\ 6 \in PlanOf(w.to.p)
  BY Plans
<1>8. t.dir \in {"Core", "Fabric"}
  BY <1>1
<1>9. t.layer \in 1 .. 7
  <2>1. CASE x.layer \in {Field, Shell}
    BY <1>1, <2>1 DEF Field, Shell
  <2>2. CASE x.layer \notin {Field, Shell} /\ t.dir = "Core"
    <3>1. t.layer = 7 \/ t.layer \in PlanOf(w.to.p)
      BY <1>1, <1>2, <1>5, <2>2
    <3> QED
      BY <1>7, <3>1
  <2>3. CASE x.layer \notin {Field, Shell} /\ t.dir = "Fabric"
    <3>1. t.layer = 7 \/ t.layer \in PlanOf(w.to.p)
      BY <1>1, <1>2, <1>6, <2>3
    <3> QED
      BY <1>7, <3>1
  <2> QED
    BY <1>8, <2>1, <2>2, <2>3
<1>10. t \in Traversals
  <2>1. t.dest \in 0 .. 7 /\ t.point \in STRING
    BY <1>1, <1>4 DEF None
  <2> QED
    BY <1>1, <1>2, <1>3, <1>8, <1>9, <2>1 DEF Traversals, Gravity, Field, None
<1>11. t.dir = "Core" => (x.gravity /\ x.layer = 0) \/ (~x.gravity /\ same /\ x.layer < w.to.l)
  BY <1>1, <1>2
<1>12. t.dir = "Core" => HomeOf(w.to.p, x.star)
  BY <1>2, <1>11
<1>13. t.dir = "Core" => t.dest = w.to.l
  BY <1>1, <1>11
<1>14. WayOK(t)
  <2>1. HomeOf(t.star, t.star) /\ t.to.p = t.w.to.p
    BY <1>1, <1>2
  <2>2. t.dir = "Core" => HomeOf(t.to.p, t.star) /\ t.point = t.to.p
    BY <1>1, <1>12
  <2>3. t.dest # None => HomeOf(t.to.p, t.star) /\ t.dest = t.to.l
    <3> HAVE t.dest # None
    <3>1. x.gravity \/ same
      BY <1>1
    <3>2. HomeOf(w.to.p, x.star)
      BY <1>2, <3>1
    <3> QED
      BY <1>1, <3>1, <3>2
  <2>4. t.w.load # <<>> => t.dir = "Core" /\ t.to = t.w.to /\ t.dest = Core
    <3> HAVE t.w.load # <<>>
    <3>1. x.gravity /\ w.to = At(x.star, Core)
      BY <1>1, <1>2 DEF LoadOK
    <3>2. w.to.l = Core
      BY <3>1 DEF At
    <3> QED
      BY <1>1, <3>1, <3>2
  <2>5. LoadOK(t.w, t.star)
    BY <1>1, <1>2
  <2> QED
    BY <2>1, <2>2, <2>3, <2>4, <2>5 DEF WayOK
<1>15. t.dir = "Core" => t.layer \in PlanOf(t.to.p)
  <2> HAVE t.dir = "Core"
  <2>1. CASE x.layer \in {Field, Shell}
    BY <1>1, <1>7, <2>1 DEF Field, Shell
  <2>2. CASE x.layer \notin {Field, Shell}
    <3>1. t.layer = NextLayer(w.to.p, "Core", x.layer)
      BY <1>1, <2>2
    <3>2. x.layer < 6
      BY <1>2, <1>4, <1>11
    <3>3. ~\A k \in PlanOf(w.to.p) : k <= x.layer
      BY <1>2, <1>7, <3>2
    <3> QED
      BY <1>1, <1>2, <1>5, <3>1, <3>3
  <2> QED
    BY <2>1, <2>2
<1>16. ASSUME t.w.kind = "pong", t.dir = "Core"
       PROVE  t.dest = t.w.to.l /\ (t.layer <= t.dest \/ Shell < t.dest)
  <2>1. t.dest = w.to.l /\ 1 <= w.to.l
    BY <1>1, <1>3, <1>13, <1>16
  <2>2. CASE x.gravity
    <3>1. t.layer = NextLayer(w.to.p, "Core", 0)
      BY <1>1, <1>2, <1>16, <2>2 DEF Field, Shell
    <3>2. t.layer = 1
      BY <3>1, FirstLayers
    <3> QED
      BY <1>1, <2>1, <3>2
  <2>3. CASE ~x.gravity
    <3>1. x.layer < w.to.l
      BY <1>11, <1>16, <2>3
    <3>2. CASE x.layer \in {Field, Shell}
      <4>1. t.layer = x.layer
        BY <1>1, <3>2
      <4> QED
        BY <1>1, <1>2, <1>4, <2>1, <3>1, <4>1
    <3>3. CASE x.layer = 0
      <4>1. t.layer = NextLayer(w.to.p, "Core", 0)
        BY <1>1, <1>16, <3>3 DEF Field, Shell
      <4>2. t.layer = 1
        BY <4>1, FirstLayers
      <4> QED
        BY <1>1, <2>1, <4>2
    <3>4. CASE x.layer \notin {Field, Shell} /\ x.layer # 0
      <4>1. x.layer >= 3
        BY <1>2, <3>4 DEF Field, Shell
      <4>2. Shell < w.to.l
        BY <1>2, <1>4, <3>1, <4>1 DEF Shell
      <4> QED
        BY <1>1, <2>1, <4>2
    <3> QED
      BY <3>2, <3>3, <3>4
  <2> QED
    BY <1>2, <2>2, <2>3
<1>17. ASSUME t.dir = "Core", t.layer # Field
       PROVE  t.w.from.p = t.to.p
  <2>1. CASE x.gravity /\ x.layer = 0
    <3>1. t.layer = NextLayer(w.to.p, "Core", 0)
      BY <1>1, <1>17, <2>1 DEF Field, Shell
    <3> QED
      BY <1>17, <3>1, FirstLayers DEF Field
  <2>2. CASE same
    BY <1>1, <2>2
  <2> QED
    BY <1>11, <1>17, <2>1, <2>2
<1>18. CarriedOK(t.w)
  BY <1>1 DEF w
<1>19. t.w.kind = "pong" => t.to = t.w.to
  BY <1>1
<1>20. MayVisit(t)
  BY <1>10, <1>14, <1>15, <1>16, <1>17, <1>18, <1>19 DEF MayVisit
<1>21. ~(t.layer = None /\ t.dir = "Core")
  BY <1>1, <1>7, <1>15 DEF None
<1> QED
  BY <1>1, <1>20, <1>21 DEF t, w

LEMMA TraversedMade ==
    ASSUME sys \in Systems, NEW x, InjectOK(x), CarriedOK(x.w)
    PROVE  \A y \in Traversed(x) : FlightOK(y) /\ y.w = x.w
<1>1. MayVisit(Start(x)) /\ Start(x).w = x.w /\ ~(Start(x).layer = None /\ Start(x).dir = "Core")
  BY StartMade
<1>2. Traversed(x) \subseteq Visit(Start(x))
  BY <1>1 DEF Traversed
<1>3. \A y \in Visit(Start(x)) : FlightOK(y) /\ y.w = Start(x).w
  BY <1>1, VisitMade
<1> QED
  BY <1>1, <1>2, <1>3

\* A ping that cannot start: the answer to it.
LEMMA BouncedMade ==
    ASSUME sys \in Systems, NEW x, InjectOK(x), CarriedOK(x.w)
    PROVE  \A y \in Bounced(x) : /\ FlightOK(y) /\ x.w.kind = "ping" /\ NoStart(x)
                                 /\ y.w = Reflect(x.w, FALSE, At(x.star, Core))
<1> SUFFICES ASSUME NoStart(x), x.w.kind = "ping"
             PROVE  \A y \in Bounced(x) : FlightOK(y) /\ y.w = Reflect(x.w, FALSE, At(x.star, Core))
  BY DEF Bounced
<1> DEFINE r == Reflect(x.w, FALSE, At(x.star, Core))
           z == [x EXCEPT !.w = r, !.gravity = FALSE]
<1>1. x.star \in STRING /\ HomeOf(x.star, x.star) /\ x.layer \in 0 .. 6
  BY DEF InjectOK, Gravity, Core
<1>2. At(x.star, Core) \in Places /\ At(x.star, Core).p = x.star
  BY <1>1 DEF At, Places, Gravity, Core
<1>3. r \in PlainWaves /\ CarriedOK(r) /\ r.from = At(x.star, Core) /\ r.load = <<>>
  BY <1>2, ReflectMade
<1>4. r \in WavesWith(Seq(PlainWaves))
  BY <1>3, PlainFields
<1> HIDE DEF r
<1>5. /\ z.star = x.star /\ z.w = r /\ z.gravity = FALSE /\ z.layer = x.layer
      /\ z \in [stage : {"inject"}, star : STRING, w : WavesWith(Seq(PlainWaves)), layer : Gravity .. Core,
                gravity : BOOLEAN]
  BY <1>4 DEF InjectOK
<1> HIDE DEF z
<1>6. InjectOK(z)
  BY <1>1, <1>2, <1>3, <1>5 DEF InjectOK, LoadOK
<1>7. \A y \in Traversed(z) : FlightOK(y) /\ y.w = z.w
  BY <1>3, <1>5, <1>6, TraversedMade
<1>8. Bounced(x) = Traversed(z)
  BY DEF Bounced, r, z
<1> QED
  BY <1>5, <1>7, <1>8 DEF r

-----------------------------------------------------------------------------
(* Who waits.                                                              *)

LEMMA EnteredOK ==
    ASSUME AsksOK, NEW id, NEW at, NEW st \in Statuses, asks' = Entered(id, [at |-> at, st |-> st])
    PROVE  /\ AsksOK' /\ DOMAIN asks' = DOMAIN asks \union {id} /\ asks'[id] = [at |-> at, st |-> st]
           /\ \A i \in DOMAIN asks : i # id => asks'[i] = asks[i]
<1>1. /\ DOMAIN asks' = DOMAIN asks \union {id} /\ asks'[id] = [at |-> at, st |-> st]
      /\ \A i \in DOMAIN asks : i # id => asks'[i] = asks[i]
  BY DEF Entered
<1>2. AskOK([at |-> at, st |-> st])
  BY DEF AskOK
<1>3. \A i \in DOMAIN asks' : AskOK(asks'[i])
  BY <1>1, <1>2 DEF AsksOK
<1> QED
  BY <1>1, <1>3 DEF AsksOK, AskOK

LEMMA SettledOK ==
    ASSUME AsksOK, NEW id \in DOMAIN asks, NEW st \in Statuses, asks' = [asks EXCEPT ![id].st = st]
    PROVE  /\ AsksOK' /\ DOMAIN asks' = DOMAIN asks /\ asks'[id].st = st /\ asks'[id].at = asks[id].at
           /\ \A i \in DOMAIN asks : i # id => asks'[i] = asks[i]
<1> DEFINE ask == [asks[id] EXCEPT !.st = st]
<1>1. AskOK(ask) /\ ask.st = st /\ ask.at = asks[id].at
  <2>1. asks[id] = [at |-> asks[id].at, st |-> asks[id].st]
    BY DEF AsksOK, AskOK
  <2>2. ask = [at |-> asks[id].at, st |-> st]
    BY <2>1
  <2> HIDE DEF ask
  <2> QED
    BY <2>2 DEF AskOK
<1>2. asks' = [asks EXCEPT ![id] = ask]
  OBVIOUS
<1> HIDE DEF ask
<1>3. DOMAIN asks' = DOMAIN asks /\ asks'[id] = ask /\ \A i \in DOMAIN asks : i # id => asks'[i] = asks[i]
  BY <1>2
<1>4. \A i \in DOMAIN asks' : AskOK(asks'[i])
  BY <1>1, <1>3 DEF AsksOK
<1> QED
  BY <1>1, <1>3, <1>4 DEF AsksOK, AskOK

LEMMA ReflectedOK ==
    ASSUME AsksOK, NEW w, NEW at, w.ok \in BOOLEAN, Reflected(w, at)
    PROVE  AsksOK' /\ DOMAIN asks' = DOMAIN asks
<1>1. CASE Waits(w.id, at)
  <2>1. w.id \in DOMAIN asks
    BY <1>1 DEF Waits
  <2>2. PICK st \in Statuses : asks' = [asks EXCEPT ![w.id].st = st]
    BY <1>1 DEF Reflected, Statuses
  <2> QED
    BY <2>1, <2>2, SettledOK
<1>2. CASE ~Waits(w.id, at)
  BY <1>2 DEF Reflected, AsksOK
<1> QED
  BY <1>1, <1>2

-----------------------------------------------------------------------------
(* The steps of pipelines.                                                 *)

LEMMA PipeFacts ==
    ASSUME sys \in Systems, NEW y, PipeOK(y)
    PROVE  /\ y.t \in Traversals /\ y.next \in 1 .. Len(Bind(y)) + 1 /\ y.next \in Nat
           /\ CarriedOK(y.t.w) /\ y.t.w.kind \in {"ping", "signal"} /\ y.t.w.id \in Seq(Int)
           /\ y.t.dest # None => y.t.dest = y.t.to.l
           /\ y.t.star \in STRING /\ HomeOf(y.t.star, y.t.star) /\ HomeOf(y.t.point, y.t.star)
           /\ y.t.point = y.t.to.p /\ y.t.point \in STRING /\ y.t.to \in Places /\ y.t.layer = Field
           /\ y.t.point \in Particles /\ WayOK(y.t) /\ y.t.dir = "Core"
           /\ Bind(y) \in Seq(STRING) /\ Len(Bind(y)) \in Nat
           /\ \A k \in 1 .. Len(Bind(y)) : Bind(y)[k] = "Reflect" => k = Len(Bind(y))
           /\ y.t.w.load # <<>> => Bind(y) = <<"Core">>
<1>1. /\ y.t \in Traversals /\ y.next \in 1 .. Len(Bind(y)) + 1 /\ y.next \in Nat
      /\ CarriedOK(y.t.w) /\ IsDirected(y.t.w) /\ WayOK(y.t) /\ StageOK(y.t) /\ y.t.stage = "field"
      /\ y.t.dir = "Core"
  BY DEF PipeOK, TraversalOK
<1>2. y.t.w.kind \in {"ping", "signal"} /\ y.t.w.id \in Seq(Int)
  BY <1>1, Loads DEF CarriedOK, IsDirected
<1>3. y.t.star \in STRING /\ y.t.point \in STRING /\ y.t.to \in Places
  BY <1>1, TraversalFields
<1>4. /\ HomeOf(y.t.star, y.t.star) /\ HomeOf(y.t.point, y.t.star) /\ y.t.point = y.t.to.p
      /\ y.t.dest # None => y.t.dest = y.t.to.l
      /\ y.t.w.load # <<>> => y.t.to = y.t.w.to /\ y.t.w.to = At(y.t.star, Core)
  BY <1>1 DEF WayOK, LoadOK
<1>5. y.t.point \in Particles /\ y.t.star \in Particles /\ Of(y.t.star).home = y.t.star
  BY <1>4 DEF HomeOf
<1>6. /\ Bind(y) \in Seq(STRING)
      /\ \A k \in 1 .. Len(Bind(y)) : Bind(y)[k] = "Reflect" => k = Len(Bind(y))
  BY <1>5, ParticleFacts DEF Bind
<1>7. Of(y.t.star).bind = <<"Core">>
  BY <1>5, ParticleFacts
<1>8. y.t.w.load # <<>> => Bind(y) = <<"Core">>
  BY <1>4, <1>7 DEF Bind, At
<1>9. y.t.layer = Field
  BY <1>1 DEF StageOK
<1>10. Len(Bind(y)) \in Nat
  BY <1>6
<1> QED
  BY <1>1, <1>2, <1>3, <1>4, <1>5, <1>6, <1>8, <1>9, <1>10

\* The wave of the next stop.
StopOf(y) == Bind(y)[y.next]
Inner(y) == [Directed(y.t.w.kind, InnerId(y, y.next), y.t.w.from,
                      At(IF StopOf(y) = "Core" THEN y.t.point ELSE StopOf(y), Core), At(y.t.point, Field))
             EXCEPT !.load = y.t.w.load]
\* The same, from the star: what another particle gets.
Outer(y) == [Inner(y) EXCEPT !.from = At(y.t.star, Core)]
Stepped(y) == [y EXCEPT !.next = @ + 1]

LEMMA StopFacts ==
    ASSUME sys \in Systems, NEW y, PipeOK(y), y.next <= Len(Bind(y))
    PROVE  /\ StopOf(y) \in STRING
           /\ y.t.w.load # <<>> => StopOf(y) = "Core" /\ y.next = 1
           /\ PipeOK(Stepped(y)) /\ Stepped(y).t = y.t /\ Stepped(y).next = y.next + 1
           /\ Bind(Stepped(y)) = Bind(y)
<1>1. /\ y.next \in 1 .. Len(Bind(y)) + 1 /\ Bind(y) \in Seq(STRING) /\ Len(Bind(y)) \in Nat
      /\ y.t.w.load # <<>> => Bind(y) = <<"Core">>
  BY PipeFacts
<1>2. StopOf(y) \in STRING
  BY <1>1 DEF StopOf
<1>3. ASSUME y.t.w.load # <<>> PROVE StopOf(y) = "Core" /\ y.next = 1
  <2>1. Bind(y) = <<"Core">> /\ Len(Bind(y)) = 1
    BY <1>1, <1>3
  <2>2. y.next = 1
    BY <1>1, <2>1
  <2> QED
    BY <2>1, <2>2 DEF StopOf
<1>4. y \in [t : Traversals, next : Nat]
  BY DEF PipeOK
<1> DEFINE z == Stepped(y)
<1>5. z \in [t : Traversals, next : Nat] /\ z.t = y.t /\ z.next = y.next + 1
  BY <1>4 DEF Stepped
<1> HIDE DEF z
<1>6. Bind(z) = Bind(y)
  BY <1>5 DEF Bind
<1>7. z.next \in 1 .. Len(Bind(z)) + 1
  BY <1>1, <1>5, <1>6
<1>8. PipeOK(z)
  BY <1>5, <1>7 DEF PipeOK
<1> QED
  BY <1>2, <1>3, <1>5, <1>6, <1>8 DEF z

LEMMA InnerMade ==
    ASSUME sys \in Systems, NEW y, PipeOK(y), y.next <= Len(Bind(y))
    PROVE  /\ CarriedOK(Inner(y)) /\ IsDirected(Inner(y)) /\ Inner(y).kind = y.t.w.kind
           /\ Inner(y).id = InnerId(y, y.next) /\ Inner(y).via = At(y.t.point, Field)
           /\ Inner(y).load = y.t.w.load
           /\ Inner(y).to = At(IF StopOf(y) = "Core" THEN y.t.point ELSE StopOf(y), Core)
           /\ y.t.w.load # <<>> => Payload(Inner(y)) = Payload(y.t.w)
           /\ y.t.w.load = <<>> => Inner(y) \in PlainWaves /\ Payload(Inner(y)) = Inner(y)
           /\ InnerId(y, y.next) \in Seq(Int)
<1> DEFINE to == At(IF StopOf(y) = "Core" THEN y.t.point ELSE StopOf(y), Core)
           via == At(y.t.point, Field)
           d == Directed(y.t.w.kind, InnerId(y, y.next), y.t.w.from, to, via)
           w == y.t.w
           v == Inner(y)
<1>1. /\ CarriedOK(w) /\ w.kind \in {"ping", "signal"} /\ w.id \in Seq(Int) /\ y.next \in Nat
      /\ y.t.point \in STRING /\ y.t.point \in Particles
  BY PipeFacts
<1>2. StopOf(y) \in STRING
  BY StopFacts
<1>3. to \in Places /\ via \in Places /\ via.p = y.t.point /\ via.l = Field
  BY <1>1, <1>2 DEF At, Places, Gravity, Field, Core
<1>4. InnerId(y, y.next) \in Seq(Int)
  BY <1>1 DEF InnerId
<1>5. w.from \in Places /\ WaveOK(w) /\ w \in WavesWith(Seq(PlainWaves))
  BY <1>1, Loads DEF CarriedOK
<1>6. w.load \in Seq(PlainWaves)
  BY <1>5 DEF WavesWith
<1>7. v = [d EXCEPT !.load = w.load]
  BY DEF Inner
<1> HIDE DEF to, via
<1>8. d = [kind |-> w.kind, id |-> InnerId(y, y.next), from |-> w.from, to |-> to, via |-> via,
           ok |-> TRUE, load |-> <<>>]
  BY DEF Directed
<1> HIDE DEF d, v, w
<1>9. v = [kind |-> w.kind, id |-> InnerId(y, y.next), from |-> w.from, to |-> to, via |-> via,
           ok |-> TRUE, load |-> w.load]
  BY <1>7, <1>8
<1>10. /\ v.kind = w.kind /\ v.id = InnerId(y, y.next) /\ v.via = via /\ v.to = to /\ v.load = w.load
  BY <1>9
<1>11. v \in WavesWith(Seq(PlainWaves))
  BY <1>1, <1>3, <1>4, <1>5, <1>6, <1>9 DEF WavesWith
<1>12. WaveOK(v)
  BY <1>1, <1>3, <1>5, <1>10, <1>11 DEF WaveOK, Field
<1>13. IsDirected(v)
  BY <1>1, <1>10 DEF IsDirected
<1>14. CASE w.load = <<>>
  BY <1>4, <1>10, <1>12, <1>13, <1>14, Loads DEF to, via, v, w
<1>15. CASE w.load # <<>>
  <2>1. Payload(v) = Payload(w)
    BY <1>10, <1>15 DEF Payload
  <2>2. CarriedOK(v)
    BY <1>1, <1>12, <2>1 DEF CarriedOK
  <2> QED
    BY <1>4, <1>10, <1>13, <1>15, <2>1, <2>2 DEF to, via, v, w
<1> QED
  BY <1>14, <1>15

\* To the core, through the layers that are left.
Onto(y) == Stage([y.t EXCEPT !.w = Inner(y)], "next")

LEMMA OntoMade ==
    ASSUME sys \in Systems, NEW y, PipeOK(y), y.next <= Len(Bind(y)), StopOf(y) = "Core"
    PROVE  FlightOK(Onto(y)) /\ Onto(y).w = Inner(y)
<1> DEFINE t == y.t
           u == [y.t EXCEPT !.w = Inner(y)]
           v == Inner(y)
           z == Onto(y)
<1>1. /\ t \in Traversals /\ WayOK(t) /\ t.dir = "Core" /\ t.layer = Field /\ HomeOf(t.point, t.star)
      /\ t.point = t.to.p
  BY PipeFacts
<1>2. /\ CarriedOK(v) /\ IsDirected(v) /\ v.load = t.w.load /\ v.to = At(t.point, Core) /\ v.via = At(t.point, Field)
      /\ y.t.w.load # <<>> => Payload(v) = Payload(t.w)
  BY InnerMade
<1>3. v \in WavesWith(Seq(PlainWaves))
  BY <1>2, Loads DEF CarriedOK
<1> HIDE DEF t, v
<1>4. u = [t EXCEPT !.w = v]
  BY DEF t, v
<1>5. /\ u \in Traversals /\ u.star = t.star /\ u.w = v /\ u.to = t.to /\ u.dir = t.dir
      /\ u.dest = t.dest /\ u.point = t.point /\ u.layer = t.layer
  BY <1>1, <1>3, <1>4 DEF Traversals
<1> HIDE DEF u
<1>6. z = Stage(u, "next")
  BY DEF Onto, u
<1>7. /\ z \in Traversals /\ z.stage = "next" /\ z.star = t.star /\ z.w = v /\ z.to = t.to /\ z.dir = t.dir
      /\ z.dest = t.dest /\ z.point = t.point /\ z.layer = t.layer
  BY <1>5, <1>6, Staged
<1> HIDE DEF z
<1>8. StageOK(z)
  BY <1>1, <1>7 DEF StageOK
<1>9. LoadOK(z.w, z.star)
  <2> SUFFICES ASSUME v.load # <<>> PROVE v.to = At(t.star, Core) /\ HomeOf(Payload(v).to.p, t.star)
    BY <1>7 DEF LoadOK
  <2>1. LoadOK(t.w, t.star) /\ t.w.load # <<>> /\ t.to = t.w.to
    BY <1>1, <1>2 DEF WayOK
  <2>2. t.w.to = At(t.star, Core) /\ HomeOf(Payload(t.w).to.p, t.star)
    BY <2>1 DEF LoadOK
  <2>3. t.point = t.star
    BY <1>1, <2>1, <2>2 DEF At
  <2>4. Payload(v) = Payload(t.w)
    BY <1>2 DEF t
  <2> QED
    BY <1>2, <2>2, <2>3, <2>4
<1>10. v.load # <<>> => v.to = t.to /\ t.dest = Core
  <2> HAVE v.load # <<>>
  <2>1. t.w.load # <<>> /\ t.to = t.w.to /\ t.dest = Core
    BY <1>1, <1>2 DEF WayOK
  <2>2. t.to = At(t.star, Core)
    BY <1>1, <2>1 DEF WayOK, LoadOK
  <2>3. t.point = t.star
    BY <1>1, <2>2 DEF At
  <2> QED
    BY <1>2, <2>1, <2>2, <2>3
<1>11. t.to.p = v.to.p
  BY <1>1, <1>2 DEF At
<1>12. WayOK(z)
  BY <1>1, <1>7, <1>9, <1>10, <1>11 DEF WayOK
<1>13. AnswerWayOK(z)
  BY <1>2, <1>7 DEF AnswerWayOK, IsDirected
<1>14. ThroughField(z)
  BY <1>1, <1>2, <1>7 DEF ThroughField
<1>15. TraversalOK(z)
  BY <1>7, <1>8, <1>12, <1>13, <1>14 DEF TraversalOK
<1> QED
  BY <1>2, <1>7, <1>15 DEF FlightOK, z, v

LEMMA OuterMade ==
    ASSUME sys \in Systems, NEW y, PipeOK(y), y.next <= Len(Bind(y)), y.t.w.load = <<>>
    PROVE  /\ FlightOK(InGravity(y.t.star, Outer(y))) /\ Outer(y) \in PlainWaves /\ Payload(Outer(y)) = Outer(y)
           /\ Outer(y).kind = y.t.w.kind /\ Outer(y).id = InnerId(y, y.next) /\ Outer(y).via = At(y.t.point, Field)
<1> DEFINE v == Inner(y)
           w == Outer(y)
<1>1. v \in PlainWaves /\ CarriedOK(v) /\ v.kind = y.t.w.kind /\ v.id = InnerId(y, y.next)
      /\ v.via = At(y.t.point, Field) /\ IsDirected(v)
  BY InnerMade
<1>2. y.t.star \in STRING /\ HomeOf(y.t.star, y.t.star)
  BY PipeFacts
<1>3. At(y.t.star, Core) \in Places
  BY <1>2 DEF At, Places, Gravity, Core
<1> HIDE DEF v
<1>4. w = [v EXCEPT !.from = At(y.t.star, Core)]
  BY DEF Outer, v
<1>5. w \in PlainWaves /\ w.kind = v.kind /\ w.id = v.id /\ w.via = v.via
  BY <1>1, <1>3, <1>4 DEF PlainWaves, WavesWith
<1> HIDE DEF w
<1>6. w.kind # "signal" => w.via.p \in Particles /\ Field <= w.via.l
  BY <1>1, <1>5 DEF CarriedOK, WaveOK
<1>7. CarriedOK(w)
  BY <1>1, <1>5, <1>6, PlainMade DEF IsDirected
<1>8. FlightOK(InGravity(y.t.star, w))
  BY <1>2, <1>5, <1>7, GravityMade
<1>9. Payload(w) = w
  BY <1>5, PlainFields
<1> QED
  BY <1>1, <1>5, <1>8, <1>9 DEF w

-----------------------------------------------------------------------------
(* Every step keeps the parts.                                             *)

LEMMA PartsStep ==
    ASSUME Parts, sys' = sys, early' \in 0 .. MaxEarly, AsksOK', DOMAIN asks \subseteq DOMAIN asks',
           \A x \in flight' : x \in flight \/ FlightOK(x),
           \A y \in pipes' : y \in pipes \/ PipeOK(y),
           \A b \in busy' : b \in busy \/ (BusyOK(b) /\ Append(b.w.id, 0) \in DOMAIN asks')
    PROVE  Parts'
<1>1. sys' \in Systems
  BY DEF Parts
<1>2. \A x \in flight' : FlightOK(x)'
  <2>1. \A x \in flight' : FlightOK(x)
    BY DEF Parts
  <2> QED
    BY <2>1, SameItems
<1>3. \A y \in pipes' : PipeOK(y)'
  <2>1. \A y \in pipes' : PipeOK(y)
    BY DEF Parts
  <2> QED
    BY <2>1, SameItems
<1>4. \A b \in busy' : BusyOK(b)' /\ (Append(b.w.id, 0) \in DOMAIN asks)'
  <2>1. \A b \in busy' : BusyOK(b) /\ Append(b.w.id, 0) \in DOMAIN asks'
    BY DEF Parts
  <2> QED
    BY <2>1, SameItems
<1> QED
  BY <1>1, <1>2, <1>3, <1>4 DEF Parts

LEMMA InitParts == Init => Parts
<1> SUFFICES ASSUME Init PROVE Parts
  OBVIOUS
<1>1. sys \in Systems /\ flight = {} /\ asks = <<>> /\ pipes = {} /\ busy = {} /\ early = 0
  BY DEF Init
<1>2. DOMAIN asks = {}
  BY <1>1
<1>3. AsksOK
  BY <1>2 DEF AsksOK
<1>4. early \in 0 .. MaxEarly
  BY <1>1, SystemsAssumption
<1> QED
  BY <1>1, <1>3, <1>4 DEF Parts

LEMMA AskParts ==
    ASSUME Parts, NEW i \in DOMAIN sys.asks, Ask(i)
    PROVE  Parts'
<1> DEFINE a == sys.asks[i]
           id == <<i>>
           w == Directed(a.kind, id, a.from, a.to, a.from)
           x == Injected(Of(a.from.p).home, w, a.inject, FALSE)
           at == IF Of(a.from.p).does = "remote" THEN "client" ELSE Of(a.from.p).home
           st == IF a.kind = "ping" THEN "waiting" ELSE "ok"
<1>1. /\ flight' = flight \union {x} /\ asks' = Entered(id, [at |-> at, st |-> st])
      /\ sys' = sys /\ pipes' = pipes /\ busy' = busy /\ early' = early
  BY DEF Ask
<1>2. sys \in Systems /\ AsksOK /\ early \in 0 .. MaxEarly
  BY DEF Parts
<1>3. /\ i \in Nat /\ a.kind \in {"ping", "signal"} /\ a.inject \in 0 .. 6
      /\ a.to \in Places /\ a.from \in Places /\ a.from.p \in Particles /\ Field <= a.from.l
  <2>1. /\ i \in Nat /\ a.kind \in {"ping", "signal"} /\ a.inject \in 0 .. 6
        /\ a.to \in [p : STRING, l : 0 .. 6] /\ a.from \in [p : STRING, l : 1 .. 6]
        /\ a.from.p \in Particles
    BY <1>2, AskFacts
  <2> HIDE DEF a
  <2> QED
    BY <2>1 DEF Places, Gravity, Field, Core
<1> HIDE DEF a
<1>4. id \in Seq(Int)
  BY <1>3
<1> HIDE DEF id
<1>5. CarriedOK(w) /\ w.from = a.from /\ w.load = <<>>
  BY <1>3, <1>4, DirectedMade
<1> HIDE DEF w
<1>6. HomeOf(a.from.p, Of(a.from.p).home) /\ HomeOf(Of(a.from.p).home, Of(a.from.p).home)
      /\ Of(a.from.p).home \in STRING
  BY <1>2, <1>3, ParticleFacts
<1>7. FlightOK(x)
  BY <1>3, <1>5, <1>6, InjectMade DEF LoadOK
<1> HIDE DEF x
<1>8. st \in Statuses
  BY DEF Statuses
<1> HIDE DEF at, st
<1>9. AsksOK' /\ DOMAIN asks \subseteq DOMAIN asks'
  BY <1>1, <1>2, <1>8, EnteredOK
<1> QED
  BY <1>1, <1>2, <1>7, <1>9, PartsStep

\* Of a step that only replaces what is under way.
LEMMA OnlyFlight ==
    ASSUME Parts, UNCHANGED <<sys, asks, pipes, busy, early>>,
           \A x \in flight' : x \in flight \/ FlightOK(x)
    PROVE  Parts'
<1>1. AsksOK' /\ DOMAIN asks \subseteq DOMAIN asks' /\ early' \in 0 .. MaxEarly
  BY DEF Parts, AsksOK
<1> QED
  BY <1>1, PartsStep

LEMMA InjectParts ==
    ASSUME Parts, NEW x \in flight, Inject(x)
    PROVE  Parts'
<1>1. FlightOK(x) /\ sys \in Systems
  BY DEF Parts
<1>2. /\ flight' = (flight \ {x}) \union Traversed(x) \union Bounced(x) /\ x.stage = "inject"
      /\ UNCHANGED <<sys, asks, pipes, busy, early>>
  BY DEF Inject
<1>3. InjectOK(x) /\ CarriedOK(x.w)
  BY <1>1, <1>2, FlightKinds
<1>4. \A y \in Traversed(x) \union Bounced(x) : FlightOK(y)
  BY <1>1, <1>3, TraversedMade, BouncedMade
<1> QED
  BY <1>2, <1>4, OnlyFlight

\* What comes of a layer that lets a wave pass.
After(x) == IF Onwards(x).layer # None THEN Visit(Onwards(x))
            ELSE IF x.dir = "Fabric" THEN {InGravity(x.star, x.w)} ELSE {}

LEMMA AfterMade ==
    ASSUME sys \in Systems, NEW x, FlightOK(x), x.stage = "next"
    PROVE  \A y \in After(x) : FlightOK(y) /\ y.w = x.w
<1>1. TraversalOK(x) /\ CarriedOK(x.w) /\ HomeOf(x.star, x.star)
  BY FlightKinds
<1>2. /\ x \in Traversals /\ x.layer \in {Field, Shell} /\ WayOK(x) /\ AnswerWayOK(x) /\ ThroughField(x)
  BY <1>1 DEF TraversalOK, StageOK
<1>3. x.star \in STRING /\ x.dir \in {"Core", "Fabric"} /\ x.dest \in 0 .. 7
  BY <1>2, TraversalFields
<1>4. CASE Onwards(x).layer = None
  <2>1. CASE x.dir = "Fabric"
    <3>1. x.w \in PlainWaves
      BY <1>1, <1>2, <2>1, Loads DEF WayOK, CarriedOK
    <3>2. FlightOK(InGravity(x.star, x.w)) /\ InGravity(x.star, x.w).w = x.w
      BY <1>1, <1>3, <3>1, GravityMade DEF InGravity
    <3> QED
      BY <1>4, <2>1, <3>2 DEF After
  <2>2. CASE x.dir # "Fabric"
    BY <1>4, <2>2 DEF After
  <2> QED
    BY <2>1, <2>2
<1>5. CASE Onwards(x).layer # None
  <2> DEFINE n == NextLayer(x.to.p, x.dir, x.layer)
             u == Onwards(x)
  <2>1. PlanOf(x.to.p) \subseteq 1 .. 6
    BY Plans
  <2>2. x.dir = "Core" => n \in PlanOf(x.to.p) /\ x.layer < n /\ (x.layer = Field => n = Shell)
    <3> HAVE x.dir = "Core"
    <3>1. CASE x.layer = Field
      <4>1. n = NextLayer(x.to.p, "Core", 1) /\ 2 \in PlanOf(x.to.p)
        BY <3>1, Plans DEF Field
      <4> QED
        BY <3>1, <4>1, FirstLayers DEF Field, Shell
    <3>2. CASE x.layer = Shell
      <4>1. n = NextLayer(x.to.p, "Core", 2)
        BY <3>2 DEF Shell
      <4> QED
        BY <3>2, <4>1, FirstLayers DEF Field, Shell
    <3> QED
      BY <1>2, <3>1, <3>2
  <2>3. x.dir = "Fabric" => n = 7 \/ n \in PlanOf(x.to.p)
    <3>1. x.layer \in 0 .. 6
      BY <1>2 DEF Field, Shell
    <3> QED
      BY <3>1, FabricWards
  <2>4. n \in 1 .. 7
    BY <1>3, <2>1, <2>2, <2>3
  <2> HIDE DEF n
  <2>5. u = [x EXCEPT !.layer = n]
    BY DEF Onwards, n
  <2>6. /\ u \in Traversals /\ u.star = x.star /\ u.w = x.w /\ u.to = x.to /\ u.dir = x.dir
        /\ u.dest = x.dest /\ u.point = x.point /\ u.layer = n
    BY <1>2, <2>4, <2>5 DEF Traversals, Field, None
  <2> HIDE DEF u
  <2>7. WayOK(u)
    BY <1>2, <2>6 DEF WayOK
  <2>8. u.w.kind = "pong" =>
          /\ u.to = u.w.to
          /\ u.dir = "Core" => u.dest = u.w.to.l /\ (u.layer <= u.dest \/ Shell < u.dest)
    <3> HAVE u.w.kind = "pong"
    <3>1. u.to = u.w.to
      BY <1>2, <2>6 DEF AnswerWayOK
    <3>2. ASSUME u.dir = "Core" PROVE u.dest = u.w.to.l /\ (u.layer <= u.dest \/ Shell < u.dest)
      <4>1. x.dest = x.w.to.l /\ x.layer < x.dest
        BY <1>1, <1>2, <2>6, <3>2 DEF AnswerWayOK, StageOK
      <4>2. n = Shell \/ Shell < x.dest
        <5>1. CASE x.layer = Field
          BY <2>2, <2>6, <3>2, <5>1
        <5>2. CASE x.layer = Shell
          BY <4>1, <5>2
        <5> QED
          BY <1>2, <5>1, <5>2
      <4> QED
        BY <1>2, <1>3, <2>6, <4>1, <4>2 DEF Field, Shell
    <3> QED
      BY <3>1, <3>2
  <2>9. u.dir = "Core" /\ IsDirected(u.w) /\ u.layer # Field =>
          u.w.via = At(u.to.p, Field) \/ u.w.from.p = u.to.p
    BY <1>2, <2>6 DEF ThroughField
  <2>10. u.dir = "Core" => u.layer \in PlanOf(u.to.p)
    BY <2>2, <2>6
  <2>11. MayVisit(u)
    BY <1>1, <2>6, <2>7, <2>8, <2>9, <2>10 DEF MayVisit
  <2>12. After(x) = Visit(u)
    BY <1>5 DEF After, u
  <2> QED
    BY <2>6, <2>11, <2>12, VisitMade
<1> QED
  BY <1>4, <1>5

LEMMA NextLayerParts ==
    ASSUME Parts, NEW x \in flight, TraverseToNextLayer(x)
    PROVE  Parts'
<1>1. FlightOK(x) /\ sys \in Systems
  BY DEF Parts
<1>2. /\ flight' = (flight \ {x}) \union After(x) /\ x.stage = "next"
      /\ UNCHANGED <<sys, asks, pipes, busy, early>>
  BY DEF TraverseToNextLayer, After
<1>3. \A y \in After(x) : FlightOK(y)
  BY <1>1, <1>2, AfterMade
<1> QED
  BY <1>2, <1>3, OnlyFlight

\* Of a step that takes an answer out of what is under way.
LEMMA AnswerParts ==
    ASSUME Parts, NEW x \in flight, flight' = flight \ {x}, UNCHANGED <<sys, pipes, busy, early>>,
           NEW at, Reflected(x.w, at) \/ UNCHANGED asks
    PROVE  Parts'
<1>1. FlightOK(x) /\ AsksOK /\ early \in 0 .. MaxEarly
  BY DEF Parts
<1>2. x.w.ok \in BOOLEAN
  BY <1>1, Loads DEF FlightOK, CarriedOK
<1>3. AsksOK' /\ DOMAIN asks' = DOMAIN asks
  BY <1>1, <1>2, ReflectedOK DEF AsksOK
<1> QED
  BY <1>1, <1>3, PartsStep

LEMMA DeliveredParts ==
    ASSUME Parts, NEW x \in flight, Delivered(x)
    PROVE  Parts'
  BY AnswerParts DEF Delivered

LEMMA CoreGetsAnswerParts ==
    ASSUME Parts, NEW x \in flight, CoreGetsAnswer(x)
    PROVE  Parts'
<1>1. flight' = flight \ {x} /\ UNCHANGED <<sys, pipes, busy, early>>
  BY DEF CoreGetsAnswer
<1>2. \E at : Reflected(x.w, at) \/ UNCHANGED asks
  BY DEF CoreGetsAnswer
<1> QED
  BY <1>1, <1>2, AnswerParts

LEMMA PassMade ==
    ASSUME NEW x, FlightOK(x), x.stage \in {"field", "shell"}, x.dest # x.layer,
           x.stage = "field" => x.dir = "Fabric" \/ ~IsDirected(x.w)
    PROVE  FlightOK(Stage(x, "next")) /\ Stage(x, "next").w = x.w
<1>1. TraversalOK(x) /\ CarriedOK(x.w)
  BY FlightKinds
<1>2. x \in Traversals /\ StageOK(x) /\ WayOK(x) /\ AnswerWayOK(x) /\ ThroughField(x)
  BY <1>1 DEF TraversalOK
<1>3. x.dest \in 0 .. 7 /\ x.layer \in 1 .. 7
  BY <1>2, TraversalFields
<1> DEFINE y == Stage(x, "next")
<1>4. /\ y \in Traversals /\ y.stage = "next" /\ y.star = x.star /\ y.w = x.w /\ y.to = x.to /\ y.dir = x.dir
      /\ y.dest = x.dest /\ y.point = x.point /\ y.layer = x.layer /\ WayOK(y)
  BY <1>2, Staged
<1> HIDE DEF y
<1>5. StageOK(y)
  BY <1>2, <1>4 DEF StageOK
<1>6. AnswerWayOK(y)
  BY <1>2, <1>3, <1>4 DEF AnswerWayOK
<1>7. ThroughField(y)
  BY <1>2, <1>4 DEF ThroughField
<1>8. TraversalOK(y)
  BY <1>4, <1>5, <1>6, <1>7 DEF TraversalOK
<1> QED
  BY <1>1, <1>4, <1>8 DEF FlightOK, y

LEMMA PassParts ==
    ASSUME Parts, NEW x \in flight, Pass(x)
    PROVE  Parts'
<1>1. FlightOK(x)
  BY DEF Parts
<1>2. FlightOK(Stage(x, "next"))
  BY <1>1, PassMade DEF Pass
<1>3. flight' = (flight \ {x}) \union {Stage(x, "next")} /\ UNCHANGED <<sys, asks, pipes, busy, early>>
  BY DEF Pass
<1> QED
  BY <1>2, <1>3, OnlyFlight

\* A pipeline at its first stop.
Entering(x) == [t |-> x, next |-> 1]

LEMMA EnteringMade ==
    ASSUME sys \in Systems, NEW x, FlightOK(x), x.stage = "field", IsDirected(x.w),
           x.dest = Field \/ x.dir = "Core", x.dest # Field
    PROVE  PipeOK(Entering(x)) /\ Entering(x).t = x /\ Entering(x).next = 1 /\ Bind(Entering(x)) = Of(x.point).bind
<1>1. TraversalOK(x) /\ CarriedOK(x.w)
  BY FlightKinds
<1>2. x \in Traversals /\ WayOK(x) /\ x.dir = "Core"
  BY <1>1 DEF TraversalOK
<1> DEFINE y == Entering(x)
<1>3. y.t = x /\ y.next = 1 /\ y \in [t : Traversals, next : Nat]
  BY <1>2 DEF Entering
<1> HIDE DEF y
<1>4. Bind(y) = Of(x.point).bind
  BY <1>3 DEF Bind
<1>5. x.point \in Particles
  BY <1>2 DEF WayOK, HomeOf
<1>6. Bind(y) \in Seq(STRING)
  BY <1>4, <1>5, ParticleFacts
<1>7. y.next \in 1 .. Len(Bind(y)) + 1
  BY <1>3, <1>6
<1>8. PipeOK(y)
  BY <1>1, <1>2, <1>3, <1>7 DEF PipeOK
<1> QED
  BY <1>3, <1>4, <1>8 DEF y

LEMMA EnterPipelineParts ==
    ASSUME Parts, NEW x \in flight, EnterPipeline(x)
    PROVE  Parts'
<1>1. FlightOK(x) /\ sys \in Systems /\ AsksOK /\ early \in 0 .. MaxEarly
  BY DEF Parts
<1>2. /\ x.stage = "field" /\ IsDirected(x.w) /\ (x.dest = Field \/ x.dir = "Core") /\ flight' = flight \ {x}
      /\ UNCHANGED <<sys, asks, busy, early>>
      /\ pipes' = IF x.dest = Field \/ Of(x.point).bind = <<>> THEN pipes ELSE pipes \union {Entering(x)}
  BY DEF EnterPipeline, Entering
<1>3. \A y \in pipes' : y \in pipes \/ PipeOK(y)
  BY <1>1, <1>2, EnteringMade
<1>4. AsksOK' /\ DOMAIN asks \subseteq DOMAIN asks' /\ early' \in 0 .. MaxEarly /\ sys' = sys
  BY <1>1, <1>2 DEF AsksOK
<1> QED
  BY <1>2, <1>3, <1>4, PartsStep

LEMMA ShellHandlesParts ==
    ASSUME Parts, NEW x \in flight, ShellHandles(x)
    PROVE  Parts'
<1> DEFINE ok == x.w.from.p = x.w.to.p
           pong == Reflect(x.w, ok, At(x.point, Shell))
           z == Injected(x.star, pong, Shell, FALSE)
<1>1. FlightOK(x) /\ sys \in Systems
  BY DEF Parts
<1>2. /\ x.stage = "shell" /\ IsDirected(x.w)
      /\ flight' = (flight \ {x}) \union (IF x.w.kind = "ping" THEN {z} ELSE {})
      /\ UNCHANGED <<sys, asks, pipes, busy, early>>
  BY DEF ShellHandles
<1>3. TraversalOK(x) /\ CarriedOK(x.w) /\ x.star \in STRING /\ HomeOf(x.star, x.star)
  BY <1>1, <1>2, FlightKinds
<1>4. x \in Traversals /\ HasShell(x)
  BY <1>2, <1>3 DEF TraversalOK, StageOK
<1>5. HomeOf(x.point, x.star) /\ x.point \in STRING
  BY <1>4, TraversalFields DEF HasShell, HomeOf
<1>6. At(x.point, Shell) \in Places /\ At(x.point, Shell).p = x.point
  BY <1>5 DEF At, Places, Gravity, Shell, Core
<1>7. ok \in BOOLEAN
  OBVIOUS
<1> HIDE DEF ok
<1>8. ASSUME x.w.kind = "ping" PROVE FlightOK(z)
  <2>1. CarriedOK(pong) /\ pong.from = At(x.point, Shell) /\ pong.load = <<>>
    BY <1>3, <1>6, <1>7, <1>8, ReflectMade
  <2> HIDE DEF pong
  <2>2. LoadOK(pong, x.star) /\ Shell \in 0 .. 6
    BY <2>1 DEF LoadOK, Shell
  <2> QED
    BY <1>3, <1>5, <1>6, <2>1, <2>2, InjectMade
<1> HIDE DEF z
<1>9. \A y \in flight' : y \in flight \/ FlightOK(y)
  BY <1>2, <1>8
<1> QED
  BY <1>2, <1>9, OnlyFlight

\* What a stop puts under way.
StopFlight(y) ==
    CASE StopOf(y) = "Core" -> {Onto(y)}
      [] StopOf(y) = "Reflect" /\ y.t.w.kind = "ping" -> {InGravity(y.t.star, Reflect(y.t.w, TRUE, y.t.to))}
      [] StopOf(y) = "Reflect" /\ y.t.w.kind = "signal" -> {}
      [] OTHER -> {InGravity(y.t.star, Outer(y))}

LEMMA PipeStepIs ==
    ASSUME NEW y, PipeStep(y)
    PROVE  /\ y.next <= Len(Bind(y))
           /\ flight' = flight \union StopFlight(y)
           /\ asks' = IF StopOf(y) # "Reflect" /\ y.t.w.kind = "ping" THEN Exchange(InnerId(y, y.next), y.t.star)
                      ELSE asks
           /\ pipes' = (pipes \ {y}) \union {Stepped(y)}
           /\ UNCHANGED <<sys, busy, unexpected, early>>
  BY DEF PipeStep, StopFlight, StopOf, Onto, Outer, Inner, Stepped

LEMMA StopMade ==
    ASSUME sys \in Systems, NEW y, PipeOK(y), y.next <= Len(Bind(y))
    PROVE  \A x \in StopFlight(y) : FlightOK(x)
<1>1. /\ CarriedOK(y.t.w) /\ y.t.w.kind \in {"ping", "signal"} /\ y.t.star \in STRING /\ HomeOf(y.t.star, y.t.star)
      /\ y.t.to \in Places
  BY PipeFacts
<1>2. CASE StopOf(y) = "Core"
  <2>1. StopFlight(y) = {Onto(y)}
    BY <1>2 DEF StopFlight
  <2> QED
    BY <1>2, <2>1, OntoMade
<1>3. CASE StopOf(y) = "Reflect" /\ y.t.w.kind = "ping"
  <2> DEFINE r == Reflect(y.t.w, TRUE, y.t.to)
  <2>1. r \in PlainWaves /\ CarriedOK(r)
    BY <1>1, <1>3, ReflectMade
  <2> HIDE DEF r
  <2>2. FlightOK(InGravity(y.t.star, r))
    BY <1>1, <2>1, GravityMade
  <2>3. StopFlight(y) = {InGravity(y.t.star, r)}
    BY <1>3 DEF StopFlight, r
  <2> QED
    BY <2>2, <2>3
<1>4. CASE StopOf(y) = "Reflect" /\ y.t.w.kind = "signal"
  BY <1>4 DEF StopFlight
<1>5. CASE StopOf(y) # "Core" /\ StopOf(y) # "Reflect"
  <2>1. StopFlight(y) = {InGravity(y.t.star, Outer(y))}
    BY <1>5 DEF StopFlight
  <2>2. y.t.w.load = <<>>
    BY <1>5, StopFacts
  <2> QED
    BY <2>1, <2>2, OuterMade
<1> QED
  BY <1>1, <1>2, <1>3, <1>4, <1>5

LEMMA PipeStepParts ==
    ASSUME Parts, NEW y \in pipes, PipeStep(y)
    PROVE  Parts'
<1>1. PipeOK(y) /\ sys \in Systems /\ AsksOK /\ early \in 0 .. MaxEarly
  BY DEF Parts
<1>2. /\ y.next <= Len(Bind(y))
      /\ flight' = flight \union StopFlight(y)
      /\ asks' = IF StopOf(y) # "Reflect" /\ y.t.w.kind = "ping" THEN Exchange(InnerId(y, y.next), y.t.star)
                 ELSE asks
      /\ pipes' = (pipes \ {y}) \union {Stepped(y)}
      /\ UNCHANGED <<sys, busy, unexpected, early>>
  BY PipeStepIs
<1>3. \A x \in flight' : x \in flight \/ FlightOK(x)
  BY <1>1, <1>2, StopMade
<1>4. \A z \in pipes' : z \in pipes \/ PipeOK(z)
  BY <1>1, <1>2, StopFacts
<1>5. AsksOK' /\ DOMAIN asks \subseteq DOMAIN asks'
  <2>1. CASE asks' = asks
    BY <1>1, <2>1 DEF AsksOK
  <2>2. CASE asks' = Exchange(InnerId(y, y.next), y.t.star)
    <3>1. asks' = Entered(InnerId(y, y.next), [at |-> y.t.star, st |-> "waiting"])
      BY <2>2 DEF Exchange
    <3>2. "waiting" \in Statuses
      BY DEF Statuses
    <3> QED
      BY <1>1, <3>1, <3>2, EnteredOK
  <2> QED
    BY <1>2, <2>1, <2>2
<1> QED
  BY <1>1, <1>2, <1>3, <1>4, <1>5, PartsStep

\* Only a pipeline whose wave is a ping can fail, at a stop that asked.
LEMMA FailedFacts ==
    ASSUME sys \in Systems, NEW y, PipeOK(y), StopFailed(y)
    PROVE  y.t.w.kind = "ping" /\ y.next # 1 /\ Bind(y)[y.next - 1] # "Reflect" /\ y.t.w.load = <<>>
<1>1. y.t.w.kind \in {"ping", "signal"} /\ CarriedOK(y.t.w)
  BY PipeFacts
<1>2. y.t.w.kind = "ping" /\ y.next # 1 /\ Bind(y)[y.next - 1] # "Reflect"
  BY <1>1 DEF StopFailed, StopStatus
<1> QED
  BY <1>1, <1>2, Loads DEF CarriedOK

LEMMA PipeEndsParts ==
    ASSUME Parts, NEW y \in pipes, PipeEnds(y)
    PROVE  Parts'
<1> DEFINE r == Reflect(y.t.w, FALSE, At(y.t.point, Field))
<1>1. PipeOK(y) /\ sys \in Systems /\ AsksOK /\ early \in 0 .. MaxEarly
  BY DEF Parts
<1>2. /\ flight' = flight \/ (StopFailed(y) /\ flight' = flight \union {InGravity(y.t.star, r)})
      /\ pipes' = pipes \ {y} /\ UNCHANGED <<sys, asks, busy, early>>
  BY DEF PipeEnds
<1>3. /\ CarriedOK(y.t.w) /\ y.t.star \in STRING /\ HomeOf(y.t.star, y.t.star) /\ y.t.point \in STRING
  BY <1>1, PipeFacts
<1>4. At(y.t.point, Field) \in Places
  BY <1>3 DEF At, Places, Gravity, Field, Core
<1>5. ASSUME StopFailed(y) PROVE FlightOK(InGravity(y.t.star, r))
  <2>1. r \in PlainWaves /\ CarriedOK(r)
    BY <1>1, <1>3, <1>4, <1>5, FailedFacts, ReflectMade
  <2> HIDE DEF r
  <2> QED
    BY <1>3, <2>1, GravityMade
<1> HIDE DEF r
<1>6. \A x \in flight' : x \in flight \/ FlightOK(x)
  BY <1>2, <1>5
<1>7. AsksOK' /\ DOMAIN asks \subseteq DOMAIN asks'
  BY <1>1, <1>2 DEF AsksOK
<1> QED
  BY <1>1, <1>2, <1>6, <1>7, PartsStep

-----------------------------------------------------------------------------
(* The steps of cores.                                                     *)

LEMMA CoreAnswersMade ==
    ASSUME sys \in Systems, NEW star \in STRING, NEW w, CarriedOK(w), w.load = <<>>, NEW ok \in BOOLEAN,
           HomeOf(star, star), HomeOf(w.to.p, star)
    PROVE  \A x \in CoreAnswers(star, w, ok) :
              /\ FlightOK(x) /\ w.kind = "ping"
              /\ x.w = Reflect(w, ok, At(w.to.p, Of(w.to.p).layer))
<1> SUFFICES ASSUME w.kind = "ping"
             PROVE  \A x \in CoreAnswers(star, w, ok) :
                       FlightOK(x) /\ x.w = Reflect(w, ok, At(w.to.p, Of(w.to.p).layer))
  BY DEF CoreAnswers
<1> DEFINE r == Reflect(w, ok, At(w.to.p, Of(w.to.p).layer))
<1>1. w.to.p \in Particles
  BY DEF HomeOf
<1>2. w.to.p \in STRING /\ Of(w.to.p).layer \in 3 .. 6
  BY <1>1, ParticleFacts
<1>3. At(w.to.p, Of(w.to.p).layer) \in Places /\ At(w.to.p, Of(w.to.p).layer).p = w.to.p
  BY <1>2 DEF At, Places, Gravity, Core
<1>4. CarriedOK(r) /\ r.load = <<>> /\ r.from = At(w.to.p, Of(w.to.p).layer)
  BY <1>3, ReflectMade
<1>5. CoreAnswers(star, w, ok) = {Injected(star, r, Guest, FALSE)}
  BY DEF CoreAnswers
<1> HIDE DEF r
<1>6. Guest \in 0 .. 6 /\ LoadOK(r, star)
  BY <1>4 DEF Guest, LoadOK
<1>7. FlightOK(Injected(star, r, Guest, FALSE))
  BY <1>3, <1>4, <1>6, InjectMade
<1>8. Injected(star, r, Guest, FALSE).w = r
  BY DEF Injected
<1> QED
  BY <1>5, <1>7, <1>8 DEF r

\* What is at a core.
LEMMA CoreFacts ==
    ASSUME sys \in Systems, NEW x, FlightOK(x), x.stage = "core"
    PROVE  /\ x \in Traversals /\ CarriedOK(x.w) /\ x.star \in STRING /\ HomeOf(x.star, x.star)
           /\ HomeOf(x.to.p, x.star) /\ x.to.p = x.w.to.p /\ x.to.p \in Particles /\ x.to.p \in STRING
           /\ Of(x.to.p).home = x.star /\ Of(x.to.p).layer \in 3 .. 6 /\ Of(x.to.p).does \in STRING
           /\ LoadOK(x.w, x.star)
           /\ x.w.kind = "pong" => x.to = x.w.to /\ x.w.to = x.w.via /\ Shell < x.w.to.l
<1>1. TraversalOK(x) /\ CarriedOK(x.w) /\ x.star \in STRING /\ HomeOf(x.star, x.star)
  BY FlightKinds
<1>2. x \in Traversals /\ StageOK(x) /\ WayOK(x) /\ AnswerWayOK(x) /\ x.dir = "Core"
  BY <1>1 DEF TraversalOK, StageOK
<1>3. HomeOf(x.to.p, x.star) /\ x.to.p = x.w.to.p /\ LoadOK(x.w, x.star)
  BY <1>2 DEF WayOK
<1>4. x.to.p \in Particles /\ Of(x.to.p).home = x.star
  BY <1>3 DEF HomeOf
<1>5. x.to.p \in STRING /\ Of(x.to.p).layer \in 3 .. 6 /\ Of(x.to.p).does \in STRING
  BY <1>4, ParticleFacts
<1>6. x.w.kind = "pong" => x.to = x.w.to /\ Shell < x.w.to.l
  BY <1>2 DEF AnswerWayOK
<1>7. x.w.kind = "pong" => x.w.to = x.w.via
  BY <1>1 DEF CarriedOK, WaveOK
<1> QED
  BY <1>1, <1>2, <1>3, <1>4, <1>5, <1>6, <1>7

\* What a core asks before it answers.
Nested(x) ==
    Directed("ping", Append(x.w.id, 0), At(x.to.p, Of(x.to.p).layer), At(Of(x.to.p).does, Core),
             At(x.to.p, Of(x.to.p).layer))
Asking(x) == Injected(x.star, Nested(x), Of(x.to.p).layer, FALSE)
Waiter(x) == [star |-> x.star, w |-> x.w]

LEMMA NestedMade ==
    ASSUME sys \in Systems, NEW x, FlightOK(x), x.stage = "core", x.w.load = <<>>, IsDirected(x.w)
    PROVE  /\ FlightOK(Asking(x)) /\ Asking(x).w = Nested(x) /\ BusyOK(Waiter(x)) /\ Waiter(x).w = x.w
           /\ Nested(x) \in PlainWaves /\ Payload(Nested(x)) = Nested(x)
           /\ Nested(x).id = Append(x.w.id, 0) /\ Nested(x).kind = "ping" /\ Append(x.w.id, 0) \in Seq(Int)
           /\ Nested(x).via = At(x.to.p, Of(x.to.p).layer)
<1> DEFINE p == x.to.p
           here == At(p, Of(p).layer)
           there == At(Of(p).does, Core)
           id == Append(x.w.id, 0)
           n == Nested(x)
<1>1. /\ x \in Traversals /\ CarriedOK(x.w) /\ x.star \in STRING /\ HomeOf(x.star, x.star)
      /\ HomeOf(p, x.star) /\ p = x.w.to.p /\ p \in Particles /\ p \in STRING
      /\ Of(p).layer \in 3 .. 6 /\ Of(p).does \in STRING
  BY CoreFacts
<1>2. x.w.id \in Seq(Int) /\ x.w \in PlainWaves
  BY <1>1, Loads DEF CarriedOK
<1>3. id \in Seq(Int)
  BY <1>2
<1>4. here \in Places /\ there \in Places /\ here.p = p /\ Field <= here.l
  BY <1>1 DEF At, Places, Gravity, Field, Core
<1>5. n = Directed("ping", id, here, there, here)
  BY DEF Nested
<1> HIDE DEF here, there, id, n
<1>6. /\ n \in PlainWaves /\ CarriedOK(n) /\ Payload(n) = n /\ n.kind = "ping" /\ n.id = id /\ n.from = here
      /\ n.via = here /\ n.load = <<>>
  BY <1>1, <1>3, <1>4, <1>5, DirectedMade
<1>7. Of(p).layer \in 0 .. 6 /\ LoadOK(n, x.star)
  BY <1>1, <1>6 DEF LoadOK
<1>8. FlightOK(Injected(x.star, n, Of(p).layer, FALSE))
  BY <1>1, <1>4, <1>6, <1>7, InjectMade
<1>9. Injected(x.star, n, Of(p).layer, FALSE).w = n
  BY DEF Injected
<1>10. Waiter(x) \in [star : STRING, w : PlainWaves] /\ Waiter(x).star = x.star /\ Waiter(x).w = x.w
  BY <1>1, <1>2 DEF Waiter
<1>11. BusyOK(Waiter(x))
  BY <1>1, <1>10 DEF BusyOK
<1> QED
  BY <1>3, <1>6, <1>8, <1>9, <1>10, <1>11 DEF Asking, n, id, here

\* The ways a core handles a wave.
Unloads(x) == x.w.load # <<>> /\ flight' = (flight \ {x}) \union {Injected(x.star, x.w.load[1], Gravity, TRUE)}
              /\ UNCHANGED <<asks, busy>>
Replies(x) == x.w.load = <<>> /\ flight' = (flight \ {x}) \union CoreAnswers(x.star, x.w, Of(x.to.p).does = "reflect")
              /\ UNCHANGED <<asks, busy>>
Absorbs(x) == flight' = flight \ {x} /\ UNCHANGED <<asks, busy>>
Consults(x) == x.w.load = <<>> /\ flight' = (flight \ {x}) \union {Asking(x)}
               /\ asks' = Exchange(Append(x.w.id, 0), x.star) /\ busy' = busy \union {Waiter(x)}

LEMMA CoreHandlesIs ==
    ASSUME NEW x, CoreHandles(x)
    PROVE  /\ x.stage = "core" /\ IsDirected(x.w) /\ UNCHANGED <<sys, pipes, unexpected, early>>
           /\ Unloads(x) \/ Replies(x) \/ Absorbs(x) \/ Consults(x)
<1>1. x.stage = "core" /\ IsDirected(x.w) /\ UNCHANGED <<sys, pipes, unexpected, early>>
  BY DEF CoreHandles
<1>2. CASE x.w.load # <<>>
  <2>1. Unloads(x)
    BY <1>2 DEF CoreHandles, Unloads
  <2> QED
    BY <1>1, <2>1
<1>3. CASE x.w.load = <<>> /\ Of(x.to.p).does \in {"reflect", "refuse"}
  <2>1. Replies(x)
    BY <1>3 DEF CoreHandles, Replies
  <2> QED
    BY <1>1, <2>1
<1>4. CASE x.w.load = <<>> /\ Of(x.to.p).does \in {"absorb", "remote"}
  <2>1. Absorbs(x)
    BY <1>4 DEF CoreHandles, Absorbs
  <2> QED
    BY <1>1, <2>1
<1>5. CASE x.w.load = <<>> /\ Of(x.to.p).does \notin {"reflect", "refuse", "absorb", "remote"}
  <2>1. Consults(x)
    BY <1>5 DEF CoreHandles, Consults, Asking, Nested, Waiter
  <2> QED
    BY <1>1, <2>1
<1> QED
  BY <1>2, <1>3, <1>4, <1>5

\* What comes out of a transport.
LEMMA UnloadMade ==
    ASSUME sys \in Systems, NEW x, FlightOK(x), x.stage = "core", x.w.load # <<>>
    PROVE  /\ FlightOK(Injected(x.star, x.w.load[1], Gravity, TRUE))
           /\ x.w.load[1] = Payload(x.w) /\ Payload(x.w) \in PlainWaves /\ Payload(Payload(x.w)) = Payload(x.w)
<1> DEFINE v == Payload(x.w)
<1>1. CarriedOK(x.w) /\ x.star \in STRING /\ HomeOf(x.star, x.star) /\ LoadOK(x.w, x.star)
  BY CoreFacts
<1>2. x.w.load[1] = v
  BY DEF Payload
<1>3. v \in PlainWaves /\ WaveOK(v)
  BY <1>1 DEF CarriedOK
<1>4. HomeOf(v.to.p, x.star)
  BY <1>1 DEF LoadOK
<1> HIDE DEF v
<1>5. v.load = <<>> /\ Payload(v) = v
  BY <1>3, PlainFields
<1>6. CarriedOK(v)
  BY <1>3, <1>5 DEF CarriedOK
<1>7. LoadOK(v, x.star) /\ Gravity \in 0 .. 6 /\ Gravity = 0
  BY <1>5 DEF LoadOK, Gravity
<1>8. FlightOK(Injected(x.star, v, Gravity, TRUE))
  BY <1>1, <1>4, <1>6, <1>7, InjectMade
<1> QED
  BY <1>2, <1>3, <1>5, <1>8 DEF v

LEMMA CoreHandlesParts ==
    ASSUME Parts, NEW x \in flight, CoreHandles(x)
    PROVE  Parts'
<1>1. FlightOK(x) /\ sys \in Systems /\ AsksOK /\ early \in 0 .. MaxEarly
  BY DEF Parts
<1>2. /\ x.stage = "core" /\ IsDirected(x.w) /\ UNCHANGED <<sys, pipes, unexpected, early>>
      /\ Unloads(x) \/ Replies(x) \/ Absorbs(x) \/ Consults(x)
  BY CoreHandlesIs
<1>3. CASE Unloads(x)
  <2>1. FlightOK(Injected(x.star, x.w.load[1], Gravity, TRUE))
    BY <1>1, <1>2, <1>3, UnloadMade DEF Unloads
  <2>2. \A y \in flight' : y \in flight \/ FlightOK(y)
    BY <1>3, <2>1 DEF Unloads
  <2> QED
    BY <1>2, <1>3, <2>2, OnlyFlight DEF Unloads
<1>4. CASE Replies(x)
  <2>1. (Of(x.to.p).does = "reflect") \in BOOLEAN
    OBVIOUS
  <2>2. \A y \in CoreAnswers(x.star, x.w, Of(x.to.p).does = "reflect") : FlightOK(y)
    BY <1>1, <1>2, <1>4, <2>1, CoreFacts, CoreAnswersMade DEF Replies
  <2>3. \A y \in flight' : y \in flight \/ FlightOK(y)
    BY <1>4, <2>2 DEF Replies
  <2> QED
    BY <1>2, <1>4, <2>3, OnlyFlight DEF Replies
<1>5. CASE Absorbs(x)
  <2>1. \A y \in flight' : y \in flight \/ FlightOK(y)
    BY <1>5 DEF Absorbs
  <2> QED
    BY <1>2, <1>5, <2>1, OnlyFlight DEF Absorbs
<1>6. CASE Consults(x)
  <2>1. FlightOK(Asking(x)) /\ BusyOK(Waiter(x)) /\ Waiter(x).w = x.w
    BY <1>1, <1>2, <1>6, NestedMade DEF Consults
  <2>2. asks' = Entered(Append(x.w.id, 0), [at |-> x.star, st |-> "waiting"])
    BY <1>6 DEF Consults, Exchange
  <2>3. "waiting" \in Statuses
    BY DEF Statuses
  <2>4. AsksOK' /\ DOMAIN asks' = DOMAIN asks \union {Append(x.w.id, 0)}
    BY <1>1, <2>2, <2>3, EnteredOK
  <2>5. \A y \in flight' : y \in flight \/ FlightOK(y)
    BY <1>6, <2>1 DEF Consults
  <2>6. \A b \in busy' : b \in busy \/ (BusyOK(b) /\ Append(b.w.id, 0) \in DOMAIN asks')
    BY <1>6, <2>1, <2>4 DEF Consults
  <2> QED
    BY <1>1, <1>2, <2>4, <2>5, <2>6, PartsStep
<1> QED
  BY <1>2, <1>3, <1>4, <1>5, <1>6

LEMMA CoreResumesParts ==
    ASSUME Parts, NEW b \in busy, CoreResumes(b)
    PROVE  Parts'
<1> DEFINE ok == asks[Append(b.w.id, 0)].st = "ok"
<1>1. BusyOK(b) /\ sys \in Systems /\ AsksOK /\ early \in 0 .. MaxEarly
  BY DEF Parts
<1>2. /\ busy' = busy \ {b} /\ flight' = flight \union CoreAnswers(b.star, b.w, ok)
      /\ UNCHANGED <<sys, asks, pipes, early>>
  BY DEF CoreResumes
<1>3. ok \in BOOLEAN
  OBVIOUS
<1> HIDE DEF ok
<1>4. CarriedOK(b.w) /\ b.w.load = <<>> /\ b.star \in STRING /\ HomeOf(b.star, b.star) /\ HomeOf(b.w.to.p, b.star)
  BY <1>1, PlainFields DEF BusyOK
<1>5. \A x \in CoreAnswers(b.star, b.w, ok) : FlightOK(x)
  BY <1>1, <1>3, <1>4, CoreAnswersMade
<1>6. \A x \in flight' : x \in flight \/ FlightOK(x)
  BY <1>2, <1>5
<1>7. AsksOK' /\ DOMAIN asks' = DOMAIN asks
  BY <1>1, <1>2 DEF AsksOK
<1> QED
  BY <1>1, <1>2, <1>6, <1>7, PartsStep

-----------------------------------------------------------------------------
(* The fabric, and the timer.                                              *)

LEMMA ArrivesMade ==
    ASSUME sys \in Systems, NEW x, FlightOK(x), x.stage = "gravity"
    PROVE  \A y \in Arrives(x) :
              /\ FlightOK(y)
              /\ \/ x.w.kind = "ping" /\ y.w = Reflect(x.w, TRUE, At("GLOBAL", Core))
                 \/ Payload(y.w) = x.w
<1>1. GravityOK(x) /\ CarriedOK(x.w) /\ x.star \in STRING /\ HomeOf(x.star, x.star)
  BY FlightKinds
<1>2. x.w \in PlainWaves /\ WaveOK(x.w)
  BY <1>1 DEF GravityOK, CarriedOK
<1>3. x.w.load = <<>> /\ Payload(x.w) = x.w /\ x.w.to.p \in STRING
  BY <1>2, PlainFields
<1>4. CASE x.w.to.p = "GLOBAL" /\ x.w.kind = "ping"
  <2> DEFINE r == Reflect(x.w, TRUE, At("GLOBAL", Core))
  <2>1. At("GLOBAL", Core) \in Places
    BY <1>3, <1>4 DEF At, Places, Gravity, Core
  <2>2. r \in PlainWaves /\ CarriedOK(r)
    BY <1>1, <1>4, <2>1, ReflectMade
  <2>3. Arrives(x) = {InGravity(x.star, r)}
    BY <1>4 DEF Arrives
  <2> HIDE DEF r
  <2>4. FlightOK(InGravity(x.star, r)) /\ InGravity(x.star, r).w = r
    BY <1>1, <2>2, GravityMade DEF InGravity
  <2> QED
    BY <1>4, <2>3, <2>4 DEF r
<1>5. CASE x.w.to.p = "GLOBAL" /\ x.w.kind # "ping"
  BY <1>5 DEF Arrives
<1>6. CASE x.w.to.p # "GLOBAL" /\ ~Registered(x.w.to.p)
  BY <1>6 DEF Arrives
<1>7. CASE x.w.to.p # "GLOBAL" /\ Registered(x.w.to.p)
  <2> DEFINE home == Of(x.w.to.p).home
  <2>1. x.w.to.p \in Particles
    BY <1>7 DEF Registered
  <2>2. HomeOf(x.w.to.p, home) /\ HomeOf(home, home) /\ home \in STRING
    BY <2>1, ParticleFacts
  <2>3. Gravity \in 0 .. 6 /\ Gravity = 0
    BY DEF Gravity
  <2>4. CASE home = x.star
    <3>1. Arrives(x) = {Injected(home, x.w, Gravity, TRUE)}
      BY <1>7, <2>4 DEF Arrives
    <3> HIDE DEF home
    <3>2. LoadOK(x.w, home)
      BY <1>3 DEF LoadOK
    <3>3. FlightOK(Injected(home, x.w, Gravity, TRUE))
      BY <1>1, <2>2, <2>3, <3>2, InjectMade
    <3>4. Injected(home, x.w, Gravity, TRUE).w = x.w
      BY DEF Injected
    <3> QED
      BY <1>3, <3>1, <3>3, <3>4
  <2>5. CASE home # x.star
    <3> DEFINE t == Transport(x.star, home, x.w)
    <3>1. Arrives(x) = {Injected(home, t, Gravity, TRUE)}
      BY <1>7, <2>5 DEF Arrives
    <3> HIDE DEF home
    <3>2. CarriedOK(t) /\ Payload(t) = x.w /\ t.load # <<>> /\ t.to = At(home, Core)
      BY <1>1, <1>2, <2>2, TransportMade
    <3> HIDE DEF t
    <3>3. LoadOK(t, home) /\ HomeOf(t.to.p, home)
      BY <2>2, <3>2 DEF LoadOK, At
    <3>4. FlightOK(Injected(home, t, Gravity, TRUE))
      BY <2>2, <2>3, <3>2, <3>3, InjectMade
    <3>5. Injected(home, t, Gravity, TRUE).w = t
      BY DEF Injected
    <3> QED
      BY <3>1, <3>2, <3>4, <3>5
  <2> QED
    BY <2>4, <2>5
<1> QED
  BY <1>4, <1>5, <1>6, <1>7

LEMMA ShardParts ==
    ASSUME Parts, NEW x \in flight, Shard(x)
    PROVE  Parts'
<1>1. FlightOK(x) /\ sys \in Systems
  BY DEF Parts
<1>2. /\ flight' = (flight \ {x}) \union Arrives(x) /\ x.stage = "gravity"
      /\ UNCHANGED <<sys, asks, pipes, busy, early>>
  BY DEF Shard
<1>3. \A y \in Arrives(x) : FlightOK(y)
  BY <1>1, <1>2, ArrivesMade
<1> QED
  BY <1>2, <1>3, OnlyFlight

LEMMA TimeoutParts ==
    ASSUME Parts, NEW id \in DOMAIN asks, Timeout(id)
    PROVE  Parts'
<1>1. AsksOK /\ early \in 0 .. MaxEarly
  BY DEF Parts
<1>2. /\ asks' = [asks EXCEPT ![id].st = "late"] /\ UNCHANGED <<sys, flight, pipes, busy>>
      /\ early' = early \/ (early' = early + 1 /\ early < MaxEarly)
  BY DEF Timeout
<1>3. "late" \in Statuses
  BY DEF Statuses
<1>4. AsksOK' /\ DOMAIN asks' = DOMAIN asks
  BY <1>1, <1>2, <1>3, SettledOK
<1>5. early' \in 0 .. MaxEarly
  BY <1>1, <1>2, SystemsAssumption
<1> QED
  BY <1>2, <1>4, <1>5, PartsStep

LEMMA StepParts ==
    ASSUME Parts, [Next]_vars
    PROVE  Parts'
<1>1. CASE UNCHANGED vars
  <2>1. UNCHANGED <<sys, flight, asks, pipes, busy, early>>
    BY <1>1 DEF vars
  <2>2. \A x \in flight' : x \in flight \/ FlightOK(x)
    BY <2>1
  <2> QED
    BY <2>1, <2>2, OnlyFlight
<1>2. ASSUME NEW i \in DOMAIN sys.asks, Ask(i) PROVE Parts'
  BY <1>2, AskParts
<1>3. ASSUME NEW x \in flight, Step(x) PROVE Parts'
  <2>1. CASE Inject(x)
    BY <2>1, InjectParts
  <2>2. CASE TraverseToNextLayer(x)
    BY <2>2, NextLayerParts
  <2>3. CASE Delivered(x)
    BY <2>3, DeliveredParts
  <2>4. CASE Pass(x)
    BY <2>4, PassParts
  <2>5. CASE EnterPipeline(x)
    BY <2>5, EnterPipelineParts
  <2>6. CASE ShellHandles(x)
    BY <2>6, ShellHandlesParts
  <2>7. CASE CoreHandles(x)
    BY <2>7, CoreHandlesParts
  <2>8. CASE CoreGetsAnswer(x)
    BY <2>8, CoreGetsAnswerParts
  <2>9. CASE Shard(x)
    BY <2>9, ShardParts
  <2> QED
    BY <1>3, <2>1, <2>2, <2>3, <2>4, <2>5, <2>6, <2>7, <2>8, <2>9 DEF Step
<1>4. ASSUME NEW y \in pipes, PipeStep(y) \/ PipeEnds(y) PROVE Parts'
  BY <1>4, PipeStepParts, PipeEndsParts
<1>5. ASSUME NEW b \in busy, CoreResumes(b) PROVE Parts'
  BY <1>5, CoreResumesParts
<1>6. ASSUME NEW id \in DOMAIN asks, Timeout(id) PROVE Parts'
  BY <1>6, TimeoutParts
<1> QED
  BY <1>1, <1>2, <1>3, <1>4, <1>5, <1>6 DEF Next

LEMMA PartsInvariant == Spec => []Parts
<1>1. Init => Parts
  BY InitParts
<1>2. Parts /\ [Next]_vars => Parts'
  BY StepParts
<1> QED
  BY <1>1, <1>2, PTL DEF Spec

\* Everything has its type; what is at a layer is at a layer its particle has.
THEOREM TypeTheorem == Spec => []TypeOK
<1>1. ASSUME Parts PROVE TypeOK
  <2>1. sys \in Systems /\ early \in 0 .. MaxEarly /\ AsksOK
    BY <1>1 DEF Parts
  <2>2. ASSUME NEW x \in flight
        PROVE  /\ x.stage \in {"inject", "field", "shell", "next", "core", "gravity"}
               /\ Of(x.star).home = x.star
               /\ x.w.kind \in {"ping", "signal", "pong"}
               /\ x.stage \in {"field", "shell", "next", "core"} =>
                    x.layer \in PlanOf(x.to.p) \union {Field, Shell} /\ x.dest \in Gravity .. None
               /\ x.stage = "field" => x.layer = Field
               /\ x.stage = "shell" => x.layer = Shell /\ x.star = Of(x.point).home /\ Of(x.point).shell
               /\ x.stage = "core"  => x.layer \notin {Field, Shell} /\ x.dir = "Core"
    <3>1. FlightOK(x)
      BY <1>1 DEF Parts
    <3>2. CarriedOK(x.w) /\ HomeOf(x.star, x.star)
      BY <3>1, FlightKinds
    <3>3. x.w.kind \in {"ping", "signal", "pong"}
      BY <3>2, Loads DEF CarriedOK
    <3>4. Of(x.star).home = x.star
      BY <3>2 DEF HomeOf
    <3>5. CASE InjectOK(x)
      BY <3>3, <3>4, <3>5 DEF InjectOK
    <3>6. CASE GravityOK(x)
      BY <3>3, <3>4, <3>6 DEF GravityOK
    <3>7. CASE TraversalOK(x)
      <4>1. x \in Traversals /\ StageOK(x)
        BY <3>7 DEF TraversalOK
      <4>2. x.stage \in {"field", "shell", "next", "core"} /\ x.dest \in Gravity .. None
        BY <4>1 DEF Traversals, StageOK
      <4>3. x.layer \in PlanOf(x.to.p) \union {Field, Shell}
        BY <4>1, <4>2 DEF StageOK
      <4>4. x.stage = "shell" => x.layer = Shell /\ x.star = Of(x.point).home /\ Of(x.point).shell
        BY <4>1 DEF StageOK, HasShell
      <4> QED
        BY <3>3, <3>4, <4>1, <4>2, <4>3, <4>4 DEF StageOK
    <3> QED
      BY <3>1, <3>5, <3>6, <3>7 DEF FlightOK
  <2>3. \A id \in DOMAIN asks : asks[id].st \in {"waiting", "ok", "error", "late"}
    BY <2>1 DEF AsksOK, AskOK, Statuses
  <2>4. \A y \in pipes : y.next \in 1 .. Len(Of(y.t.point).bind) + 1
    BY <1>1 DEF Parts, PipeOK, Bind
  <2>5. \A b \in busy : Append(b.w.id, 0) \in DOMAIN asks
    BY <1>1 DEF Parts
  <2> QED
    BY <2>1, <2>2, <2>3, <2>4, <2>5 DEF TypeOK
<1> QED
  BY <1>1, PartsInvariant, PTL

\* For any systems of particles, whatever they ask of each other: a core hears only what came
\* through the pipeline of its own Field, or what its own particle asks.
THEOREM CoreTheorem == Spec => []CoreOnlyThroughField
<1>1. ASSUME Parts PROVE CoreOnlyThroughField
  <2> SUFFICES ASSUME NEW x \in flight, x.stage = "core", IsDirected(x.w)
               PROVE  x.w.via = At(x.to.p, Field) \/ x.w.from.p = x.to.p
    BY DEF CoreOnlyThroughField
  <2>1. TraversalOK(x)
    BY <1>1, FlightKinds DEF Parts
  <2>2. ThroughField(x) /\ x.dir = "Core"
    BY <2>1 DEF TraversalOK, StageOK
  <2> QED
    BY <2>2 DEF ThroughField
<1> QED
  BY <1>1, PartsInvariant, PTL

-----------------------------------------------------------------------------
(* Ids.                                                                    *)

\* b is an id of a part of what a is the id of, or a itself.
Extends(a, b) == Len(a) <= Len(b) /\ \A i \in 1 .. Len(a) : b[i] = a[i]

LEMMA Appended ==
    ASSUME NEW s \in Seq(Int), NEW m \in Int
    PROVE  /\ Append(s, m) \in Seq(Int) /\ Len(s) \in Nat /\ Len(Append(s, m)) = Len(s) + 1
           /\ \A i \in 1 .. Len(s) : Append(s, m)[i] = s[i]
           /\ Append(s, m)[Len(s) + 1] = m /\ Append(s, m) # <<>>
           /\ s # <<>> => Append(s, m)[1] = s[1]
<1>1. /\ Append(s, m) \in Seq(Int) /\ Len(s) \in Nat /\ Len(Append(s, m)) = Len(s) + 1
      /\ \A i \in 1 .. Len(s) : Append(s, m)[i] = s[i]
      /\ Append(s, m)[Len(s) + 1] = m
  OBVIOUS
<1>2. Append(s, m) # <<>>
  BY <1>1
<1>3. s # <<>> => 1 \in 1 .. Len(s)
  OBVIOUS
<1> QED
  BY <1>1, <1>2, <1>3

LEMMA SameLength ==
    ASSUME NEW a \in Seq(Int), NEW b \in Seq(Int), Extends(a, b), Len(b) <= Len(a)
    PROVE  a = b
<1>1. Len(a) = Len(b) /\ Len(a) \in Nat /\ \A i \in 1 .. Len(a) : a[i] = b[i]
  BY DEF Extends
<1>2. a = [i \in 1 .. Len(a) |-> a[i]] /\ b = [i \in 1 .. Len(b) |-> b[i]]
  OBVIOUS
<1> QED
  BY <1>1, <1>2

LEMMA Longer ==
    ASSUME NEW a \in Seq(Int), NEW b \in Seq(Int), Extends(a, b), a # b
    PROVE  Len(a) < Len(b) /\ Len(a) \in Nat /\ Len(b) \in Nat
<1>1. Len(a) \in Nat /\ Len(b) \in Nat
  OBVIOUS
<1> QED
  BY <1>1, SameLength

LEMMA OfChild ==
    ASSUME NEW a \in Seq(Int), NEW b \in Seq(Int), NEW m \in Int, Extends(Append(a, m), b)
    PROVE  Extends(a, b) /\ a # b /\ b[Len(a) + 1] = m
<1> DEFINE c == Append(a, m)
<1>1. /\ Len(a) \in Nat /\ Len(c) = Len(a) + 1 /\ \A i \in 1 .. Len(a) : c[i] = a[i]
      /\ c[Len(a) + 1] = m /\ Extends(c, b) /\ Len(b) \in Nat
  BY Appended
<1> HIDE DEF c
<1> QED
  BY <1>1 DEF Extends

LEMMA ToChild ==
    ASSUME NEW a \in Seq(Int), NEW b \in Seq(Int), NEW m \in Int, Extends(a, Append(b, m))
    PROVE  a = Append(b, m) \/ Extends(a, b)
<1> DEFINE c == Append(b, m)
<1>1. /\ Len(b) \in Nat /\ Len(c) = Len(b) + 1 /\ \A i \in 1 .. Len(b) : c[i] = b[i]
      /\ Extends(a, c) /\ Len(a) \in Nat /\ c \in Seq(Int)
  BY Appended
<1> HIDE DEF c
<1>2. CASE Len(a) <= Len(b)
  BY <1>1, <1>2 DEF Extends
<1>3. CASE Len(a) > Len(b)
  <2>1. Len(c) <= Len(a)
    BY <1>1, <1>3
  <2>2. a = c
    BY <1>1, <2>1, SameLength
  <2> QED
    BY <2>2 DEF c
<1> QED
  BY <1>1, <1>2, <1>3

LEMMA Reflexive == \A a \in Seq(Int) : Extends(a, a)
  BY DEF Extends

-----------------------------------------------------------------------------
(* A ledger: tokens, each with an id, and who waits for the answer to it.  *)

\* A token may be "new" (a wave no pipeline or core has taken up), a "pipe" that goes on at stop
\* k.next, "busy" (a core that has asked), a "pong", or "spent" (a pipeline that has reflected).
\* Two tokens of one ask: only a pipeline that has reflected, and its answer.
Alone(k, l) ==
    k.id = l.id => k = l \/ (k.role = "pong" /\ l.role = "spent") \/ (k.role = "spent" /\ l.role = "pong")
\* The answer is waited for where it will go, or was until its time was up.
Owed(k, A)  == k.id \in DOMAIN A /\ A[k.id].at = k.at /\ A[k.id].st \in {"waiting", "late"}
\* What k has asked so far, it asked at the stops before k.next: b is not an id it will need.
Fresh(k, b) == Extends(k.id, b) => b = k.id \/ (k.next # 0 /\ b[Len(k.id) + 1] < k.next)
\* Every id is part of an ask that was made.
IdOK(b, A)  == b \in Seq(Int) /\ b # <<>> /\ <<b[1]>> \in DOMAIN A

\* Tokens T, and those who wait, A.
Ledger(T, A) ==
    /\ \A k \in T : IdOK(k.id, A) /\ k.next \in Nat
    /\ \A b \in DOMAIN A : IdOK(b, A)
    /\ \A k, l \in T : Alone(k, l)
    /\ \A k \in T : k.role # "spent" /\ k.owed => Owed(k, A)
    /\ \A k \in T : k.role \in {"new", "pipe"} =>
          (\A b \in DOMAIN A : Fresh(k, b)) /\ (\A l \in T : Fresh(k, l.id))

\* What may become of a token.
Heir(n, k) ==
    /\ n.id = k.id /\ n.at = k.at /\ n.owed = k.owed /\ n.next \in Nat
    /\ k.role \in {"pong", "spent"} => n.role = k.role
    /\ n.role \in {"new", "pipe"} => k.role \in {"new", "pipe"} /\ (k.next = 0 \/ k.next <= n.next)

LEMMA HeirAlone ==
    ASSUME NEW k, NEW l, NEW n, Heir(n, k), Alone(k, l), l # k
    PROVE  Alone(n, l) /\ Alone(l, n)
  BY DEF Heir, Alone

LEMMA HeirFresh ==
    ASSUME NEW k, NEW n, NEW b, Heir(n, k), n.role \in {"new", "pipe"}, k.next \in Nat, Fresh(k, b),
           k.id \in Seq(Int), b \in Seq(Int)
    PROVE  Fresh(n, b)
<1> SUFFICES ASSUME Extends(k.id, b), b # k.id
             PROVE  n.next # 0 /\ b[Len(k.id) + 1] < n.next
  BY DEF Heir, Fresh
<1>1. k.next # 0 /\ b[Len(k.id) + 1] < k.next
  BY DEF Fresh
<1>2. k.next <= n.next /\ n.next \in Nat
  BY <1>1 DEF Heir
<1>3. b[Len(k.id) + 1] \in Int
  <2>1. Len(k.id) < Len(b) /\ Len(k.id) \in Nat /\ Len(b) \in Nat
    BY Longer
  <2> QED
    BY <2>1
<1> QED
  BY <1>1, <1>2, <1>3

\* A token moves, changes its role, or becomes an answer and a pipeline that is done with it.
LEMMA LedgerMove ==
    ASSUME NEW T, NEW A, Ledger(T, A), NEW k \in T, NEW n, NEW m, Heir(n, k), Heir(m, k), Alone(n, m), Alone(m, n),
           NEW U, \A t \in U : (t \in T /\ t # k) \/ t = n \/ t = m
    PROVE  Ledger(U, A)
<1> DEFINE From(t) == IF t \in T /\ t # k THEN t ELSE k
<1>1. \A t \in U : /\ From(t) \in T /\ ((t \in T /\ t # k /\ From(t) = t) \/ (From(t) = k /\ Heir(t, k)))
                   /\ t.id = From(t).id /\ t.next \in Nat
  BY DEF Heir, Ledger
<1>2. \A t \in U : IdOK(t.id, A) /\ t.next \in Nat
  BY <1>1 DEF Ledger
<1>3. \A s, t \in U : Alone(s, t)
  <2> TAKE s, t \in U
  <2>1. CASE s \in T /\ s # k /\ t \in T /\ t # k
    BY <2>1 DEF Ledger
  <2>2. CASE s \in T /\ s # k /\ (t = n \/ t = m)
    <3>1. Alone(k, s)
      BY <2>2 DEF Ledger
    <3> QED
      BY <2>2, <3>1, HeirAlone
  <2>3. CASE (s = n \/ s = m) /\ t \in T /\ t # k
    <3>1. Alone(k, t)
      BY <2>3 DEF Ledger
    <3> QED
      BY <2>3, <3>1, HeirAlone
  <2>4. CASE (s = n \/ s = m) /\ (t = n \/ t = m)
    BY <2>4 DEF Alone
  <2> QED
    BY <2>1, <2>2, <2>3, <2>4
<1>4. ASSUME NEW t \in U, t.role # "spent", t.owed PROVE Owed(t, A)
  <2>1. CASE t \in T /\ t # k
    BY <1>4, <2>1 DEF Ledger
  <2>2. CASE Heir(t, k)
    <3>1. k.role # "spent" /\ k.owed /\ t.id = k.id /\ t.at = k.at
      BY <1>4, <2>2 DEF Heir
    <3>2. Owed(k, A)
      BY <3>1 DEF Ledger
    <3> QED
      BY <3>1, <3>2 DEF Owed
  <2> QED
    BY <2>1, <2>2
<1>5. ASSUME NEW t \in U, t.role \in {"new", "pipe"}, NEW b, b \in DOMAIN A \/ \E l \in T : b = l.id
      PROVE  Fresh(t, b)
  <2>1. CASE t \in T /\ t # k
    BY <1>5, <2>1 DEF Ledger
  <2>2. CASE Heir(t, k)
    <3>1. k.role \in {"new", "pipe"}
      BY <1>5, <2>2 DEF Heir
    <3>2. Fresh(k, b) /\ k.next \in Nat /\ k.id \in Seq(Int) /\ b \in Seq(Int)
      BY <1>5, <3>1 DEF Ledger, IdOK
    <3> QED
      BY <1>5, <2>2, <3>2, HeirFresh
  <2> QED
    BY <2>1, <2>2
<1>6. \A t \in U : t.role \in {"new", "pipe"} =>
          (\A b \in DOMAIN A : Fresh(t, b)) /\ (\A l \in U : Fresh(t, l.id))
  BY <1>1, <1>5
<1>7. \A b \in DOMAIN A : IdOK(b, A)
  BY DEF Ledger
<1> HIDE DEF From
<1> QED
  BY <1>2, <1>3, <1>4, <1>6, <1>7 DEF Ledger

\* Somebody waits for the answer to a wave.
Opened(A, B, id, at) ==
    /\ DOMAIN B = DOMAIN A \union {id} /\ B[id].at = at /\ B[id].st = "waiting"
    /\ \A i \in DOMAIN A : i # id => B[i] = A[i]

\* What k asks next.
Child(c, k) == c.id = Append(k.id, k.next) /\ c.role = "new" /\ c.next = 0

\* No id that is in use extends that of a child.
LEMMA ChildIsNew ==
    ASSUME NEW T, NEW A, Ledger(T, A), NEW k \in T, k.role \in {"new", "pipe"}, NEW c, Child(c, k),
           NEW b, b \in DOMAIN A \/ \E l \in T : b = l.id
    PROVE  ~Extends(c.id, b) /\ b # c.id
<1>1. k.id \in Seq(Int) /\ k.next \in Int /\ b \in Seq(Int) /\ Fresh(k, b)
  <2>1. IdOK(k.id, A) /\ k.next \in Nat
    BY DEF Ledger
  <2>2. IdOK(b, A)
    BY DEF Ledger
  <2>3. Fresh(k, b)
    BY DEF Ledger
  <2> QED
    BY <2>1, <2>2, <2>3 DEF IdOK
<1>2. c.id = Append(k.id, k.next) /\ c.id \in Seq(Int)
  BY <1>1, Appended DEF Child
<1>3. ASSUME Extends(c.id, b) PROVE FALSE
  <2>1. Extends(k.id, b) /\ k.id # b /\ b[Len(k.id) + 1] = k.next
    BY <1>1, <1>2, <1>3, OfChild
  <2>2. k.next < k.next
    BY <1>1, <2>1 DEF Fresh
  <2> QED
    BY <1>1, <2>2
<1> QED
  BY <1>2, <1>3, Reflexive

\* It is new to the tokens that there are.
LEMMA ChildIsFresh ==
    ASSUME NEW T, NEW A, Ledger(T, A), NEW k \in T, k.role \in {"new", "pipe"}, NEW c, Child(c, k),
           NEW l \in T, l # k, l.role \in {"new", "pipe"}
    PROVE  Fresh(l, c.id)
<1> SUFFICES ASSUME Extends(l.id, c.id), c.id # l.id
             PROVE  l.next # 0 /\ c.id[Len(l.id) + 1] < l.next
  BY DEF Fresh
<1>1. /\ k.id \in Seq(Int) /\ k.next \in Int /\ l.id \in Seq(Int) /\ Fresh(l, k.id)
      /\ c.id = Append(k.id, k.next) /\ Alone(k, l)
  <2>1. IdOK(k.id, A) /\ k.next \in Nat /\ IdOK(l.id, A) /\ Alone(k, l)
    BY DEF Ledger
  <2>2. Fresh(l, k.id)
    BY DEF Ledger
  <2> QED
    BY <2>1, <2>2 DEF IdOK, Child
<1>2. Extends(l.id, k.id)
  BY <1>1, ToChild
<1>3. k.id # l.id
  BY <1>1 DEF Alone
<1>4. l.next # 0 /\ k.id[Len(l.id) + 1] < l.next
  BY <1>1, <1>2, <1>3 DEF Fresh
<1>5. Len(l.id) < Len(k.id) /\ Len(l.id) \in Nat /\ Len(k.id) \in Nat
  BY <1>1, <1>2, <1>3, Longer
<1>6. c.id[Len(l.id) + 1] = k.id[Len(l.id) + 1]
  BY <1>1, <1>5, Appended
<1> QED
  BY <1>4, <1>6

\* A token goes on and has a child.
LEMMA LedgerBear ==
    ASSUME NEW T, NEW A, Ledger(T, A), NEW k \in T, k.role \in {"new", "pipe"},
           NEW n, Heir(n, k), n.role \in {"new", "pipe"} => k.next < n.next,
           NEW c, Child(c, k),
           NEW B, (B = A /\ ~c.owed) \/ Opened(A, B, c.id, c.at),
           NEW U, \A t \in U : (t \in T /\ t # k) \/ t = n \/ t = c
    PROVE  Ledger(U, B)
<1>1. /\ k.id \in Seq(Int) /\ k.next \in Nat /\ k.id # <<>> /\ <<k.id[1]>> \in DOMAIN A
      /\ c.id = Append(k.id, k.next) /\ c.role = "new" /\ c.next = 0
      /\ n.id = k.id /\ n.at = k.at /\ n.owed = k.owed /\ n.next \in Nat
  BY DEF Ledger, IdOK, Child, Heir
<1>2. /\ c.id \in Seq(Int) /\ c.id # <<>> /\ c.id[1] = k.id[1] /\ c.id[Len(k.id) + 1] = k.next
  BY <1>1, Appended
<1>3. \A b : b \in DOMAIN A \/ (\E l \in T : b = l.id) => ~Extends(c.id, b) /\ b # c.id
  BY ChildIsNew
<1>4. /\ DOMAIN A \subseteq DOMAIN B /\ DOMAIN B \subseteq DOMAIN A \union {c.id}
      /\ \A i \in DOMAIN A : B[i] = A[i]
      /\ c.owed => Owed(c, B)
  BY <1>3 DEF Opened, Owed
<1>5. \A b \in DOMAIN B : IdOK(b, B)
  BY <1>1, <1>2, <1>4 DEF Ledger, IdOK
<1>6. \A t \in U : IdOK(t.id, B) /\ t.next \in Nat
  <2>1. \A t \in T : IdOK(t.id, B) /\ t.next \in Nat
    BY <1>4 DEF Ledger, IdOK
  <2>2. IdOK(c.id, B) /\ IdOK(n.id, B)
    BY <1>1, <1>2, <1>4 DEF IdOK
  <2>3. c.next \in Nat /\ n.next \in Nat
    BY <1>1
  <2> TAKE t \in U
  <2>4. t \in T \/ t = n \/ t = c
    OBVIOUS
  <2> QED
    BY <2>1, <2>2, <2>3, <2>4
<1>7. \A s, t \in U : Alone(s, t)
  <2> TAKE s, t \in U
  <2>1. CASE s = c \/ t = c
    <3>1. CASE s = c /\ t = c
      BY <3>1 DEF Alone
    <3>2. CASE s = c /\ t # c
      <4>1. \E l \in T : t.id = l.id
        BY <1>1, <3>2
      <4> QED
        BY <1>3, <3>2, <4>1 DEF Alone
    <3>3. CASE s # c /\ t = c
      <4>1. \E l \in T : s.id = l.id
        BY <1>1, <3>3
      <4> QED
        BY <1>3, <3>3, <4>1 DEF Alone
    <3> QED
      BY <2>1, <3>1, <3>2, <3>3
  <2>2. CASE s \in T /\ s # k /\ t \in T /\ t # k
    BY <2>2 DEF Ledger
  <2>3. CASE s \in T /\ s # k /\ t = n
    <3>1. Alone(k, s)
      BY <2>3 DEF Ledger
    <3> QED
      BY <2>3, <3>1, HeirAlone
  <2>4. CASE s = n /\ t \in T /\ t # k
    <3>1. Alone(k, t)
      BY <2>4 DEF Ledger
    <3> QED
      BY <2>4, <3>1, HeirAlone
  <2>5. CASE s = n /\ t = n
    BY <2>5 DEF Alone
  <2> QED
    BY <2>1, <2>2, <2>3, <2>4, <2>5
<1>8. ASSUME NEW t \in U, t.role # "spent", t.owed PROVE Owed(t, B)
  <2>1. CASE t \in T /\ t # k
    <3>1. Owed(t, A)
      BY <1>8, <2>1 DEF Ledger
    <3> QED
      BY <1>4, <3>1 DEF Owed
  <2>2. CASE t = n
    <3>1. k.role # "spent" /\ k.owed
      BY <1>8, <2>2 DEF Heir
    <3>2. Owed(k, A)
      BY <3>1 DEF Ledger
    <3> QED
      BY <1>1, <1>4, <2>2, <3>2 DEF Owed
  <2>3. CASE t = c
    BY <1>4, <1>8, <2>3
  <2> QED
    BY <2>1, <2>2, <2>3
<1>9. ASSUME NEW t \in U, t.role \in {"new", "pipe"}, NEW b, b \in DOMAIN B \/ \E l \in U : b = l.id
      PROVE  Fresh(t, b)
  <2>1. b = c.id \/ b \in DOMAIN A \/ \E l \in T : b = l.id
    BY <1>1, <1>4, <1>9
  <2>2. CASE t = c
    BY <1>3, <2>1, <2>2 DEF Fresh
  <2>3. CASE t \in T /\ t # k /\ b = c.id
    BY <1>9, <2>3, ChildIsFresh
  <2>4. CASE t \in T /\ t # k /\ b # c.id
    BY <1>9, <2>1, <2>4 DEF Ledger
  <2>5. CASE t = n /\ b = c.id
    <3>1. n.next # 0 /\ k.next < n.next
      BY <1>1, <1>9, <2>5
    <3> QED
      BY <1>1, <1>2, <2>5, <3>1 DEF Fresh
  <2>6. CASE t = n /\ b # c.id
    <3>1. Fresh(k, b) /\ k.next \in Nat /\ k.id \in Seq(Int) /\ b \in Seq(Int)
      BY <2>1, <2>6 DEF Ledger, IdOK
    <3> QED
      BY <1>9, <2>6, <3>1, HeirFresh
  <2> QED
    BY <2>2, <2>3, <2>4, <2>5, <2>6
<1>10. \A t \in U : t.role \in {"new", "pipe"} =>
          (\A b \in DOMAIN B : Fresh(t, b)) /\ (\A l \in U : Fresh(t, l.id))
  BY <1>9
<1> QED
  BY <1>5, <1>6, <1>7, <1>8, <1>10 DEF Ledger

\* A question from outside.
LEMMA LedgerAsk ==
    ASSUME NEW T, NEW A, Ledger(T, A), NEW i \in Int, NEW c, c.id = <<i>>, c.next = 0, <<i>> \notin DOMAIN A,
           NEW B, DOMAIN B = DOMAIN A \union {<<i>>}, \A b \in DOMAIN A : B[b] = A[b], c.owed => Owed(c, B),
           NEW U, \A t \in U : t \in T \/ t = c
    PROVE  Ledger(U, B)
<1> DEFINE id == <<i>>
<1>1. id \in Seq(Int) /\ id # <<>> /\ id[1] = i /\ Len(id) = 1 /\ <<id[1]>> = id
  OBVIOUS
<1>2. \A b : IdOK(b, A) => b \in Seq(Int) /\ b # <<>> /\ <<b[1]>> # id
  BY DEF IdOK
<1> HIDE DEF id
<1>3. \A b : IdOK(b, A) => ~Extends(id, b) /\ ~Extends(b, id) /\ b # id
  <2> TAKE b
  <2> HAVE IdOK(b, A)
  <2>1. b \in Seq(Int) /\ b # <<>> /\ <<b[1]>> # id
    BY <1>2
  <2>2. Len(b) \in Nat /\ Len(b) >= 1
    BY <2>1
  <2>3. b[1] # id[1]
    BY <1>1, <2>1
  <2> QED
    BY <1>1, <2>2, <2>3 DEF Extends
<1>4. c.id = id /\ DOMAIN B = DOMAIN A \union {id}
  BY DEF id
<1>5. \A b \in DOMAIN B : IdOK(b, B)
  BY <1>1, <1>4 DEF Ledger, IdOK
<1>6. \A t \in U : IdOK(t.id, B) /\ t.next \in Nat
  <2>1. \A t \in T : IdOK(t.id, B) /\ t.next \in Nat
    BY <1>4 DEF Ledger, IdOK
  <2>2. IdOK(c.id, B) /\ c.next \in Nat
    BY <1>1, <1>4 DEF IdOK
  <2> QED
    BY <2>1, <2>2
<1>7. \A l \in T : l.id # id /\ IdOK(l.id, A)
  BY <1>3 DEF Ledger
<1>8. \A s, t \in U : Alone(s, t)
  BY <1>4, <1>7 DEF Ledger, Alone
<1>9. ASSUME NEW t \in U, t.role # "spent", t.owed PROVE Owed(t, B)
  <2>1. CASE t \in T
    <3>1. Owed(t, A)
      BY <1>9, <2>1 DEF Ledger
    <3> QED
      BY <1>4, <3>1 DEF Owed
  <2> QED
    BY <1>9, <2>1
<1>10. ASSUME NEW t \in U, t.role \in {"new", "pipe"}, NEW b, b \in DOMAIN B \/ \E l \in U : b = l.id
       PROVE  Fresh(t, b)
  <2>1. b = id \/ b \in DOMAIN A \/ \E l \in T : b = l.id
    BY <1>4, <1>10
  <2>2. b = id \/ IdOK(b, A)
    BY <2>1 DEF Ledger
  <2>3. CASE t = c
    BY <1>3, <1>4, <2>2, <2>3 DEF Fresh
  <2>4. CASE t \in T /\ b = id
    <3>1. IdOK(t.id, A)
      BY <2>4 DEF Ledger
    <3> QED
      BY <1>3, <2>4, <3>1 DEF Fresh
  <2>5. CASE t \in T /\ b # id
    BY <1>10, <2>1, <2>5 DEF Ledger
  <2> QED
    BY <2>3, <2>4, <2>5
<1>11. \A t \in U : t.role \in {"new", "pipe"} =>
          (\A b \in DOMAIN B : Fresh(t, b)) /\ (\A l \in U : Fresh(t, l.id))
  BY <1>10
<1> QED
  BY <1>5, <1>6, <1>8, <1>9, <1>11 DEF Ledger

\* An answer comes to where it is waited for, or too late.
LEMMA LedgerAnswer ==
    ASSUME NEW T, NEW A, Ledger(T, A), NEW k \in T, k.role = "pong",
           NEW B, DOMAIN B = DOMAIN A, \A b \in DOMAIN A : b # k.id => B[b] = A[b],
           NEW U, \A t \in U : t \in T /\ t # k
    PROVE  Ledger(U, B)
<1>1. \A b : IdOK(b, A) => IdOK(b, B)
  BY DEF IdOK
<1>2. \A t \in U : IdOK(t.id, B) /\ t.next \in Nat
  BY <1>1 DEF Ledger
<1>3. \A b \in DOMAIN B : IdOK(b, B)
  BY <1>1 DEF Ledger
<1>4. \A s, t \in U : Alone(s, t)
  BY DEF Ledger
<1>5. ASSUME NEW t \in U, t.role # "spent", t.owed PROVE Owed(t, B)
  <2>1. Alone(k, t) /\ Owed(t, A) /\ t # k
    BY <1>5 DEF Ledger
  <2>2. t.id # k.id
    BY <1>5, <2>1 DEF Alone
  <2> QED
    BY <2>1, <2>2 DEF Owed
<1>6. \A t \in U : t.role \in {"new", "pipe"} =>
          (\A b \in DOMAIN B : Fresh(t, b)) /\ (\A l \in U : Fresh(t, l.id))
  BY DEF Ledger
<1> QED
  BY <1>2, <1>3, <1>4, <1>5, <1>6 DEF Ledger

\* Somebody waits no more.
LEMMA LedgerLate ==
    ASSUME NEW T, NEW A, Ledger(T, A), NEW id \in DOMAIN A,
           NEW B, DOMAIN B = DOMAIN A, B[id].st = "late", B[id].at = A[id].at,
           \A b \in DOMAIN A : b # id => B[b] = A[b]
    PROVE  Ledger(T, B)
<1>1. \A b : IdOK(b, A) => IdOK(b, B)
  BY DEF IdOK
<1>2. \A t \in T : IdOK(t.id, B) /\ t.next \in Nat
  BY <1>1 DEF Ledger
<1>3. \A b \in DOMAIN B : IdOK(b, B)
  BY <1>1 DEF Ledger
<1>4. \A s, t \in T : Alone(s, t)
  BY DEF Ledger
<1>5. ASSUME NEW t \in T, t.role # "spent", t.owed PROVE Owed(t, B)
  <2>1. Owed(t, A)
    BY <1>5 DEF Ledger
  <2> QED
    BY <2>1 DEF Owed
<1>6. \A t \in T : t.role \in {"new", "pipe"} =>
          (\A b \in DOMAIN B : Fresh(t, b)) /\ (\A l \in T : Fresh(t, l.id))
  BY DEF Ledger
<1> QED
  BY <1>2, <1>3, <1>4, <1>5, <1>6 DEF Ledger

-----------------------------------------------------------------------------
(* The tokens of what is under way.                                        *)

\* The exchanger in which an answer to this place is waited for.
AtOf(v) == IF Of(v.p).does = "remote" /\ v.l \notin {Field, Shell, Of(v.p).layer} THEN "client"
           ELSE Of(v.p).home

\* The token of item, which is about w.
Token(w, role, next, item) ==
    [id |-> w.id, at |-> AtOf(w.via), owed |-> w.kind # "signal", role |-> role, next |-> next, item |-> item]

Role(w) == IF w.kind = "pong" THEN "pong" ELSE "new"

\* A pipeline that has reflected; one that has passed on its transport, and keeps nothing.
Spent(y)   == y.next > 1 /\ Bind(y)[y.next - 1] = "Reflect"
Keeping(y) == y.t.w.load = <<>> \/ y.next = 1

FlightToken(x) == Token(Payload(x.w), Role(Payload(x.w)), 0, <<"flight", x>>)
PipeToken(y)   == IF y.t.w.load # <<>> THEN Token(Payload(y.t.w), Role(Payload(y.t.w)), 0, <<"pipe", y>>)
                  ELSE Token(y.t.w, IF Spent(y) THEN "spent" ELSE "pipe", y.next, <<"pipe", y>>)
BusyToken(b)   == Token(b.w, "busy", 0, <<"busy", b>>)

Tokens == {FlightToken(x) : x \in flight} \union {PipeToken(y) : y \in {z \in pipes : Keeping(z)}}
          \union {BusyToken(b) : b \in busy}

Books == Ledger(Tokens, asks)

LEMMA TokenFields ==
    ASSUME NEW w, NEW role, NEW next, NEW item
    PROVE  LET k == Token(w, role, next, item) IN
           /\ k.id = w.id /\ k.at = AtOf(w.via) /\ k.owed = (w.kind # "signal") /\ k.role = role /\ k.next = next
           /\ k.item = item
  BY DEF Token

LEMMA ItemOf ==
    /\ \A x : FlightToken(x).item = <<"flight", x>>
    /\ \A y : PipeToken(y).item = <<"pipe", y>>
    /\ \A b : BusyToken(b).item = <<"busy", b>>
  BY DEF FlightToken, PipeToken, BusyToken, Token

\* Each token is of one thing.
LEMMA OwnTokens ==
    /\ \A x, z : FlightToken(x) = FlightToken(z) => x = z
    /\ \A y, z : PipeToken(y) = PipeToken(z) => y = z
    /\ \A b, z : BusyToken(b) = BusyToken(z) => b = z
    /\ \A x, y : FlightToken(x) # PipeToken(y) /\ FlightToken(x) # BusyToken(y) /\ PipeToken(x) # BusyToken(y)
<1>1. /\ \A x, z : <<"flight", x>> = <<"flight", z>> => x = z
      /\ \A x, z : <<"pipe", x>> = <<"pipe", z>> => x = z
      /\ \A x, z : <<"busy", x>> = <<"busy", z>> => x = z
      /\ \A x, y : <<"flight", x>> # <<"pipe", y>> /\ <<"flight", x>> # <<"busy", y>> /\ <<"pipe", x>> # <<"busy", y>>
  OBVIOUS
<1>2. \A x, z : FlightToken(x) = FlightToken(z) => x = z
  BY <1>1, ItemOf
<1>3. \A x, z : PipeToken(x) = PipeToken(z) => x = z
  BY <1>1, ItemOf
<1>4. \A x, z : BusyToken(x) = BusyToken(z) => x = z
  BY <1>1, ItemOf
<1>5. \A x, y : FlightToken(x) # PipeToken(y) /\ FlightToken(x) # BusyToken(y) /\ PipeToken(x) # BusyToken(y)
  <2> TAKE x, y
  <2>1. /\ FlightToken(x).item # PipeToken(y).item /\ FlightToken(x).item # BusyToken(y).item
        /\ PipeToken(x).item # BusyToken(y).item
    BY <1>1, ItemOf
  <2> QED
    BY <2>1
<1> QED
  BY <1>2, <1>3, <1>4, <1>5

LEMMA TokensAre ==
    \A t : t \in Tokens <=> \/ \E x \in flight : t = FlightToken(x)
                            \/ \E y \in pipes : Keeping(y) /\ t = PipeToken(y)
                            \/ \E b \in busy : t = BusyToken(b)
  BY DEF Tokens

\* A step adds the tokens of what is new, and takes away those of what is gone.
LEMMA TokensStep ==
    ASSUME sys' = sys
    PROVE  \A t \in Tokens' :
              \/ \E x \in flight' : t = FlightToken(x)
              \/ \E y \in pipes' : Keeping(y) /\ t = PipeToken(y)
              \/ \E b \in busy' : t = BusyToken(b)
<1>1. \A p : Of(p)' = Of(p)
  BY SameSystem
<1>2. \A w, role, next, item : Token(w, role, next, item)' = Token(w, role, next, item)
  <2>1. \A v : AtOf(v)' = AtOf(v)
    BY <1>1 DEF AtOf
  <2> QED
    BY <2>1 DEF Token
<1>3. \A x : FlightToken(x)' = FlightToken(x)
  BY <1>2 DEF FlightToken
<1>4. \A b : BusyToken(b)' = BusyToken(b)
  BY <1>2 DEF BusyToken
<1>5. \A y : PipeToken(y)' = PipeToken(y)
  <2>1. \A y : Spent(y)' = Spent(y)
    BY <1>1 DEF Spent, Bind
  <2> QED
    BY <1>2, <2>1 DEF PipeToken
<1>6. \A t : t \in Tokens' =>
         \/ \E x \in flight' : t = FlightToken(x)'
         \/ \E y \in pipes' : Keeping(y) /\ t = PipeToken(y)'
         \/ \E b \in busy' : t = BusyToken(b)'
  BY DEF Tokens, Keeping
<1> QED
  BY <1>3, <1>4, <1>5, <1>6

LEMMA TokensMove ==
    ASSUME sys' = sys
    PROVE  \A t \in Tokens' :
              \/ /\ t \in Tokens
                 /\ \A x \in flight : t = FlightToken(x) => x \in flight'
                 /\ \A y \in pipes : t = PipeToken(y) => y \in pipes'
                 /\ \A b \in busy : t = BusyToken(b) => b \in busy'
              \/ \E x \in flight' : x \notin flight /\ t = FlightToken(x)
              \/ \E y \in pipes' : y \notin pipes /\ Keeping(y) /\ t = PipeToken(y)
              \/ \E b \in busy' : b \notin busy /\ t = BusyToken(b)
<1> TAKE t \in Tokens'
<1>1. \/ \E x \in flight' : t = FlightToken(x)
      \/ \E y \in pipes' : Keeping(y) /\ t = PipeToken(y)
      \/ \E b \in busy' : t = BusyToken(b)
  BY TokensStep
<1>2. ASSUME NEW x \in flight', x \in flight, t = FlightToken(x)
      PROVE  /\ t \in Tokens
             /\ \A z \in flight : t = FlightToken(z) => z \in flight'
             /\ \A y \in pipes : t = PipeToken(y) => y \in pipes'
             /\ \A b \in busy : t = BusyToken(b) => b \in busy'
  BY <1>2, TokensAre, OwnTokens
<1>3. ASSUME NEW y \in pipes', y \in pipes, Keeping(y), t = PipeToken(y)
      PROVE  /\ t \in Tokens
             /\ \A x \in flight : t = FlightToken(x) => x \in flight'
             /\ \A z \in pipes : t = PipeToken(z) => z \in pipes'
             /\ \A b \in busy : t = BusyToken(b) => b \in busy'
  BY <1>3, TokensAre, OwnTokens
<1>4. ASSUME NEW b \in busy', b \in busy, t = BusyToken(b)
      PROVE  /\ t \in Tokens
             /\ \A x \in flight : t = FlightToken(x) => x \in flight'
             /\ \A y \in pipes : t = PipeToken(y) => y \in pipes'
             /\ \A z \in busy : t = BusyToken(z) => z \in busy'
  BY <1>4, TokensAre, OwnTokens
<1> QED
  BY <1>1, <1>2, <1>3, <1>4

-----------------------------------------------------------------------------
(* The books stay in order.                                                *)

LEMMA HeirItself == \A k : k.next \in Nat => Heir(k, k)
  BY DEF Heir

LEMMA LedgerFewer ==
    ASSUME NEW T, NEW A, Ledger(T, A), NEW U, \A t \in U : t \in T
    PROVE  Ledger(U, A)
  BY DEF Ledger

\* The same wave, in another place.
LEMMA HeirSame ==
    ASSUME NEW x, NEW z, Payload(z.w) = Payload(x.w)
    PROVE  Heir(FlightToken(z), FlightToken(x))
<1> DEFINE w == Payload(x.w)
           k == FlightToken(x)
           n == FlightToken(z)
<1>1. /\ k.id = w.id /\ k.at = AtOf(w.via) /\ k.owed = (w.kind # "signal") /\ k.role = Role(w) /\ k.next = 0
      /\ n.id = w.id /\ n.at = AtOf(w.via) /\ n.owed = (w.kind # "signal") /\ n.role = Role(w) /\ n.next = 0
  BY TokenFields DEF FlightToken
<1> HIDE DEF k, n
<1>2. Heir(n, k)
  BY <1>1 DEF Heir
<1> QED
  BY <1>2 DEF k, n

\* The answer to a wave.
LEMMA HeirReflect ==
    ASSUME NEW k, NEW w, NEW z, k.id = w.id, k.at = AtOf(w.via), k.owed = TRUE, k.role \in {"new", "pipe", "busy"},
           NEW ok, NEW from, z.w = Reflect(w, ok, from)
    PROVE  Heir(FlightToken(z), k) /\ FlightToken(z).role = "pong"
<1> DEFINE r == Reflect(w, ok, from)
           n == FlightToken(z)
<1>1. r.id = w.id /\ r.via = w.via /\ r.kind = "pong" /\ r.load = <<>>
  BY DEF Reflect
<1> HIDE DEF r
<1>2. Payload(z.w) = r
  BY <1>1 DEF Payload, r
<1>3. n.id = r.id /\ n.at = AtOf(r.via) /\ n.owed = (r.kind # "signal") /\ n.role = Role(r) /\ n.next = 0
  BY <1>2, TokenFields DEF FlightToken
<1>4. n.owed = TRUE /\ n.role = "pong"
  BY <1>1, <1>3 DEF Role
<1> HIDE DEF n
<1>5. Heir(n, k)
  <2>1. n.id = k.id /\ n.next \in Nat
    BY <1>1, <1>3
  <2>2. n.at = k.at
    BY <1>1, <1>3
  <2>3. n.owed = k.owed
    BY <1>4
  <2>4. k.role \notin {"pong", "spent"} /\ n.role \notin {"new", "pipe"}
    BY <1>4
  <2> QED
    BY <2>1, <2>2, <2>3, <2>4 DEF Heir
<1> QED
  BY <1>4, <1>5 DEF n

\* A step that puts at most one thing under way for one that was.
LEMMA FlightBooks ==
    ASSUME Books, UNCHANGED <<sys, asks, pipes, busy>>, NEW x \in flight, NEW F, flight' = (flight \ {x}) \union F,
           \A y, z \in F : y = z,
           \A z \in F : Heir(FlightToken(z), FlightToken(x))
    PROVE  Books'
<1> DEFINE k == FlightToken(x)
<1>1. k \in Tokens
  BY TokensAre
<1>2. \A t \in Tokens' : (t \in Tokens /\ t # k) \/ \E z \in F : t = FlightToken(z)
  <2> TAKE t \in Tokens'
  <2>1. CASE t \in Tokens /\ \A z \in flight : t = FlightToken(z) => z \in flight'
    BY <2>1
  <2>2. CASE \E z \in flight' : z \notin flight /\ t = FlightToken(z)
    BY <2>2
  <2> QED
    BY <2>1, <2>2, TokensMove
<1>3. Ledger(Tokens, asks)
  BY DEF Books
<1> HIDE DEF k
<1>4. CASE F = {}
  <2>1. \A t \in Tokens' : t \in Tokens
    BY <1>2, <1>4
  <2> QED
    BY <1>3, <2>1, LedgerFewer DEF Books
<1>5. ASSUME NEW z \in F PROVE Books'
  <2> DEFINE n == FlightToken(z)
  <2>1. \A t \in Tokens' : (t \in Tokens /\ t # k) \/ t = n
    BY <1>2
  <2>2. Heir(n, k)
    BY DEF k
  <2> HIDE DEF n
  <2>3. Alone(n, n)
    BY DEF Alone
  <2> QED
    BY <1>1, <1>3, <2>1, <2>2, <2>3, LedgerMove DEF Books
<1> QED
  BY <1>4, <1>5

LEMMA HeirAnswer ==
    ASSUME NEW x, CarriedOK(x.w), x.w.kind = "ping", NEW z, NEW ok, NEW from, z.w = Reflect(x.w, ok, from)
    PROVE  Heir(FlightToken(z), FlightToken(x))
<1> DEFINE k == FlightToken(x)
<1>1. Payload(x.w) = x.w
  BY Loads DEF CarriedOK
<1>2. k.id = x.w.id /\ k.at = AtOf(x.w.via) /\ k.owed = (x.w.kind # "signal") /\ k.role = Role(x.w)
  BY <1>1, TokenFields DEF FlightToken
<1> HIDE DEF k
<1>3. k.owed = TRUE /\ k.role = "new"
  BY <1>2 DEF Role
<1>4. Heir(FlightToken(z), k)
  BY <1>2, <1>3, HeirReflect
<1> QED
  BY <1>4 DEF k

LEMMA VisitOne == \A t : \A y, z \in Visit(t) : y = z
<1> TAKE t
<1>1. CASE t.layer = Field
  BY <1>1 DEF Visit, Field, Shell
<1>2. CASE t.layer = Shell
  BY <1>2 DEF Visit, Field, Shell
<1>3. CASE t.layer \notin {Field, Shell}
  BY <1>3 DEF Visit
<1> QED
  BY <1>1, <1>2, <1>3

LEMMA TraversedOne == \A x : \A y, z \in Traversed(x) : y = z
  BY VisitOne DEF Traversed

LEMMA InjectBooks ==
    ASSUME Parts, Books, NEW x \in flight, Inject(x)
    PROVE  Books'
<1>1. FlightOK(x) /\ sys \in Systems
  BY DEF Parts
<1>2. /\ flight' = (flight \ {x}) \union Traversed(x) \union Bounced(x) /\ x.stage = "inject"
      /\ UNCHANGED <<sys, asks, pipes, busy>>
  BY DEF Inject
<1>3. InjectOK(x) /\ CarriedOK(x.w)
  BY <1>1, <1>2, FlightKinds
<1> DEFINE F == Traversed(x) \union Bounced(x)
<1>4. \A z \in F : Heir(FlightToken(z), FlightToken(x))
  <2>1. ASSUME NEW z \in Traversed(x) PROVE Heir(FlightToken(z), FlightToken(x))
    <3>1. z.w = x.w
      BY <1>1, <1>3, TraversedMade
    <3> QED
      BY <3>1, HeirSame
  <2>2. ASSUME NEW z \in Bounced(x) PROVE Heir(FlightToken(z), FlightToken(x))
    <3>1. x.w.kind = "ping" /\ z.w = Reflect(x.w, FALSE, At(x.star, Core))
      BY <1>1, <1>3, BouncedMade
    <3> QED
      BY <1>3, <3>1, HeirAnswer
  <2> QED
    BY <2>1, <2>2
<1>5. \A y, z \in F : y = z
  <2>1. CASE NoStart(x)
    <3>1. Traversed(x) = {}
      BY <2>1 DEF Traversed
    <3>2. \A y, z \in Bounced(x) : y = z
      BY TraversedOne DEF Bounced
    <3> QED
      BY <3>1, <3>2
  <2>2. CASE ~NoStart(x)
    <3>1. Bounced(x) = {}
      BY <2>2 DEF Bounced
    <3> QED
      BY <3>1, TraversedOne
  <2> QED
    BY <2>1, <2>2
<1>6. flight' = (flight \ {x}) \union F
  BY <1>2
<1> HIDE DEF F
<1> QED
  BY <1>2, <1>4, <1>5, <1>6, FlightBooks

LEMMA NextLayerBooks ==
    ASSUME Parts, Books, NEW x \in flight, TraverseToNextLayer(x)
    PROVE  Books'
<1>1. FlightOK(x) /\ sys \in Systems
  BY DEF Parts
<1>2. /\ flight' = (flight \ {x}) \union After(x) /\ x.stage = "next"
      /\ UNCHANGED <<sys, asks, pipes, busy>>
  BY DEF TraverseToNextLayer, After
<1>3. \A y \in After(x) : y.w = x.w
  BY <1>1, <1>2, AfterMade
<1>4. \A y \in After(x) : Heir(FlightToken(y), FlightToken(x))
  BY <1>3, HeirSame
<1>5. \A y, z \in After(x) : y = z
  BY VisitOne DEF After
<1> QED
  BY <1>2, <1>4, <1>5, FlightBooks

LEMMA PassBooks ==
    ASSUME Parts, Books, NEW x \in flight, Pass(x)
    PROVE  Books'
<1> DEFINE F == {Stage(x, "next")}
<1>1. FlightOK(x)
  BY DEF Parts
<1>2. Stage(x, "next").w = x.w
  BY <1>1, PassMade DEF Pass
<1>3. flight' = (flight \ {x}) \union F /\ UNCHANGED <<sys, asks, pipes, busy>>
  BY DEF Pass
<1>4. \A z \in F : Heir(FlightToken(z), FlightToken(x))
  BY <1>2, HeirSame
<1>5. \A y, z \in F : y = z
  OBVIOUS
<1> HIDE DEF F
<1> QED
  BY <1>3, <1>4, <1>5, FlightBooks

LEMMA ShellHandlesBooks ==
    ASSUME Parts, Books, NEW x \in flight, ShellHandles(x)
    PROVE  Books'
<1> DEFINE ok == x.w.from.p = x.w.to.p
           z == Injected(x.star, Reflect(x.w, ok, At(x.point, Shell)), Shell, FALSE)
           F == IF x.w.kind = "ping" THEN {z} ELSE {}
<1>1. CarriedOK(x.w)
  BY DEF Parts, FlightOK
<1>2. flight' = (flight \ {x}) \union F /\ UNCHANGED <<sys, asks, pipes, busy>>
  BY DEF ShellHandles
<1>3. z.w = Reflect(x.w, ok, At(x.point, Shell))
  BY DEF Injected
<1> HIDE DEF z, ok
<1>4. \A y \in F : Heir(FlightToken(y), FlightToken(x))
  BY <1>1, <1>3, HeirAnswer
<1>5. \A y, v \in F : y = v
  OBVIOUS
<1> HIDE DEF F
<1> QED
  BY <1>2, <1>4, <1>5, FlightBooks

LEMMA ArrivesOne == \A x : \A y, z \in Arrives(x) : y = z
  BY DEF Arrives

LEMMA ShardBooks ==
    ASSUME Parts, Books, NEW x \in flight, Shard(x)
    PROVE  Books'
<1>1. FlightOK(x) /\ sys \in Systems
  BY DEF Parts
<1>2. /\ flight' = (flight \ {x}) \union Arrives(x) /\ x.stage = "gravity"
      /\ UNCHANGED <<sys, asks, pipes, busy>>
  BY DEF Shard
<1>3. GravityOK(x) /\ CarriedOK(x.w)
  BY <1>1, <1>2, FlightKinds
<1>4. Payload(x.w) = x.w
  BY <1>3, PlainFields DEF GravityOK
<1>5. ASSUME NEW y \in Arrives(x) PROVE Heir(FlightToken(y), FlightToken(x))
  <2>1. \/ x.w.kind = "ping" /\ y.w = Reflect(x.w, TRUE, At("GLOBAL", Core))
        \/ Payload(y.w) = x.w
    BY <1>1, <1>2, ArrivesMade
  <2>2. CASE x.w.kind = "ping" /\ y.w = Reflect(x.w, TRUE, At("GLOBAL", Core))
    BY <1>3, <2>2, HeirAnswer
  <2>3. CASE Payload(y.w) = x.w
    BY <1>4, <2>3, HeirSame
  <2> QED
    BY <2>1, <2>2, <2>3
<1>6. \A y, z \in Arrives(x) : y = z
  BY ArrivesOne
<1> QED
  BY <1>2, <1>5, <1>6, FlightBooks

-----------------------------------------------------------------------------
(* Cores.                                                                  *)

LEMMA CoreAnswersOne == \A star, w, ok : \A y, z \in CoreAnswers(star, w, ok) : y = z
  BY DEF CoreAnswers

LEMMA CoreHandlesBooks ==
    ASSUME Parts, Books, NEW x \in flight, CoreHandles(x), ~Consults(x)
    PROVE  Books' /\ UNCHANGED <<asks, unexpected>>
<1>1. FlightOK(x) /\ sys \in Systems
  BY DEF Parts
<1>2. /\ x.stage = "core" /\ IsDirected(x.w) /\ UNCHANGED <<sys, pipes, unexpected, early>>
      /\ Unloads(x) \/ Replies(x) \/ Absorbs(x)
  BY CoreHandlesIs
<1>3. CASE Unloads(x)
  <2> DEFINE z == Injected(x.star, x.w.load[1], Gravity, TRUE)
             F == {z}
  <2>1. x.w.load[1] = Payload(x.w) /\ Payload(Payload(x.w)) = Payload(x.w)
    BY <1>1, <1>2, <1>3, UnloadMade DEF Unloads
  <2>2. z.w = x.w.load[1]
    BY DEF Injected
  <2>3. flight' = (flight \ {x}) \union F /\ UNCHANGED <<asks, busy>>
    BY <1>3 DEF Unloads
  <2> HIDE DEF z
  <2>4. \A y \in F : Heir(FlightToken(y), FlightToken(x))
    BY <2>1, <2>2, HeirSame
  <2>5. \A y, v \in F : y = v
    OBVIOUS
  <2> HIDE DEF F
  <2> QED
    BY <1>2, <2>3, <2>4, <2>5, FlightBooks
<1>4. CASE Replies(x)
  <2> DEFINE ok == Of(x.to.p).does = "reflect"
             F == CoreAnswers(x.star, x.w, ok)
  <2>1. flight' = (flight \ {x}) \union F /\ UNCHANGED <<asks, busy>> /\ x.w.load = <<>>
    BY <1>4 DEF Replies
  <2>2. ok \in BOOLEAN
    OBVIOUS
  <2> HIDE DEF ok
  <2>3. /\ CarriedOK(x.w) /\ x.star \in STRING /\ HomeOf(x.star, x.star) /\ HomeOf(x.w.to.p, x.star)
    BY <1>1, <1>2, CoreFacts
  <2>4. \A y \in F : x.w.kind = "ping" /\ y.w = Reflect(x.w, ok, At(x.w.to.p, Of(x.w.to.p).layer))
    BY <1>1, <2>1, <2>2, <2>3, CoreAnswersMade
  <2>5. \A y, v \in F : y = v
    BY CoreAnswersOne
  <2> HIDE DEF F
  <2>6. \A y \in F : Heir(FlightToken(y), FlightToken(x))
    BY <2>3, <2>4, HeirAnswer
  <2> QED
    BY <1>2, <2>1, <2>5, <2>6, FlightBooks
<1>5. CASE Absorbs(x)
  <2> DEFINE F == {}
  <2>1. flight' = (flight \ {x}) \union F /\ UNCHANGED <<asks, busy>>
    BY <1>5 DEF Absorbs
  <2>2. \A y \in F : Heir(FlightToken(y), FlightToken(x))
    OBVIOUS
  <2>3. \A y, v \in F : y = v
    OBVIOUS
  <2> HIDE DEF F
  <2> QED
    BY <1>2, <2>1, <2>2, <2>3, FlightBooks
<1> QED
  BY <1>2, <1>3, <1>4, <1>5

\* Where the answer to a wave from a Field, or from the layer of a driver, is waited for.
LEMMA AtOfHere ==
    ASSUME NEW p, NEW star, HomeOf(p, star)
    PROVE  AtOf(At(p, Field)) = star /\ AtOf(At(p, Of(p).layer)) = star
  BY DEF AtOf, At, HomeOf

\* What is new is waited for.
LEMMA ExchangeOpens ==
    ASSUME AsksOK, NEW id, NEW at, asks' = Exchange(id, at)
    PROVE  Opened(asks, asks', id, at)
<1>1. asks' = Entered(id, [at |-> at, st |-> "waiting"]) /\ "waiting" \in Statuses
  BY DEF Exchange, Statuses
<1>2. /\ DOMAIN asks' = DOMAIN asks \union {id} /\ asks'[id] = [at |-> at, st |-> "waiting"]
      /\ \A i \in DOMAIN asks : i # id => asks'[i] = asks[i]
  BY <1>1 DEF Entered
<1> QED
  BY <1>2 DEF Opened

LEMMA ConsultsBooks ==
    ASSUME Parts, Books, NEW x \in flight, x.stage = "core", IsDirected(x.w), Consults(x), UNCHANGED <<sys, pipes>>
    PROVE  Books' /\ Append(x.w.id, 0) \notin DOMAIN asks
<1> DEFINE k == FlightToken(x)
           n == BusyToken(Waiter(x))
           c == FlightToken(Asking(x))
           id == Append(x.w.id, 0)
<1>1. FlightOK(x) /\ sys \in Systems /\ AsksOK
  BY DEF Parts
<1>2. /\ x.w.load = <<>> /\ flight' = (flight \ {x}) \union {Asking(x)}
      /\ asks' = Exchange(id, x.star) /\ busy' = busy \union {Waiter(x)}
  BY DEF Consults
<1>3. HomeOf(x.to.p, x.star) /\ CarriedOK(x.w)
  BY <1>1, CoreFacts
<1>4. /\ Asking(x).w = Nested(x) /\ Waiter(x).w = x.w /\ Payload(Nested(x)) = Nested(x)
      /\ Nested(x).id = id /\ Nested(x).kind = "ping" /\ Nested(x).via = At(x.to.p, Of(x.to.p).layer)
  BY <1>1, <1>2, NestedMade
<1>5. Payload(x.w) = x.w
  BY <1>2 DEF Payload
<1>6. Role(x.w) = "new" /\ Role(Nested(x)) = "new"
  BY <1>4 DEF Role, IsDirected
<1>7. k.id = x.w.id /\ k.at = AtOf(x.w.via) /\ k.owed = (x.w.kind # "signal") /\ k.role = "new" /\ k.next = 0
  BY <1>5, <1>6, TokenFields DEF FlightToken
<1>8. n.id = x.w.id /\ n.at = AtOf(x.w.via) /\ n.owed = (x.w.kind # "signal") /\ n.role = "busy" /\ n.next = 0
  BY <1>4, TokenFields DEF BusyToken
<1>9. c.id = id /\ c.at = AtOf(Nested(x).via) /\ c.role = "new" /\ c.next = 0
  BY <1>4, <1>6, TokenFields DEF FlightToken
<1>10. c.at = x.star
  BY <1>3, <1>4, <1>9, AtOfHere
<1>11. k \in Tokens
  BY TokensAre
<1>12. \A t \in Tokens' : (t \in Tokens /\ t # k) \/ t = n \/ t = c
  <2> TAKE t \in Tokens'
  <2>1. CASE t \in Tokens /\ \A z \in flight : t = FlightToken(z) => z \in flight'
    BY <1>2, <2>1
  <2>2. CASE \E z \in flight' : z \notin flight /\ t = FlightToken(z)
    BY <1>2, <2>2
  <2>3. CASE \E y \in pipes' : y \notin pipes /\ Keeping(y) /\ t = PipeToken(y)
    BY <2>3
  <2>4. CASE \E b \in busy' : b \notin busy /\ t = BusyToken(b)
    BY <1>2, <2>4
  <2> QED
    BY <1>2, <2>1, <2>2, <2>3, <2>4, TokensMove
<1>13. Opened(asks, asks', id, x.star)
  BY <1>1, <1>2, ExchangeOpens
<1>14. Ledger(Tokens, asks)
  BY DEF Books
<1> HIDE DEF k, n, c
<1>15. Heir(n, k)
  BY <1>7, <1>8 DEF Heir
<1>16. Child(c, k)
  BY <1>7, <1>9 DEF Child
<1>17. Opened(asks, asks', c.id, c.at)
  BY <1>9, <1>10, <1>13
<1>18. n.role \notin {"new", "pipe"} /\ k.role \in {"new", "pipe"}
  BY <1>7, <1>8
<1>19. Ledger(Tokens', asks')
  BY <1>11, <1>12, <1>14, <1>15, <1>16, <1>17, <1>18, LedgerBear
<1>20. \A b \in DOMAIN asks : b # c.id
  BY <1>11, <1>14, <1>16, <1>18, ChildIsNew
<1> QED
  BY <1>9, <1>19, <1>20 DEF Books

LEMMA CoreResumesBooks ==
    ASSUME Parts, Books, NEW b \in busy, CoreResumes(b)
    PROVE  Books'
<1> DEFINE ok == asks[Append(b.w.id, 0)].st = "ok"
           F == CoreAnswers(b.star, b.w, ok)
           k == BusyToken(b)
<1>1. BusyOK(b) /\ sys \in Systems
  BY DEF Parts
<1>2. /\ busy' = busy \ {b} /\ flight' = flight \union F
      /\ UNCHANGED <<sys, asks, pipes>>
  BY DEF CoreResumes
<1>3. ok \in BOOLEAN
  OBVIOUS
<1> HIDE DEF ok
<1>4. CarriedOK(b.w) /\ b.w.load = <<>> /\ b.star \in STRING /\ HomeOf(b.star, b.star) /\ HomeOf(b.w.to.p, b.star)
  BY <1>1, PlainFields DEF BusyOK
<1>5. \A x \in F : b.w.kind = "ping" /\ x.w = Reflect(b.w, ok, At(b.w.to.p, Of(b.w.to.p).layer))
  BY <1>1, <1>3, <1>4, CoreAnswersMade
<1>6. \A y, z \in F : y = z
  BY CoreAnswersOne
<1> HIDE DEF F
<1>7. k.id = b.w.id /\ k.at = AtOf(b.w.via) /\ k.owed = (b.w.kind # "signal") /\ k.role = "busy"
  BY TokenFields DEF BusyToken
<1>8. k \in Tokens
  BY TokensAre
<1>9. \A t \in Tokens' : (t \in Tokens /\ t # k) \/ \E z \in F : t = FlightToken(z)
  <2> TAKE t \in Tokens'
  <2>1. CASE t \in Tokens /\ \A z \in busy : t = BusyToken(z) => z \in busy'
    BY <1>2, <2>1
  <2>2. CASE \E z \in flight' : z \notin flight /\ t = FlightToken(z)
    BY <1>2, <2>2
  <2>3. CASE \E y \in pipes' : y \notin pipes /\ Keeping(y) /\ t = PipeToken(y)
    BY <1>2, <2>3
  <2>4. CASE \E z \in busy' : z \notin busy /\ t = BusyToken(z)
    BY <1>2, <2>4
  <2> QED
    BY <1>2, <2>1, <2>2, <2>3, <2>4, TokensMove
<1>10. Ledger(Tokens, asks)
  BY DEF Books
<1> HIDE DEF k
<1>11. CASE F = {}
  <2>1. \A t \in Tokens' : t \in Tokens
    BY <1>9, <1>11
  <2> QED
    BY <1>2, <1>10, <2>1, LedgerFewer DEF Books
<1>12. ASSUME NEW z \in F PROVE Books'
  <2> DEFINE n == FlightToken(z)
  <2>1. \A t \in Tokens' : (t \in Tokens /\ t # k) \/ t = n
    BY <1>6, <1>9
  <2>2. k.owed = TRUE /\ k.role \in {"new", "pipe", "busy"}
    BY <1>5, <1>7
  <2>3. Heir(n, k)
    BY <1>5, <1>7, <2>2, HeirReflect
  <2> HIDE DEF n
  <2>4. Alone(n, n)
    BY DEF Alone
  <2>5. Ledger(Tokens', asks)
    BY <1>8, <1>10, <2>1, <2>3, <2>4, LedgerMove
  <2> QED
    BY <1>2, <2>5 DEF Books
<1> QED
  BY <1>11, <1>12

-----------------------------------------------------------------------------
(* Pipelines.                                                              *)

LEMMA PipeTokenFields ==
    ASSUME NEW y, CarriedOK(y.t.w), IsDirected(y.t.w)
    PROVE  LET k == PipeToken(y) IN
           /\ y.t.w.load # <<>> => k = Token(Payload(y.t.w), Role(Payload(y.t.w)), 0, <<"pipe", y>>)
           /\ y.t.w.load = <<>> =>
                /\ k.id = y.t.w.id /\ k.at = AtOf(y.t.w.via) /\ k.owed = (y.t.w.kind # "signal")
                /\ k.role = (IF Spent(y) THEN "spent" ELSE "pipe") /\ k.next = y.next
  BY TokenFields DEF PipeToken

LEMMA EnterPipelineBooks ==
    ASSUME Parts, Books, NEW x \in flight, EnterPipeline(x)
    PROVE  Books'
<1> DEFINE k == FlightToken(x)
           y == Entering(x)
           n == PipeToken(y)
<1>1. FlightOK(x) /\ sys \in Systems
  BY DEF Parts
<1>2. /\ x.stage = "field" /\ IsDirected(x.w) /\ (x.dest = Field \/ x.dir = "Core") /\ flight' = flight \ {x}
      /\ UNCHANGED <<sys, asks, busy>>
      /\ pipes' = IF x.dest = Field \/ Of(x.point).bind = <<>> THEN pipes ELSE pipes \union {y}
  BY DEF EnterPipeline, Entering
<1>3. CarriedOK(x.w)
  BY <1>1 DEF FlightOK
<1>4. y.t = x /\ y.next = 1
  BY DEF Entering
<1> HIDE DEF y
<1>5. k \in Tokens
  BY TokensAre
<1>6. \A t \in Tokens' : (t \in Tokens /\ t # k) \/ t = n
  <2> TAKE t \in Tokens'
  <2>1. CASE t \in Tokens /\ \A z \in flight : t = FlightToken(z) => z \in flight'
    BY <1>2, <2>1
  <2>2. CASE \E z \in flight' : z \notin flight /\ t = FlightToken(z)
    BY <1>2, <2>2
  <2>3. CASE \E z \in pipes' : z \notin pipes /\ Keeping(z) /\ t = PipeToken(z)
    BY <1>2, <2>3
  <2>4. CASE \E b \in busy' : b \notin busy /\ t = BusyToken(b)
    BY <1>2, <2>4
  <2> QED
    BY <1>2, <2>1, <2>2, <2>3, <2>4, TokensMove
<1>7. Heir(n, k)
  <2> DEFINE w == Payload(x.w)
  <2>1. k.id = w.id /\ k.at = AtOf(w.via) /\ k.owed = (w.kind # "signal") /\ k.role = Role(w) /\ k.next = 0
    BY TokenFields DEF FlightToken
  <2>2. CASE x.w.load # <<>>
    <3>1. n = Token(w, Role(w), 0, <<"pipe", y>>)
      BY <1>4, <2>2 DEF PipeToken
    <3>2. n.id = w.id /\ n.at = AtOf(w.via) /\ n.owed = (w.kind # "signal") /\ n.role = Role(w) /\ n.next = 0
      BY <3>1, TokenFields
    <3> HIDE DEF n, k, w
    <3> QED
      BY <2>1, <3>2 DEF Heir
  <2>3. CASE x.w.load = <<>>
    <3>1. w = x.w
      BY <2>3 DEF Payload
    <3>2. Role(w) = "new"
      BY <1>2, <3>1 DEF Role, IsDirected
    <3>3. ~Spent(y)
      BY <1>4 DEF Spent
    <3>4. n.id = w.id /\ n.at = AtOf(w.via) /\ n.owed = (w.kind # "signal") /\ n.role = "pipe" /\ n.next = 1
      BY <1>2, <1>3, <1>4, <2>3, <3>1, <3>3, PipeTokenFields
    <3> HIDE DEF n, k, w
    <3> QED
      BY <2>1, <3>2, <3>4 DEF Heir
  <2> QED
    BY <2>2, <2>3
<1>8. Ledger(Tokens, asks)
  BY DEF Books
<1> HIDE DEF k, n
<1>9. Alone(n, n)
  BY DEF Alone
<1>10. Ledger(Tokens', asks)
  BY <1>5, <1>6, <1>7, <1>8, <1>9, LedgerMove
<1> QED
  BY <1>2, <1>10 DEF Books

\* The pipeline of a transport passes it on.
LEMMA PassedOnBooks ==
    ASSUME Parts, Books, NEW y \in pipes, PipeStep(y), y.t.w.load # <<>>
    PROVE  Books' /\ asks' = asks
<1> DEFINE k == PipeToken(y)
           n == FlightToken(Onto(y))
           w == Payload(y.t.w)
<1>1. PipeOK(y) /\ sys \in Systems
  BY DEF Parts
<1>2. /\ y.next <= Len(Bind(y)) /\ flight' = flight \union StopFlight(y)
      /\ asks' = IF StopOf(y) # "Reflect" /\ y.t.w.kind = "ping" THEN Exchange(InnerId(y, y.next), y.t.star)
                 ELSE asks
      /\ pipes' = (pipes \ {y}) \union {Stepped(y)}
      /\ UNCHANGED <<sys, busy>>
  BY PipeStepIs
<1>3. StopOf(y) = "Core" /\ y.next = 1 /\ Stepped(y).t = y.t /\ Stepped(y).next = y.next + 1
  BY <1>1, <1>2, StopFacts
<1>4. StopFlight(y) = {Onto(y)}
  BY <1>3 DEF StopFlight
<1>5. CarriedOK(y.t.w)
  BY <1>1 DEF PipeOK
<1>6. asks' = asks
  BY <1>2, <1>5, Loads DEF CarriedOK
<1>7. Onto(y).w = Inner(y) /\ Payload(Inner(y)) = w
  BY <1>1, <1>2, <1>3, OntoMade, InnerMade
<1>8. k \in Tokens
  <2>1. Keeping(y)
    BY <1>3 DEF Keeping
  <2> QED
    BY <2>1, TokensAre
<1>9. ~Keeping(Stepped(y))
  BY <1>3 DEF Keeping
<1>10. \A t \in Tokens' : (t \in Tokens /\ t # k) \/ t = n
  <2> TAKE t \in Tokens'
  <2>1. CASE t \in Tokens /\ \A z \in pipes : t = PipeToken(z) => z \in pipes'
    <3>1. t # k
      <4> SUFFICES ASSUME t = k PROVE FALSE
        OBVIOUS
      <4>1. y \in pipes'
        BY <2>1
      <4>2. y = Stepped(y)
        BY <1>2, <4>1
      <4> QED
        BY <1>3, <4>2
    <3> QED
      BY <2>1, <3>1
  <2>2. CASE \E z \in flight' : z \notin flight /\ t = FlightToken(z)
    BY <1>2, <1>4, <2>2
  <2>3. CASE \E z \in pipes' : z \notin pipes /\ Keeping(z) /\ t = PipeToken(z)
    BY <1>2, <1>9, <2>3
  <2>4. CASE \E b \in busy' : b \notin busy /\ t = BusyToken(b)
    BY <1>2, <2>4
  <2> QED
    BY <1>2, <2>1, <2>2, <2>3, <2>4, TokensMove
<1>11. Heir(n, k)
  <2>1. k = Token(w, Role(w), 0, <<"pipe", y>>)
    BY DEF PipeToken
  <2>2. k.id = w.id /\ k.at = AtOf(w.via) /\ k.owed = (w.kind # "signal") /\ k.role = Role(w) /\ k.next = 0
    BY <2>1, TokenFields
  <2>3. n.id = w.id /\ n.at = AtOf(w.via) /\ n.owed = (w.kind # "signal") /\ n.role = Role(w) /\ n.next = 0
    BY <1>7, TokenFields DEF FlightToken
  <2> HIDE DEF k, n, w
  <2> QED
    BY <2>2, <2>3 DEF Heir
<1>12. Ledger(Tokens, asks)
  BY DEF Books
<1> HIDE DEF k, n
<1>13. Alone(n, n)
  BY DEF Alone
<1>14. Ledger(Tokens', asks)
  BY <1>8, <1>10, <1>11, <1>12, <1>13, LedgerMove
<1> QED
  BY <1>6, <1>14 DEF Books

\* Whoever gave up has given up for good.
Lasting == \A id \in DOMAIN asks : id \in DOMAIN asks' /\ (asks[id].st = "late" => asks'[id].st = "late")

LEMMA OpenedLasts ==
    ASSUME NEW id, NEW at, id \notin DOMAIN asks, Opened(asks, asks', id, at)
    PROVE  Lasting
  BY DEF Lasting, Opened

LEMMA SameLasts == ASSUME asks' = asks PROVE Lasting
  BY DEF Lasting

\* What a stop makes of the pipeline, and the tokens of all that is there then.
LEMMA SteppedToken ==
    ASSUME sys \in Systems, NEW y, PipeOK(y), y.next <= Len(Bind(y)), y.t.w.load = <<>>
    PROVE  LET k == PipeToken(y)
               n == PipeToken(Stepped(y))
           IN  /\ k.id = y.t.w.id /\ k.at = AtOf(y.t.w.via) /\ k.owed = (y.t.w.kind # "signal")
               /\ k.role = "pipe" /\ k.next = y.next
               /\ Heir(n, k) /\ n.role = (IF StopOf(y) = "Reflect" THEN "spent" ELSE "pipe") /\ n.next = y.next + 1
<1> DEFINE k == PipeToken(y)
           z == Stepped(y)
           n == PipeToken(z)
<1>1. /\ y.next \in 1 .. Len(Bind(y)) /\ Bind(y) \in Seq(STRING) /\ Len(Bind(y)) \in Nat /\ CarriedOK(y.t.w)
      /\ \A i \in 1 .. Len(Bind(y)) : Bind(y)[i] = "Reflect" => i = Len(Bind(y))
  BY PipeFacts
<1>2. IsDirected(y.t.w)
  BY DEF PipeOK
<1>3. z.t = y.t /\ z.next = y.next + 1 /\ Bind(z) = Bind(y)
  BY StopFacts
<1> HIDE DEF z
<1>4. ~Spent(y)
  <2>1. y.next - 1 < Len(Bind(y)) /\ y.next - 1 \in Int
    BY <1>1
  <2>2. y.next > 1 => y.next - 1 \in 1 .. Len(Bind(y))
    BY <1>1
  <2> QED
    BY <1>1, <2>1, <2>2 DEF Spent
<1>5. Spent(z) <=> StopOf(y) = "Reflect"
  <2>1. z.next > 1 /\ z.next - 1 = y.next
    BY <1>1, <1>3
  <2> QED
    BY <1>3, <2>1 DEF Spent, StopOf
<1>6. /\ k.id = y.t.w.id /\ k.at = AtOf(y.t.w.via) /\ k.owed = (y.t.w.kind # "signal")
      /\ k.role = "pipe" /\ k.next = y.next
  BY <1>1, <1>2, <1>4, PipeTokenFields
<1>7. /\ n.id = y.t.w.id /\ n.at = AtOf(y.t.w.via) /\ n.owed = (y.t.w.kind # "signal")
      /\ n.role = (IF Spent(z) THEN "spent" ELSE "pipe") /\ n.next = y.next + 1
  BY <1>1, <1>2, <1>3, PipeTokenFields
<1> HIDE DEF k, n
<1>8. n.role = (IF StopOf(y) = "Reflect" THEN "spent" ELSE "pipe")
  BY <1>5, <1>7
<1>9. k.next <= n.next /\ n.next \in Nat
  BY <1>1, <1>6, <1>7
<1>10. Heir(n, k)
  BY <1>6, <1>7, <1>9 DEF Heir
<1> QED
  BY <1>6, <1>7, <1>8, <1>10 DEF k, n, z

LEMMA PipeStepTokens ==
    ASSUME Parts, NEW y \in pipes, PipeStep(y), y.t.w.load = <<>>
    PROVE  /\ PipeToken(y) \in Tokens
           /\ \A t \in Tokens' : \/ t \in Tokens /\ t # PipeToken(y)
                                 \/ t = PipeToken(Stepped(y))
                                 \/ \E z \in StopFlight(y) : t = FlightToken(z)
<1> DEFINE k == PipeToken(y)
<1>1. /\ y.next <= Len(Bind(y)) /\ flight' = flight \union StopFlight(y)
      /\ pipes' = (pipes \ {y}) \union {Stepped(y)}
      /\ UNCHANGED <<sys, busy>>
  BY PipeStepIs
<1>2. PipeOK(y) /\ sys \in Systems
  BY DEF Parts
<1>3. Stepped(y).next = y.next + 1 /\ y.next \in Nat
  BY <1>1, <1>2, StopFacts, PipeFacts
<1>4. y \notin pipes'
  <2>1. Stepped(y) # y
    BY <1>3
  <2> QED
    BY <1>1, <2>1
<1>5. k \in Tokens
  BY TokensAre DEF Keeping
<1> HIDE DEF k
<1>6. ASSUME NEW t \in Tokens'
      PROVE  (t \in Tokens /\ t # k) \/ t = PipeToken(Stepped(y)) \/ \E z \in StopFlight(y) : t = FlightToken(z)
  <2>1. CASE t \in Tokens /\ \A z \in pipes : t = PipeToken(z) => z \in pipes'
    BY <1>4, <2>1 DEF k
  <2>2. CASE \E z \in flight' : z \notin flight /\ t = FlightToken(z)
    BY <1>1, <2>2
  <2>3. CASE \E z \in pipes' : z \notin pipes /\ Keeping(z) /\ t = PipeToken(z)
    BY <1>1, <2>3
  <2>4. CASE \E b \in busy' : b \notin busy /\ t = BusyToken(b)
    BY <1>1, <2>4
  <2> QED
    BY <1>1, <2>1, <2>2, <2>3, <2>4, TokensMove
<1> QED
  BY <1>5, <1>6 DEF k

\* A stop that asks: the core, or another particle.
LEMMA AsksBooks ==
    ASSUME Parts, Books, NEW y \in pipes, PipeStep(y), y.t.w.load = <<>>, StopOf(y) # "Reflect"
    PROVE  Books' /\ Lasting
<1> DEFINE k == PipeToken(y)
           n == PipeToken(Stepped(y))
           z == IF StopOf(y) = "Core" THEN Onto(y) ELSE InGravity(y.t.star, Outer(y))
           c == FlightToken(z)
           id == InnerId(y, y.next)
<1>1. PipeOK(y) /\ sys \in Systems /\ AsksOK
  BY DEF Parts
<1>2. /\ y.next <= Len(Bind(y))
      /\ asks' = IF y.t.w.kind = "ping" THEN Exchange(id, y.t.star) ELSE asks
  BY PipeStepIs
<1>3. y.t.w.kind \in {"ping", "signal"} /\ HomeOf(y.t.point, y.t.star) /\ y.next \in Nat
  BY <1>1, PipeFacts
<1>4. Payload(z.w) = z.w /\ z.w.kind = y.t.w.kind /\ z.w.id = id /\ z.w.via = At(y.t.point, Field)
  <2>1. CASE StopOf(y) = "Core"
    BY <1>1, <1>2, <2>1, OntoMade, InnerMade
  <2>2. CASE StopOf(y) # "Core"
    <3>1. z.w = Outer(y)
      BY <2>2 DEF InGravity
    <3> HIDE DEF z
    <3> QED
      BY <1>1, <1>2, <3>1, OuterMade
  <2> QED
    BY <2>1, <2>2
<1>5. StopFlight(y) = {z}
  BY DEF StopFlight
<1> HIDE DEF z
<1>6. /\ k.id = y.t.w.id /\ k.role = "pipe" /\ k.next = y.next
      /\ Heir(n, k) /\ n.role = "pipe" /\ n.next = y.next + 1
  BY <1>1, <1>2, SteppedToken
<1>7. /\ c.id = id /\ c.at = AtOf(At(y.t.point, Field)) /\ c.owed = (y.t.w.kind # "signal")
      /\ c.role = "new" /\ c.next = 0
  <2>1. Role(z.w) = "new"
    BY <1>3, <1>4 DEF Role
  <2> QED
    BY <1>4, <2>1, TokenFields DEF FlightToken
<1>8. c.at = y.t.star
  BY <1>3, <1>7, AtOfHere
<1>9. k \in Tokens /\ \A t \in Tokens' : (t \in Tokens /\ t # k) \/ t = n \/ t = c
  BY <1>5, PipeStepTokens
<1>10. id = Append(k.id, k.next)
  BY <1>6 DEF InnerId
<1>11. Ledger(Tokens, asks)
  BY DEF Books
<1> HIDE DEF k, n, c, id
<1>12. Child(c, k)
  BY <1>7, <1>10 DEF Child
<1>13. k.role \in {"new", "pipe"} /\ k.next < n.next
  BY <1>3, <1>6
<1>14. id \notin DOMAIN asks
  BY <1>7, <1>9, <1>11, <1>12, <1>13, ChildIsNew
<1>15. CASE y.t.w.kind = "ping"
  <2>1. asks' = Exchange(id, y.t.star)
    BY <1>2, <1>15
  <2>2. Opened(asks, asks', id, y.t.star)
    BY <1>1, <2>1, ExchangeOpens
  <2>3. Opened(asks, asks', c.id, c.at)
    BY <1>7, <1>8, <2>2
  <2>4. Ledger(Tokens', asks')
    BY <1>6, <1>9, <1>11, <1>12, <1>13, <2>3, LedgerBear
  <2> QED
    BY <1>14, <2>2, <2>4, OpenedLasts DEF Books
<1>16. CASE y.t.w.kind = "signal"
  <2>1. asks' = asks /\ ~c.owed
    BY <1>2, <1>7, <1>16
  <2>2. Ledger(Tokens', asks')
    BY <1>6, <1>9, <1>11, <1>12, <1>13, <2>1, LedgerBear
  <2> QED
    BY <2>1, <2>2, SameLasts DEF Books
<1> QED
  BY <1>3, <1>15, <1>16

\* The last stop: the pipeline reflects.
LEMMA ReflectsBooks ==
    ASSUME Parts, Books, NEW y \in pipes, PipeStep(y), y.t.w.load = <<>>, StopOf(y) = "Reflect"
    PROVE  Books' /\ Lasting
<1> DEFINE k == PipeToken(y)
           n == PipeToken(Stepped(y))
           z == InGravity(y.t.star, Reflect(y.t.w, TRUE, y.t.to))
           m == FlightToken(z)
<1>1. PipeOK(y) /\ sys \in Systems
  BY DEF Parts
<1>2. y.next <= Len(Bind(y)) /\ asks' = asks
  BY PipeStepIs
<1>3. y.t.w.kind \in {"ping", "signal"}
  BY <1>1, PipeFacts
<1>4. /\ k.id = y.t.w.id /\ k.at = AtOf(y.t.w.via) /\ k.owed = (y.t.w.kind # "signal") /\ k.role = "pipe"
      /\ Heir(n, k) /\ n.role = "spent"
  BY <1>1, <1>2, SteppedToken
<1>5. /\ k \in Tokens
      /\ \A t \in Tokens' : (t \in Tokens /\ t # k) \/ t = n \/ \E x \in StopFlight(y) : t = FlightToken(x)
  BY PipeStepTokens
<1>6. Ledger(Tokens, asks)
  BY DEF Books
<1>7. z.w = Reflect(y.t.w, TRUE, y.t.to)
  BY DEF InGravity
<1>8. StopFlight(y) = IF y.t.w.kind = "ping" THEN {z} ELSE {}
  BY <1>3 DEF StopFlight
<1> HIDE DEF k, n, z
<1>9. CASE y.t.w.kind = "ping"
  <2>1. Heir(m, k) /\ m.role = "pong"
    <3>1. k.owed = TRUE /\ k.role \in {"new", "pipe", "busy"}
      BY <1>4, <1>9
    <3> QED
      BY <1>4, <1>7, <3>1, HeirReflect
  <2>2. \A t \in Tokens' : (t \in Tokens /\ t # k) \/ t = n \/ t = m
    BY <1>5, <1>8, <1>9
  <2> HIDE DEF m
  <2>3. Alone(n, m) /\ Alone(m, n)
    BY <1>4, <2>1 DEF Alone
  <2>4. Ledger(Tokens', asks)
    BY <1>4, <1>5, <1>6, <2>1, <2>2, <2>3, LedgerMove
  <2> QED
    BY <1>2, <2>4, SameLasts DEF Books
<1>10. CASE y.t.w.kind = "signal"
  <2>1. \A t \in Tokens' : (t \in Tokens /\ t # k) \/ t = n
    BY <1>5, <1>8, <1>10
  <2>2. Alone(n, n)
    BY DEF Alone
  <2>3. Ledger(Tokens', asks)
    BY <1>4, <1>5, <1>6, <2>1, <2>2, LedgerMove
  <2> QED
    BY <1>2, <2>3, SameLasts DEF Books
<1> QED
  BY <1>3, <1>9, <1>10

LEMMA PipeStepBooks ==
    ASSUME Parts, Books, NEW y \in pipes, PipeStep(y)
    PROVE  Books' /\ Lasting
<1>1. CASE y.t.w.load # <<>>
  BY <1>1, PassedOnBooks, SameLasts
<1>2. CASE y.t.w.load = <<>>
  BY <1>2, AsksBooks, ReflectsBooks
<1> QED
  BY <1>1, <1>2

\* What has become of a pipeline when it ends: nothing, or the answer that it failed.
LEMMA PipeEndsBooks ==
    ASSUME Parts, Books, NEW y \in pipes, PipeEnds(y)
    PROVE  Books' /\ Lasting
<1> DEFINE k == PipeToken(y)
           z == InGravity(y.t.star, Reflect(y.t.w, FALSE, At(y.t.point, Field)))
           m == FlightToken(z)
<1>1. PipeOK(y) /\ sys \in Systems
  BY DEF Parts
<1>2. /\ flight' = flight \/ (StopFailed(y) /\ flight' = flight \union {z})
      /\ pipes' = pipes \ {y} /\ UNCHANGED <<sys, asks, busy>>
  BY DEF PipeEnds
<1>3. z.w = Reflect(y.t.w, FALSE, At(y.t.point, Field))
  BY DEF InGravity
<1> HIDE DEF z
<1>4. Ledger(Tokens, asks)
  BY DEF Books
<1>5. \A t \in Tokens' : (t \in Tokens /\ (\A x \in pipes : t = PipeToken(x) => x \in pipes'))
                         \/ (StopFailed(y) /\ t = m)
  <2> TAKE t \in Tokens'
  <2>1. CASE t \in Tokens /\ \A x \in pipes : t = PipeToken(x) => x \in pipes'
    BY <2>1
  <2>2. CASE \E x \in flight' : x \notin flight /\ t = FlightToken(x)
    BY <1>2, <2>2
  <2>3. CASE \E x \in pipes' : x \notin pipes /\ Keeping(x) /\ t = PipeToken(x)
    BY <1>2, <2>3
  <2>4. CASE \E b \in busy' : b \notin busy /\ t = BusyToken(b)
    BY <1>2, <2>4
  <2> QED
    BY <1>2, <2>1, <2>2, <2>3, <2>4, TokensMove
<1>6. y \notin pipes'
  BY <1>2
<1> HIDE DEF m
<1>7. CASE ~StopFailed(y)
  <2>1. \A t \in Tokens' : t \in Tokens
    BY <1>5, <1>7
  <2>2. Ledger(Tokens', asks)
    BY <1>4, <2>1, LedgerFewer
  <2> QED
    BY <1>2, <2>2, SameLasts DEF Books
<1>8. CASE StopFailed(y)
  <2>1. y.t.w.kind = "ping" /\ y.next # 1 /\ Bind(y)[y.next - 1] # "Reflect" /\ y.t.w.load = <<>>
    BY <1>1, <1>8, FailedFacts
  <2>2. CarriedOK(y.t.w) /\ IsDirected(y.t.w) /\ ~Spent(y)
    BY <1>1, <2>1 DEF PipeOK, Spent
  <2>3. k.id = y.t.w.id /\ k.at = AtOf(y.t.w.via) /\ k.owed = (y.t.w.kind # "signal") /\ k.role = "pipe"
    BY <2>1, <2>2, PipeTokenFields
  <2>4. k \in Tokens
    BY <2>1, TokensAre DEF Keeping
  <2>5. \A t \in Tokens' : (t \in Tokens /\ t # k) \/ t = m
    BY <1>5, <1>6
  <2> HIDE DEF k
  <2>6. k.owed = TRUE /\ k.role \in {"new", "pipe", "busy"}
    BY <2>1, <2>3
  <2>7. Heir(m, k)
    BY <1>3, <2>3, <2>6, HeirReflect DEF m
  <2>8. Alone(m, m)
    BY DEF Alone
  <2>9. Ledger(Tokens', asks)
    BY <1>4, <2>4, <2>5, <2>7, <2>8, LedgerMove
  <2> QED
    BY <1>2, <2>9, SameLasts DEF Books
<1> QED
  BY <1>7, <1>8

-----------------------------------------------------------------------------
(* Asks, answers, and the end of patience.                                 *)

LEMMA AskBooks ==
    ASSUME Parts, Books, NEW i \in DOMAIN sys.asks, Ask(i)
    PROVE  Books' /\ Lasting
<1> DEFINE a == sys.asks[i]
           id == <<i>>
           w == Directed(a.kind, <<i>>, a.from, a.to, a.from)
           x == Injected(Of(a.from.p).home, w, a.inject, FALSE)
           at == IF Of(a.from.p).does = "remote" THEN "client" ELSE Of(a.from.p).home
           st == IF a.kind = "ping" THEN "waiting" ELSE "ok"
           c == FlightToken(x)
<1>1. /\ flight' = flight \union {x} /\ asks' = Entered(id, [at |-> at, st |-> st]) /\ id \notin DOMAIN asks
      /\ UNCHANGED <<sys, pipes, busy>>
  BY DEF Ask
<1>2. sys \in Systems /\ AsksOK
  BY DEF Parts
<1>3. /\ i \in Int /\ a.kind \in {"ping", "signal"}
      /\ Of(a.from.p).does = "remote" => a.from.l \notin {Field, Shell, Of(a.from.p).layer}
  BY <1>2, AskFacts DEF Field, Shell
<1>4. w.id = id /\ w.kind = a.kind /\ w.via = a.from /\ Payload(w) = w /\ x.w = w
  BY DEF Directed, Payload, Injected
<1> HIDE DEF a, x, w
<1>5. c.id = id /\ c.at = AtOf(a.from) /\ c.owed = (a.kind # "signal") /\ c.next = 0
  BY <1>4, TokenFields DEF FlightToken
<1>6. AtOf(a.from) = at
  BY <1>3 DEF AtOf
<1> HIDE DEF c, at
<1>7. st \in Statuses /\ (c.owed => st = "waiting")
  BY <1>3, <1>5 DEF Statuses
<1> HIDE DEF st
<1>8. /\ DOMAIN asks' = DOMAIN asks \union {id} /\ asks'[id] = [at |-> at, st |-> st]
      /\ \A b \in DOMAIN asks : b # id => asks'[b] = asks[b]
  BY <1>1 DEF Entered
<1>9. \A b \in DOMAIN asks : asks'[b] = asks[b]
  BY <1>1, <1>8
<1>10. c.owed => Owed(c, asks')
  BY <1>5, <1>6, <1>7, <1>8 DEF Owed
<1>11. \A t \in Tokens' : t \in Tokens \/ t = c
  <2> TAKE t \in Tokens'
  <2>1. CASE \E z \in flight' : z \notin flight /\ t = FlightToken(z)
    BY <1>1, <2>1 DEF c
  <2>2. CASE \E z \in pipes' : z \notin pipes /\ Keeping(z) /\ t = PipeToken(z)
    BY <1>1, <2>2
  <2>3. CASE \E b \in busy' : b \notin busy /\ t = BusyToken(b)
    BY <1>1, <2>3
  <2> QED
    BY <1>1, <2>1, <2>2, <2>3, TokensMove
<1>12. Ledger(Tokens, asks)
  BY DEF Books
<1>13. c.id = <<i>> /\ <<i>> \notin DOMAIN asks /\ DOMAIN asks' = DOMAIN asks \union {<<i>>}
  BY <1>1, <1>5, <1>8
<1>14. Lasting
  BY <1>8, <1>9 DEF Lasting
<1> HIDE DEF id
<1>15. Ledger(Tokens', asks')
  BY <1>3, <1>5, <1>9, <1>10, <1>11, <1>12, <1>13, LedgerAsk
<1> QED
  BY <1>14, <1>15 DEF Books

LEMMA TimeoutBooks ==
    ASSUME Parts, Books, NEW id \in DOMAIN asks, Timeout(id)
    PROVE  Books' /\ Lasting
<1>1. AsksOK
  BY DEF Parts
<1>2. asks' = [asks EXCEPT ![id].st = "late"] /\ UNCHANGED <<sys, flight, pipes, busy>>
  BY DEF Timeout
<1>3. "late" \in Statuses
  BY DEF Statuses
<1>4. /\ DOMAIN asks' = DOMAIN asks /\ asks'[id].st = "late" /\ asks'[id].at = asks[id].at
      /\ \A b \in DOMAIN asks : b # id => asks'[b] = asks[b]
  BY <1>1, <1>2, <1>3, SettledOK
<1>5. \A t \in Tokens' : t \in Tokens
  BY <1>2, TokensMove
<1>6. Ledger(Tokens, asks)
  BY DEF Books
<1>7. Ledger(Tokens, asks')
  BY <1>4, <1>6, LedgerLate
<1>8. Ledger(Tokens', asks')
  BY <1>5, <1>7, LedgerFewer
<1> QED
  BY <1>4, <1>8 DEF Books, Lasting

\* An answer that gets where it is waited for is either waited for, or too late.
LEMMA AnswerBooks ==
    ASSUME Parts, Books, UnexpectedOnlyIfLate, NEW x \in flight, x.w.kind = "pong", NEW at, AtOf(x.w.via) = at,
           flight' = flight \ {x}, UNCHANGED <<sys, pipes, busy>>, Reflected(x.w, at)
    PROVE  Books' /\ UnexpectedOnlyIfLate'
<1> DEFINE k == FlightToken(x)
           id == x.w.id
           st == IF x.w.ok THEN "ok" ELSE "error"
<1>1. AsksOK /\ CarriedOK(x.w)
  BY FlightKinds DEF Parts
<1>2. Payload(x.w) = x.w
  BY <1>1, Loads DEF CarriedOK
<1>3. Role(x.w) = "pong"
  BY DEF Role
<1>4. k.id = id /\ k.at = at /\ k.owed = (x.w.kind # "signal") /\ k.role = "pong"
  BY <1>2, <1>3, TokenFields DEF FlightToken
<1>5. k.owed = TRUE /\ k.role # "spent"
  BY <1>4
<1>6. k \in Tokens
  BY TokensAre
<1>7. \A t \in Tokens' : t \in Tokens /\ t # k
  BY TokensMove
<1>8. Ledger(Tokens, asks)
  BY DEF Books
<1>9. /\ asks' = IF Waits(id, at) THEN [asks EXCEPT ![id].st = st] ELSE asks
      /\ unexpected' = IF Waits(id, at) THEN unexpected ELSE unexpected \union {id}
  BY DEF Reflected
<1>10. st \in Statuses
  BY DEF Statuses
<1> HIDE DEF k, id, st
<1>11. Owed(k, asks)
  BY <1>5, <1>6, <1>8 DEF Ledger
<1>12. id \in DOMAIN asks /\ asks[id].at = at /\ asks[id].st \in {"waiting", "late"}
  BY <1>4, <1>11 DEF Owed
<1>13. CASE Waits(id, at)
  <2>1. /\ DOMAIN asks' = DOMAIN asks
        /\ \A b \in DOMAIN asks : b # id => asks'[b] = asks[b]
    BY <1>1, <1>9, <1>10, <1>12, <1>13, SettledOK
  <2>2. Ledger(Tokens', asks')
    BY <1>4, <1>6, <1>7, <1>8, <2>1, LedgerAnswer
  <2>3. asks[id].st = "waiting" /\ unexpected' = unexpected
    BY <1>9, <1>13 DEF Waits
  <2>4. \A b \in unexpected : b # id /\ b \in DOMAIN asks /\ asks[b].st = "late"
    BY <2>3 DEF UnexpectedOnlyIfLate
  <2>5. \A b \in unexpected' : b \in DOMAIN asks' /\ asks'[b].st = "late"
    BY <2>1, <2>3, <2>4
  <2> QED
    BY <2>2, <2>5 DEF Books, UnexpectedOnlyIfLate
<1>14. CASE ~Waits(id, at)
  <2>1. asks[id].st = "late"
    BY <1>12, <1>14 DEF Waits
  <2>2. asks' = asks /\ unexpected' = unexpected \union {id}
    BY <1>9, <1>14
  <2>3. Ledger(Tokens', asks)
    BY <1>7, <1>8, LedgerFewer
  <2> QED
    BY <1>12, <2>1, <2>2, <2>3 DEF Books, UnexpectedOnlyIfLate
<1> QED
  BY <1>13, <1>14

LEMMA DeliveredBooks ==
    ASSUME Parts, Books, UnexpectedOnlyIfLate, NEW x \in flight, Delivered(x)
    PROVE  Books' /\ UnexpectedOnlyIfLate'
<1>1. FlightOK(x)
  BY DEF Parts
<1>2. /\ x.stage \in {"field", "shell"} /\ x.dest = x.layer /\ ~IsDirected(x.w)
      /\ flight' = flight \ {x} /\ UNCHANGED <<sys, pipes, busy>> /\ Reflected(x.w, x.star)
  BY DEF Delivered
<1>3. TraversalOK(x) /\ CarriedOK(x.w)
  BY <1>1, <1>2, FlightKinds
<1>4. x.w.kind = "pong"
  BY <1>2 DEF IsDirected
<1>5. StageOK(x) /\ WayOK(x) /\ AnswerWayOK(x)
  BY <1>3 DEF TraversalOK
<1>6. x.layer \in {Field, Shell}
  BY <1>2, <1>5 DEF StageOK
<1>7. x.dest # None
  BY <1>2, <1>6 DEF Field, Shell, None
<1>8. HomeOf(x.to.p, x.star) /\ x.to.l \in {Field, Shell}
  BY <1>2, <1>5, <1>6, <1>7 DEF WayOK
<1>9. x.w.via = x.to
  BY <1>3, <1>4, <1>5 DEF AnswerWayOK, CarriedOK, WaveOK
<1>10. AtOf(x.w.via) = x.star
  BY <1>8, <1>9 DEF AtOf, HomeOf
<1> QED
  BY <1>2, <1>4, <1>10, AnswerBooks

LEMMA CoreGetsAnswerBooks ==
    ASSUME Parts, Books, UnexpectedOnlyIfLate, NEW x \in flight, CoreGetsAnswer(x)
    PROVE  Books' /\ UnexpectedOnlyIfLate'
<1>1. FlightOK(x) /\ sys \in Systems
  BY DEF Parts
<1>2. /\ x.stage = "core" /\ ~IsDirected(x.w) /\ flight' = flight \ {x} /\ UNCHANGED <<sys, pipes, busy>>
      /\ IF x.w.to.l = Of(x.to.p).layer THEN Reflected(x.w, x.star)
         ELSE IF Of(x.to.p).does = "remote" THEN Reflected(x.w, "client")
         ELSE UNCHANGED <<asks, unexpected>>
  BY DEF CoreGetsAnswer
<1>3. x.w.kind = "pong"
  BY <1>2 DEF IsDirected
<1>4. x.to = x.w.to /\ x.w.to = x.w.via /\ Shell < x.w.to.l /\ Of(x.to.p).home = x.star
  BY <1>1, <1>2, <1>3, CoreFacts
<1>5. x.w.to.l \notin {Field, Shell}
  BY <1>4 DEF Field, Shell
<1>6. CASE x.w.to.l = Of(x.to.p).layer
  <2>1. AtOf(x.w.via) = x.star
    BY <1>4, <1>6 DEF AtOf
  <2> QED
    BY <1>2, <1>3, <1>6, <2>1, AnswerBooks
<1>7. CASE x.w.to.l # Of(x.to.p).layer /\ Of(x.to.p).does = "remote"
  <2>1. AtOf(x.w.via) = "client"
    BY <1>4, <1>5, <1>7 DEF AtOf
  <2> QED
    BY <1>2, <1>3, <1>7, <2>1, AnswerBooks
<1>8. CASE x.w.to.l # Of(x.to.p).layer /\ Of(x.to.p).does # "remote"
  <2>1. UNCHANGED <<asks, unexpected>>
    BY <1>2, <1>8
  <2>2. \A t \in Tokens' : t \in Tokens
    BY <1>2, TokensMove
  <2>3. Ledger(Tokens', asks)
    BY <2>2, LedgerFewer DEF Books
  <2> QED
    BY <2>1, <2>3 DEF Books, UnexpectedOnlyIfLate
<1> QED
  BY <1>6, <1>7, <1>8

LEMMA InitBooks == Init => Books /\ UnexpectedOnlyIfLate
<1> SUFFICES ASSUME Init PROVE Books /\ UnexpectedOnlyIfLate
  OBVIOUS
<1>1. flight = {} /\ pipes = {} /\ busy = {} /\ unexpected = {} /\ asks = <<>>
  BY DEF Init
<1>2. \A t \in Tokens : FALSE
  BY <1>1, TokensAre
<1>3. DOMAIN asks = {}
  BY <1>1
<1>4. Ledger(Tokens, asks)
  BY <1>2, <1>3 DEF Ledger
<1> QED
  BY <1>1, <1>4 DEF Books, UnexpectedOnlyIfLate

LEMMA LastingLate ==
    ASSUME UnexpectedOnlyIfLate, Lasting, unexpected' = unexpected
    PROVE  UnexpectedOnlyIfLate'
  BY DEF UnexpectedOnlyIfLate, Lasting

LEMMA StepBooks ==
    ASSUME Parts, Books, UnexpectedOnlyIfLate, [Next]_vars
    PROVE  Books' /\ UnexpectedOnlyIfLate'
<1>1. CASE UNCHANGED vars
  <2>1. UNCHANGED <<sys, flight, asks, pipes, busy, unexpected>>
    BY <1>1 DEF vars
  <2>2. \A t \in Tokens' : t \in Tokens
    BY <2>1, TokensMove
  <2>3. Ledger(Tokens', asks)
    BY <2>2, LedgerFewer DEF Books
  <2> QED
    BY <2>1, <2>3 DEF Books, UnexpectedOnlyIfLate
<1>2. ASSUME NEW i \in DOMAIN sys.asks, Ask(i) PROVE Books' /\ UnexpectedOnlyIfLate'
  <2>1. unexpected' = unexpected
    BY <1>2 DEF Ask
  <2> QED
    BY <1>2, <2>1, AskBooks, LastingLate
<1>3. ASSUME NEW x \in flight, Step(x) PROVE Books' /\ UnexpectedOnlyIfLate'
  <2>1. CASE Inject(x)
    <3>1. asks' = asks /\ unexpected' = unexpected
      BY <2>1 DEF Inject
    <3> QED
      BY <2>1, <3>1, InjectBooks, SameLasts, LastingLate
  <2>2. CASE TraverseToNextLayer(x)
    <3>1. asks' = asks /\ unexpected' = unexpected
      BY <2>2 DEF TraverseToNextLayer
    <3> QED
      BY <2>2, <3>1, NextLayerBooks, SameLasts, LastingLate
  <2>3. CASE Delivered(x)
    BY <2>3, DeliveredBooks
  <2>4. CASE Pass(x)
    <3>1. asks' = asks /\ unexpected' = unexpected
      BY <2>4 DEF Pass
    <3> QED
      BY <2>4, <3>1, PassBooks, SameLasts, LastingLate
  <2>5. CASE EnterPipeline(x)
    <3>1. asks' = asks /\ unexpected' = unexpected
      BY <2>5 DEF EnterPipeline
    <3> QED
      BY <2>5, <3>1, EnterPipelineBooks, SameLasts, LastingLate
  <2>6. CASE ShellHandles(x)
    <3>1. asks' = asks /\ unexpected' = unexpected
      BY <2>6 DEF ShellHandles
    <3> QED
      BY <2>6, <3>1, ShellHandlesBooks, SameLasts, LastingLate
  <2>7. CASE CoreHandles(x)
    <3>1. x.stage = "core" /\ IsDirected(x.w) /\ UNCHANGED <<sys, pipes, unexpected>>
      BY <2>7 DEF CoreHandles
    <3>2. CASE Consults(x)
      <4>1. Books' /\ Append(x.w.id, 0) \notin DOMAIN asks
        BY <3>1, <3>2, ConsultsBooks
      <4>2. asks' = Exchange(Append(x.w.id, 0), x.star) /\ AsksOK
        BY <3>2 DEF Consults, Parts
      <4>3. Opened(asks, asks', Append(x.w.id, 0), x.star)
        BY <4>2, ExchangeOpens
      <4> QED
        BY <3>1, <4>1, <4>3, OpenedLasts, LastingLate
    <3>3. CASE ~Consults(x)
      <4>1. Books' /\ UNCHANGED <<asks, unexpected>>
        BY <2>7, <3>3, CoreHandlesBooks
      <4> QED
        BY <4>1, SameLasts, LastingLate
    <3> QED
      BY <3>2, <3>3
  <2>8. CASE CoreGetsAnswer(x)
    BY <2>8, CoreGetsAnswerBooks
  <2>9. CASE Shard(x)
    <3>1. asks' = asks /\ unexpected' = unexpected
      BY <2>9 DEF Shard
    <3> QED
      BY <2>9, <3>1, ShardBooks, SameLasts, LastingLate
  <2> QED
    BY <1>3, <2>1, <2>2, <2>3, <2>4, <2>5, <2>6, <2>7, <2>8, <2>9 DEF Step
<1>4. ASSUME NEW y \in pipes, PipeStep(y) \/ PipeEnds(y) PROVE Books' /\ UnexpectedOnlyIfLate'
  <2>1. unexpected' = unexpected
    BY <1>4 DEF PipeStep, PipeEnds
  <2> QED
    BY <1>4, <2>1, PipeStepBooks, PipeEndsBooks, LastingLate
<1>5. ASSUME NEW b \in busy, CoreResumes(b) PROVE Books' /\ UnexpectedOnlyIfLate'
  <2>1. asks' = asks /\ unexpected' = unexpected
    BY <1>5 DEF CoreResumes
  <2> QED
    BY <1>5, <2>1, CoreResumesBooks, SameLasts, LastingLate
<1>6. ASSUME NEW id \in DOMAIN asks, Timeout(id) PROVE Books' /\ UnexpectedOnlyIfLate'
  <2>1. unexpected' = unexpected
    BY <1>6 DEF Timeout
  <2> QED
    BY <1>6, <2>1, TimeoutBooks, LastingLate
<1> QED
  BY <1>1, <1>2, <1>3, <1>4, <1>5, <1>6 DEF Next

\* For any systems of particles, whatever they ask, in whatever order the tasks run and whoever
\* gives up early: no ask is answered twice, and an answer that comes to an exchanger that has no
\* use for it comes to one that gave up.
THEOREM UnexpectedTheorem == Spec => []UnexpectedOnlyIfLate
<1>1. Init => Parts /\ Books /\ UnexpectedOnlyIfLate
  BY InitParts, InitBooks
<1>2. Parts /\ Books /\ UnexpectedOnlyIfLate /\ [Next]_vars => (Parts /\ Books /\ UnexpectedOnlyIfLate)'
  BY StepParts, StepBooks
<1> QED
  BY <1>1, <1>2, PTL DEF Spec

-----------------------------------------------------------------------------
(* What the particles tell: the recursive function, and that it is one.    *)

Outcomes == {"ok", "error", "late"}

Rests == [p : Particles, k : Nat \ {0}, hearer : Hearers]

\* One stop of a pipeline, and the rest of it.
PipeBody(f, q) ==
    IF q.k > Len(Of(q.p).bind) THEN {"late"}
    ELSE IF Of(q.p).bind[q.k] = "Reflect" THEN {"ok"}
    ELSE OrElse(StopTells(f, q), f[RestOf(q.p, q.k + 1, q.hearer)])

LEMMA OrElseGrows ==
    ASSUME NEW a, NEW b, NEW c, NEW d, a \subseteq b, c \subseteq d
    PROVE  OrElse(a, c) \subseteq OrElse(b, d)
  BY DEF OrElse

LEMMA OrElseOutcomes ==
    ASSUME NEW a \in SUBSET Outcomes, NEW c \in SUBSET Outcomes
    PROVE  OrElse(a, c) \in SUBSET Outcomes
  BY DEF OrElse, Outcomes

Tables == [Rests -> SUBSET Outcomes]
Below(f, g) == \A q \in Rests : f[q] \subseteq g[q]

LEMMA RestOfIs == \A p \in Particles, k \in Nat \ {0}, h \in Hearers :
                   /\ RestOf(p, k, h) \in Rests
                   /\ RestOf(p, k, h).p = p /\ RestOf(p, k, h).k = k /\ RestOf(p, k, h).hearer = h
  BY DEF RestOf, Rests

LEMMA FabricTellsIs ==
    ASSUME NEW f \in Tables, NEW g \in Tables, Below(f, g), NEW to, NEW h \in Hearers
    PROVE  FabricTells(f, to, h) \in SUBSET Outcomes /\ FabricTells(f, to, h) \subseteq FabricTells(g, to, h)
<1>1. CASE to.p = "GLOBAL"
  BY <1>1 DEF FabricTells, Outcomes
<1>2. CASE to.p # "GLOBAL" /\ (~Registered(to.p) \/ to.l = Field)
  BY <1>2 DEF FabricTells, Outcomes
<1>3. CASE to.p # "GLOBAL" /\ Registered(to.p) /\ to.l # Field /\ Of(to.p).bind = <<>>
  BY <1>3 DEF FabricTells, Outcomes
<1>4. CASE to.p # "GLOBAL" /\ Registered(to.p) /\ to.l # Field /\ Of(to.p).bind # <<>>
  <2>1. RestOf(to.p, 1, h) \in Rests
    BY <1>4, RestOfIs DEF Registered
  <2>2. f[RestOf(to.p, 1, h)] \in SUBSET Outcomes /\ f[RestOf(to.p, 1, h)] \subseteq g[RestOf(to.p, 1, h)]
    BY <2>1 DEF Tables, Below
  <2>3. FabricTells(f, to, h) = f[RestOf(to.p, 1, h)] /\ FabricTells(g, to, h) = g[RestOf(to.p, 1, h)]
    BY <1>4 DEF FabricTells
  <2> QED
    BY <2>2, <2>3
<1> QED
  BY <1>1, <1>2, <1>3, <1>4

LEMMA CoreTellsIs ==
    ASSUME NEW f \in Tables, NEW g \in Tables, Below(f, g), NEW p
    PROVE  CoreTells(f, p) \in SUBSET Outcomes /\ CoreTells(f, p) \subseteq CoreTells(g, p)
<1>1. CASE Of(p).does \in {"reflect", "refuse", "absorb", "remote"}
  BY <1>1 DEF CoreTells, Outcomes
<1>2. CASE Of(p).does \notin {"reflect", "refuse", "absorb", "remote"}
  <2> DEFINE Consulted(e) == IF Registered(Of(p).does) THEN FabricTells(e, At(Of(p).does, Core), "core") ELSE {"error"}
  <2>1. CoreTells(f, p) = OrElse(Consulted(f), {"ok"}) /\ CoreTells(g, p) = OrElse(Consulted(g), {"ok"})
    BY <1>2 DEF CoreTells
  <2>2. Consulted(f) \in SUBSET Outcomes /\ Consulted(f) \subseteq Consulted(g)
    <3>1. "core" \in Hearers
      BY DEF Hearers
    <3>2. /\ FabricTells(f, At(Of(p).does, Core), "core") \in SUBSET Outcomes
          /\ FabricTells(f, At(Of(p).does, Core), "core") \subseteq FabricTells(g, At(Of(p).does, Core), "core")
      BY <3>1, FabricTellsIs
    <3> QED
      BY <3>2 DEF Outcomes
  <2> HIDE DEF Consulted
  <2>3. OrElse(Consulted(f), {"ok"}) \in SUBSET Outcomes
    BY <2>2, OrElseOutcomes DEF Outcomes
  <2>4. OrElse(Consulted(f), {"ok"}) \subseteq OrElse(Consulted(g), {"ok"})
    BY <2>2, OrElseGrows
  <2> QED
    BY <2>1, <2>3, <2>4
<1> QED
  BY <1>1, <1>2

LEMMA HearerTellsIs ==
    ASSUME NEW f \in Tables, NEW g \in Tables, Below(f, g), NEW p, NEW h
    PROVE  HearerTells(f, p, h) \in SUBSET Outcomes /\ HearerTells(f, p, h) \subseteq HearerTells(g, p, h)
<1>1. CoreTells(f, p) \in SUBSET Outcomes /\ CoreTells(f, p) \subseteq CoreTells(g, p)
  BY CoreTellsIs
<1> QED
  BY <1>1 DEF HearerTells, Outcomes

LEMMA StopTellsIs ==
    ASSUME NEW f \in Tables, NEW g \in Tables, Below(f, g), NEW q
    PROVE  StopTells(f, q) \in SUBSET Outcomes /\ StopTells(f, q) \subseteq StopTells(g, q)
<1> DEFINE to == At(Of(q.p).bind[q.k], Core)
<1>1. HearerTells(f, q.p, q.hearer) \in SUBSET Outcomes /\ HearerTells(f, q.p, q.hearer) \subseteq HearerTells(g, q.p, q.hearer)
  BY HearerTellsIs
<1>2. FabricTells(f, to, "core") \in SUBSET Outcomes /\ FabricTells(f, to, "core") \subseteq FabricTells(g, to, "core")
  BY FabricTellsIs DEF Hearers
<1> QED
  BY <1>1, <1>2 DEF StopTells

LEMMA PipeBodyIs ==
    ASSUME NEW f \in Tables, NEW g \in Tables, Below(f, g), NEW q \in Rests
    PROVE  PipeBody(f, q) \in SUBSET Outcomes /\ PipeBody(f, q) \subseteq PipeBody(g, q)
<1> DEFINE n == RestOf(q.p, q.k + 1, q.hearer)
<1>1. n \in Rests
  <2>1. q.p \in Particles /\ q.k + 1 \in Nat \ {0} /\ q.hearer \in Hearers
    BY DEF Rests
  <2> QED
    BY <2>1, RestOfIs
<1> HIDE DEF n
<1>2. f[n] \in SUBSET Outcomes /\ f[n] \subseteq g[n]
  BY <1>1 DEF Tables, Below
<1>3. StopTells(f, q) \in SUBSET Outcomes /\ StopTells(f, q) \subseteq StopTells(g, q)
  BY StopTellsIs
<1>4. OrElse(StopTells(f, q), f[n]) \in SUBSET Outcomes
  BY <1>2, <1>3, OrElseOutcomes
<1>5. OrElse(StopTells(f, q), f[n]) \subseteq OrElse(StopTells(g, q), g[n])
  BY <1>2, <1>3, OrElseGrows
<1>6. CASE q.k > Len(Of(q.p).bind)
  BY <1>6 DEF PipeBody, Outcomes
<1>7. CASE ~(q.k > Len(Of(q.p).bind)) /\ Of(q.p).bind[q.k] = "Reflect"
  BY <1>7 DEF PipeBody, Outcomes
<1>8. CASE ~(q.k > Len(Of(q.p).bind)) /\ Of(q.p).bind[q.k] # "Reflect"
  <2>1. PipeBody(f, q) = OrElse(StopTells(f, q), f[n]) /\ PipeBody(g, q) = OrElse(StopTells(g, q), g[n])
    BY <1>8 DEF PipeBody, n
  <2> QED
    BY <1>4, <1>5, <2>1
<1> QED
  BY <1>6, <1>7, <1>8

\* There is a table that says of every pipeline what its stops make of it, even where particles
\* ask each other in circles: the least one, the meet of all that say no less than their stops.
LEMMA TableExists == \E g \in Tables : g = [q \in Rests |-> PipeBody(g, q)]
<1> DEFINE Closed == {g \in Tables : \A q \in Rests : PipeBody(g, q) \subseteq g[q]}
           m == [q \in Rests |-> {o \in Outcomes : \A g \in Closed : o \in g[q]}]
           n == [q \in Rests |-> PipeBody(m, q)]
<1>1. m \in Tables
  BY DEF Tables
<1>2. \A g \in Closed : g \in Tables /\ Below(m, g)
  BY DEF Below
<1>3. \A q \in Rests, o \in Outcomes : (\A g \in Closed : o \in g[q]) => o \in m[q]
  OBVIOUS
<1>4. \A g : g \in Tables /\ (\A q \in Rests : PipeBody(g, q) \subseteq g[q]) => g \in Closed
  OBVIOUS
<1>5. \A g \in Closed : \A q \in Rests : PipeBody(g, q) \subseteq g[q]
  OBVIOUS
<1>6. Below(m, m)
  BY DEF Below
<1> HIDE DEF m, Closed
<1>7. \A q \in Rests : PipeBody(m, q) \in SUBSET Outcomes
  BY <1>1, <1>6, PipeBodyIs
<1>8. n \in Tables /\ \A q \in Rests : n[q] = PipeBody(m, q)
  BY <1>7 DEF Tables
<1> HIDE DEF n
<1>9. Below(n, m)
  <2> SUFFICES ASSUME NEW q \in Rests, NEW o \in PipeBody(m, q) PROVE o \in m[q]
    BY <1>8 DEF Below
  <2>1. ASSUME NEW g \in Closed PROVE o \in g[q]
    <3>1. PipeBody(m, q) \subseteq PipeBody(g, q)
      BY <1>1, <1>2, PipeBodyIs
    <3> QED
      BY <1>5, <3>1
  <2> QED
    BY <1>3, <1>7, <2>1
<1>10. n \in Closed
  <2>1. \A q \in Rests : PipeBody(n, q) \subseteq PipeBody(m, q)
    BY <1>1, <1>8, <1>9, PipeBodyIs
  <2> QED
    BY <1>4, <1>8, <2>1
<1>11. \A q \in Rests : m[q] = n[q]
  BY <1>2, <1>9, <1>10 DEF Below
<1>12. m = [q \in Rests |-> PipeBody(m, q)]
  BY <1>1, <1>8, <1>11 DEF Tables
<1> QED
  BY <1>1, <1>12

LEMMA PipelineIs ==
   ASSUME NEW g, g = [q \in Rests |-> PipeBody(g, q)]
   PROVE  PipelineTells = [q \in Rests |-> PipeBody(PipelineTells, q)]
<1> DEFINE P(f) == f = [q \in Rests |-> PipeBody(f, q)]
<1>1. P(g)
  OBVIOUS
<1>2. PipelineTells = CHOOSE f : P(f)
  BY DEF PipelineTells, PipeBody, Rests
<1> HIDE DEF P
<1>3. P(PipelineTells)
  BY <1>1, <1>2
<1> QED
  BY <1>3 DEF P

\* The promise of a pipeline: that of its next stop, and of what is left then.
LEMMA PipelineTable == \A q \in Rests : PipelineTells[q] = PipeBody(PipelineTells, q)
<1>1. PICK g \in Tables : g = [q \in Rests |-> PipeBody(g, q)]
  BY TableExists
<1>2. PipelineTells = [q \in Rests |-> PipeBody(PipelineTells, q)]
  BY <1>1, PipelineIs
<1> QED
  BY <1>2

LEMMA SamePromise ==
    ASSUME sys' = sys
    PROVE  /\ PipelineTells' = PipelineTells
           /\ \A v : Hears(v)' = Hears(v)
           /\ \A from, to, l : Told(from, to, l)' = Told(from, to, l)
           /\ \A q : StopTells(PipelineTells, q)' = StopTells(PipelineTells, q)
           /\ \A p, h : HearerTells(PipelineTells, p, h)' = HearerTells(PipelineTells, p, h)
           /\ \A to, h : FabricTells(PipelineTells, to, h)' = FabricTells(PipelineTells, to, h)
<1>1. Particles' = Particles /\ (\A p : Of(p)' = Of(p)) /\ \A p : PlanOf(p)' = PlanOf(p)
  BY SameSystem
<1>2. \A p : Registered(p)' = Registered(p)
  BY <1>1 DEF Registered
<1>3. \A v : Hears(v)' = Hears(v)
  BY <1>1 DEF Hears
<1>4. PipelineTells' = PipelineTells
  BY DEF PipelineTells, Particles, Of, StopTells, HearerTells, CoreTells, FabricTells, Registered
<1>5. \A to, h : FabricTells(PipelineTells, to, h)' = FabricTells(PipelineTells, to, h)
  BY <1>1, <1>2, <1>4 DEF FabricTells
<1>6. \A p : CoreTells(PipelineTells, p)' = CoreTells(PipelineTells, p)
  BY <1>1, <1>2, <1>5 DEF CoreTells
<1>7. \A p, h : HearerTells(PipelineTells, p, h)' = HearerTells(PipelineTells, p, h)
  BY <1>1, <1>6 DEF HearerTells
<1>8. \A q : StopTells(PipelineTells, q)' = StopTells(PipelineTells, q)
  BY <1>1, <1>5, <1>7 DEF StopTells
<1>9. \A from, to, l : Told(from, to, l)' = Told(from, to, l)
  BY <1>1, <1>2, <1>5, <1>6 DEF Told
<1> QED
  BY <1>3, <1>4, <1>5, <1>7, <1>8, <1>9

-----------------------------------------------------------------------------
(* What is promised to whoever asks, and by what it is still to be kept.   *)

\* C: what is still to be told, of which asks; A: the asks; D: what each may be told; S: what a
\* timer that fires too early may make of any.
Keeps(C, A, D, S) ==
    /\ \A c \in C : c.id \in DOMAIN A /\ c.told \subseteq D[c.id] \union S
    /\ \A id \in DOMAIN A : A[id].st \in {"waiting"} \union D[id] \union S
    /\ \A id \in DOMAIN A : A[id].st = "waiting" => "late" \in D[id] \union S \/ \E c \in C : c.id = id

LEMMA KeepsMove ==
    ASSUME NEW C, NEW A, NEW D, NEW S, Keeps(C, A, D, S), NEW U,
           \A c \in U : c \in C \/ \E b \in C : b.id = c.id /\ c.told \subseteq b.told \union S,
           \A b \in C : \/ b \in U \/ \E c \in U : c.id = b.id
                        \/ "late" \in b.told \union S \/ A[b.id].st # "waiting"
    PROVE  Keeps(U, A, D, S)
<1>1. ASSUME NEW c \in U PROVE c.id \in DOMAIN A /\ c.told \subseteq D[c.id] \union S
  BY DEF Keeps
<1>2. \A id \in DOMAIN A : A[id].st \in {"waiting"} \union D[id] \union S
  BY DEF Keeps
<1>3. ASSUME NEW id \in DOMAIN A, A[id].st = "waiting", "late" \notin D[id] \union S PROVE \E c \in U : c.id = id
  <2>1. PICK b \in C : b.id = id
    BY <1>3 DEF Keeps
  <2>2. "late" \notin b.told \union S
    BY <1>3, <2>1 DEF Keeps
  <2> QED
    BY <1>3, <2>1, <2>2
<1> QED
  BY <1>1, <1>2, <1>3 DEF Keeps

LEMMA KeepsAnswer ==
    ASSUME NEW C, NEW A, NEW D, NEW S, Keeps(C, A, D, S), NEW id \in DOMAIN A, NEW B,
           DOMAIN B = DOMAIN A, \A i \in DOMAIN A : i # id => B[i] = A[i],
           B[id].st \in D[id] \union S, B[id].st # "waiting", NEW U,
           \A c \in U : c \in C, \A b \in C : b \in U \/ b.id = id
    PROVE  Keeps(U, B, D, S)
<1>1. \A c \in U : c.id \in DOMAIN B /\ c.told \subseteq D[c.id] \union S
  BY DEF Keeps
<1>2. \A i \in DOMAIN B : B[i].st \in {"waiting"} \union D[i] \union S
  BY DEF Keeps
<1>3. ASSUME NEW i \in DOMAIN B, B[i].st = "waiting", "late" \notin D[i] \union S PROVE \E c \in U : c.id = i
  <2>1. i # id /\ A[i].st = "waiting"
    BY <1>3
  <2>2. PICK b \in C : b.id = i
    BY <1>3, <2>1 DEF Keeps
  <2> QED
    BY <2>1, <2>2
<1> QED
  BY <1>1, <1>2, <1>3 DEF Keeps

\* A new ask, id, and who keeps the promise that is made to it.
Opens(C, A, D, S, id, B, E, U) ==
    /\ id \notin DOMAIN A /\ DOMAIN B = DOMAIN A \union {id}
    /\ \A i \in DOMAIN A : B[i] = A[i] /\ E[i] = D[i]
    /\ B[id].st \in {"waiting"} \union E[id]
    /\ B[id].st = "waiting" => \E c \in U : c.id = id
    /\ \A c \in U : \/ c \in C \/ \E b \in C : b.id = c.id /\ c.told \subseteq b.told \union S
                    \/ c.id = id /\ c.told \subseteq E[id] \union S
    /\ \A b \in C : b \in U \/ \E c \in U : c.id = b.id

LEMMA KeepsOpen ==
    ASSUME NEW C, NEW A, NEW D, NEW S, Keeps(C, A, D, S), NEW id, NEW B, NEW E, NEW U,
           Opens(C, A, D, S, id, B, E, U)
    PROVE  Keeps(U, B, E, S)
<1> USE DEF Opens
<1>1. ASSUME NEW c \in U PROVE c.id \in DOMAIN B /\ c.told \subseteq E[c.id] \union S
  <2>1. CASE c \in C
    BY <2>1 DEF Keeps
  <2>2. ASSUME NEW b \in C, b.id = c.id, c.told \subseteq b.told \union S PROVE c.id \in DOMAIN B /\ c.told \subseteq E[c.id] \union S
    BY <2>2 DEF Keeps
  <2>3. CASE c.id = id /\ c.told \subseteq E[id] \union S
    BY <2>3
  <2> QED
    BY <2>1, <2>2, <2>3
<1>2. ASSUME NEW i \in DOMAIN B PROVE B[i].st \in {"waiting"} \union E[i] \union S
  <2>1. CASE i = id
    BY <2>1
  <2>2. CASE i # id
    BY <2>2 DEF Keeps
  <2> QED
    BY <2>1, <2>2
<1>3. ASSUME NEW i \in DOMAIN B, B[i].st = "waiting", "late" \notin E[i] \union S PROVE \E c \in U : c.id = i
  <2>1. CASE i = id
    BY <1>3, <2>1
  <2>2. CASE i # id
    <3>1. i \in DOMAIN A /\ A[i].st = "waiting" /\ "late" \notin D[i] \union S
      BY <1>3, <2>2
    <3>2. PICK b \in C : b.id = i
      BY <3>1 DEF Keeps
    <3> QED
      BY <3>2
  <2> QED
    BY <2>1, <2>2
<1> QED
  BY <1>1, <1>2, <1>3 DEF Keeps

LEMMA KeepsLate ==
    ASSUME NEW C, NEW A, NEW D, NEW S, Keeps(C, A, D, S), NEW id \in DOMAIN A, NEW B,
           DOMAIN B = DOMAIN A, \A i \in DOMAIN A : i # id => B[i] = A[i], B[id].st = "late",
           NEW T, S \subseteq T, "late" \in D[id] \union T
    PROVE  Keeps(C, B, D, T)
<1>1. \A c \in C : c.id \in DOMAIN B /\ c.told \subseteq D[c.id] \union T
  BY DEF Keeps
<1>2. ASSUME NEW i \in DOMAIN B PROVE B[i].st \in {"waiting"} \union D[i] \union T
  <2>1. CASE i = id
    BY <2>1
  <2>2. CASE i # id
    BY <2>2 DEF Keeps
  <2> QED
    BY <2>1, <2>2
<1>3. ASSUME NEW i \in DOMAIN B, B[i].st = "waiting", "late" \notin D[i] \union T PROVE \E c \in C : c.id = i
  <2>1. i # id
    BY <1>3
  <2>2. A[i].st = "waiting" /\ "late" \notin D[i] \union S
    BY <1>3, <2>1
  <2> QED
    BY <2>2 DEF Keeps
<1> QED
  BY <1>1, <1>2, <1>3 DEF Keeps

Slack == IF early > 0 THEN {"late", "error"} ELSE {}
Wanted(w) == Payload(w).kind # "signal"
Verdict(ok) == IF ok THEN "ok" ELSE "error"

\* What whoever waits for a wave may still be told, from where the wave is on.
ToFabric(from, to) == FabricTells(PipelineTells, to, Hearer(from, to))
Beyond(x) == HearerTells(PipelineTells, x.to.p, Hearer(x.w.from, [x.to EXCEPT !.l = x.dest]))
Ahead(x) ==
    LET w == Payload(x.w) IN
    IF w.kind = "pong" THEN {Verdict(w.ok)}
    ELSE IF x.w.load # <<>> \/ x.stage = "gravity" THEN ToFabric(w.from, w.to)
    ELSE IF x.stage = "inject" THEN IF x.gravity THEN ToFabric(w.from, w.to) ELSE Told(w.from, w.to, x.layer)
    ELSE IF x.dir = "Core" /\ x.stage # "field" THEN Beyond(x)
    ELSE IF x.stage = "shell" /\ x.dest = Shell THEN {"ok"}
    ELSE ToFabric(w.from, w.to)
Out(x) == Back(Payload(x.w).via, Ahead(x))

\* ... from the stop on where a pipeline is, and from a core that asks another.
Hr(y)      == Hearer(y.t.w.from, y.t.to)
Left(y, k) == PipelineTells[RestOf(y.t.point, k, Hr(y))]
PipeAhead(y, D) ==
    LET w == Payload(y.t.w) IN
    IF y.t.w.load # <<>> THEN IF w.kind = "pong" THEN {Verdict(w.ok)} ELSE ToFabric(w.from, w.to)
    ELSE IF y.next = 1 THEN Left(y, 1) ELSE OrElse(D[InnerId(y, y.next - 1)], Left(y, y.next))
BusyAhead(b, D) == OrElse(D[Append(b.w.id, 0)], {"ok"})

Claiming(y) == Wanted(y.t.w) /\ Keeping(y) /\ ~Spent(y)
FlightClaim(x)  == [id |-> Payload(x.w).id, told |-> Out(x)]
PipeClaim(y, D) == [id |-> Payload(y.t.w).id, told |-> Back(Payload(y.t.w).via, PipeAhead(y, D))]
BusyClaim(b, D) == [id |-> b.w.id, told |-> Back(b.w.via, BusyAhead(b, D))]

Claims(D) == {FlightClaim(x) : x \in {z \in flight : Wanted(z.w)}}
             \union {PipeClaim(y, D) : y \in {z \in pipes : Claiming(z)}}
             \union {BusyClaim(b, D) : b \in {z \in busy : z.w.kind # "signal"}}

Root(a) == IF a.kind = "ping" THEN Tells(a) ELSE {"ok"}
Promise(D) == /\ Keeps(Claims(D), asks, D, Slack)
              /\ \A i \in DOMAIN sys.asks : <<i>> \in DOMAIN asks => D[<<i>>] = Root(sys.asks[i])

LEMMA ClaimsAre ==
    \A D, c : c \in Claims(D) <=> \/ \E x \in flight : Wanted(x.w) /\ c = FlightClaim(x)
                                  \/ \E y \in pipes : Claiming(y) /\ c = PipeClaim(y, D)
                                  \/ \E b \in busy : b.w.kind # "signal" /\ c = BusyClaim(b, D)
  BY DEF Claims

LEMMA SameOut ==
    ASSUME sys' = sys
    PROVE  /\ \A x : Out(x)' = Out(x)
           /\ \A y, D : PipeClaim(y, D)' = PipeClaim(y, D)
           /\ \A b, D : BusyClaim(b, D)' = BusyClaim(b, D)
           /\ \A y : Claiming(y)' = Claiming(y)
           /\ \A a : Tells(a)' = Tells(a)
<1>1. \A v, told : Back(v, told)' = Back(v, told)
  BY SamePromise DEF Back
<1>2. \A from, to : ToFabric(from, to)' = ToFabric(from, to)
  BY SamePromise DEF ToFabric, Hearer
<1>3. \A x : Beyond(x)' = Beyond(x)
  BY SamePromise DEF Beyond, Hearer
<1>4. \A x : Ahead(x)' = Ahead(x)
  BY SamePromise, <1>2, <1>3 DEF Ahead, Payload, Verdict
<1>5. \A x : Out(x)' = Out(x)
  BY <1>1, <1>4 DEF Out, Payload
<1>6. \A y, D : PipeAhead(y, D)' = PipeAhead(y, D)
  BY SamePromise, <1>2 DEF PipeAhead, Left, Hr, Hearer, Verdict, Payload, InnerId, RestOf
<1>7. \A y, D : PipeClaim(y, D)' = PipeClaim(y, D)
  BY <1>1, <1>6 DEF PipeClaim, Payload
<1>8. \A b, D : BusyClaim(b, D)' = BusyClaim(b, D)
  BY <1>1 DEF BusyClaim, BusyAhead, OrElse
<1>9. \A y : Claiming(y)' = Claiming(y)
  BY SameSystem DEF Claiming, Wanted, Keeping, Spent, Payload, Bind
<1>10. \A a : Tells(a)' = Tells(a)
  BY <1>1, SamePromise DEF Tells
<1> QED
  BY <1>5, <1>7, <1>8, <1>9, <1>10

LEMMA ClaimsNext ==
    ASSUME sys' = sys
    PROVE  \A D, c : c \in Claims(D)' <=> \/ \E x \in flight' : Wanted(x.w) /\ c = FlightClaim(x)
                                          \/ \E y \in pipes' : Claiming(y) /\ c = PipeClaim(y, D)
                                          \/ \E b \in busy' : b.w.kind # "signal" /\ c = BusyClaim(b, D)
<1>1. \A D, c : c \in Claims(D)' <=> \/ \E x \in flight' : Wanted(x.w)' /\ c = FlightClaim(x)'
                                     \/ \E y \in pipes' : Claiming(y)' /\ c = PipeClaim(y, D)'
                                     \/ \E b \in busy' : b.w.kind # "signal" /\ c = BusyClaim(b, D)'
  BY DEF Claims
<1>2. \A x : FlightClaim(x)' = FlightClaim(x) /\ Wanted(x.w)' = Wanted(x.w)
  BY SameOut DEF FlightClaim, Wanted, Payload
<1> QED
  BY <1>1, <1>2, SameOut

\* z goes on for x, whose asker still hears of it by one of F.
Follows(z, x) == Wanted(z.w) => /\ Wanted(x.w) /\ Payload(z.w).id = Payload(x.w).id
                                /\ Out(z) \subseteq Out(x)
Carries(F, x) == Wanted(x.w) => "late" \in Out(x)
                                \/ \E z \in F : Wanted(z.w) /\ Payload(z.w).id = Payload(x.w).id

LEMMA FlightKeeps ==
    ASSUME UNCHANGED <<sys, asks, pipes, busy, early>>, NEW x \in flight, NEW F,
           flight' = (flight \ {x}) \union F,
           \A z \in F : Follows(z, x), Carries(F, x),
           NEW D, Promise(D)
    PROVE  Promise(D)'
<1> DEFINE C == Claims(D)
           U == Claims(D)'
<1>1. ASSUME NEW c \in U PROVE c \in C \/ \E b \in C : b.id = c.id /\ c.told \subseteq b.told \union Slack
  <2>1. CASE \E z \in flight' : Wanted(z.w) /\ c = FlightClaim(z)
    <3>1. PICK z \in flight' : Wanted(z.w) /\ c = FlightClaim(z)
      BY <2>1
    <3>2. CASE z \in flight
      BY <3>1, <3>2, ClaimsAre
    <3>3. CASE z \in F
      <4>1. Wanted(x.w) /\ Payload(z.w).id = Payload(x.w).id /\ Out(z) \subseteq Out(x)
        BY <3>1, <3>3 DEF Follows
      <4>2. FlightClaim(x) \in C
        BY <4>1, ClaimsAre
      <4> QED
        BY <3>1, <4>1, <4>2 DEF FlightClaim
    <3> QED
      BY <3>2, <3>3
  <2>2. CASE \E y \in pipes' : Claiming(y) /\ c = PipeClaim(y, D)
    BY <2>2, ClaimsAre
  <2>3. CASE \E b \in busy' : b.w.kind # "signal" /\ c = BusyClaim(b, D)
    BY <2>3, ClaimsAre
  <2> QED
    BY <2>1, <2>2, <2>3, ClaimsNext
<1>2. ASSUME NEW b \in C PROVE b \in U \/ (\E c \in U : c.id = b.id) \/ "late" \in b.told \union Slack \/ asks[b.id].st # "waiting"
  <2>1. CASE \E z \in flight : Wanted(z.w) /\ b = FlightClaim(z)
    <3>1. PICK z \in flight : Wanted(z.w) /\ b = FlightClaim(z)
      BY <2>1
    <3>2. CASE z # x
      <4>1. z \in flight'
        BY <3>2
      <4> QED
        BY <3>1, <4>1, ClaimsNext
    <3>3. CASE z = x /\ "late" \in Out(x)
      BY <3>1, <3>3 DEF FlightClaim
    <3>4. CASE z = x /\ "late" \notin Out(x)
      <4>1. PICK n \in F : Wanted(n.w) /\ Payload(n.w).id = Payload(x.w).id
        BY <3>1, <3>4 DEF Carries
      <4>2. FlightClaim(n) \in U
        BY <4>1, ClaimsNext
      <4>3. FlightClaim(n).id = b.id
        BY <3>1, <3>4, <4>1 DEF FlightClaim
      <4> QED
        BY <4>2, <4>3
    <3> QED
      BY <3>2, <3>3, <3>4
  <2>2. CASE \E y \in pipes : Claiming(y) /\ b = PipeClaim(y, D)
    BY <2>2, ClaimsNext
  <2>3. CASE \E z \in busy : z.w.kind # "signal" /\ b = BusyClaim(z, D)
    BY <2>3, ClaimsNext
  <2> QED
    BY <2>1, <2>2, <2>3, ClaimsAre
<1>3. Keeps(C, asks, D, Slack)
  BY DEF Promise
<1> HIDE DEF C, U
<1>4. Keeps(U, asks, D, Slack)
  BY <1>1, <1>2, <1>3, KeepsMove
<1>5. Slack' = Slack
  BY DEF Slack
<1>6. Keeps(Claims(D), asks, D, Slack)'
  BY <1>4, <1>5 DEF U, Keeps
<1>7. \A i \in DOMAIN sys.asks : Root(sys.asks[i])' = Root(sys.asks[i])
  BY SameOut DEF Root
<1> QED
  BY <1>6, <1>7 DEF Promise

LEMMA OutOf ==
    /\ \A x : ~Hears(Payload(x.w).via) => Out(x) = {"late"}
    /\ \A x : Hears(Payload(x.w).via) => Out(x) = Ahead(x)
  BY DEF Out, Back

\* The same wave, as far from whoever is to answer it.
LEMMA SameAhead ==
    ASSUME NEW x, NEW z, Payload(z.w) = Payload(x.w), Hears(Payload(x.w).via) => Ahead(z) = Ahead(x)
    PROVE  Follows(z, x) /\ Carries({z}, x)
<1>1. Out(z) = Out(x)
  BY OutOf
<1> QED
  BY <1>1 DEF Follows, Carries, Wanted

\* An answer, which is one that whoever asks may be told.
LEMMA AnswerAhead ==
    ASSUME NEW x, CarriedOK(x.w), x.w.kind = "ping", NEW ok \in BOOLEAN, NEW from \in Places,
           NEW z, z.w = Reflect(x.w, ok, from), Hears(x.w.via) => Verdict(ok) \in Ahead(x)
    PROVE  Follows(z, x) /\ Carries({z}, x)
<1>1. Payload(x.w) = x.w
  BY Loads DEF CarriedOK
<1>2. Payload(z.w) = z.w /\ z.w.id = x.w.id /\ z.w.via = x.w.via /\ z.w.kind = "pong"
  BY ReflectMade
<1>3. z.w.ok = ok
  BY DEF Reflect
<1>4. Ahead(z) = {Verdict(ok)}
  BY <1>2, <1>3 DEF Ahead
<1>5. Out(z) \subseteq Out(x)
  BY <1>1, <1>2, <1>4, OutOf
<1> QED
  BY <1>1, <1>2, <1>5 DEF Follows, Carries, Wanted

LEMMA PongAhead ==
    ASSUME NEW x, NEW z, Payload(z.w) = Payload(x.w), Payload(x.w).kind = "pong"
    PROVE  Follows(z, x) /\ Carries({z}, x)
<1>1. Ahead(z) = Ahead(x)
  BY DEF Ahead
<1> QED
  BY <1>1, SameAhead

LEMMA NotWanted ==
    ASSUME NEW x, NEW F, ~Wanted(x.w), \A z \in F : Payload(z.w) = Payload(x.w)
    PROVE  Carries(F, x) /\ \A z \in F : Follows(z, x)
  BY DEF Follows, Carries, Wanted

LEMMA Lost ==
    ASSUME NEW x, Wanted(x.w) => ~Hears(Payload(x.w).via) \/ "late" \in Ahead(x)
    PROVE  Carries({}, x)
  BY OutOf DEF Carries

LEMMA CarriesMore == \A x, F, G : Carries(F, x) /\ F \subseteq G => Carries(G, x)
  BY DEF Carries

\* Where nobody hears the answer it is the same whatever is on the way.
LEMMA DeafAhead ==
    ASSUME NEW x, NEW z, Payload(z.w).id = Payload(x.w).id, Payload(z.w).via = Payload(x.w).via,
           Wanted(z.w) => Wanted(x.w), ~Hears(Payload(x.w).via)
    PROVE  Follows(z, x)
<1>1. Out(z) = Out(x)
  BY OutOf
<1> QED
  BY <1>1 DEF Follows

-----------------------------------------------------------------------------
(* Where a wave may be on its way, so that what its layers do to it is     *)
(* what the particles tell.                                                *)

\* Whoever hears of a wave is at a layer of its particle's plan.
ViaOK(w) == w.kind # "signal" => w.via.l \in PlanOf(w.via.p)

\* What a particle asks its own core, from in between its Shell and its core.
Lone(w) == w.via.p = w.to.p /\ Shell < w.via.l /\ w.via.l < Core

InjectWay(x) ==
    ~x.gravity =>
        /\ Shell <= x.layer
        /\ x.w.kind = "ping" => x.w.via = x.w.from /\ Shell <= x.w.via.l /\ x.layer \in {Shell, x.w.via.l}
        /\ x.w.kind = "pong" => \/ Of(x.w.from.p).shell
                                \/ x.layer = Guest /\ x.w.via.p = x.w.from.p /\ Shell < x.w.via.l /\ x.w.via.l < Core

TraversalWay(x) ==
    /\ x.dir = "Core" => x.dest # None
    /\ x.stage = "field" \/ x.dir = "Fabric" => x.to = x.w.to
    /\ x.dir = "Fabric" /\ x.dest # None => x.w.from.p = x.to.p /\ x.point = x.to.p
    /\ x.dir = "Core" /\ x.stage = "next" /\ x.layer = Shell => x.dest # Shell /\ Of(x.to.p).shell
    /\ x.stage = "core" => /\ x.dest # Shell
                           /\ x.w.kind = "ping" => Of(x.to.p).shell \/ Lone(x.w)
                           /\ x.w.kind = "pong" => Of(x.to.p).shell

FlightWay(x) ==
    /\ ViaOK(Payload(x.w))
    /\ x.stage = "inject" => InjectWay(x)
    /\ x.stage \notin {"inject", "gravity"} => TraversalWay(x)

Asked(y) == y.t.w.load = <<>> /\ y.t.w.kind = "ping" /\ y.next > 1 /\ ~Spent(y)
PipeWay(y) ==
    /\ ViaOK(Payload(y.t.w)) /\ TraversalWay(y.t)
    /\ Asked(y) => InnerId(y, y.next - 1) \in DOMAIN asks

BusyWay(b) == ViaOK(b.w) /\ (b.w.kind = "ping" => Of(b.w.to.p).shell \/ Lone(b.w))

Ways ==
    /\ \A x \in flight : FlightWay(x)
    /\ \A y \in pipes : PipeWay(y)
    /\ \A b \in busy : BusyWay(b)
    /\ IsFiniteSet(DOMAIN asks)

LEMMA ShellFacts ==
    ASSUME sys \in Systems, NEW p \in Particles
    PROVE  /\ Of(Of(p).home).shell /\ Of(p).does # p /\ (Of(p).routed \/ Of(p).layer = Core)
           /\ Of(p).layer \in PlanOf(p)
<1>1. sys.particles[sys.particles[p].home].shell /\ sys.particles[p].does # p
      /\ (sys.particles[p].routed \/ sys.particles[p].layer = Core)
  BY AnswersAssumption DEF Particles
<1>2. Of(p).layer \in 3 .. 6
  BY ParticleFacts
<1> QED
  BY <1>1, <1>2 DEF Of, PlanOf, Field, Shell, Core

LEMMA StarShell ==
    ASSUME sys \in Systems, NEW star, HomeOf(star, star)
    PROVE  star \in Particles /\ Of(star).shell /\ Of(star).home = star
<1>1. star \in Particles /\ Of(star).home = star
  BY DEF HomeOf
<1> QED
  BY <1>1, ShellFacts

LEMMA SameWays ==
    ASSUME sys' = sys, DOMAIN asks \subseteq DOMAIN asks'
    PROVE  /\ \A x : FlightWay(x) => FlightWay(x)'
           /\ \A y : PipeWay(y) => PipeWay(y)'
           /\ \A b : BusyWay(b) => BusyWay(b)'
<1>1. (\A p : Of(p)' = Of(p)) /\ \A p : PlanOf(p)' = PlanOf(p)
  BY SameSystem
<1>2. \A w : ViaOK(w)' = ViaOK(w)
  BY <1>1 DEF ViaOK
<1>3. \A x : TraversalWay(x)' = TraversalWay(x)
  BY <1>1 DEF TraversalWay, Lone
<1>4. \A x : InjectWay(x)' = InjectWay(x)
  BY <1>1 DEF InjectWay
<1>5. \A x : FlightWay(x) => FlightWay(x)'
  BY <1>2, <1>3, <1>4 DEF FlightWay, Payload
<1>6. \A y : Asked(y)' = Asked(y)
  BY <1>1 DEF Asked, Spent, Bind
<1>7. \A y : PipeWay(y) => PipeWay(y)'
  BY <1>2, <1>3, <1>6 DEF PipeWay, Payload, InnerId
<1>8. \A b : BusyWay(b) => BusyWay(b)'
  BY <1>1, <1>2 DEF BusyWay, Lone
<1> QED
  BY <1>5, <1>7, <1>8

LEMMA WaysStep ==
    ASSUME Ways, sys' = sys, DOMAIN asks \subseteq DOMAIN asks', IsFiniteSet(DOMAIN asks'),
           \A x \in flight' : x \in flight \/ FlightWay(x),
           \A y \in pipes' : y \in pipes \/ PipeWay(y)',
           \A b \in busy' : b \in busy \/ BusyWay(b)
    PROVE  Ways'
  BY SameWays DEF Ways

\* What a layer has to be like for what comes of visiting it.
VisitWay(t) ==
    /\ ViaOK(Payload(t.w))
    /\ t.dir = "Core" => t.dest # None
    /\ t.layer = Field \/ t.dir = "Fabric" => t.to = t.w.to
    /\ t.dir = "Fabric" /\ t.dest # None => t.w.from.p = t.to.p /\ t.point = t.to.p
    /\ t.dir = "Core" /\ t.layer \notin {Field, Shell} =>
          /\ t.dest # Shell
          /\ t.w.kind = "ping" => Of(t.to.p).shell \/ Lone(t.w)
          /\ t.w.kind = "pong" => Of(t.to.p).shell

LEMMA StagedFields ==
    ASSUME NEW t \in Traversals, NEW s \in {"field", "shell", "next", "core"}
    PROVE  LET y == Stage(t, s) IN
           /\ y.stage = s /\ y.star = t.star /\ y.w = t.w /\ y.to = t.to /\ y.dir = t.dir
           /\ y.dest = t.dest /\ y.point = t.point /\ y.layer = t.layer
  BY Staged

LEMMA VisitedWay ==
    ASSUME NEW t \in Traversals, VisitWay(t)
    PROVE  \A y \in Visit(t) : FlightWay(y)
<1>1. CASE t.layer = Field
  <2> DEFINE y == Stage(t, "field")
  <2>1. /\ y.stage = "field" /\ y.w = t.w /\ y.to = t.to /\ y.dir = t.dir /\ y.dest = t.dest /\ y.layer = t.layer
        /\ y.point = t.point
    BY StagedFields
  <2>2. Visit(t) = {y}
    BY <1>1 DEF Visit, Field, Shell
  <2> HIDE DEF y
  <2>3. FlightWay(y)
    BY <1>1, <2>1 DEF FlightWay, TraversalWay, VisitWay, Field, Shell
  <2> QED
    BY <2>2, <2>3
<1>2. CASE t.layer = Shell
  <2> DEFINE y == Stage(t, "shell")
  <2>1. /\ y.stage = "shell" /\ y.w = t.w /\ y.to = t.to /\ y.dir = t.dir /\ y.dest = t.dest /\ y.layer = t.layer
        /\ y.point = t.point
    BY StagedFields
  <2>2. \A z \in Visit(t) : z = y
    BY <1>2 DEF Visit, Field, Shell
  <2> HIDE DEF y
  <2>3. FlightWay(y)
    BY <1>2, <2>1 DEF FlightWay, TraversalWay, VisitWay
  <2> QED
    BY <2>2, <2>3
<1>3. CASE t.layer \notin {Field, Shell} /\ t.dir = "Core"
  <2> DEFINE y == Stage(t, "core")
  <2>1. /\ y.stage = "core" /\ y.w = t.w /\ y.to = t.to /\ y.dir = t.dir /\ y.dest = t.dest /\ y.layer = t.layer
        /\ y.point = t.point
    BY StagedFields
  <2>2. Visit(t) = {y}
    BY <1>3 DEF Visit
  <2> HIDE DEF y
  <2>3. FlightWay(y)
    BY <1>3, <2>1 DEF FlightWay, TraversalWay, VisitWay
  <2> QED
    BY <2>2, <2>3
<1>4. CASE t.layer \notin {Field, Shell} /\ t.dir # "Core"
  <2> DEFINE y == InGravity(t.star, t.w)
  <2>1. y.stage = "gravity" /\ y.w = t.w
    BY DEF InGravity
  <2>2. Visit(t) = {y}
    BY <1>4 DEF Visit
  <2> HIDE DEF y
  <2>3. FlightWay(y)
    BY <2>1 DEF FlightWay, VisitWay
  <2> QED
    BY <2>2, <2>3
<1> QED
  BY <1>1, <1>2, <1>3, <1>4

\* What a wave that is injected, and not from the fabric, goes to its own core for.
LEMMA StartLayers ==
    ASSUME sys \in Systems, NEW x, InjectOK(x), CarriedOK(x.w), InjectWay(x)
    PROVE  LET t == Start(x) IN
           /\ x.gravity => t.layer = Field /\ t.dir = "Core" /\ t.dest = x.w.to.l
           /\ ~x.gravity => t.layer # Field
           /\ ~x.gravity /\ x.layer = Shell => t.layer = Shell
           /\ ~x.gravity /\ t.dir = "Core" /\ t.layer # Shell =>
                /\ Shell < x.layer /\ x.layer < x.w.to.l /\ x.w.to.p = x.w.from.p
                /\ t.dest = x.w.to.l /\ t.layer # None
           /\ ~x.gravity => t.layer \in PlanOf(x.w.to.p)
<1> DEFINE t == Start(x)
           w == x.w
           same == w.to.p = w.from.p /\ w.to.p # "GLOBAL"
<1>1. /\ t.dir = IF x.gravity \/ (same /\ x.layer < w.to.l) THEN "Core" ELSE "Fabric"
      /\ t.dest = IF x.gravity \/ same THEN w.to.l ELSE None
      /\ t.layer = IF x.layer \in {Field, Shell} THEN x.layer ELSE NextLayer(w.to.p, t.dir, x.layer)
  BY StartFields
<1>2. ~(t.layer = None /\ t.dir = "Core")
  BY StartMade
<1>3. x.layer \in 0 .. 6 /\ (x.gravity => x.layer = 0)
  BY DEF InjectOK, Gravity, Core
<1>4. w.to.l \in 0 .. 6
  BY Loads DEF CarriedOK, Places, Gravity, Core
<1> HIDE DEF t
<1>5. ASSUME x.gravity PROVE t.layer = Field /\ t.dir = "Core" /\ t.dest = x.w.to.l
  <2>1. t.layer = NextLayer(w.to.p, "Core", 0) /\ t.dir = "Core" /\ t.dest = w.to.l
    BY <1>1, <1>3, <1>5 DEF Field, Shell
  <2> QED
    BY <2>1, FirstLayers DEF Field
<1>6. ASSUME ~x.gravity, x.layer = Shell PROVE t.layer = Shell
  BY <1>1, <1>6
<1>7. ASSUME ~x.gravity PROVE Shell <= x.layer
  BY <1>7 DEF InjectWay
<1>8. ASSUME ~x.gravity, x.layer # Shell, t.dir = "Core"
      PROVE  Shell < x.layer /\ x.layer < w.to.l /\ t.layer \in PlanOf(w.to.p) /\ x.layer < t.layer
  <2>1. Shell < x.layer
    BY <1>3, <1>7, <1>8 DEF Shell
  <2>2. x.layer < w.to.l /\ x.layer \notin {Field, Shell}
    BY <1>1, <1>3, <1>8, <2>1 DEF Field, Shell
  <2>3. t.layer = NextLayer(w.to.p, "Core", x.layer)
    BY <1>1, <1>8, <2>2
  <2>4. t.layer # 7
    BY <1>2, <1>8 DEF None
  <2>5. t.layer \in PlanOf(w.to.p) /\ x.layer < t.layer
    BY <1>3, <2>3, <2>4, CoreWards
  <2> QED
    BY <2>1, <2>2, <2>5
<1>9. ASSUME ~x.gravity, x.layer # Shell, t.dir # "Core" PROVE t.layer \in PlanOf(w.to.p) /\ t.layer # Field
  <2>1. 2 < x.layer
    BY <1>3, <1>7, <1>9 DEF Shell
  <2>2. t.layer = TowardsFabric(PlanOf(w.to.p), x.layer)
    BY <1>1, <1>3, <1>9, <2>1 DEF Field, Shell, NextLayer
  <2> DEFINE below == {k \in PlanOf(w.to.p) : k < x.layer}
  <2>3. 2 \in below
    BY <2>1, Plans
  <2>4. t.layer = Max(below)
    BY <2>2, <2>3 DEF TowardsFabric
  <2>5. below \in SUBSET (1 .. 6)
    BY Plans
  <2>6. Max(below) \in below /\ 2 <= Max(below)
    <3> HIDE DEF below
    <3> QED
      BY <2>3, <2>5, Extremes
  <2> QED
    BY <2>4, <2>6 DEF Field
<1>10. ASSUME ~x.gravity, t.dir = "Core" PROVE w.to.p = w.from.p /\ t.dest = w.to.l
  BY <1>1, <1>10
<1>11. Shell \in PlanOf(w.to.p)
  BY Plans DEF Shell
<1>12. ASSUME ~x.gravity PROVE t.layer # Field /\ t.layer \in PlanOf(w.to.p)
  <2>1. CASE x.layer = Shell
    BY <1>6, <1>11, <1>12, <2>1 DEF Field, Shell
  <2>2. CASE x.layer # Shell /\ t.dir = "Core"
    <3>1. 2 < x.layer /\ x.layer < t.layer /\ t.layer \in PlanOf(w.to.p)
      BY <1>8, <1>12, <2>2 DEF Shell
    <3>2. t.layer \in 1 .. 6
      BY <3>1, Plans
    <3>3. t.layer # 1
      BY <1>3, <3>1, <3>2
    <3> QED
      BY <3>1, <3>3 DEF Field
  <2>3. CASE x.layer # Shell /\ t.dir # "Core"
    BY <1>9, <1>12, <2>3
  <2> QED
    BY <2>1, <2>2, <2>3
<1>13. ASSUME ~x.gravity, t.dir = "Core", t.layer # Shell
       PROVE  /\ Shell < x.layer /\ x.layer < w.to.l /\ w.to.p = w.from.p
              /\ t.dest = w.to.l /\ t.layer # None
  BY <1>2, <1>6, <1>8, <1>10, <1>13
<1> QED
  BY <1>5, <1>6, <1>12, <1>13 DEF t, w

LEMMA StartWay ==
    ASSUME sys \in Systems, NEW x, InjectOK(x), CarriedOK(x.w), ViaOK(Payload(x.w)), InjectWay(x)
    PROVE  VisitWay(Start(x)) /\ Start(x) \in Traversals
<1> DEFINE t == Start(x)
           w == x.w
           same == w.to.p = w.from.p /\ w.to.p # "GLOBAL"
<1>1. /\ t.w = w /\ t.to = w.to
      /\ t.dir = IF x.gravity \/ (same /\ x.layer < w.to.l) THEN "Core" ELSE "Fabric"
      /\ t.dest = IF x.gravity \/ same THEN w.to.l ELSE None
      /\ t.point = IF t.dir = "Core" THEN w.to.p ELSE w.from.p
  BY StartFields
<1>2. /\ x.gravity => t.layer = Field /\ t.dir = "Core" /\ t.dest = w.to.l
      /\ ~x.gravity => t.layer # Field
      /\ ~x.gravity /\ x.layer = Shell => t.layer = Shell
      /\ ~x.gravity /\ t.dir = "Core" /\ t.layer # Shell =>
           /\ Shell < x.layer /\ x.layer < w.to.l /\ w.to.p = w.from.p
           /\ t.dest = w.to.l /\ t.layer # None
  BY StartLayers
<1>3. t \in Traversals
  BY StartMade DEF MayVisit
<1>4. /\ w.to.l \in 0 .. 6 /\ w.via.l \in 0 .. 6 /\ x.layer \in 0 .. 6
      /\ w.kind = "pong" => w.to = w.via
  BY Loads DEF CarriedOK, WaveOK, Places, Gravity, Core, InjectOK
<1> HIDE DEF t
<1>5. t.dir = "Core" => t.dest # None
  BY <1>1, <1>4 DEF None
<1>6. t.dir = "Fabric" /\ t.dest # None => t.w.from.p = t.to.p /\ t.point = t.to.p
  BY <1>1
<1>7. ASSUME t.dir = "Core", t.layer \notin {Field, Shell}
      PROVE  /\ t.dest # Shell
             /\ t.w.kind = "ping" => Lone(t.w)
             /\ t.w.kind = "pong" => Of(t.to.p).shell
  <2>1. ~x.gravity
    BY <1>2, <1>7
  <2>2. Shell < x.layer /\ x.layer < w.to.l /\ w.to.p = w.from.p /\ t.dest = w.to.l
    BY <1>2, <1>7, <2>1
  <2>3. t.dest # Shell
    BY <1>4, <2>2 DEF Shell
  <2>4. ASSUME w.kind = "ping" PROVE Lone(w)
    <3>1. w.via = w.from /\ x.layer = w.via.l
      BY <1>4, <2>1, <2>2, <2>4 DEF InjectWay, Shell
    <3> QED
      BY <1>4, <2>2, <3>1 DEF Lone, Shell, Core
  <2>5. ASSUME w.kind = "pong" PROVE Of(w.to.p).shell
    <3>1. Of(w.from.p).shell \/ (x.layer = 5 /\ w.via.l < 6)
      BY <2>1, <2>5 DEF InjectWay, Guest, Core
    <3>2. ~(x.layer = 5 /\ w.via.l < 6)
      BY <1>4, <2>2, <2>5
    <3> QED
      BY <2>2, <3>1, <3>2
  <2> QED
    BY <1>1, <2>3, <2>4, <2>5
<1>8. VisitWay(t)
  BY <1>1, <1>5, <1>6, <1>7 DEF VisitWay
<1> QED
  BY <1>3, <1>8 DEF t

LEMMA TraversedWay ==
    ASSUME sys \in Systems, NEW x, InjectOK(x), CarriedOK(x.w), ViaOK(Payload(x.w)), InjectWay(x)
    PROVE  \A y \in Traversed(x) : FlightWay(y)
<1>1. Traversed(x) \subseteq Visit(Start(x))
  BY StartMade DEF Traversed
<1> QED
  BY <1>1, StartWay, VisitedWay

\* The answer of the star to a ping that cannot start.
Bounce(x) == [x EXCEPT !.w = Reflect(x.w, FALSE, At(x.star, Core)), !.gravity = FALSE]

LEMMA BounceMade ==
    ASSUME sys \in Systems, NEW x, InjectOK(x), CarriedOK(x.w), ViaOK(Payload(x.w)), InjectWay(x),
           NoStart(x), x.w.kind = "ping"
    PROVE  /\ ~x.gravity /\ InjectOK(Bounce(x)) /\ CarriedOK(Bounce(x).w) /\ ViaOK(Payload(Bounce(x).w))
           /\ InjectWay(Bounce(x)) /\ Bounce(x).star = x.star /\ Bounce(x).layer = x.layer
           /\ Bounce(x).w = Reflect(x.w, FALSE, At(x.star, Core)) /\ ~Bounce(x).gravity
           /\ Bounced(x) = Traversed(Bounce(x))
<1> DEFINE r == Reflect(x.w, FALSE, At(x.star, Core))
           z == Bounce(x)
<1>1. x.star \in STRING /\ HomeOf(x.star, x.star) /\ x.layer \in 0 .. 6
  BY DEF InjectOK, Gravity, Core
<1>2. At(x.star, Core) \in Places /\ At(x.star, Core).p = x.star
  BY <1>1 DEF At, Places, Gravity, Core
<1>3. /\ r \in PlainWaves /\ CarriedOK(r) /\ r.from = At(x.star, Core) /\ r.load = <<>> /\ Payload(r) = r
      /\ r.kind = "pong" /\ r.via = x.w.via
  BY <1>2, ReflectMade
<1>4. r \in WavesWith(Seq(PlainWaves))
  BY <1>3, PlainFields
<1>5. ~x.gravity
  <2> SUFFICES ASSUME x.gravity PROVE FALSE
    OBVIOUS
  <2>1. Start(x).layer = Field
    BY StartLayers
  <2>2. HomeOf(x.w.to.p, x.star)
    BY DEF InjectOK
  <2> QED
    BY <2>1, <2>2 DEF NoStart, HomeOf, Registered, Field, Shell
<1>6. Bounced(x) = Traversed(z)
  BY DEF Bounced, Bounce
<1> HIDE DEF r
<1>7. z = [x EXCEPT !.w = r, !.gravity = FALSE]
  BY DEF r, Bounce
<1>8. /\ z.star = x.star /\ z.w = r /\ z.gravity = FALSE /\ z.layer = x.layer
      /\ z \in [stage : {"inject"}, star : STRING, w : WavesWith(Seq(PlainWaves)), layer : Gravity .. Core,
                gravity : BOOLEAN]
  BY <1>4, <1>7 DEF InjectOK
<1> HIDE DEF z
<1>9. InjectOK(z)
  BY <1>1, <1>2, <1>3, <1>8 DEF InjectOK, LoadOK
<1>10. ViaOK(r)
  BY <1>3, Loads DEF ViaOK, CarriedOK
<1>11. Of(x.star).shell
  BY <1>1, StarShell
<1>12. InjectWay(z)
  BY <1>2, <1>3, <1>5, <1>8, <1>11 DEF InjectWay
<1> QED
  BY <1>3, <1>5, <1>6, <1>8, <1>9, <1>10, <1>12 DEF r, z

LEMMA InjectWays ==
    ASSUME sys \in Systems, NEW x, FlightOK(x), FlightWay(x), x.stage = "inject"
    PROVE  \A y \in Traversed(x) \union Bounced(x) : FlightWay(y)
<1>1. InjectOK(x) /\ CarriedOK(x.w) /\ ViaOK(Payload(x.w)) /\ InjectWay(x)
  BY FlightKinds DEF FlightWay
<1>2. \A y \in Traversed(x) : FlightWay(y)
  BY <1>1, TraversedWay
<1>3. \A y \in Bounced(x) : FlightWay(y)
  <2>1. CASE NoStart(x) /\ x.w.kind = "ping"
    <3>1. /\ InjectOK(Bounce(x)) /\ CarriedOK(Bounce(x).w) /\ ViaOK(Payload(Bounce(x).w))
          /\ InjectWay(Bounce(x)) /\ Bounced(x) = Traversed(Bounce(x))
      BY <1>1, <2>1, BounceMade
    <3> QED
      BY <3>1, TraversedWay
  <2>2. CASE ~(NoStart(x) /\ x.w.kind = "ping")
    BY <2>2 DEF Bounced
  <2> QED
    BY <2>1, <2>2
<1> QED
  BY <1>2, <1>3

-----------------------------------------------------------------------------
(* The steps that keep the promise: between the layers,                    *)

LEMMA Chain ==
    ASSUME NEW x, NEW z, NEW F, Follows(z, x), Carries({z}, x), \A n \in F : Follows(n, z), Carries(F, z)
    PROVE  Carries(F, x) /\ \A n \in F : Follows(n, x)
<1>1. \A n \in F : Follows(n, x)
  BY DEF Follows
<1>2. Carries(F, x)
  <2> SUFFICES ASSUME Wanted(x.w), "late" \notin Out(x)
               PROVE  \E n \in F : Wanted(n.w) /\ Payload(n.w).id = Payload(x.w).id
    BY DEF Carries
  <2>1. Wanted(z.w) /\ Payload(z.w).id = Payload(x.w).id
    BY DEF Carries
  <2>2. "late" \notin Out(z)
    BY <2>1 DEF Follows
  <2> QED
    BY <2>1, <2>2 DEF Carries
<1> QED
  BY <1>1, <1>2

\* What becomes of a traversal that finds its layer.
Visited(t) == IF t.layer = Field THEN Stage(t, "field")
              ELSE IF t.layer = Shell THEN Stage(t, "shell")
              ELSE IF t.dir = "Core" THEN Stage(t, "core") ELSE InGravity(t.star, t.w)

LEMMA VisitedIs ==
    ASSUME NEW t \in Traversals, t.layer = Shell => HasShell(t)
    PROVE  LET y == Visited(t) IN
           /\ Visit(t) = {y} /\ y.w = t.w
           /\ t.layer = Field => y.stage = "field"
           /\ t.layer = Shell => y.stage = "shell"
           /\ t.layer \notin {Field, Shell} => y.stage = IF t.dir = "Core" THEN "core" ELSE "gravity"
           /\ y.stage # "gravity" => y.dir = t.dir /\ y.dest = t.dest /\ y.to = t.to
<1>1. CASE t.layer = Field
  <2>1. Visit(t) = {Stage(t, "field")} /\ Visited(t) = Stage(t, "field")
    BY <1>1 DEF Visit, Visited, Field, Shell
  <2> QED
    BY <1>1, <2>1, StagedFields DEF Field, Shell
<1>2. CASE t.layer = Shell
  <2>1. Visit(t) = {Stage(t, "shell")} /\ Visited(t) = Stage(t, "shell")
    BY <1>2 DEF Visit, Visited, Field, Shell
  <2> QED
    BY <1>2, <2>1, StagedFields DEF Field, Shell
<1>3. CASE t.layer \notin {Field, Shell} /\ t.dir = "Core"
  <2>1. Visit(t) = {Stage(t, "core")} /\ Visited(t) = Stage(t, "core")
    BY <1>3 DEF Visit, Visited
  <2> QED
    BY <1>3, <2>1, StagedFields
<1>4. CASE t.layer \notin {Field, Shell} /\ t.dir # "Core"
  <2>1. Visit(t) = {InGravity(t.star, t.w)} /\ Visited(t) = InGravity(t.star, t.w)
    BY <1>4 DEF Visit, Visited
  <2> QED
    BY <1>4, <2>1 DEF InGravity
<1> QED
  BY <1>1, <1>2, <1>3, <1>4

LEMMA Started ==
    ASSUME sys \in Systems, NEW x, InjectOK(x), CarriedOK(x.w), ~NoStart(x)
    PROVE  LET t == Start(x) IN
           /\ Traversed(x) = {Visited(t)} /\ t \in Traversals /\ (t.layer = Shell => HasShell(t))
           /\ Visited(t).w = x.w
           /\ x.w.kind # "ping" \/ Bounced(x) = {}
<1>1. Start(x) \in Traversals /\ Start(x).w = x.w /\ ~(Start(x).layer = None /\ Start(x).dir = "Core")
  BY StartMade DEF MayVisit
<1>2. Start(x).layer = Shell => HasShell(Start(x))
  BY DEF NoStart
<1>3. Traversed(x) = Visit(Start(x))
  BY <1>1 DEF Traversed
<1> QED
  BY <1>1, <1>2, <1>3, VisitedIs DEF Bounced

LEMMA GravityStarts ==
    ASSUME sys \in Systems, NEW x, InjectOK(x), CarriedOK(x.w), InjectWay(x), x.gravity
    PROVE  ~NoStart(x)
<1>1. Start(x).layer = Field
  BY StartLayers
<1>2. HomeOf(x.w.to.p, x.star)
  BY DEF InjectOK
<1> QED
  BY <1>1, <1>2 DEF NoStart, HomeOf, Registered, Field, Shell

\* At the Shell of its own particle a wave finds it, if there is one.
LEMMA OwnShell ==
    ASSUME sys \in Systems, NEW x, InjectOK(x), CarriedOK(x.w), ~x.gravity, Of(x.w.from.p).shell
    PROVE  HasShell(Start(x))
<1>1. /\ Start(x).star = x.star
      /\ Start(x).point = IF Start(x).dir = "Core" THEN x.w.to.p ELSE x.w.from.p
      /\ Start(x).dir = "Core" => x.w.to.p = x.w.from.p
  BY StartFields
<1>2. HomeOf(x.w.from.p, x.star)
  BY DEF InjectOK
<1> QED
  BY <1>1, <1>2 DEF HasShell, HomeOf

LEMMA PongInject ==
    ASSUME sys \in Systems, NEW x, InjectOK(x), CarriedOK(x.w), ViaOK(Payload(x.w)), InjectWay(x),
           Payload(x.w).kind = "pong"
    PROVE  Carries(Traversed(x), x) /\ \A z \in Traversed(x) : Follows(z, x)
<1>1. \A z \in Traversed(x) : z.w = x.w
  BY TraversedMade
<1>2. \A z \in Traversed(x) : Follows(z, x) /\ Carries({z}, x)
  BY <1>1, PongAhead
<1>3. CASE ~NoStart(x)
  <2>1. Visited(Start(x)) \in Traversed(x)
    BY <1>3, Started
  <2> QED
    BY <1>2, <2>1, CarriesMore
<1>4. CASE NoStart(x)
  <2>1. ~x.gravity
    BY <1>4, GravityStarts
  <2>2. x.w.load = <<>>
    BY <2>1 DEF InjectOK
  <2>3. x.w.kind = "pong" /\ Payload(x.w) = x.w
    BY <2>2 DEF Payload
  <2>4. x.w.to = x.w.via /\ x.w.via.p \in Particles /\ x.w.via.l \in PlanOf(x.w.via.p)
    BY <2>3, Loads DEF CarriedOK, WaveOK, ViaOK
  <2>5. Start(x).layer = Shell /\ ~HasShell(Start(x))
    BY <1>4, <2>4 DEF NoStart, Registered
  <2>6. ~Of(x.w.from.p).shell
    BY <2>1, <2>5, OwnShell
  <2>7. x.w.via.p = x.w.from.p /\ Shell < x.w.via.l
    BY <2>1, <2>3, <2>6 DEF InjectWay
  <2>8. ~Hears(x.w.via)
    BY <2>6, <2>7 DEF Hears, Field, Shell
  <2>9. Carries({}, x)
    BY <2>3, <2>8, Lost
  <2> QED
    BY <1>2, <2>9, CarriesMore
<1> QED
  BY <1>3, <1>4

\* A ping out of the fabric, or in a transport.
LEMMA PingFromFabric ==
    ASSUME sys \in Systems, NEW x, x.stage = "inject", InjectOK(x), CarriedOK(x.w), InjectWay(x),
           Payload(x.w).kind = "ping", x.gravity
    PROVE  Follows(Visited(Start(x)), x) /\ Carries({Visited(Start(x))}, x)
<1> DEFINE t == Start(x)
           y == Visited(t)
<1>1. t \in Traversals /\ t.layer = Field /\ y.w = x.w
  BY Started, GravityStarts, StartLayers
<1>2. y.stage = "field"
  BY <1>1, VisitedIs DEF Field, Shell
<1> HIDE DEF t, y
<1>3. Ahead(y) = Ahead(x)
  BY <1>1, <1>2 DEF Ahead
<1>4. Payload(y.w) = Payload(x.w)
  BY <1>1
<1>5. Follows(y, x) /\ Carries({y}, x)
  BY <1>3, <1>4, SameAhead
<1> QED
  BY <1>5 DEF y, t

\* A ping of a particle's own, that goes its way.
LEMMA OwnAhead ==
    ASSUME sys \in Systems, NEW x, x.stage = "inject", InjectOK(x), CarriedOK(x.w), InjectWay(x), x.w.kind = "ping",
           ~x.gravity, ~NoStart(x), Hears(x.w.via)
    PROVE  Ahead(Visited(Start(x))) = Ahead(x)
<1> DEFINE t == Start(x)
           y == Visited(t)
           w == x.w
           own == w.to.p = w.from.p
<1>1. w.load = <<>> /\ Payload(w) = w /\ w.to \in Places /\ w.from.p \in Particles /\ w.to.l \in 0 .. 6
  BY Loads DEF InjectOK, HomeOf, CarriedOK, Places, Gravity, Core
<1>2. w.via = w.from /\ Shell <= w.via.l /\ Shell <= x.layer /\ x.layer \in 0 .. 6
  BY DEF InjectWay, InjectOK, Gravity, Core
<1>3. Of(w.from.p).shell
  BY <1>2 DEF Hears, Field, Shell
<1>4. own => w.to.p # "GLOBAL"
  BY <1>1, ParticleFacts
<1>5. /\ t.w = w /\ t.to = w.to
      /\ t.dir = IF own /\ x.layer < w.to.l THEN "Core" ELSE "Fabric"
      /\ t.dest = IF own THEN w.to.l ELSE None
      /\ t.layer = IF x.layer \in {Field, Shell} THEN x.layer ELSE NextLayer(w.to.p, t.dir, x.layer)
  BY <1>4, StartFields
<1>6. /\ t.layer # Field /\ t \in Traversals /\ y.w = w /\ (t.layer = Shell => HasShell(t))
  BY Started, StartLayers
<1>7. /\ t.layer = Shell => y.stage = "shell"
      /\ t.layer # Shell => y.stage = IF t.dir = "Core" THEN "core" ELSE "gravity"
      /\ y.stage # "gravity" => y.dir = t.dir /\ y.dest = t.dest /\ y.to = t.to
  BY <1>6, VisitedIs
<1>8. Registered(w.to.p) /\ (own => w.to.l \in PlanOf(w.to.p) \union {Gravity})
  BY <1>4 DEF NoStart
<1>9. Ahead(x) = Told(w.from, w.to, x.layer)
  BY <1>1 DEF Ahead
<1> HIDE DEF t, y
<1>10. CASE t.dir = "Core"
  <2>1. own /\ x.layer < w.to.l
    BY <1>5, <1>10
  <2>2. Told(w.from, w.to, x.layer) = CoreTells(PipelineTells, w.to.p)
    BY <1>8, <2>1 DEF Told
  <2>3. y.stage \in {"shell", "core"} /\ y.dir = "Core" /\ y.dest = w.to.l /\ y.to = w.to
    BY <1>5, <1>7, <1>10, <2>1
  <2>4. Ahead(y) = Beyond(y)
    BY <1>1, <1>6, <2>3 DEF Ahead
  <2> DEFINE to == [w.to EXCEPT !.l = w.to.l]
  <2>5. to.l = w.to.l /\ w.to.l # Shell
    BY <1>1, <1>2, <2>1 DEF Places, Shell
  <2>6. Hearer(w.from, to) = "core"
    BY <2>5 DEF Hearer
  <2>7. Beyond(y) = HearerTells(PipelineTells, w.to.p, "core")
    BY <1>6, <2>3, <2>6 DEF Beyond
  <2>8. HearerTells(PipelineTells, w.to.p, "core") = CoreTells(PipelineTells, w.to.p)
    BY <1>3, <2>1 DEF HearerTells
  <2> QED
    BY <1>9, <2>2, <2>4, <2>7, <2>8 DEF y, t
<1>11. CASE t.dir # "Core"
  <2>1. ~(own /\ x.layer < w.to.l) /\ t.dir = "Fabric"
    BY <1>5, <1>11
  <2>2. t.layer = IF x.layer = Shell THEN Shell ELSE TowardsFabric(PlanOf(w.to.p), x.layer)
    BY <1>2, <1>5, <2>1 DEF NextLayer, Field, Shell
  <2>3. Told(w.from, w.to, x.layer) =
           IF own /\ w.to.l = Shell /\ t.layer = Shell THEN {"ok"} ELSE ToFabric(w.from, w.to)
    <3>1. CASE own /\ w.to.l = Shell /\ t.layer = Shell
      <4>1. Shell \in {x.layer, TowardsFabric(PlanOf(w.to.p), x.layer)}
        BY <2>2, <3>1
      <4> QED
        BY <1>8, <2>1, <3>1, <4>1 DEF Told
    <3>2. CASE own /\ w.to.l = Shell /\ t.layer # Shell
      <4>1. Shell \notin {x.layer, TowardsFabric(PlanOf(w.to.p), x.layer)}
        BY <2>2, <3>2
      <4> QED
        BY <1>8, <2>1, <3>2, <4>1 DEF Told, ToFabric
    <3>3. CASE ~(own /\ w.to.l = Shell)
      BY <1>8, <2>1, <3>3 DEF Told, ToFabric
    <3> QED
      BY <3>1, <3>2, <3>3
  <2>4. CASE t.layer = Shell
    <3>1. y.stage = "shell" /\ y.dir = "Fabric" /\ y.dest = t.dest
      BY <1>7, <2>1, <2>4
    <3>2. Ahead(y) = IF t.dest = Shell THEN {"ok"} ELSE ToFabric(w.from, w.to)
      BY <1>1, <1>6, <3>1 DEF Ahead
    <3>3. t.dest = Shell <=> own /\ w.to.l = Shell
      BY <1>5 DEF Shell, None
    <3> QED
      BY <1>9, <2>3, <2>4, <3>2, <3>3 DEF y, t
  <2>5. CASE t.layer # Shell
    <3>1. y.stage = "gravity"
      BY <1>7, <2>1, <2>5
    <3>2. Ahead(y) = ToFabric(w.from, w.to)
      BY <1>1, <1>6, <3>1 DEF Ahead
    <3> QED
      BY <1>9, <2>3, <2>5, <3>2 DEF y, t
  <2> QED
    BY <2>4, <2>5
<1> QED
  BY <1>10, <1>11 DEF y, t

LEMMA InjectAhead ==
    ASSUME sys \in Systems, NEW x, FlightOK(x), FlightWay(x), x.stage = "inject"
    PROVE  LET F == Traversed(x) \union Bounced(x) IN
           Carries(F, x) /\ \A z \in F : Follows(z, x)
<1> DEFINE w == Payload(x.w)
<1>1. InjectOK(x) /\ CarriedOK(x.w) /\ ViaOK(w) /\ InjectWay(x)
  BY FlightKinds DEF FlightWay
<1>2. w.kind \in {"ping", "signal", "pong"}
  BY <1>1, PlainFields DEF CarriedOK
<1>3. x.w.load # <<>> => x.gravity /\ x.w.kind = "signal"
  BY <1>1, Loads DEF InjectOK, CarriedOK
<1>4. x.w.load = <<>> => w = x.w
  BY DEF Payload
<1> HIDE DEF w
<1>5. CASE w.kind = "signal"
  <2>1. Bounced(x) = {}
    BY <1>3, <1>4, <1>5 DEF Bounced
  <2>2. \A z \in Traversed(x) : z.w = x.w
    BY <1>1, TraversedMade
  <2>3. ~Wanted(x.w)
    BY <1>5 DEF Wanted, w
  <2> QED
    BY <2>1, <2>2, <2>3, NotWanted
<1>6. CASE w.kind = "pong"
  <2>1. Bounced(x) = {}
    BY <1>3, <1>4, <1>6 DEF Bounced
  <2> QED
    BY <1>1, <1>6, <2>1, PongInject DEF w
<1>7. CASE w.kind = "ping" /\ x.gravity
  <2>1. Traversed(x) = {Visited(Start(x))} /\ ~NoStart(x)
    BY <1>1, <1>7, Started, GravityStarts
  <2>2. Bounced(x) = {}
    BY <2>1 DEF Bounced
  <2>3. Follows(Visited(Start(x)), x) /\ Carries({Visited(Start(x))}, x)
    BY <1>1, <1>7, PingFromFabric DEF w
  <2> QED
    BY <2>1, <2>2, <2>3
<1>8. CASE w.kind = "ping" /\ ~x.gravity /\ ~NoStart(x)
  <2>1. Traversed(x) = {Visited(Start(x))} /\ Bounced(x) = {} /\ Visited(Start(x)).w = x.w
    BY <1>1, <1>8, Started DEF Bounced
  <2>2. x.w = w
    BY <1>3, <1>4, <1>8
  <2>3. Hears(x.w.via) => Ahead(Visited(Start(x))) = Ahead(x)
    BY <1>1, <1>8, <2>2, OwnAhead
  <2>4. Follows(Visited(Start(x)), x) /\ Carries({Visited(Start(x))}, x)
    BY <2>1, <2>2, <2>3, SameAhead DEF w
  <2> QED
    BY <2>1, <2>4
<1>9. CASE w.kind = "ping" /\ ~x.gravity /\ NoStart(x)
  <2>1. x.w = w
    BY <1>3, <1>4, <1>9
  <2> DEFINE z == Bounce(x)
  <2>2. /\ InjectOK(z) /\ CarriedOK(z.w) /\ ViaOK(Payload(z.w)) /\ InjectWay(z)
        /\ z.w = Reflect(x.w, FALSE, At(x.star, Core)) /\ Bounced(x) = Traversed(z)
    BY <1>1, <1>9, <2>1, BounceMade DEF w
  <2>3. Traversed(x) = {}
    BY <1>9 DEF Traversed
  <2>4. At(x.star, Core) \in Places
    BY <1>1 DEF InjectOK, At, Places, Gravity, Core
  <2>5. Payload(z.w).kind = "pong"
    <3> DEFINE r == Reflect(x.w, FALSE, At(x.star, Core))
    <3>1. CarriedOK(x.w) /\ x.w.kind = "ping"
      BY <1>1, <1>9, <2>1
    <3>2. Payload(r) = r /\ r.kind = "pong"
      BY <2>4, <3>1, ReflectMade
    <3> QED
      BY <2>2, <3>2
  <2> HIDE DEF z
  <2>6. Carries(Traversed(z), z) /\ \A n \in Traversed(z) : Follows(n, z)
    BY <2>2, <2>5, PongInject
  <2>7. Hears(x.w.via) => "error" \in Ahead(x)
    <3> HAVE Hears(x.w.via)
    <3>1. x.w.via = x.w.from /\ Shell <= x.w.via.l
      BY <1>1, <1>9, <2>1 DEF InjectWay
    <3>2. Of(x.w.from.p).shell
      BY <3>1 DEF Hears, Field, Shell
    <3>3. HasShell(Start(x))
      BY <1>1, <1>9, <3>2, OwnShell
    <3>4. \/ ~Registered(x.w.to.p)
          \/ x.w.to.p = x.w.from.p /\ x.w.to.l # Gravity /\ x.w.to.l \notin PlanOf(x.w.to.p)
      BY <1>9, <3>3 DEF NoStart
    <3>5. Told(x.w.from, x.w.to, x.layer) = {"error"}
      BY <3>4 DEF Told
    <3>6. x.w.load = <<>> /\ Payload(x.w) = x.w
      BY <1>3, <1>4, <1>9 DEF w
    <3> QED
      BY <1>9, <2>1, <3>5, <3>6 DEF Ahead
  <2>8. Follows(z, x) /\ Carries({z}, x)
    <3>1. Verdict(FALSE) = "error"
      BY DEF Verdict
    <3> QED
      BY <1>1, <1>9, <2>1, <2>2, <2>4, <2>7, <3>1, AnswerAhead
  <2>9. Carries(Traversed(z), x) /\ \A n \in Traversed(z) : Follows(n, x)
    BY <2>6, <2>8, Chain
  <2> QED
    BY <2>2, <2>3, <2>9
<1> QED
  BY <1>2, <1>5, <1>6, <1>7, <1>8, <1>9

LEMMA InjectPromise ==
    ASSUME Parts, Ways, NEW x \in flight, Inject(x)
    PROVE  Ways' /\ \A D : Promise(D) => Promise(D)'
<1> DEFINE F == Traversed(x) \union Bounced(x)
<1>1. FlightOK(x) /\ sys \in Systems /\ FlightWay(x) /\ IsFiniteSet(DOMAIN asks)
  BY DEF Parts, Ways
<1>2. /\ flight' = (flight \ {x}) \union F /\ x.stage = "inject"
      /\ UNCHANGED <<sys, asks, pipes, busy, early>>
  BY DEF Inject
<1>3. \A y \in F : FlightWay(y)
  BY <1>1, <1>2, InjectWays
<1>4. Carries(F, x) /\ \A z \in F : Follows(z, x)
  BY <1>1, <1>2, InjectAhead
<1> HIDE DEF F
<1>5. Ways'
  <2>1. \A z \in flight' : z \in flight \/ FlightWay(z)
    BY <1>2, <1>3
  <2> QED
    BY <1>1, <1>2, <2>1, WaysStep
<1>6. ASSUME NEW D, Promise(D) PROVE Promise(D)'
  BY <1>2, <1>4, <1>6, FlightKeeps
<1> QED
  BY <1>5, <1>6

LEMMA OnwardsIs ==
    ASSUME sys \in Systems, NEW x, FlightOK(x), x.stage = "next"
    PROVE  LET u == Onwards(x) IN
           /\ u \in Traversals /\ u.star = x.star /\ u.w = x.w /\ u.to = x.to /\ u.dir = x.dir
           /\ u.dest = x.dest /\ u.point = x.point
           /\ x.dir = "Core" => \/ x.layer = Field /\ u.layer = Shell
                                \/ x.layer = Shell /\ u.layer \notin {Field, Shell, None}
           /\ x.dir # "Core" => x.dir = "Fabric" /\ u.layer \in {Field, None}
           /\ x.dir = "Core" /\ Of(x.to.p).shell => HasShell(u)
<1> DEFINE n == NextLayer(x.to.p, x.dir, x.layer)
           u == Onwards(x)
<1>1. x \in Traversals /\ x.layer \in {1, 2} /\ WayOK(x)
  BY FlightKinds DEF TraversalOK, StageOK, Field, Shell
<1>2. x.dir \in {"Core", "Fabric"}
  BY <1>1, TraversalFields
<1>3. x.dir = "Core" => (x.layer = 1 /\ n = 2) \/ (x.layer = 2 /\ n \notin {1, 2, 7} /\ n \in 1 .. 6)
  <2> HAVE x.dir = "Core"
  <2>1. CASE x.layer = 1
    BY <2>1, FirstLayers
  <2>2. CASE x.layer = 2
    <3>1. n \in PlanOf(x.to.p) /\ 2 < n
      BY <2>2, FirstLayers
    <3>2. n \in 1 .. 6
      BY <3>1, Plans
    <3> QED
      BY <2>2, <3>1, <3>2
  <2> QED
    BY <1>1, <2>1, <2>2
<1>4. x.dir = "Fabric" => n \in {1, 7}
  <2> HAVE x.dir = "Fabric"
  <2>1. n = 7 \/ (n \in PlanOf(x.to.p) /\ n < x.layer)
    BY <1>1, FabricWards
  <2>2. PlanOf(x.to.p) \subseteq 1 .. 6
    BY Plans
  <2>3. ASSUME n \in PlanOf(x.to.p), n < x.layer PROVE n = 1
    BY <1>1, <2>2, <2>3
  <2> QED
    BY <2>1, <2>3
<1>5. n \in 1 .. 7
  BY <1>2, <1>3, <1>4
<1>6. u = [x EXCEPT !.layer = n]
  BY DEF Onwards
<1> HIDE DEF n, u
<1>7. /\ u \in Traversals /\ u.star = x.star /\ u.w = x.w /\ u.to = x.to /\ u.dir = x.dir
      /\ u.dest = x.dest /\ u.point = x.point /\ u.layer = n
  BY <1>1, <1>5, <1>6 DEF Traversals, Field, None
<1>8. x.dir = "Core" /\ Of(x.to.p).shell => HasShell(u)
  BY <1>1, <1>7 DEF WayOK, HomeOf, HasShell
<1> QED
  BY <1>2, <1>3, <1>4, <1>7, <1>8 DEF u, Field, Shell, None

LEMMA NextWay ==
    ASSUME sys \in Systems, NEW x, FlightOK(x), FlightWay(x), x.stage = "next"
    PROVE  \A y \in After(x) : FlightWay(y)
<1> DEFINE u == Onwards(x)
<1>1. /\ u \in Traversals /\ u.star = x.star /\ u.w = x.w /\ u.to = x.to /\ u.dir = x.dir
      /\ u.dest = x.dest /\ u.point = x.point
      /\ x.dir = "Core" => \/ x.layer = Field /\ u.layer = Shell
                           \/ x.layer = Shell /\ u.layer \notin {Field, Shell, None}
      /\ x.dir # "Core" => x.dir = "Fabric" /\ u.layer \in {Field, None}
  BY OnwardsIs
<1>2. TraversalWay(x) /\ ViaOK(Payload(x.w))
  BY DEF FlightWay
<1> HIDE DEF u
<1>3. VisitWay(u)
  BY <1>1, <1>2 DEF VisitWay, TraversalWay, Field, Shell
<1>4. \A y \in Visit(u) : FlightWay(y)
  BY <1>1, <1>3, VisitedWay
<1>5. FlightWay(InGravity(x.star, x.w))
  BY <1>2 DEF FlightWay, InGravity
<1> QED
  BY <1>4, <1>5 DEF After, u

LEMMA NextAhead ==
    ASSUME sys \in Systems, NEW x, FlightOK(x), FlightWay(x), x.stage = "next"
    PROVE  Carries(After(x), x) /\ \A z \in After(x) : Follows(z, x)
<1> DEFINE u == Onwards(x)
           w == Payload(x.w)
<1>1. /\ u \in Traversals /\ u.star = x.star /\ u.w = x.w /\ u.to = x.to /\ u.dir = x.dir
      /\ u.dest = x.dest /\ u.point = x.point
      /\ x.dir = "Core" => \/ x.layer = Field /\ u.layer = Shell
                           \/ x.layer = Shell /\ u.layer \notin {Field, Shell, None}
      /\ x.dir # "Core" => x.dir = "Fabric" /\ u.layer \in {Field, None}
      /\ x.dir = "Core" /\ Of(x.to.p).shell => HasShell(u)
  BY OnwardsIs
<1>2. \A z \in After(x) : z.w = x.w
  BY AfterMade
<1>3. CarriedOK(x.w) /\ WayOK(x) /\ AnswerWayOK(x)
  BY FlightKinds DEF TraversalOK
<1>4. w \in PlainWaves /\ WaveOK(w) /\ w.kind \in {"ping", "signal", "pong"}
  BY <1>3, PlainFields DEF CarriedOK
<1>5. x.w.load = <<>> => w = x.w
  BY DEF Payload
<1>6. After(x) = IF u.layer # None THEN Visit(u) ELSE IF x.dir = "Fabric" THEN {InGravity(x.star, x.w)} ELSE {}
  BY DEF After
<1> HIDE DEF u, w
<1>7. CASE w.kind = "signal"
  BY <1>2, <1>7, NotWanted DEF Wanted, w
<1>8. CASE w.kind # "signal" /\ u.layer = None
  <2> DEFINE z == InGravity(x.star, x.w)
  <2>1. x.dir = "Fabric" /\ After(x) = {z} /\ z.w = x.w /\ z.stage = "gravity"
    BY <1>1, <1>6, <1>8 DEF Field, Shell, None, InGravity
  <2> HIDE DEF z
  <2>2. Ahead(z) = Ahead(x)
    BY <2>1 DEF Ahead
  <2> QED
    BY <2>1, <2>2, SameAhead
<1>9. CASE w.kind # "signal" /\ u.layer # None /\ (u.layer = Shell => HasShell(u))
  <2> DEFINE z == Visited(u)
  <2>1. /\ Visit(u) = {z} /\ z.w = x.w
        /\ u.layer = Field => z.stage = "field"
        /\ u.layer = Shell => z.stage = "shell"
        /\ u.layer \notin {Field, Shell} => z.stage = IF u.dir = "Core" THEN "core" ELSE "gravity"
        /\ z.stage # "gravity" => z.dir = x.dir /\ z.dest = x.dest /\ z.to = x.to
    BY <1>1, <1>9, VisitedIs
  <2> HIDE DEF z
  <2>2. ASSUME x.dir = "Core" PROVE z.stage \in {"shell", "core"}
    BY <1>1, <2>1, <2>2
  <2>3. ASSUME x.dir # "Core" PROVE z.stage = "field"
    BY <1>1, <1>9, <2>1, <2>3
  <2>4. CASE x.dir = "Core"
    <3>1. z.stage \in {"shell", "core"} /\ z.dir = x.dir /\ z.dest = x.dest /\ z.to = x.to
      BY <2>1, <2>2, <2>4
    <3>2. Beyond(z) = Beyond(x)
      BY <2>1, <3>1 DEF Beyond
    <3>3. Ahead(z) = Ahead(x)
      BY <2>1, <2>4, <3>1, <3>2 DEF Ahead
    <3> QED
      BY <1>6, <1>9, <2>1, <3>3, SameAhead
  <2>5. CASE x.dir # "Core"
    <3>1. z.stage = "field"
      BY <2>3, <2>5
    <3>2. Ahead(z) = Ahead(x)
      BY <2>1, <2>5, <3>1 DEF Ahead
    <3> QED
      BY <1>6, <1>9, <2>1, <3>2, SameAhead
  <2> QED
    BY <2>4, <2>5
<1>10. CASE w.kind # "signal" /\ u.layer = Shell /\ ~HasShell(u)
  <2>1. x.dir = "Core" /\ x.layer = Field /\ ~Of(x.to.p).shell /\ x.to.p = x.w.to.p
    BY <1>1, <1>3, <1>10 DEF Field, Shell, None, WayOK
  <2>2. After(x) = {}
    BY <1>6, <1>10 DEF Visit, Field, Shell, None
  <2>3. x.w.load = <<>>
    <3> SUFFICES ASSUME x.w.load # <<>> PROVE FALSE
      OBVIOUS
    <3>1. x.w.to = At(x.star, Core) /\ HomeOf(x.star, x.star)
      BY <1>3 DEF WayOK, LoadOK
    <3> QED
      BY <2>1, <3>1, StarShell DEF At
  <2>4. CASE w.kind = "pong"
    <3>1. x.to = x.w.to /\ x.w.to = x.w.via /\ x.layer < x.dest /\ x.dest = x.w.to.l /\ x.w.via.l \in 0 .. 6
      BY <1>3, <1>4, <1>5, <2>1, <2>3, <2>4, PlainFields DEF AnswerWayOK, WaveOK
    <3>2. x.w.via.l # Field
      BY <2>1, <3>1 DEF Field
    <3>3. ~Hears(Payload(x.w).via)
      BY <1>5, <2>1, <2>3, <3>1, <3>2 DEF Hears, w
    <3> QED
      BY <2>2, <3>3, Lost
  <2>5. CASE w.kind = "ping"
    <3>1. Ahead(x) = Beyond(x)
      BY <1>5, <2>1, <2>3, <2>5 DEF Ahead, w
    <3>2. Beyond(x) = {"late"}
      BY <2>1 DEF Beyond, HearerTells
    <3> QED
      BY <2>2, <3>1, <3>2, Lost
  <2> QED
    BY <1>4, <1>10, <2>4, <2>5
<1> QED
  BY <1>7, <1>8, <1>9, <1>10

LEMMA OnlyFlightPromise ==
    ASSUME Parts, Ways, NEW x \in flight, NEW F, flight' = (flight \ {x}) \union F,
           UNCHANGED <<sys, asks, pipes, busy, early>>,
           \A y \in F : FlightWay(y), Carries(F, x), \A z \in F : Follows(z, x)
    PROVE  Ways' /\ \A D : Promise(D) => Promise(D)'
<1>1. IsFiniteSet(DOMAIN asks) /\ \A z \in flight' : z \in flight \/ FlightWay(z)
  BY DEF Ways
<1>2. Ways'
  BY <1>1, WaysStep
<1>3. ASSUME NEW D, Promise(D) PROVE Promise(D)'
  BY <1>3, FlightKeeps
<1> QED
  BY <1>2, <1>3

LEMMA NextPromise ==
    ASSUME Parts, Ways, NEW x \in flight, TraverseToNextLayer(x)
    PROVE  Ways' /\ \A D : Promise(D) => Promise(D)'
<1>1. FlightOK(x) /\ sys \in Systems /\ FlightWay(x)
  BY DEF Parts, Ways
<1>2. /\ flight' = (flight \ {x}) \union After(x) /\ x.stage = "next"
      /\ UNCHANGED <<sys, asks, pipes, busy, early>>
  BY DEF TraverseToNextLayer, After
<1>3. (\A y \in After(x) : FlightWay(y)) /\ Carries(After(x), x) /\ \A z \in After(x) : Follows(z, x)
  BY <1>1, <1>2, NextWay, NextAhead
<1> QED
  BY <1>2, <1>3, OnlyFlightPromise

LEMMA PassPromise ==
    ASSUME Parts, Ways, NEW x \in flight, Pass(x)
    PROVE  Ways' /\ \A D : Promise(D) => Promise(D)'
<1> DEFINE y == Stage(x, "next")
<1>1. FlightOK(x) /\ sys \in Systems /\ FlightWay(x)
  BY DEF Parts, Ways
<1>2. /\ x.stage \in {"field", "shell"} /\ x.dest # x.layer
      /\ x.stage = "field" => x.dir = "Fabric" \/ ~IsDirected(x.w)
      /\ flight' = (flight \ {x}) \union {y}
      /\ UNCHANGED <<sys, asks, pipes, busy, early>>
  BY DEF Pass
<1>3. TraversalOK(x) /\ CarriedOK(x.w)
  BY <1>1, <1>2, FlightKinds
<1>4. x \in Traversals /\ StageOK(x)
  BY <1>3 DEF TraversalOK
<1>5. /\ y.stage = "next" /\ y.w = x.w /\ y.to = x.to /\ y.dir = x.dir
      /\ y.dest = x.dest /\ y.point = x.point /\ y.layer = x.layer
  BY <1>4, StagedFields
<1> HIDE DEF y
<1>6. x.stage = "shell" /\ x.dir = "Core" => Of(x.to.p).shell
  BY <1>3, <1>4 DEF StageOK, HasShell, TraversalOK, WayOK
<1>7. TraversalWay(x) /\ ViaOK(Payload(x.w))
  BY <1>1, <1>2 DEF FlightWay
<1>8. x.stage = "field" => x.layer = Field
  BY <1>4 DEF StageOK
<1>9. TraversalWay(y)
  BY <1>2, <1>5, <1>6, <1>7, <1>8 DEF TraversalWay, Field, Shell
<1>10. FlightWay(y)
  BY <1>5, <1>7, <1>9 DEF FlightWay
<1>11. Beyond(y) = Beyond(x)
  BY <1>5 DEF Beyond
<1>12. x.stage = "shell" => x.layer = Shell
  BY <1>4 DEF StageOK
<1>13. Payload(x.w).kind = "ping" /\ x.w.load = <<>> /\ x.stage = "field" => x.dir = "Fabric"
  BY <1>2 DEF Payload, IsDirected
<1>14. Ahead(y) = Ahead(x)
  <2>1. CASE Payload(x.w).kind = "pong" \/ x.w.load # <<>>
    BY <1>2, <1>5, <2>1 DEF Ahead
  <2>2. CASE Payload(x.w).kind # "pong" /\ x.w.load = <<>> /\ x.stage = "shell"
    BY <1>2, <1>5, <1>11, <1>12, <2>2 DEF Ahead
  <2>3. CASE Payload(x.w).kind # "pong" /\ x.w.load = <<>> /\ x.stage = "field"
    <3>1. x.dir = "Fabric"
      BY <1>2, <2>3 DEF Payload, IsDirected
    <3> QED
      BY <1>5, <2>3, <3>1 DEF Ahead
  <2> QED
    BY <1>2, <2>1, <2>2, <2>3
<1>15. Follows(y, x) /\ Carries({y}, x)
  BY <1>5, <1>14, SameAhead
<1> QED
  BY <1>2, <1>10, <1>15, OnlyFlightPromise

LEMMA ShellHandlesPromise ==
    ASSUME Parts, Ways, NEW x \in flight, ShellHandles(x)
    PROVE  Ways' /\ \A D : Promise(D) => Promise(D)'
<1> DEFINE own == x.w.from.p = x.w.to.p
           pong == Reflect(x.w, own, At(x.point, Shell))
           z == Injected(x.star, pong, Shell, FALSE)
           F == IF x.w.kind = "ping" THEN {z} ELSE {}
<1>1. FlightOK(x) /\ sys \in Systems /\ FlightWay(x)
  BY DEF Parts, Ways
<1>2. /\ x.stage = "shell" /\ IsDirected(x.w) /\ x.dest = Shell
      /\ flight' = (flight \ {x}) \union F
      /\ UNCHANGED <<sys, asks, pipes, busy, early>>
  BY DEF ShellHandles
<1>3. TraversalOK(x) /\ CarriedOK(x.w) /\ TraversalWay(x) /\ ViaOK(Payload(x.w))
  BY <1>1, <1>2, FlightKinds DEF FlightWay
<1>4. x \in Traversals /\ HasShell(x) /\ WayOK(x)
  BY <1>2, <1>3 DEF TraversalOK, StageOK
<1>5. Of(x.point).shell /\ x.point \in STRING /\ x.to.p = x.w.to.p
      /\ (x.dir = "Core" => x.point = x.to.p)
  BY <1>4, TraversalFields DEF HasShell, WayOK
<1>6. At(x.point, Shell) \in Places /\ At(x.point, Shell).p = x.point
  BY <1>5 DEF At, Places, Gravity, Shell, Core
<1>7. x.w.load = <<>>
  BY <1>2, <1>4 DEF WayOK, Shell, Core
<1>8. own \in BOOLEAN
  OBVIOUS
<1>9. z.w = pong /\ z.stage = "inject" /\ z.layer = Shell /\ z.gravity = FALSE
  BY DEF Injected
<1> HIDE DEF z, own
<1>10. CASE x.w.kind = "ping"
  <2>1. pong.kind = "pong" /\ pong.from = At(x.point, Shell) /\ pong.via = x.w.via /\ Payload(pong) = pong
    BY <1>3, <1>6, <1>8, <1>10, ReflectMade
  <2>2. Payload(x.w) = x.w
    BY <1>7 DEF Payload
  <2> HIDE DEF pong
  <2>3. FlightWay(z)
    BY <1>3, <1>5, <1>6, <1>9, <1>10, <2>1, <2>2 DEF FlightWay, ViaOK, InjectWay, Shell
  <2>4. Verdict(own) \in Ahead(x)
    <3>1. CASE x.dir = "Core"
      <4>1. Ahead(x) = Beyond(x)
        BY <1>2, <1>7, <1>10, <2>2, <3>1 DEF Ahead
      <4> DEFINE to == [x.to EXCEPT !.l = x.dest]
      <4>2. to.l = Shell /\ to.p = x.to.p
        BY <1>2, <1>4 DEF Traversals, Places
      <4>3. Hearer(x.w.from, to) = IF own THEN "session" ELSE "stranger"
        BY <1>5, <4>2 DEF Hearer, own
      <4>4. Beyond(x) = HearerTells(PipelineTells, x.to.p, Hearer(x.w.from, to))
        BY DEF Beyond
      <4> HIDE DEF to
      <4>5. Beyond(x) = IF own THEN {"ok"} ELSE {"error"}
        BY <1>5, <3>1, <4>3, <4>4 DEF HearerTells
      <4> QED
        BY <4>1, <4>5 DEF Verdict
    <3>2. CASE x.dir # "Core"
      <4>1. x.dir = "Fabric"
        BY <1>4, <3>2, TraversalFields
      <4>2. own
        BY <1>2, <1>3, <1>5, <4>1 DEF TraversalWay, Shell, None, own
      <4>3. Ahead(x) = {"ok"}
        BY <1>2, <1>7, <1>10, <2>2, <3>2 DEF Ahead
      <4> QED
        BY <4>2, <4>3 DEF Verdict
    <3> QED
      BY <3>1, <3>2
  <2>5. Follows(z, x) /\ Carries({z}, x)
    BY <1>3, <1>6, <1>8, <1>9, <1>10, <2>4, AnswerAhead DEF pong
  <2>6. F = {z}
    BY <1>10
  <2> HIDE DEF F
  <2> QED
    BY <1>2, <2>3, <2>5, <2>6, OnlyFlightPromise
<1>11. CASE x.w.kind # "ping"
  <2>1. ~Wanted(x.w)
    <3>1. x.w.kind = "signal" /\ Payload(x.w) = x.w
      BY <1>2, <1>3, <1>7, <1>11, Loads DEF CarriedOK, IsDirected
    <3> QED
      BY <3>1 DEF Wanted
  <2>2. F = {}
    BY <1>11
  <2> HIDE DEF F
  <2>3. Carries(F, x)
    BY <2>1 DEF Carries
  <2> QED
    BY <1>2, <2>2, <2>3, OnlyFlightPromise
<1> QED
  BY <1>10, <1>11

LEMMA ShardPromise ==
    ASSUME Parts, Ways, NEW x \in flight, Shard(x)
    PROVE  Ways' /\ \A D : Promise(D) => Promise(D)'
<1>1. FlightOK(x) /\ sys \in Systems /\ FlightWay(x)
  BY DEF Parts, Ways
<1>2. /\ flight' = (flight \ {x}) \union Arrives(x) /\ x.stage = "gravity"
      /\ UNCHANGED <<sys, asks, pipes, busy, early>>
  BY DEF Shard
<1>3. GravityOK(x) /\ CarriedOK(x.w) /\ x.star \in STRING /\ HomeOf(x.star, x.star) /\ ViaOK(Payload(x.w))
  BY <1>1, <1>2, FlightKinds DEF FlightWay
<1>4. x.w \in PlainWaves /\ x.w.load = <<>> /\ Payload(x.w) = x.w /\ WaveOK(x.w)
      /\ x.w.kind \in {"ping", "signal", "pong"} /\ x.w.to.l \in 0 .. 6
  BY <1>3, PlainFields DEF GravityOK, CarriedOK
<1>5. x.w.kind = "pong" => x.w.to.p \in Particles /\ x.w.to.p # "GLOBAL"
  BY <1>1, <1>4, ParticleFacts DEF WaveOK
<1>6. x.w.kind = "ping" => Ahead(x) = ToFabric(x.w.from, x.w.to)
  BY <1>2, <1>4 DEF Ahead
<1>7. CASE x.w.to.p = "GLOBAL" /\ x.w.kind = "ping"
  <2> DEFINE r == Reflect(x.w, TRUE, At("GLOBAL", Core))
             z == InGravity(x.star, r)
  <2>1. At("GLOBAL", Core) \in Places
    BY <1>4, <1>7, PlainFields DEF At, Places, Gravity, Core
  <2>2. Arrives(x) = {z}
    BY <1>7 DEF Arrives
  <2>3. Payload(r) = r /\ r.via = x.w.via /\ r.kind = "pong"
    BY <1>3, <1>7, <2>1, ReflectMade
  <2>4. z.w = r /\ z.stage = "gravity"
    BY DEF InGravity
  <2>5. ToFabric(x.w.from, x.w.to) = {"ok"}
    BY <1>7 DEF ToFabric, FabricTells
  <2> HIDE DEF z
  <2>6. Follows(z, x) /\ Carries({z}, x)
    <3>1. TRUE \in BOOLEAN /\ Verdict(TRUE) = "ok"
      BY DEF Verdict
    <3> QED
      BY <1>3, <1>6, <1>7, <2>1, <2>4, <2>5, <3>1, AnswerAhead
  <2> HIDE DEF r
  <2>7. FlightWay(z)
    BY <1>3, <1>4, <1>7, <2>3, <2>4 DEF FlightWay, ViaOK
  <2> QED
    BY <1>2, <2>2, <2>6, <2>7, OnlyFlightPromise
<1>8. CASE x.w.kind = "signal"
  <2>1. \A y \in Arrives(x) : Payload(y.w) = Payload(x.w)
    BY <1>1, <1>2, <1>4, <1>8, ArrivesMade
  <2>2. ~Wanted(x.w)
    BY <1>4, <1>8 DEF Wanted
  <2>3. \A y \in Arrives(x) : y.stage = "inject" /\ (y.gravity = TRUE \/ FALSE)
    BY <1>8 DEF Arrives, Injected
  <2>4. \A y \in Arrives(x) : FlightWay(y)
    BY <1>3, <2>1, <2>3 DEF FlightWay, InjectWay
  <2>5. Carries(Arrives(x), x) /\ \A z \in Arrives(x) : Follows(z, x)
    BY <2>1, <2>2, NotWanted
  <2> QED
    BY <1>2, <2>4, <2>5, OnlyFlightPromise
<1>9. CASE x.w.kind = "ping" /\ x.w.to.p # "GLOBAL" /\ ~Registered(x.w.to.p)
  <2>1. Arrives(x) = {}
    BY <1>9 DEF Arrives
  <2>2. ToFabric(x.w.from, x.w.to) = {"late"}
    BY <1>9 DEF ToFabric, FabricTells
  <2>3. Carries({}, x)
    BY <1>6, <1>9, <2>2, Lost
  <2> QED
    BY <1>2, <2>1, <2>3, OnlyFlightPromise
<1>10. CASE x.w.kind # "signal" /\ x.w.to.p # "GLOBAL" /\ Registered(x.w.to.p)
  <2> DEFINE home == Of(x.w.to.p).home
             z == IF home = x.star THEN Injected(home, x.w, Gravity, TRUE)
                  ELSE Injected(home, Transport(x.star, home, x.w), Gravity, TRUE)
  <2>1. Arrives(x) = {z}
    BY <1>10 DEF Arrives
  <2>2. z.stage = "inject" /\ z.gravity = TRUE
    BY DEF Injected
  <2> HIDE DEF z
  <2>3. Payload(z.w) = x.w
    <3>1. z \in Arrives(x)
      BY <2>1
    <3>2. Payload(z.w) = x.w \/ (x.w.kind = "ping" /\ z.w = Reflect(x.w, TRUE, At("GLOBAL", Core)))
      BY <1>1, <1>2, <3>1, ArrivesMade
    <3>3. z.w = x.w \/ z.w = Transport(x.star, home, x.w)
      BY DEF z, Injected
    <3>4. x.w.to.p \in Particles
      BY <1>10 DEF Registered
    <3>5. home \in STRING
      BY <1>1, <3>4, ParticleFacts
    <3> HIDE DEF home
    <3>6. Payload(Transport(x.star, home, x.w)) = x.w
      BY <1>3, <1>4, <3>5, TransportMade
    <3> QED
      BY <1>4, <3>3, <3>6
  <2>4. Ahead(z) = Ahead(x)
    BY <1>2, <1>4, <1>6, <1>10, <2>2, <2>3 DEF Ahead
  <2>5. Follows(z, x) /\ Carries({z}, x)
    BY <1>4, <2>3, <2>4, SameAhead
  <2>6. FlightWay(z)
    BY <1>3, <1>4, <2>2, <2>3 DEF FlightWay, InjectWay
  <2> QED
    BY <1>2, <2>1, <2>5, <2>6, OnlyFlightPromise
<1> QED
  BY <1>4, <1>5, <1>7, <1>8, <1>9, <1>10 DEF Registered

\* A promise kept already, and one that something still keeps, or nothing has to.
Backed(D, id, told) == \E b \in Claims(D) : b.id = id /\ told \subseteq b.told \union Slack
Heard(D, id)   == \E c \in Claims(D)' : c.id = id
Excused(D, b)  == Heard(D, b.id) \/ "late" \in b.told \union Slack \/ asks[b.id].st # "waiting"

LEMMA ItemsMove ==
    ASSUME UNCHANGED <<sys, asks, early>>, NEW D, Promise(D),
           \A x \in flight' : x \in flight \/ (Wanted(x.w) => Backed(D, Payload(x.w).id, Out(x))),
           \A y \in pipes' : y \in pipes \/ (Claiming(y) => Backed(D, Payload(y.t.w).id, PipeClaim(y, D).told)),
           \A b \in busy' : b \in busy \/ (b.w.kind # "signal" => Backed(D, b.w.id, BusyClaim(b, D).told)),
           \A x \in flight : Wanted(x.w) => x \in flight' \/ Excused(D, FlightClaim(x)),
           \A y \in pipes : Claiming(y) => y \in pipes' \/ Excused(D, PipeClaim(y, D)),
           \A b \in busy : b.w.kind # "signal" => b \in busy' \/ Excused(D, BusyClaim(b, D))
    PROVE  Promise(D)'
<1> DEFINE C == Claims(D)
           U == Claims(D)'
<1>1. ASSUME NEW c \in U PROVE c \in C \/ \E b \in C : b.id = c.id /\ c.told \subseteq b.told \union Slack
  <2>1. ASSUME NEW x \in flight', Wanted(x.w), c = FlightClaim(x)
        PROVE  c \in C \/ \E b \in C : b.id = c.id /\ c.told \subseteq b.told \union Slack
    <3>1. CASE x \in flight
      BY <2>1, <3>1, ClaimsAre
    <3>2. CASE Backed(D, Payload(x.w).id, Out(x))
      BY <2>1, <3>2 DEF Backed, FlightClaim
    <3> QED
      BY <2>1, <3>1, <3>2
  <2>2. ASSUME NEW y \in pipes', Claiming(y), c = PipeClaim(y, D)
        PROVE  c \in C \/ \E b \in C : b.id = c.id /\ c.told \subseteq b.told \union Slack
    <3>1. CASE y \in pipes
      BY <2>2, <3>1, ClaimsAre
    <3>2. CASE Backed(D, Payload(y.t.w).id, PipeClaim(y, D).told)
      <4>1. c.id = Payload(y.t.w).id /\ c.told = PipeClaim(y, D).told
        BY <2>2 DEF PipeClaim
      <4> QED
        BY <3>2, <4>1 DEF Backed
    <3> QED
      BY <2>2, <3>1, <3>2
  <2>3. ASSUME NEW z \in busy', z.w.kind # "signal", c = BusyClaim(z, D)
        PROVE  c \in C \/ \E b \in C : b.id = c.id /\ c.told \subseteq b.told \union Slack
    <3>1. CASE z \in busy
      BY <2>3, <3>1, ClaimsAre
    <3>2. CASE Backed(D, z.w.id, BusyClaim(z, D).told)
      <4>1. c.id = z.w.id /\ c.told = BusyClaim(z, D).told
        BY <2>3 DEF BusyClaim
      <4> QED
        BY <3>2, <4>1 DEF Backed
    <3> QED
      BY <2>3, <3>1, <3>2
  <2> QED
    BY <2>1, <2>2, <2>3, ClaimsNext
<1>2. ASSUME NEW b \in C
      PROVE  b \in U \/ (\E c \in U : c.id = b.id) \/ "late" \in b.told \union Slack \/ asks[b.id].st # "waiting"
  <2>1. ASSUME NEW x \in flight, Wanted(x.w), b = FlightClaim(x) PROVE b \in U \/ Excused(D, b)
    BY <2>1, ClaimsNext
  <2>2. ASSUME NEW y \in pipes, Claiming(y), b = PipeClaim(y, D) PROVE b \in U \/ Excused(D, b)
    BY <2>2, ClaimsNext
  <2>3. ASSUME NEW z \in busy, z.w.kind # "signal", b = BusyClaim(z, D) PROVE b \in U \/ Excused(D, b)
    BY <2>3, ClaimsNext
  <2>4. b \in U \/ Excused(D, b)
    BY <2>1, <2>2, <2>3, ClaimsAre
  <2> QED
    BY <2>4 DEF Excused, Heard
<1>3. Keeps(C, asks, D, Slack)
  BY DEF Promise
<1> HIDE DEF C, U
<1>4. Keeps(U, asks, D, Slack)
  BY <1>1, <1>2, <1>3, KeepsMove
<1>5. Slack' = Slack
  BY DEF Slack
<1>6. Keeps(Claims(D), asks, D, Slack)'
  BY <1>4, <1>5 DEF U, Keeps
<1>7. \A i \in DOMAIN sys.asks : Root(sys.asks[i])' = Root(sys.asks[i])
  BY SameOut DEF Root
<1> QED
  BY <1>6, <1>7 DEF Promise

\* What is claimed depends on what those who ask now may be told, and on nothing later.
LEMMA ClaimsLast ==
    ASSUME Parts, Ways, NEW D, NEW E, \A i \in DOMAIN asks : E[i] = D[i]
    PROVE  /\ \A y \in pipes : Claiming(y) => PipeClaim(y, E) = PipeClaim(y, D)
           /\ \A b \in busy : BusyClaim(b, E) = BusyClaim(b, D)
<1>1. ASSUME NEW y \in pipes, Claiming(y) PROVE PipeClaim(y, E) = PipeClaim(y, D)
  <2>1. PipeOK(y) /\ PipeWay(y) /\ sys \in Systems
    BY DEF Parts, Ways
  <2>2. y.t.w.kind \in {"ping", "signal"} /\ y.next \in Nat /\ y.next >= 1
    BY <2>1, PipeFacts
  <2>3. CASE y.t.w.load # <<>> \/ y.next = 1
    BY <2>3 DEF PipeClaim, PipeAhead
  <2>4. CASE y.t.w.load = <<>> /\ y.next # 1
    <3>1. y.t.w.kind = "ping" /\ ~Spent(y)
      BY <1>1, <2>2, <2>4 DEF Claiming, Wanted, Payload
    <3>2. Asked(y)
      BY <2>2, <2>4, <3>1 DEF Asked
    <3>3. InnerId(y, y.next - 1) \in DOMAIN asks
      BY <2>1, <3>2 DEF PipeWay
    <3> QED
      BY <3>3 DEF PipeClaim, PipeAhead
  <2> QED
    BY <2>3, <2>4
<1>2. ASSUME NEW b \in busy PROVE BusyClaim(b, E) = BusyClaim(b, D)
  <2>1. Append(b.w.id, 0) \in DOMAIN asks
    BY DEF Parts
  <2> QED
    BY <2>1 DEF BusyClaim, BusyAhead
<1> QED
  BY <1>1, <1>2

LEMMA ItemsOpen ==
    ASSUME Parts, Ways, UNCHANGED <<sys, early>>, NEW D, Promise(D),
           NEW id, id \notin DOMAIN asks, DOMAIN asks' = DOMAIN asks \union {id},
           \A i \in DOMAIN asks : asks'[i] = asks[i],
           NEW E, \A i \in DOMAIN asks : E[i] = D[i],
           asks'[id].st \in {"waiting"} \union E[id], asks'[id].st = "waiting" => Heard(E, id),
           \A i \in DOMAIN sys.asks : <<i>> = id => E[id] = Root(sys.asks[i]),
           \A x \in flight' : x \in flight \/ (Wanted(x.w) => Payload(x.w).id = id /\ Out(x) \subseteq E[id]),
           \A y \in pipes' : y \in pipes \/ (Claiming(y) => Backed(D, Payload(y.t.w).id, PipeClaim(y, E).told)),
           \A b \in busy' : b \in busy \/ (b.w.kind # "signal" => Backed(D, b.w.id, BusyClaim(b, E).told)),
           \A x \in flight : Wanted(x.w) => x \in flight' \/ Heard(E, FlightClaim(x).id),
           \A y \in pipes : Claiming(y) => y \in pipes' \/ Heard(E, PipeClaim(y, D).id),
           busy \subseteq busy'
    PROVE  Promise(E)'
<1> DEFINE C == Claims(D)
           U == Claims(E)'
<1>0. /\ \A y \in pipes : Claiming(y) => PipeClaim(y, E) = PipeClaim(y, D)
      /\ \A b \in busy : BusyClaim(b, E) = BusyClaim(b, D)
  BY ClaimsLast
<1>1. ASSUME NEW c \in U
      PROVE  \/ c \in C \/ \E b \in C : b.id = c.id /\ c.told \subseteq b.told \union Slack
             \/ c.id = id /\ c.told \subseteq E[id] \union Slack
  <2>1. ASSUME NEW x \in flight', Wanted(x.w), c = FlightClaim(x)
        PROVE  c \in C \/ (c.id = id /\ c.told \subseteq E[id] \union Slack)
    <3>1. CASE x \in flight
      BY <2>1, <3>1, ClaimsAre
    <3>2. CASE x \notin flight
      BY <2>1, <3>2 DEF FlightClaim
    <3> QED
      BY <3>1, <3>2
  <2>2. ASSUME NEW y \in pipes', Claiming(y), c = PipeClaim(y, E)
        PROVE  c \in C \/ \E b \in C : b.id = c.id /\ c.told \subseteq b.told \union Slack
    <3>1. CASE y \in pipes
      BY <1>0, <2>2, <3>1, ClaimsAre
    <3>2. CASE Backed(D, Payload(y.t.w).id, PipeClaim(y, E).told)
      <4>1. c.id = Payload(y.t.w).id /\ c.told = PipeClaim(y, E).told
        BY <2>2 DEF PipeClaim
      <4> QED
        BY <3>2, <4>1 DEF Backed
    <3> QED
      BY <2>2, <3>1, <3>2
  <2>3. ASSUME NEW z \in busy', z.w.kind # "signal", c = BusyClaim(z, E)
        PROVE  c \in C \/ \E b \in C : b.id = c.id /\ c.told \subseteq b.told \union Slack
    <3>1. CASE z \in busy
      BY <1>0, <2>3, <3>1, ClaimsAre
    <3>2. CASE Backed(D, z.w.id, BusyClaim(z, E).told)
      <4>1. c.id = z.w.id /\ c.told = BusyClaim(z, E).told
        BY <2>3 DEF BusyClaim
      <4> QED
        BY <3>2, <4>1 DEF Backed
    <3> QED
      BY <2>3, <3>1, <3>2
  <2> QED
    BY <2>1, <2>2, <2>3, ClaimsNext
<1>2. ASSUME NEW b \in C PROVE b \in U \/ \E c \in U : c.id = b.id
  <2>1. ASSUME NEW x \in flight, Wanted(x.w), b = FlightClaim(x) PROVE b \in U \/ Heard(E, b.id)
    BY <2>1, ClaimsNext
  <2>2. ASSUME NEW y \in pipes, Claiming(y), b = PipeClaim(y, D) PROVE b \in U \/ Heard(E, b.id)
    BY <1>0, <2>2, ClaimsNext
  <2>3. ASSUME NEW z \in busy, z.w.kind # "signal", b = BusyClaim(z, D) PROVE b \in U
    BY <1>0, <2>3, ClaimsNext
  <2>4. b \in U \/ Heard(E, b.id)
    BY <2>1, <2>2, <2>3, ClaimsAre
  <2> QED
    BY <2>4 DEF Heard
<1>3. Keeps(C, asks, D, Slack)
  BY DEF Promise
<1>4. asks'[id].st = "waiting" => \E c \in U : c.id = id
  BY DEF Heard
<1> HIDE DEF C, U
<1>5. PICK A, B, K, V, S : A = asks /\ B = asks' /\ K = C /\ V = U /\ S = Slack
  OBVIOUS
<1>6. Keeps(V, B, E, S)
  <2>1. Keeps(K, A, D, S) /\ id \notin DOMAIN A /\ \A i \in DOMAIN A : E[i] = D[i]
    BY <1>3, <1>5
  <2>2. DOMAIN B = DOMAIN A \union {id} /\ \A i \in DOMAIN A : B[i] = A[i]
    BY <1>5
  <2>3. B[id].st \in {"waiting"} \union E[id] /\ (B[id].st = "waiting" => \E c \in V : c.id = id)
    BY <1>4, <1>5
  <2>4. \A c \in V : \/ c \in K \/ \E b \in K : b.id = c.id /\ c.told \subseteq b.told \union S
                     \/ c.id = id /\ c.told \subseteq E[id] \union S
    BY <1>1, <1>5
  <2>5. \A b \in K : b \in V \/ \E c \in V : c.id = b.id
    BY <1>2, <1>5
  <2>6. Opens(K, A, D, S, id, B, E, V)
    BY <2>1, <2>2, <2>3, <2>4, <2>5 DEF Opens
  <2> QED
    BY <2>1, <2>6, KeepsOpen
<1>7. Slack' = Slack
  BY DEF Slack
<1>8. Keeps(Claims(E), asks, E, Slack)'
  BY <1>5, <1>6, <1>7 DEF U, Keeps
<1>9. \A i \in DOMAIN sys.asks : Root(sys.asks[i])' = Root(sys.asks[i])
  BY SameOut DEF Root
<1>10. \A i \in DOMAIN sys.asks : <<i>> \in DOMAIN asks' => E[<<i>>] = Root(sys.asks[i])
  <2> TAKE i \in DOMAIN sys.asks
  <2>1. CASE <<i>> \in DOMAIN asks
    BY <2>1 DEF Promise
  <2>2. CASE <<i>> = id
    BY <2>2
  <2> QED
    BY <2>1, <2>2
<1> QED
  BY <1>8, <1>9, <1>10 DEF Promise

-----------------------------------------------------------------------------
(* ... in pipelines,                                                       *)

LEMMA SameBacked ==
    ASSUME NEW D, NEW b \in Claims(D), NEW id, NEW told, b.id = id, told \subseteq b.told \union Slack
    PROVE  Backed(D, id, told)
  BY DEF Backed

LEMMA FlightBacked ==
    ASSUME NEW D, NEW x \in flight, Wanted(x.w), NEW id, NEW told, Payload(x.w).id = id, told \subseteq Out(x)
    PROVE  Backed(D, id, told)
<1>1. FlightClaim(x) \in Claims(D) /\ FlightClaim(x).id = id /\ FlightClaim(x).told = Out(x)
  BY ClaimsAre DEF FlightClaim
<1> QED
  BY <1>1, SameBacked

LEMMA ClaimFields ==
    ASSUME NEW y, NEW D
    PROVE  /\ PipeClaim(y, D).id = Payload(y.t.w).id
           /\ PipeClaim(y, D).told = Back(Payload(y.t.w).via, PipeAhead(y, D))
  BY DEF PipeClaim

LEMMA BusyFields ==
    ASSUME NEW b, NEW D
    PROVE  BusyClaim(b, D).id = b.w.id /\ BusyClaim(b, D).told = Back(b.w.via, BusyAhead(b, D))
  BY DEF BusyClaim

LEMMA NowHeard ==
    ASSUME sys' = sys, NEW D, NEW id
    PROVE  /\ (\E x \in flight' : Wanted(x.w) /\ Payload(x.w).id = id) => Heard(D, id)
           /\ (\E y \in pipes' : Claiming(y) /\ Payload(y.t.w).id = id) => Heard(D, id)
           /\ (\E b \in busy' : b.w.kind # "signal" /\ b.w.id = id) => Heard(D, id)
<1>1. ASSUME NEW x \in flight', Wanted(x.w), Payload(x.w).id = id PROVE Heard(D, id)
  <2>1. FlightClaim(x) \in Claims(D)'
    BY <1>1, ClaimsNext
  <2>2. FlightClaim(x).id = id
    BY <1>1 DEF FlightClaim
  <2> QED
    BY <2>1, <2>2 DEF Heard
<1>2. ASSUME NEW y \in pipes', Claiming(y), Payload(y.t.w).id = id PROVE Heard(D, id)
  BY <1>2, ClaimsNext, ClaimFields DEF Heard
<1>3. ASSUME NEW b \in busy', b.w.kind # "signal", b.w.id = id PROVE Heard(D, id)
  BY <1>3, ClaimsNext, BusyFields DEF Heard
<1> QED
  BY <1>1, <1>2, <1>3

\* What the Field of the particle it is for makes of a wave.
LEMMA FieldAhead ==
    ASSUME sys \in Systems, NEW x, FlightOK(x), FlightWay(x), x.stage = "field", IsDirected(x.w),
           x.dest = Field \/ x.dir = "Core", x.w.load = <<>>
    PROVE  /\ x.w.kind = "ping" => Ahead(x) = ToFabric(x.w.from, x.w.to)
           /\ x.dest = Field \/ Of(x.point).bind = <<>> => ToFabric(x.w.from, x.w.to) = {"late"}
           /\ ~(x.dest = Field \/ Of(x.point).bind = <<>>) =>
                ToFabric(x.w.from, x.w.to) = PipelineTells[RestOf(x.point, 1, Hearer(x.w.from, x.to))]
<1>1. TraversalOK(x) /\ CarriedOK(x.w) /\ TraversalWay(x)
  BY FlightKinds DEF FlightWay
<1>2. x \in Traversals /\ WayOK(x)
  BY <1>1 DEF TraversalOK
<1>3. x.to = x.w.to /\ x.dest # None
  BY <1>1 DEF TraversalWay, Field, None
<1>4. x.dest = x.w.to.l /\ x.to.p \in Particles
  BY <1>2, <1>3 DEF WayOK, HomeOf
<1>5. x.to.p # "GLOBAL" /\ Registered(x.to.p)
  BY <1>4, ParticleFacts
<1>6. x.dir = "Core" => x.point = x.to.p
  BY <1>2 DEF WayOK
<1>7. x.w.kind = "ping" => Ahead(x) = ToFabric(x.w.from, x.w.to)
  BY DEF Ahead, Payload
<1>8. CASE x.dest = Field
  <2>1. ToFabric(x.w.from, x.w.to) = {"late"}
    BY <1>3, <1>4, <1>5, <1>8 DEF ToFabric, FabricTells
  <2> QED
    BY <1>7, <1>8, <2>1
<1>9. CASE x.dest # Field
  <2>1. x.point = x.w.to.p
    BY <1>3, <1>6, <1>9
  <2>2. ToFabric(x.w.from, x.w.to) =
          IF Of(x.point).bind = <<>> THEN {"late"}
          ELSE PipelineTells[RestOf(x.point, 1, Hearer(x.w.from, x.to))]
    BY <1>3, <1>4, <1>5, <1>9, <2>1 DEF ToFabric, FabricTells
  <2> QED
    BY <1>7, <1>9, <2>2
<1> QED
  BY <1>8, <1>9

LEMMA EnterPipelinePromise ==
    ASSUME Parts, Ways, NEW x \in flight, EnterPipeline(x)
    PROVE  Ways' /\ \A D : Promise(D) => Promise(D)'
<1> DEFINE y == Entering(x)
           ends == x.dest = Field \/ Of(x.point).bind = <<>>
<1>1. FlightOK(x) /\ sys \in Systems /\ FlightWay(x) /\ IsFiniteSet(DOMAIN asks)
  BY DEF Parts, Ways
<1>2. /\ x.stage = "field" /\ IsDirected(x.w) /\ (x.dest = Field \/ x.dir = "Core") /\ flight' = flight \ {x}
      /\ UNCHANGED <<sys, asks, busy, early>>
      /\ pipes' = IF ends THEN pipes ELSE pipes \union {y}
  BY DEF EnterPipeline, Entering
<1>3. TraversalOK(x) /\ CarriedOK(x.w) /\ TraversalWay(x) /\ ViaOK(Payload(x.w))
  BY <1>1, <1>2, FlightKinds DEF FlightWay
<1>4. y.t = x /\ y.next = 1
  BY DEF Entering
<1>5. x.w.load # <<>> => ~ends /\ Payload(x.w).kind \in {"ping", "pong", "signal"}
  <2> HAVE x.w.load # <<>>
  <2>1. x.to = At(x.star, Core) /\ x.dest = Core /\ HomeOf(x.star, x.star) /\ x.dir = "Core" /\ x.point = x.to.p
    BY <1>3 DEF TraversalOK, WayOK, LoadOK
  <2>2. Of(x.star).bind = <<"Core">>
    BY <1>1, <2>1, ParticleFacts DEF HomeOf
  <2>3. Payload(x.w) \in PlainWaves
    BY <1>3 DEF CarriedOK
  <2>4. x.point = x.star
    BY <2>1 DEF At
  <2>5. <<"Core">> # <<>>
    OBVIOUS
  <2>6. ~ends
    BY <2>1, <2>2, <2>4, <2>5 DEF Field, Core
  <2>7. Payload(x.w).kind \in {"ping", "pong", "signal"}
    BY <2>3, PlainFields
  <2> QED
    BY <2>6, <2>7
<1>6. x.w.load = <<>> => Payload(x.w) = x.w /\ x.w.kind \in {"ping", "signal"}
  BY <1>2, <1>3, Loads DEF CarriedOK, IsDirected
<1>7. /\ x.w.load = <<>> /\ x.w.kind = "ping" => Ahead(x) = ToFabric(x.w.from, x.w.to)
      /\ x.w.load = <<>> /\ ends => ToFabric(x.w.from, x.w.to) = {"late"}
      /\ x.w.load = <<>> /\ ~ends =>
           ToFabric(x.w.from, x.w.to) = PipelineTells[RestOf(x.point, 1, Hearer(x.w.from, x.to))]
  BY <1>1, <1>2, FieldAhead
<1> HIDE DEF y, ends
<1>8. PipeWay(y)
  BY <1>3, <1>4 DEF PipeWay, Asked
<1>9. Ways'
  <2>1. PipeWay(y)'
    BY <1>2, <1>8, SameWays
  <2>2. \A z \in pipes' : z \in pipes \/ PipeWay(z)'
    BY <1>2, <2>1
  <2> QED
    BY <1>1, <1>2, <2>2, WaysStep
<1>10. Claiming(y) <=> Wanted(x.w)
  BY <1>4 DEF Claiming, Keeping, Spent
<1>11. ASSUME NEW D, Promise(D) PROVE Promise(D)'
  <2>1. ASSUME ~ends, Wanted(x.w) PROVE PipeAhead(y, D) = Ahead(x)
    <3>1. CASE x.w.load # <<>>
      BY <1>2, <1>4, <2>1, <3>1 DEF PipeAhead, Ahead
    <3>2. CASE x.w.load = <<>>
      <4>1. x.w.kind = "ping"
        BY <1>6, <2>1, <3>2 DEF Wanted
      <4>2. PipeAhead(y, D) = PipelineTells[RestOf(x.point, 1, Hearer(x.w.from, x.to))]
        BY <1>4, <3>2 DEF PipeAhead, Left, Hr
      <4> QED
        BY <1>7, <2>1, <3>2, <4>1, <4>2
    <3> QED
      BY <3>1, <3>2
  <2>2. ASSUME ~ends, Wanted(x.w) PROVE PipeClaim(y, D).told = Out(x)
    BY <1>4, <2>1, <2>2, ClaimFields DEF Out
  <2>3. \A z \in pipes' : z \in pipes \/ (Claiming(z) => Backed(D, Payload(z.t.w).id, PipeClaim(z, D).told))
    <3>1. ASSUME ~ends, Claiming(y) PROVE Backed(D, Payload(y.t.w).id, PipeClaim(y, D).told)
      BY <1>4, <1>10, <2>2, <3>1, FlightBacked
    <3> QED
      BY <1>2, <3>1
  <2>4. ASSUME Wanted(x.w) PROVE Excused(D, FlightClaim(x))
    <3>1. CASE ~ends
      <4>1. y \in pipes' /\ Claiming(y) /\ Payload(y.t.w).id = FlightClaim(x).id
        BY <1>2, <1>4, <1>10, <2>4, <3>1 DEF FlightClaim
      <4>2. Heard(D, FlightClaim(x).id)
        BY <1>2, <4>1, NowHeard
      <4> QED
        BY <4>2 DEF Excused
    <3>2. CASE ends
      <4>1. x.w.load = <<>> /\ x.w.kind = "ping"
        BY <1>5, <1>6, <2>4, <3>2 DEF Wanted
      <4>2. Out(x) = {"late"}
        BY <1>7, <3>2, <4>1, OutOf
      <4> QED
        BY <4>2 DEF Excused, FlightClaim
    <3> QED
      BY <3>1, <3>2
  <2>5. /\ \A z \in flight' : z \in flight
        /\ \A z \in flight : Wanted(z.w) => z \in flight' \/ Excused(D, FlightClaim(z))
        /\ \A z \in pipes : z \in pipes'
    BY <1>2, <2>4
  <2> QED
    BY <1>2, <1>11, <2>3, <2>5, ItemsMove
<1> QED
  BY <1>9, <1>11

\* A pipeline whose stop is done may tell what is left of it.
LEMMA Going ==
    ASSUME Parts, Ways, NEW D, Promise(D), NEW y \in pipes, Claiming(y), y.t.w.load = <<>>, StopDone(y)
    PROVE  /\ y.t.w.kind = "ping" /\ Payload(y.t.w) = y.t.w
           /\ Left(y, y.next) \subseteq PipeAhead(y, D)
<1>1. PipeOK(y) /\ PipeWay(y) /\ sys \in Systems
  BY DEF Parts, Ways
<1>2. y.t.w.kind \in {"ping", "signal"} /\ y.next \in Nat /\ y.next >= 1
  BY <1>1, PipeFacts
<1>3. y.t.w.kind = "ping" /\ Payload(y.t.w) = y.t.w /\ ~Spent(y)
  BY <1>2 DEF Claiming, Wanted, Payload
<1>4. CASE y.next = 1
  BY <1>3, <1>4 DEF PipeAhead
<1>5. CASE y.next # 1
  <2> DEFINE id == InnerId(y, y.next - 1)
  <2>1. Asked(y)
    BY <1>2, <1>3, <1>5 DEF Asked
  <2>2. id \in DOMAIN asks
    BY <1>1, <2>1 DEF PipeWay
  <2>3. asks[id].st = "ok"
    BY <1>2, <1>3, <1>5 DEF StopDone, StopStatus, Spent
  <2>4. "ok" \in D[id]
    BY <2>2, <2>3 DEF Promise, Keeps, Slack
  <2>5. PipeAhead(y, D) = OrElse(D[id], Left(y, y.next))
    BY <1>5 DEF PipeAhead
  <2> HIDE DEF id
  <2> QED
    BY <1>3, <2>4, <2>5 DEF OrElse
<1> QED
  BY <1>4, <1>5

LEMMA LeftIs ==
    ASSUME sys \in Systems, NEW y, PipeOK(y), NEW k \in Nat \ {0}
    PROVE  /\ k > Len(Bind(y)) => Left(y, k) = {"late"}
           /\ k <= Len(Bind(y)) /\ Bind(y)[k] = "Reflect" => Left(y, k) = {"ok"}
           /\ k <= Len(Bind(y)) /\ Bind(y)[k] # "Reflect" =>
                Left(y, k) = OrElse(StopTells(PipelineTells, RestOf(y.t.point, k, Hr(y))), Left(y, k + 1))
<1> DEFINE q == RestOf(y.t.point, k, Hr(y))
<1>1. y.t.point \in Particles /\ Len(Bind(y)) \in Nat
  BY PipeFacts
<1>2. Hr(y) \in Hearers
  BY DEF Hr, Hearer, Hearers
<1>3. q \in Rests /\ q.p = y.t.point /\ q.k = k /\ q.hearer = Hr(y)
  BY <1>1, <1>2, RestOfIs
<1>4. Left(y, k) = PipelineTells[q]
  BY DEF Left
<1>5. Of(q.p).bind = Bind(y)
  BY <1>3 DEF Bind
<1> HIDE DEF q
<1>6. PipelineTells[q] = PipeBody(PipelineTells, q)
  BY <1>3, PipelineTable
<1>7. PipeBody(PipelineTells, q) = IF k > Len(Bind(y)) THEN {"late"}
                                   ELSE IF Bind(y)[k] = "Reflect" THEN {"ok"}
                                   ELSE OrElse(StopTells(PipelineTells, q), Left(y, k + 1))
  BY <1>3, <1>5 DEF PipeBody, Left
<1>8. ~(k > Len(Bind(y))) <=> k <= Len(Bind(y))
  BY <1>1
<1> QED
  BY <1>4, <1>6, <1>7, <1>8 DEF q

LEMMA BackGrows == \A v, a, b : a \subseteq b => Back(v, a) \subseteq Back(v, b)
  BY DEF Back

LEMMA PipeEndsPromise ==
    ASSUME Parts, Ways, NEW y \in pipes, PipeEnds(y)
    PROVE  Ways' /\ \A D : Promise(D) => Promise(D)'
<1> DEFINE r == Reflect(y.t.w, FALSE, At(y.t.point, Field))
           z == InGravity(y.t.star, r)
<1>1. PipeOK(y) /\ PipeWay(y) /\ sys \in Systems /\ IsFiniteSet(DOMAIN asks)
  BY DEF Parts, Ways
<1>2. /\ \/ y.next > Len(Bind(y)) /\ StopDone(y) /\ flight' = flight
         \/ StopFailed(y) /\ flight' = flight \union {z}
      /\ pipes' = pipes \ {y} /\ UNCHANGED <<sys, asks, busy, early>>
  BY DEF PipeEnds
<1>3. CarriedOK(y.t.w) /\ y.t.point \in STRING /\ y.next \in Nat /\ y.next >= 1 /\ Len(Bind(y)) \in Nat
      /\ (y.t.w.load # <<>> => Bind(y) = <<"Core">>) /\ y.t.w.kind \in {"ping", "signal"}
  BY <1>1, PipeFacts
<1>4. At(y.t.point, Field) \in Places
  BY <1>3 DEF At, Places, Gravity, Field, Core
<1>5. z.w = r /\ z.stage = "gravity"
  BY DEF InGravity
<1> HIDE DEF z
<1>6. CASE StopFailed(y) /\ flight' = flight \union {z}
  <2>1. y.t.w.kind = "ping" /\ y.next # 1 /\ Bind(y)[y.next - 1] # "Reflect" /\ y.t.w.load = <<>>
    BY <1>1, <1>6, FailedFacts
  <2>2. Payload(y.t.w) = y.t.w /\ Wanted(y.t.w)
    BY <2>1 DEF Payload, Wanted
  <2>3. r.kind = "pong" /\ Payload(r) = r /\ r.id = y.t.w.id /\ r.via = y.t.w.via
    <3>1. FALSE \in BOOLEAN
      OBVIOUS
    <3> QED
      BY <1>3, <1>4, <2>1, <3>1, ReflectMade
  <2>4. r.ok = FALSE
    BY DEF Reflect
  <2> HIDE DEF r
  <2>5. FlightWay(z)
    BY <1>1, <1>5, <2>1, <2>2, <2>3 DEF FlightWay, ViaOK, PipeWay
  <2>6. Ways'
    <3>1. \A x \in flight' : x \in flight \/ FlightWay(x)
      BY <1>6, <2>5
    <3> QED
      BY <1>1, <1>2, <3>1, WaysStep
  <2>7. Ahead(z) = {"error"}
    BY <1>5, <2>3, <2>4 DEF Ahead, Verdict
  <2>8. Out(z) = Back(y.t.w.via, {"error"})
    BY <1>5, <2>3, <2>7 DEF Out
  <2>9. Claiming(y)
    BY <1>3, <2>1, <2>2 DEF Claiming, Keeping, Spent
  <2>10. ASSUME NEW D, Promise(D) PROVE Promise(D)'
    <3> DEFINE id == InnerId(y, y.next - 1)
    <3>1. Asked(y)
      BY <1>3, <2>1 DEF Asked, Spent
    <3>2. id \in DOMAIN asks
      BY <1>1, <3>1 DEF PipeWay
    <3>3. asks[id].st \in {"error", "late"}
      BY <1>6, <2>1 DEF StopFailed, StopStatus
    <3>4. "error" \in OrElse(D[id], Left(y, y.next)) \union Slack
      <4>1. asks[id].st \in D[id] \union Slack
        BY <2>10, <3>2, <3>3 DEF Promise, Keeps
      <4> QED
        BY <3>3, <4>1 DEF OrElse, Slack
    <3>5. PipeAhead(y, D) = OrElse(D[id], Left(y, y.next))
      BY <2>1 DEF PipeAhead
    <3> HIDE DEF id
    <3>6. Out(z) \subseteq PipeClaim(y, D).told \union Slack
      BY <2>2, <2>8, <3>4, <3>5, ClaimFields DEF Back
    <3>7. Backed(D, Payload(z.w).id, Out(z))
      <4>1. PipeClaim(y, D) \in Claims(D)
        BY <2>9, ClaimsAre
      <4>2. PipeClaim(y, D).id = Payload(z.w).id
        BY <1>5, <2>2, <2>3, ClaimFields
      <4> QED
        BY <3>6, <4>1, <4>2, SameBacked
    <3>8. Excused(D, PipeClaim(y, D))
      <4>1. z \in flight' /\ Wanted(z.w) /\ Payload(z.w).id = PipeClaim(y, D).id
        BY <1>5, <1>6, <2>2, <2>3, ClaimFields DEF Wanted
      <4> QED
        BY <1>2, <4>1, NowHeard DEF Excused
    <3>9. /\ \A x \in flight' : x \in flight \/ (Wanted(x.w) => Backed(D, Payload(x.w).id, Out(x)))
          /\ \A x \in pipes' : x \in pipes
          /\ \A x \in flight : x \in flight'
          /\ \A x \in pipes : Claiming(x) => x \in pipes' \/ Excused(D, PipeClaim(x, D))
      BY <1>2, <1>6, <3>7, <3>8
    <3> QED
      BY <1>2, <2>10, <3>9, ItemsMove
  <2> QED
    BY <2>6, <2>10
<1>7. CASE y.next > Len(Bind(y)) /\ StopDone(y) /\ flight' = flight
  <2>1. Ways'
    BY <1>1, <1>2, <1>7, WaysStep
  <2>2. ASSUME NEW D, Promise(D) PROVE Promise(D)'
    <3>1. ASSUME Claiming(y) PROVE Excused(D, PipeClaim(y, D))
      <4>1. y.t.w.load = <<>>
        <5> SUFFICES ASSUME y.t.w.load # <<>> PROVE FALSE
          OBVIOUS
        <5>1. y.next = 1 /\ Len(Bind(y)) = 1
          BY <1>3, <3>1 DEF Claiming, Keeping
        <5> QED
          BY <1>7, <5>1
      <4>2. Left(y, y.next) \subseteq PipeAhead(y, D)
        BY <1>7, <2>2, <3>1, <4>1, Going
      <4>3. Left(y, y.next) = {"late"}
        BY <1>1, <1>3, <1>7, LeftIs
      <4>4. "late" \in PipeClaim(y, D).told
        BY <4>2, <4>3, ClaimFields DEF Back
      <4> QED
        BY <4>4 DEF Excused
    <3>2. /\ \A x \in pipes' : x \in pipes
          /\ \A x \in pipes : Claiming(x) => x \in pipes' \/ Excused(D, PipeClaim(x, D))
      BY <1>2, <3>1
    <3> QED
      BY <1>2, <1>7, <2>2, <3>2, ItemsMove
  <2> QED
    BY <2>1, <2>2
<1> QED
  BY <1>2, <1>6, <1>7

LEMMA SpentIs ==
    ASSUME sys \in Systems, NEW y, PipeOK(y), y.next <= Len(Bind(y))
    PROVE  ~Spent(y) /\ (Spent(Stepped(y)) <=> StopOf(y) = "Reflect")
<1>1. /\ y.next \in 1 .. Len(Bind(y)) /\ Len(Bind(y)) \in Nat
      /\ \A i \in 1 .. Len(Bind(y)) : Bind(y)[i] = "Reflect" => i = Len(Bind(y))
  BY PipeFacts
<1>2. Stepped(y).next = y.next + 1 /\ Bind(Stepped(y)) = Bind(y)
  BY StopFacts
<1>3. ~Spent(y)
  <2>1. y.next - 1 < Len(Bind(y)) /\ y.next - 1 \in Int
    BY <1>1
  <2>2. y.next > 1 => y.next - 1 \in 1 .. Len(Bind(y))
    BY <1>1
  <2> QED
    BY <1>1, <2>1, <2>2 DEF Spent
<1>4. Stepped(y).next > 1 /\ Stepped(y).next - 1 = y.next
  BY <1>1, <1>2
<1> QED
  BY <1>2, <1>3, <1>4 DEF Spent, StopOf

LEMMA OntoIs ==
    ASSUME sys \in Systems, NEW y, PipeOK(y), y.next <= Len(Bind(y)), StopOf(y) = "Core"
    PROVE  LET z == Onto(y) IN
           /\ z.stage = "next" /\ z.w = Inner(y) /\ z.to = y.t.to /\ z.dir = "Core" /\ z.dest = y.t.dest
           /\ z.layer = Field /\ StopFlight(y) = {z}
<1> DEFINE t == y.t
           u == [y.t EXCEPT !.w = Inner(y)]
           z == Onto(y)
<1>1. t \in Traversals /\ t.dir = "Core" /\ t.layer = Field
  BY PipeFacts
<1>2. Inner(y) \in WavesWith(Seq(PlainWaves))
  BY InnerMade, Loads DEF CarriedOK
<1>3. /\ u \in Traversals /\ u.w = Inner(y) /\ u.to = t.to /\ u.dir = t.dir /\ u.dest = t.dest /\ u.layer = t.layer
  <2>1. PICK v : v = Inner(y)
    OBVIOUS
  <2> QED
    BY <1>1, <1>2, <2>1 DEF Traversals
<1>4. z = Stage(u, "next")
  BY DEF Onto
<1> HIDE DEF u, z
<1>5. z.stage = "next" /\ z.w = u.w /\ z.to = u.to /\ z.dir = u.dir /\ z.dest = u.dest /\ z.layer = u.layer
  BY <1>3, <1>4, StagedFields
<1>6. StopFlight(y) = {z}
  BY DEF StopFlight, z
<1> QED
  BY <1>1, <1>3, <1>5, <1>6 DEF z

\* The wave of a stop that asks.
Sent(y) == IF StopOf(y) = "Core" THEN Onto(y) ELSE InGravity(y.t.star, Outer(y))

LEMMA SentIs ==
    ASSUME sys \in Systems, NEW y, PipeOK(y), y.next <= Len(Bind(y)), y.t.w.load = <<>>, StopOf(y) # "Reflect"
    PROVE  LET z == Sent(y) IN
           /\ StopFlight(y) = {z} /\ Payload(z.w) = z.w /\ z.w.load = <<>> /\ z.w.kind = y.t.w.kind
           /\ z.w.id = InnerId(y, y.next) /\ z.w.via = At(y.t.point, Field)
<1>1. CASE StopOf(y) = "Core"
  <2>1. Sent(y) = Onto(y)
    BY <1>1 DEF Sent
  <2> QED
    BY <1>1, <2>1, OntoIs, InnerMade
<1>2. CASE StopOf(y) # "Core"
  <2>1. Sent(y) = InGravity(y.t.star, Outer(y))
    BY <1>2 DEF Sent
  <2>2. Sent(y).w = Outer(y)
    BY <2>1 DEF InGravity
  <2>3. StopFlight(y) = {Sent(y)}
    BY <1>2, <2>1 DEF StopFlight
  <2>4. Outer(y) \in PlainWaves /\ Payload(Outer(y)) = Outer(y) /\ Outer(y).kind = y.t.w.kind
        /\ Outer(y).id = InnerId(y, y.next) /\ Outer(y).via = At(y.t.point, Field)
    BY OuterMade
  <2>5. Outer(y).load = <<>>
    BY <2>4, PlainFields
  <2> QED
    BY <2>2, <2>3, <2>4, <2>5
<1> QED
  BY <1>1, <1>2

LEMMA SentWay ==
    ASSUME sys \in Systems, NEW y, PipeOK(y), PipeWay(y), y.next <= Len(Bind(y)), StopOf(y) # "Reflect",
           y.t.w.load # <<>> => StopOf(y) = "Core"
    PROVE  FlightWay(Sent(y))
<1>1. ViaOK(Payload(y.t.w)) /\ TraversalWay(y.t) /\ y.t.dir = "Core"
  BY PipeFacts DEF PipeWay
<1>2. ViaOK(Payload(Sent(y).w))
  <2>1. CASE y.t.w.load # <<>>
    <3>1. Sent(y).w = Inner(y)
      BY <2>1, OntoIs DEF Sent
    <3> QED
      BY <1>1, <2>1, <3>1, InnerMade
  <2>2. CASE y.t.w.load = <<>>
    <3>1. Payload(Sent(y).w).via = At(y.t.point, Field)
      BY <2>2, SentIs
    <3>2. Field \in PlanOf(y.t.point)
      BY Plans DEF Field
    <3> QED
      BY <3>1, <3>2 DEF ViaOK, At
  <2> QED
    BY <2>1, <2>2
<1>3. CASE StopOf(y) = "Core"
  <2>1. /\ Sent(y).stage = "next" /\ Sent(y).dir = "Core" /\ Sent(y).dest = y.t.dest /\ Sent(y).layer = Field
    BY <1>3, OntoIs DEF Sent
  <2>2. TraversalWay(Sent(y))
    BY <1>1, <2>1 DEF TraversalWay, Field, Shell
  <2> QED
    BY <1>2, <2>1, <2>2 DEF FlightWay
<1>4. CASE StopOf(y) # "Core"
  <2>1. Sent(y).stage = "gravity"
    BY <1>4 DEF Sent, InGravity
  <2> QED
    BY <1>2, <2>1 DEF FlightWay
<1> QED
  BY <1>3, <1>4

\* A stop tells what the particle that it asks does.
LEMMA SentAhead ==
    ASSUME sys \in Systems, NEW y, PipeOK(y), PipeWay(y), y.next <= Len(Bind(y)), y.t.w.load = <<>>,
           StopOf(y) # "Reflect", y.t.w.kind = "ping"
    PROVE  Out(Sent(y)) = StopTells(PipelineTells, RestOf(y.t.point, y.next, Hr(y)))
<1> DEFINE q == RestOf(y.t.point, y.next, Hr(y))
           z == Sent(y)
<1>1. /\ Payload(z.w) = z.w /\ z.w.load = <<>> /\ z.w.kind = "ping" /\ z.w.via = At(y.t.point, Field)
  BY SentIs
<1>2. y.t.point = y.t.to.p /\ y.t.to \in Places /\ (y.t.dest # None => y.t.dest = y.t.to.l) /\ y.t.dir = "Core"
  BY PipeFacts
<1>3. y.t.dest # None
  BY <1>2 DEF PipeWay, TraversalWay
<1>4. q.p = y.t.point /\ q.k = y.next /\ q.hearer = Hr(y)
  BY DEF RestOf
<1>5. Of(q.p).bind[q.k] = StopOf(y)
  BY <1>4 DEF StopOf, Bind
<1>6. Out(z) = Ahead(z)
  <2>1. Hears(z.w.via)
    BY <1>1 DEF Hears, At
  <2> QED
    BY <1>1, <2>1, OutOf
<1> HIDE DEF z, q
<1>7. CASE StopOf(y) = "Core"
  <2>1. z.stage = "next" /\ z.w = Inner(y) /\ z.to = y.t.to /\ z.dir = "Core" /\ z.dest = y.t.dest
    BY <1>7, OntoIs DEF Sent, z
  <2>2. z.w.from = y.t.w.from
    BY <2>1 DEF Inner, Directed
  <2>3. Ahead(z) = Beyond(z)
    BY <1>1, <2>1 DEF Ahead
  <2>4. [z.to EXCEPT !.l = z.dest] = y.t.to
    BY <1>2, <1>3, <2>1 DEF Places
  <2>5. Beyond(z) = HearerTells(PipelineTells, y.t.point, Hr(y))
    BY <1>2, <2>1, <2>2, <2>4 DEF Beyond, Hr
  <2>6. StopTells(PipelineTells, q) = HearerTells(PipelineTells, y.t.point, Hr(y))
    BY <1>4, <1>5, <1>7 DEF StopTells
  <2> QED
    BY <1>6, <2>3, <2>5, <2>6 DEF z, q
<1>8. CASE StopOf(y) # "Core"
  <2>1. z.stage = "gravity" /\ z.w = Outer(y)
    BY <1>8 DEF Sent, InGravity, z
  <2>2. Ahead(z) = ToFabric(z.w.from, z.w.to)
    BY <1>1, <2>1 DEF Ahead
  <2>3. z.w.to = At(StopOf(y), Core)
    <3>1. Inner(y).to = At(StopOf(y), Core) /\ Inner(y) \in PlainWaves
      BY <1>8, InnerMade
    <3> QED
      BY <2>1, <3>1 DEF Outer, PlainWaves, WavesWith
  <2>4. Hearer(z.w.from, z.w.to) = "core"
    BY <2>3 DEF Hearer, At, Shell, Core
  <2>5. Ahead(z) = FabricTells(PipelineTells, At(StopOf(y), Core), "core")
    BY <2>2, <2>3, <2>4 DEF ToFabric
  <2>6. StopTells(PipelineTells, q) = FabricTells(PipelineTells, At(StopOf(y), Core), "core")
    BY <1>5, <1>8 DEF StopTells
  <2> QED
    BY <1>6, <2>5, <2>6 DEF z, q
<1> QED
  BY <1>7, <1>8

LEMMA StopsBefore ==
    ASSUME Parts, Ways, NEW y \in pipes, PipeStep(y)
    PROVE  /\ PipeOK(y) /\ PipeWay(y) /\ sys \in Systems /\ IsFiniteSet(DOMAIN asks)
           /\ y.next <= Len(Bind(y)) /\ StopDone(y) /\ y.next \in Nat /\ y.next >= 1
           /\ y.t.w.kind \in {"ping", "signal"} /\ CarriedOK(y.t.w)
           /\ y.t.w.load # <<>> => StopOf(y) = "Core" /\ y.next = 1
           /\ y.t.w.load = <<>> => Payload(y.t.w) = y.t.w
           /\ Stepped(y).t = y.t /\ Stepped(y).next = y.next + 1 /\ Bind(Stepped(y)) = Bind(y)
           /\ StopOf(y) # "Reflect" => StopFlight(y) = {Sent(y)}
<1>1. PipeOK(y) /\ PipeWay(y) /\ sys \in Systems /\ IsFiniteSet(DOMAIN asks)
  BY DEF Parts, Ways
<1>2. y.next <= Len(Bind(y)) /\ StopDone(y)
  BY DEF PipeStep
<1>3. /\ y.t.w.load # <<>> => StopOf(y) = "Core" /\ y.next = 1
      /\ Stepped(y).t = y.t /\ Stepped(y).next = y.next + 1 /\ Bind(Stepped(y)) = Bind(y)
  BY <1>1, <1>2, StopFacts
<1>4. y.next \in Nat /\ y.next >= 1 /\ y.t.w.kind \in {"ping", "signal"} /\ CarriedOK(y.t.w)
  BY <1>1, PipeFacts
<1>5. y.t.w.load = <<>> => Payload(y.t.w) = y.t.w
  BY DEF Payload
<1>6. StopOf(y) # "Reflect" => StopFlight(y) = {Sent(y)}
  BY <1>4 DEF StopFlight, Sent
<1> QED
  BY <1>1, <1>2, <1>3, <1>4, <1>5, <1>6

LEMMA StopWays ==
    ASSUME Parts, Ways, NEW y \in pipes, PipeStep(y)
    PROVE  Ways'
<1>1. /\ PipeOK(y) /\ PipeWay(y) /\ sys \in Systems /\ IsFiniteSet(DOMAIN asks)
      /\ y.next <= Len(Bind(y)) /\ y.next \in Nat /\ y.next >= 1 /\ y.t.w.kind \in {"ping", "signal"}
      /\ y.t.w.load # <<>> => StopOf(y) = "Core" /\ y.next = 1
      /\ Stepped(y).t = y.t /\ Stepped(y).next = y.next + 1 /\ Bind(Stepped(y)) = Bind(y)
      /\ StopOf(y) # "Reflect" => StopFlight(y) = {Sent(y)}
      /\ CarriedOK(y.t.w)
  BY StopsBefore
<1>2. /\ flight' = flight \union StopFlight(y)
      /\ asks' = IF StopOf(y) # "Reflect" /\ y.t.w.kind = "ping" THEN Exchange(InnerId(y, y.next), y.t.star)
                 ELSE asks
      /\ pipes' = (pipes \ {y}) \union {Stepped(y)}
      /\ UNCHANGED <<sys, busy, unexpected, early>>
  BY PipeStepIs
<1>3. \A x \in StopFlight(y) : FlightWay(x)
  <2>1. CASE StopOf(y) # "Reflect"
    BY <1>1, <2>1, SentWay
  <2>2. CASE StopOf(y) = "Reflect" /\ y.t.w.kind = "signal"
    BY <2>2 DEF StopFlight
  <2>3. CASE StopOf(y) = "Reflect" /\ y.t.w.kind = "ping"
    <3> DEFINE r == Reflect(y.t.w, TRUE, y.t.to)
               z == InGravity(y.t.star, r)
    <3>1. y.t.to \in Places
      BY <1>1, PipeFacts
    <3>2. StopFlight(y) = {z}
      BY <2>3 DEF StopFlight
    <3>3. Payload(r) = r /\ r.via = y.t.w.via /\ Payload(y.t.w) = y.t.w
      BY <1>1, <2>3, <3>1, ReflectMade
    <3>4. z.stage = "gravity" /\ z.w = r
      BY DEF InGravity
    <3> HIDE DEF r, z
    <3>5. FlightWay(z)
      BY <1>1, <2>3, <3>3, <3>4 DEF FlightWay, ViaOK, PipeWay
    <3> QED
      BY <3>2, <3>5
  <2> QED
    BY <1>1, <2>1, <2>2, <2>3
<1>4. /\ DOMAIN asks \subseteq DOMAIN asks' /\ IsFiniteSet(DOMAIN asks')
      /\ StopOf(y) # "Reflect" /\ y.t.w.kind = "ping" => InnerId(y, y.next) \in DOMAIN asks'
  <2>1. CASE StopOf(y) # "Reflect" /\ y.t.w.kind = "ping"
    <3>1. DOMAIN asks' = DOMAIN asks \union {InnerId(y, y.next)}
      BY <1>2, <2>1 DEF Exchange, Entered
    <3>2. IsFiniteSet(DOMAIN asks \union {InnerId(y, y.next)})
      BY <1>1, FS_AddElement
    <3> QED
      BY <3>1, <3>2
  <2>2. CASE ~(StopOf(y) # "Reflect" /\ y.t.w.kind = "ping")
    BY <1>1, <1>2, <2>2
  <2> QED
    BY <2>1, <2>2
<1>5. PipeWay(Stepped(y))'
  <2> DEFINE n == Stepped(y)
  <2>1. n.t = y.t /\ n.next = y.next + 1
    BY <1>1
  <2>2. (PipeWay(y))'
    BY <1>1, <1>2, <1>4, SameWays
  <2>3. ASSUME Asked(n) PROVE InnerId(n, n.next - 1) \in DOMAIN asks'
    <3>1. StopOf(y) # "Reflect" /\ y.t.w.kind = "ping"
      BY <1>1, <2>1, <2>3, SpentIs DEF Asked
    <3>2. n.next - 1 = y.next
      BY <1>1, <2>1
    <3>3. InnerId(n, n.next - 1) = InnerId(y, y.next)
      BY <2>1, <3>2 DEF InnerId
    <3> QED
      BY <1>4, <3>1, <3>3
  <2> HIDE DEF n
  <2>4. Asked(n)' = Asked(n)
    BY <1>2, SameSystem DEF Asked, Spent, Bind
  <2>5. PipeWay(n)'
    BY <2>1, <2>2, <2>3, <2>4 DEF PipeWay, InnerId
  <2> QED
    BY <2>5 DEF n
<1>6. \A x \in flight' : x \in flight \/ FlightWay(x)
  BY <1>2, <1>3
<1>7. \A z \in pipes' : z \in pipes \/ PipeWay(z)'
  BY <1>2, <1>5
<1> QED
  BY <1>1, <1>2, <1>4, <1>6, <1>7, WaysStep

\* Case by case: the transport goes on to its core,
LEMMA LoadedStops ==
    ASSUME Parts, Ways, NEW y \in pipes, PipeStep(y), y.t.w.load # <<>>, NEW D, Promise(D)
    PROVE  Promise(D)'
<1> DEFINE z == Onto(y)
           n == Stepped(y)
<1>1. /\ PipeOK(y) /\ sys \in Systems /\ y.next <= Len(Bind(y)) /\ StopOf(y) = "Core" /\ y.next = 1
      /\ n.t = y.t /\ n.next = y.next + 1 /\ CarriedOK(y.t.w)
  BY StopsBefore
<1>2. y.t.w.kind = "signal"
  BY <1>1, Loads DEF CarriedOK
<1>3. /\ z.stage = "next" /\ z.w = Inner(y) /\ StopFlight(y) = {z}
  BY <1>1, OntoIs
<1>4. Payload(z.w) = Payload(y.t.w) /\ z.w.load # <<>>
  BY <1>1, <1>3, InnerMade
<1>5. /\ flight' = flight \union {z} /\ pipes' = (pipes \ {y}) \union {n} /\ UNCHANGED <<sys, asks, busy, early>>
  BY <1>2, <1>3, PipeStepIs
<1> HIDE DEF z, n
<1>6. Claiming(y) <=> Wanted(z.w)
  BY <1>1, <1>4 DEF Claiming, Wanted, Keeping, Spent
<1>7. ~Claiming(n)
  BY <1>1 DEF Claiming, Keeping
<1>8. Out(z) = PipeClaim(y, D).told
  BY <1>4, ClaimFields DEF Out, Ahead, PipeAhead
<1>9. ASSUME Wanted(z.w) PROVE Backed(D, Payload(z.w).id, Out(z))
  <2>1. PipeClaim(y, D) \in Claims(D)
    BY <1>6, <1>9, ClaimsAre
  <2>2. PipeClaim(y, D).id = Payload(z.w).id
    BY <1>4, ClaimFields
  <2> QED
    BY <1>8, <2>1, <2>2, SameBacked
<1>10. ASSUME Claiming(y) PROVE Excused(D, PipeClaim(y, D))
  <2>1. z \in flight' /\ Wanted(z.w) /\ Payload(z.w).id = PipeClaim(y, D).id
    BY <1>4, <1>5, <1>6, <1>10, ClaimFields
  <2> QED
    BY <1>5, <2>1, NowHeard DEF Excused
<1>11. /\ \A x \in flight' : x \in flight \/ (Wanted(x.w) => Backed(D, Payload(x.w).id, Out(x)))
       /\ \A x \in pipes' : x \in pipes \/ (Claiming(x) => Backed(D, Payload(x.t.w).id, PipeClaim(x, D).told))
       /\ \A x \in flight : x \in flight'
       /\ \A x \in pipes : Claiming(x) => x \in pipes' \/ Excused(D, PipeClaim(x, D))
  BY <1>5, <1>7, <1>9, <1>10
<1> QED
  BY <1>5, <1>11, ItemsMove

\* ... nobody waits for what is told a signal,
LEMMA SignalStops ==
    ASSUME Parts, Ways, NEW y \in pipes, PipeStep(y), y.t.w.load = <<>>, y.t.w.kind = "signal", NEW D, Promise(D)
    PROVE  Promise(D)'
<1> DEFINE n == Stepped(y)
<1>1. /\ PipeOK(y) /\ sys \in Systems /\ y.next <= Len(Bind(y)) /\ n.t = y.t
      /\ StopOf(y) # "Reflect" => StopFlight(y) = {Sent(y)}
      /\ Payload(y.t.w) = y.t.w
  BY StopsBefore
<1>2. \A x \in StopFlight(y) : ~Wanted(x.w)
  <2>1. CASE StopOf(y) = "Reflect"
    BY <2>1 DEF StopFlight
  <2>2. CASE StopOf(y) # "Reflect"
    BY <1>1, <2>2, SentIs DEF Wanted
  <2> QED
    BY <2>1, <2>2
<1>3. flight' = flight \union StopFlight(y) /\ pipes' = (pipes \ {y}) \union {n} /\ UNCHANGED <<sys, asks, busy, early>>
  BY PipeStepIs
<1> HIDE DEF n
<1>4. ~Claiming(y) /\ ~Claiming(n)
  BY <1>1 DEF Claiming, Wanted
<1>5. /\ \A x \in flight' : x \in flight \/ (Wanted(x.w) => Backed(D, Payload(x.w).id, Out(x)))
      /\ \A x \in pipes' : x \in pipes \/ (Claiming(x) => Backed(D, Payload(x.t.w).id, PipeClaim(x, D).told))
      /\ \A x \in flight : x \in flight'
      /\ \A x \in pipes : Claiming(x) => x \in pipes' \/ Excused(D, PipeClaim(x, D))
  BY <1>2, <1>3, <1>4
<1> QED
  BY <1>3, <1>5, ItemsMove

\* ... the last stop reflects, the others having been well,
LEMMA ReflectStops ==
    ASSUME Parts, Ways, NEW y \in pipes, PipeStep(y), y.t.w.load = <<>>, y.t.w.kind = "ping",
           StopOf(y) = "Reflect", NEW D, Promise(D)
    PROVE  Promise(D)'
<1> DEFINE r == Reflect(y.t.w, TRUE, y.t.to)
           z == InGravity(y.t.star, r)
           n == Stepped(y)
<1>1. /\ PipeOK(y) /\ sys \in Systems /\ y.next <= Len(Bind(y)) /\ n.t = y.t /\ StopDone(y) /\ CarriedOK(y.t.w)
      /\ Payload(y.t.w) = y.t.w /\ y.next \in Nat /\ y.next >= 1
  BY StopsBefore
<1>2. flight' = flight \union {z} /\ pipes' = (pipes \ {y}) \union {n} /\ UNCHANGED <<sys, asks, busy, early>>
  BY PipeStepIs DEF StopFlight
<1>3. Spent(n) /\ ~Spent(y)
  BY <1>1, SpentIs
<1>4. y.t.to \in Places
  BY <1>1, PipeFacts
<1>5. r.kind = "pong" /\ Payload(r) = r /\ r.id = y.t.w.id /\ r.via = y.t.w.via
  BY <1>1, <1>4, ReflectMade
<1>6. r.ok = TRUE
  BY DEF Reflect
<1>7. z.w = r
  BY DEF InGravity
<1> HIDE DEF r, z, n
<1>8. Out(z) = Back(y.t.w.via, {"ok"})
  BY <1>5, <1>6, <1>7 DEF Out, Ahead, Verdict
<1>9. Claiming(y) /\ ~Claiming(n)
  BY <1>1, <1>3 DEF Claiming, Wanted, Keeping
<1>10. Left(y, y.next) \subseteq PipeAhead(y, D)
  BY <1>1, <1>9, Going
<1>11. Left(y, y.next) = {"ok"}
  <2>1. Bind(y)[y.next] = "Reflect" /\ y.next \in Nat \ {0}
    BY <1>1 DEF StopOf
  <2> QED
    BY <1>1, <2>1, LeftIs
<1>12. Out(z) \subseteq PipeClaim(y, D).told
  BY <1>1, <1>8, <1>10, <1>11, BackGrows, ClaimFields
<1>13. Backed(D, Payload(z.w).id, Out(z))
  <2>1. PipeClaim(y, D) \in Claims(D)
    BY <1>9, ClaimsAre
  <2>2. PipeClaim(y, D).id = Payload(z.w).id
    BY <1>1, <1>5, <1>7, ClaimFields
  <2> QED
    BY <1>12, <2>1, <2>2, SameBacked
<1>14. Excused(D, PipeClaim(y, D))
  <2>1. z \in flight' /\ Wanted(z.w) /\ Payload(z.w).id = PipeClaim(y, D).id
    BY <1>1, <1>2, <1>5, <1>7, ClaimFields DEF Wanted
  <2> QED
    BY <1>2, <2>1, NowHeard DEF Excused
<1>15. /\ \A x \in flight' : x \in flight \/ (Wanted(x.w) => Backed(D, Payload(x.w).id, Out(x)))
       /\ \A x \in pipes' : x \in pipes \/ (Claiming(x) => Backed(D, Payload(x.t.w).id, PipeClaim(x, D).told))
       /\ \A x \in flight : x \in flight'
       /\ \A x \in pipes : Claiming(x) => x \in pipes' \/ Excused(D, PipeClaim(x, D))
  BY <1>2, <1>9, <1>13, <1>14
<1> QED
  BY <1>2, <1>15, ItemsMove

LEMMA NotRoot ==
    ASSUME NEW s \in Seq(Int), s # <<>>, NEW m \in Int
    PROVE  \A i : <<i>> # Append(s, m)
<1> DEFINE id == Append(s, m)
<1>1. Len(id) = Len(s) + 1 /\ Len(s) \in Nat /\ Len(s) # 0 /\ DOMAIN id = 1 .. Len(id)
  OBVIOUS
<1> HIDE DEF id
<1>2. ASSUME NEW i, <<i>> = id PROVE FALSE
  <2>1. 2 \in DOMAIN id
    BY <1>1
  <2>2. DOMAIN <<i>> = 1 .. 1
    OBVIOUS
  <2>3. 2 \in DOMAIN <<i>>
    BY <1>2, <2>1
  <2> QED
    BY <2>2, <2>3
<1> QED
  BY <1>2 DEF id

LEMMA InnerIsNew ==
    ASSUME Parts, Books, NEW y \in pipes, y.next <= Len(Bind(y)), y.t.w.load = <<>>, StopOf(y) # "Reflect"
    PROVE  /\ InnerId(y, y.next) \notin DOMAIN asks
           /\ \A i : <<i>> # InnerId(y, y.next)
<1> DEFINE k == PipeToken(y)
           id == InnerId(y, y.next)
           c == [id |-> id, role |-> "new", next |-> 0]
<1>1. PipeOK(y) /\ sys \in Systems
  BY DEF Parts
<1>2. k.id = y.t.w.id /\ k.role = "pipe" /\ k.next = y.next
  BY <1>1, SteppedToken
<1>3. k \in Tokens
  BY TokensAre DEF Keeping
<1>4. Ledger(Tokens, asks)
  BY DEF Books
<1>5. id = Append(k.id, k.next)
  BY <1>2 DEF InnerId
<1> HIDE DEF k, id
<1>6. Child(c, k) /\ c.id = id
  BY <1>5 DEF Child
<1> HIDE DEF c
<1>7. id \notin DOMAIN asks
  BY <1>2, <1>3, <1>4, <1>6, ChildIsNew
<1>8. IdOK(k.id, asks)
  BY <1>3, <1>4 DEF Ledger
<1>9. k.id \in Seq(Int) /\ k.id # <<>>
  BY <1>8 DEF IdOK
<1>10. y.next \in Int
  BY <1>1, PipeFacts
<1>11. \A i : <<i>> # id
  BY <1>2, <1>5, <1>9, <1>10, NotRoot
<1> QED
  BY <1>7, <1>11 DEF id

\* ... and one that asks opens an ask, which may be told what whoever it asks does.
LEMMA AskingStops ==
    ASSUME Parts, Books, Ways, NEW y \in pipes, PipeStep(y), y.t.w.load = <<>>, y.t.w.kind = "ping",
           StopOf(y) # "Reflect", NEW D, Promise(D)
    PROVE  \E E : Promise(E)'
<1> DEFINE z == Sent(y)
           n == Stepped(y)
           id == InnerId(y, y.next)
           told == StopTells(PipelineTells, RestOf(y.t.point, y.next, Hr(y)))
<1>1. /\ PipeOK(y) /\ PipeWay(y) /\ sys \in Systems /\ y.next <= Len(Bind(y)) /\ StopDone(y)
      /\ y.next \in Nat /\ y.next >= 1 /\ Payload(y.t.w) = y.t.w
      /\ n.t = y.t /\ n.next = y.next + 1 /\ StopFlight(y) = {z}
  BY StopsBefore
<1>2. /\ flight' = flight \union {z} /\ asks' = Exchange(id, y.t.star)
      /\ pipes' = (pipes \ {y}) \union {n} /\ UNCHANGED <<sys, busy, early>>
  BY <1>1, PipeStepIs
<1>3. id \notin DOMAIN asks /\ \A i : <<i>> # id
  BY <1>1, InnerIsNew
<1>4. Payload(z.w) = z.w /\ z.w.kind = "ping" /\ z.w.id = id /\ Out(z) = told
  BY <1>1, SentIs, SentAhead
<1>5. Spent(n) = FALSE /\ ~Spent(y)
  BY <1>1, SpentIs
<1>6. DOMAIN asks' = DOMAIN asks \union {id} /\ asks'[id].st = "waiting" /\ \A i \in DOMAIN asks : i # id => asks'[i] = asks[i]
  BY <1>2 DEF Exchange, Entered
<1>7. Left(y, y.next) = OrElse(told, Left(y, y.next + 1))
  <2>1. Bind(y)[y.next] # "Reflect" /\ y.next \in Nat \ {0}
    BY <1>1 DEF StopOf
  <2> QED
    BY <1>1, <2>1, LeftIs
<1>8. InnerId(n, n.next - 1) = id /\ Left(n, n.next) = Left(y, y.next + 1) /\ n.next # 1
  <2>1. n.next - 1 = y.next /\ n.next # 1
    BY <1>1
  <2>2. Left(n, n.next) = Left(y, y.next + 1)
    BY <1>1 DEF Left, Hr
  <2> QED
    BY <1>1, <2>1, <2>2 DEF InnerId
<1> HIDE DEF z, n, id, told
<1>e. PICK E : E = [i \in DOMAIN asks \union {id} |-> IF i = id THEN told ELSE D[i]]
  OBVIOUS
<1>9. E[id] = told /\ \A i \in DOMAIN asks : E[i] = D[i]
  BY <1>3, <1>e
<1>10. Claiming(y) /\ Claiming(n)
  BY <1>1, <1>5 DEF Claiming, Wanted, Keeping
<1>11. PipeAhead(n, E) = Left(y, y.next)
  BY <1>1, <1>7, <1>8, <1>9 DEF PipeAhead
<1>12. Left(y, y.next) \subseteq PipeAhead(y, D)
  BY <1>1, <1>10, Going
<1>13. PipeClaim(n, E).told \subseteq PipeClaim(y, D).told
  <2>1. PipeClaim(n, E).told = Back(y.t.w.via, PipeAhead(n, E)) /\ PipeClaim(y, D).told = Back(y.t.w.via, PipeAhead(y, D))
    BY <1>1, ClaimFields
  <2> QED
    BY <1>11, <1>12, <2>1, BackGrows
<1>14. Backed(D, Payload(n.t.w).id, PipeClaim(n, E).told)
  <2>1. PipeClaim(y, D) \in Claims(D)
    BY <1>10, ClaimsAre
  <2>2. PipeClaim(y, D).id = Payload(n.t.w).id
    BY <1>1, ClaimFields
  <2> QED
    BY <1>13, <2>1, <2>2, SameBacked
<1>15. Heard(E, PipeClaim(y, D).id)
  <2>1. n \in pipes' /\ Claiming(n) /\ Payload(n.t.w).id = PipeClaim(y, D).id
    BY <1>1, <1>2, <1>10, ClaimFields
  <2> QED
    BY <1>2, <2>1, NowHeard
<1>16. Heard(E, id)
  <2>1. z \in flight' /\ Wanted(z.w) /\ Payload(z.w).id = id
    BY <1>2, <1>4 DEF Wanted
  <2> QED
    BY <1>2, <2>1, NowHeard
<1>17. /\ \A x \in flight' : x \in flight \/ (Wanted(x.w) => Payload(x.w).id = id /\ Out(x) \subseteq E[id])
       /\ \A x \in pipes' : x \in pipes \/ (Claiming(x) => Backed(D, Payload(x.t.w).id, PipeClaim(x, E).told))
       /\ \A x \in flight : x \in flight'
       /\ \A x \in pipes : Claiming(x) => x \in pipes' \/ Heard(E, PipeClaim(x, D).id)
       /\ \A b \in busy' : b \in busy
  BY <1>2, <1>4, <1>9, <1>14, <1>15
<1>18. \A i \in DOMAIN asks : asks'[i] = asks[i]
  BY <1>3, <1>6
<1>19. /\ \A i \in DOMAIN sys.asks : <<i>> = id => E[id] = Root(sys.asks[i])
       /\ asks'[id].st \in {"waiting"} \union E[id]
       /\ asks'[id].st = "waiting" => Heard(E, id)
       /\ busy \subseteq busy'
  BY <1>2, <1>3, <1>6, <1>16
<1>20. \A x \in flight : Wanted(x.w) => x \in flight' \/ Heard(E, FlightClaim(x).id)
  BY <1>17
<1>21. \A b \in busy' : b \in busy \/ (b.w.kind # "signal" => Backed(D, b.w.id, BusyClaim(b, E).told))
  BY <1>17
<1>22. Promise(E)'
  BY <1>2, <1>3, <1>6, <1>9, <1>17, <1>18, <1>19, <1>20, <1>21, ItemsOpen
<1> QED
  BY <1>22

LEMMA PipeStepPromise ==
    ASSUME Parts, Books, Ways, NEW y \in pipes, PipeStep(y)
    PROVE  Ways' /\ \A D : Promise(D) => \E E : Promise(E)'
<1>1. Ways'
  BY StopWays
<1>2. y.t.w.kind \in {"ping", "signal"}
  BY StopsBefore
<1>3. ASSUME NEW D, Promise(D) PROVE \E E : Promise(E)'
  <2>1. CASE y.t.w.load # <<>>
    BY <1>3, <2>1, LoadedStops
  <2>2. CASE y.t.w.load = <<>> /\ y.t.w.kind = "signal"
    BY <1>3, <2>2, SignalStops
  <2>3. CASE y.t.w.load = <<>> /\ y.t.w.kind = "ping" /\ StopOf(y) = "Reflect"
    BY <1>3, <2>3, ReflectStops
  <2>4. CASE y.t.w.load = <<>> /\ y.t.w.kind = "ping" /\ StopOf(y) # "Reflect"
    BY <1>3, <2>4, AskingStops
  <2> QED
    BY <1>2, <2>1, <2>2, <2>3, <2>4
<1> QED
  BY <1>1, <1>3

-----------------------------------------------------------------------------
(* ... at the cores,                                                       *)

LEMMA CoreDoes ==
    ASSUME NEW x, CoreHandles(x)
    PROVE  /\ x.stage = "core" /\ IsDirected(x.w) /\ UNCHANGED <<sys, pipes, unexpected, early>>
           /\ \/ Unloads(x)
              \/ Replies(x) /\ Of(x.to.p).does \in {"reflect", "refuse"}
              \/ Absorbs(x) /\ x.w.load = <<>> /\ Of(x.to.p).does \in {"absorb", "remote"}
              \/ Consults(x) /\ Of(x.to.p).does \notin {"reflect", "refuse", "absorb", "remote"}
<1>1. x.stage = "core" /\ IsDirected(x.w) /\ UNCHANGED <<sys, pipes, unexpected, early>>
  BY DEF CoreHandles
<1>2. CASE x.w.load # <<>>
  <2>1. Unloads(x)
    BY <1>2 DEF CoreHandles, Unloads
  <2> QED
    BY <1>1, <2>1
<1>3. CASE x.w.load = <<>> /\ Of(x.to.p).does \in {"reflect", "refuse"}
  <2>1. Replies(x)
    BY <1>3 DEF CoreHandles, Replies
  <2> QED
    BY <1>1, <1>3, <2>1
<1>4. CASE x.w.load = <<>> /\ Of(x.to.p).does \in {"absorb", "remote"}
  <2>1. Absorbs(x)
    BY <1>4 DEF CoreHandles, Absorbs
  <2> QED
    BY <1>1, <1>4, <2>1
<1>5. CASE x.w.load = <<>> /\ Of(x.to.p).does \notin {"reflect", "refuse", "absorb", "remote"}
  <2>1. Consults(x)
    BY <1>5 DEF CoreHandles, Consults, Asking, Nested, Waiter
  <2> QED
    BY <1>1, <1>5, <2>1
<1> QED
  BY <1>2, <1>3, <1>4, <1>5

\* What a core makes of a ping, whose asker hears of it only past a Shell.
LEMMA CoreAhead ==
    ASSUME sys \in Systems, NEW x, FlightOK(x), FlightWay(x), x.stage = "core", x.w.load = <<>>, IsDirected(x.w)
    PROVE  /\ Payload(x.w) = x.w /\ x.w.kind \in {"ping", "signal"} /\ ViaOK(x.w) /\ CarriedOK(x.w)
           /\ x.to.p = x.w.to.p /\ x.to.p \in Particles
           /\ x.w.kind = "ping" => Of(x.w.to.p).shell \/ Lone(x.w)
           /\ x.w.kind = "ping" /\ Hears(x.w.via) =>
                Of(x.to.p).shell /\ Ahead(x) = CoreTells(PipelineTells, x.to.p)
<1>1. CarriedOK(x.w) /\ x.to.p = x.w.to.p /\ x.to.p \in Particles /\ x \in Traversals
  BY CoreFacts
<1>2. Payload(x.w) = x.w /\ x.w.kind \in {"ping", "signal"}
  BY <1>1, Loads DEF CarriedOK, IsDirected
<1>3. TraversalWay(x) /\ ViaOK(x.w)
  BY <1>2 DEF FlightWay
<1>4. x.dest # Shell /\ (x.w.kind = "ping" => Of(x.w.to.p).shell \/ Lone(x.w))
  BY <1>1, <1>3 DEF TraversalWay
<1>5. x.dir = "Core"
  BY FlightKinds DEF TraversalOK, StageOK
<1>6. ASSUME x.w.kind = "ping", Hears(x.w.via)
      PROVE  Of(x.to.p).shell /\ Ahead(x) = CoreTells(PipelineTells, x.to.p)
  <2>1. Of(x.to.p).shell
    BY <1>1, <1>4, <1>6 DEF Lone, Hears, Field, Shell
  <2>2. Ahead(x) = Beyond(x)
    BY <1>2, <1>5, <1>6 DEF Ahead
  <2> DEFINE to == [x.to EXCEPT !.l = x.dest]
  <2>3. to.l = x.dest
    BY <1>1 DEF Traversals, Places
  <2>4. Beyond(x) = HearerTells(PipelineTells, x.to.p, Hearer(x.w.from, to))
    BY DEF Beyond
  <2> HIDE DEF to
  <2>5. Hearer(x.w.from, to) = "core"
    BY <1>4, <2>3 DEF Hearer
  <2> QED
    BY <2>1, <2>2, <2>4, <2>5 DEF HearerTells
<1> QED
  BY <1>1, <1>2, <1>3, <1>4, <1>6

LEMMA UnloadsPromise ==
    ASSUME Parts, Ways, NEW x \in flight, x.stage = "core", Unloads(x), UNCHANGED <<sys, pipes, early>>
    PROVE  Ways' /\ \A D : Promise(D) => Promise(D)'
<1> DEFINE z == Injected(x.star, x.w.load[1], Gravity, TRUE)
<1>1. FlightOK(x) /\ sys \in Systems /\ FlightWay(x)
  BY DEF Parts, Ways
<1>2. x.w.load # <<>> /\ flight' = (flight \ {x}) \union {z} /\ UNCHANGED <<asks, busy>>
  BY DEF Unloads
<1>3. Payload(z.w) = Payload(x.w) /\ z.stage = "inject" /\ z.gravity = TRUE
  BY <1>1, <1>2, UnloadMade DEF Injected
<1> HIDE DEF z
<1>4. Ahead(z) = Ahead(x)
  BY <1>2, <1>3 DEF Ahead
<1>5. Follows(z, x) /\ Carries({z}, x)
  BY <1>3, <1>4, SameAhead
<1>6. ViaOK(Payload(x.w))
  BY <1>1 DEF FlightWay
<1>7. FlightWay(z)
  BY <1>3, <1>6 DEF FlightWay, InjectWay
<1> QED
  BY <1>2, <1>5, <1>7, OnlyFlightPromise

\* The particle's answer.
LEMMA AnswerWay ==
    ASSUME sys \in Systems, NEW star, NEW w, CarriedOK(w), w.kind = "ping", NEW ok \in BOOLEAN, ViaOK(w),
           w.to.p \in Particles, Of(w.to.p).shell \/ Lone(w)
    PROVE  /\ \A z \in CoreAnswers(star, w, ok) :
                 /\ FlightWay(z) /\ Wanted(z.w) /\ Payload(z.w) = z.w /\ z.w.id = w.id /\ z.w.via = w.via
                 /\ z.w = Reflect(w, ok, At(w.to.p, Of(w.to.p).layer))
                 /\ Ahead(z) = {Verdict(ok)}
           /\ \E z : CoreAnswers(star, w, ok) = {z}
           /\ At(w.to.p, Of(w.to.p).layer) \in Places
<1> DEFINE from == At(w.to.p, Of(w.to.p).layer)
           r == Reflect(w, ok, from)
           z == Injected(star, r, Guest, FALSE)
<1>1. w.to.p \in STRING /\ Of(w.to.p).layer \in 3 .. 6
  BY ParticleFacts
<1>2. from \in Places /\ from.p = w.to.p
  BY <1>1 DEF At, Places, Gravity, Core
<1>3. CoreAnswers(star, w, ok) = {z}
  BY DEF CoreAnswers
<1> HIDE DEF from
<1>4. r.kind = "pong" /\ Payload(r) = r /\ r.id = w.id /\ r.via = w.via /\ r.from = from
  BY <1>2, ReflectMade
<1>5. r.ok = ok
  BY DEF Reflect
<1> HIDE DEF r
<1>6. z.w = r /\ z.stage = "inject" /\ z.layer = Guest /\ z.gravity = FALSE
  BY DEF Injected
<1> HIDE DEF z
<1>7. ViaOK(r)
  BY <1>4 DEF ViaOK
<1>8. InjectWay(z)
  BY <1>2, <1>4, <1>6 DEF InjectWay, Lone, Shell, Guest
<1>9. FlightWay(z)
  BY <1>4, <1>6, <1>7, <1>8 DEF FlightWay
<1>10. Ahead(z) = {Verdict(ok)} /\ Wanted(z.w)
  BY <1>4, <1>5, <1>6 DEF Ahead, Wanted
<1> QED
  BY <1>2, <1>3, <1>4, <1>6, <1>9, <1>10 DEF r, from

LEMMA RepliesPromise ==
    ASSUME Parts, Ways, NEW x \in flight, x.stage = "core", IsDirected(x.w), Replies(x),
           Of(x.to.p).does \in {"reflect", "refuse"}, UNCHANGED <<sys, pipes, early>>
    PROVE  Ways' /\ \A D : Promise(D) => Promise(D)'
<1> DEFINE ok == Of(x.to.p).does = "reflect"
           F == CoreAnswers(x.star, x.w, ok)
<1>1. FlightOK(x) /\ sys \in Systems /\ FlightWay(x)
  BY DEF Parts, Ways
<1>2. x.w.load = <<>> /\ flight' = (flight \ {x}) \union F /\ UNCHANGED <<asks, busy>>
  BY DEF Replies
<1>3. /\ Payload(x.w) = x.w /\ x.w.kind \in {"ping", "signal"} /\ ViaOK(x.w) /\ CarriedOK(x.w)
      /\ x.to.p = x.w.to.p /\ x.to.p \in Particles
      /\ x.w.kind = "ping" => Of(x.w.to.p).shell \/ Lone(x.w)
      /\ x.w.kind = "ping" /\ Hears(x.w.via) =>
           Of(x.to.p).shell /\ Ahead(x) = CoreTells(PipelineTells, x.to.p)
  BY <1>1, <1>2, CoreAhead
<1>4. ok \in BOOLEAN /\ CoreTells(PipelineTells, x.to.p) = {Verdict(ok)}
  BY DEF CoreTells, Verdict
<1> HIDE DEF ok
<1>5. CASE x.w.kind = "ping"
  <2>1. x.w.to.p \in Particles /\ (Of(x.w.to.p).shell \/ Lone(x.w)) /\ ok \in BOOLEAN
    BY <1>3, <1>4, <1>5
  <2>2. /\ \A z \in F : FlightWay(z) /\ z.w = Reflect(x.w, ok, At(x.w.to.p, Of(x.w.to.p).layer))
        /\ \E z : F = {z}
        /\ At(x.w.to.p, Of(x.w.to.p).layer) \in Places
    BY <1>1, <1>3, <1>5, <2>1, AnswerWay
  <2> HIDE DEF F
  <2>3. PICK z : F = {z}
    BY <2>2
  <2>4. Follows(z, x) /\ Carries({z}, x)
    BY <1>3, <1>4, <1>5, <2>2, <2>3, AnswerAhead
  <2> QED
    BY <1>2, <2>2, <2>3, <2>4, OnlyFlightPromise
<1>6. CASE x.w.kind = "signal"
  <2>1. F = {}
    BY <1>6 DEF CoreAnswers
  <2>2. Carries({}, x)
    BY <1>3, <1>6 DEF Carries, Wanted
  <2> HIDE DEF F
  <2> QED
    BY <1>2, <2>1, <2>2, OnlyFlightPromise
<1> QED
  BY <1>3, <1>5, <1>6

LEMMA AbsorbsPromise ==
    ASSUME Parts, Ways, NEW x \in flight, x.stage = "core", IsDirected(x.w), Absorbs(x), x.w.load = <<>>,
           Of(x.to.p).does \in {"absorb", "remote"}, UNCHANGED <<sys, pipes, early>>
    PROVE  Ways' /\ \A D : Promise(D) => Promise(D)'
<1>1. FlightOK(x) /\ sys \in Systems /\ FlightWay(x)
  BY DEF Parts, Ways
<1>2. flight' = (flight \ {x}) \union {} /\ UNCHANGED <<asks, busy>>
  BY DEF Absorbs
<1>3. /\ Payload(x.w) = x.w /\ x.w.kind \in {"ping", "signal"}
      /\ x.w.kind = "ping" /\ Hears(x.w.via) => Ahead(x) = CoreTells(PipelineTells, x.to.p)
  BY <1>1, CoreAhead
<1>4. CoreTells(PipelineTells, x.to.p) = {"late"}
  BY DEF CoreTells
<1>5. Carries({}, x)
  BY <1>3, <1>4, Lost DEF Wanted
<1> QED
  BY <1>2, <1>5, OnlyFlightPromise

\* What a core asks before it answers, and what it makes of that.
LEMMA AskingWay ==
    ASSUME sys \in Systems, NEW x, FlightOK(x), FlightWay(x), x.stage = "core", x.w.load = <<>>, IsDirected(x.w)
    PROVE  LET z == Asking(x) IN
           /\ FlightWay(z) /\ BusyWay(Waiter(x)) /\ Waiter(x).w = x.w
           /\ Payload(z.w) = z.w /\ z.w.kind = "ping" /\ z.w.id = Append(x.w.id, 0)
           /\ Out(z) = Back(At(x.to.p, Of(x.to.p).layer),
                            Told(At(x.to.p, Of(x.to.p).layer), At(Of(x.to.p).does, Core), Of(x.to.p).layer))
<1> DEFINE p == x.to.p
           here == At(p, Of(p).layer)
           there == At(Of(p).does, Core)
           z == Asking(x)
<1>1. /\ Payload(x.w) = x.w /\ ViaOK(x.w) /\ p = x.w.to.p /\ p \in Particles
      /\ x.w.kind = "ping" => Of(x.w.to.p).shell \/ Lone(x.w)
  BY CoreAhead
<1>2. z.w = Nested(x) /\ Waiter(x).w = x.w /\ Nested(x).kind = "ping" /\ Nested(x).id = Append(x.w.id, 0)
      /\ Payload(Nested(x)) = Nested(x) /\ Nested(x).via = here
  BY NestedMade
<1>3. BusyWay(Waiter(x))
  BY <1>1, <1>2 DEF BusyWay
<1>4. Of(p).layer \in 3 .. 6 /\ Of(p).layer \in PlanOf(p)
  BY <1>1, ParticleFacts, ShellFacts
<1>5. Nested(x).from = here /\ Nested(x).to = there /\ Nested(x).load = <<>>
  BY DEF Nested, Directed
<1>6. z.stage = "inject" /\ z.layer = Of(p).layer /\ z.gravity = FALSE
  BY DEF Asking, Injected
<1>7. here.p = p /\ here.l = Of(p).layer
  BY DEF At
<1> HIDE DEF z, here, there
<1>8. FlightWay(z)
  BY <1>2, <1>4, <1>5, <1>6, <1>7 DEF FlightWay, InjectWay, ViaOK, Shell
<1>9. Ahead(z) = Told(here, there, Of(p).layer)
  BY <1>2, <1>5, <1>6 DEF Ahead
<1>10. Out(z) = Back(here, Told(here, there, Of(p).layer))
  BY <1>2, <1>9 DEF Out
<1> QED
  BY <1>2, <1>3, <1>8, <1>10 DEF z, here, there

LEMMA ConsultsAhead ==
    ASSUME sys \in Systems, NEW x, FlightOK(x), FlightWay(x), x.stage = "core", x.w.load = <<>>, x.w.kind = "ping",
           Of(x.to.p).does \notin {"reflect", "refuse", "absorb", "remote"}, Hears(x.w.via)
    PROVE  OrElse(Out(Asking(x)), {"ok"}) = Ahead(x)
<1> DEFINE p == x.to.p
           here == At(p, Of(p).layer)
           there == At(Of(p).does, Core)
<1>1. /\ p \in Particles /\ Of(p).shell /\ Ahead(x) = CoreTells(PipelineTells, p)
  BY CoreAhead DEF IsDirected
<1>2. Out(Asking(x)) = Back(here, Told(here, there, Of(p).layer))
  BY AskingWay DEF IsDirected
<1>3. here.p = p /\ here.l = Of(p).layer /\ there.p = Of(p).does /\ there.l = Core
  BY DEF At
<1>4. Of(p).does # p
  BY <1>1, ShellFacts
<1>5. CoreTells(PipelineTells, p) =
        OrElse(IF Registered(Of(p).does) THEN FabricTells(PipelineTells, there, "core") ELSE {"error"}, {"ok"})
  BY DEF CoreTells
<1> HIDE DEF here, there
<1>6. Hears(here)
  BY <1>1, <1>3 DEF Hears
<1>7. Hearer(here, there) = "core"
  BY <1>3 DEF Hearer, Shell, Core
<1>8. Told(here, there, Of(p).layer) =
        IF Registered(Of(p).does) THEN FabricTells(PipelineTells, there, "core") ELSE {"error"}
  BY <1>3, <1>4, <1>7 DEF Told
<1> QED
  BY <1>1, <1>2, <1>5, <1>6, <1>8 DEF Back

LEMMA ConsultsWays ==
    ASSUME Parts, Ways, NEW x \in flight, x.stage = "core", IsDirected(x.w), Consults(x), UNCHANGED <<sys, pipes>>
    PROVE  Ways'
<1> DEFINE id == Append(x.w.id, 0)
<1>1. FlightOK(x) /\ sys \in Systems /\ FlightWay(x) /\ IsFiniteSet(DOMAIN asks)
  BY DEF Parts, Ways
<1>2. /\ x.w.load = <<>> /\ flight' = (flight \ {x}) \union {Asking(x)}
      /\ asks' = Exchange(id, x.star) /\ busy' = busy \union {Waiter(x)}
  BY DEF Consults
<1>3. FlightWay(Asking(x)) /\ BusyWay(Waiter(x))
  BY <1>1, <1>2, AskingWay
<1>4. DOMAIN asks' = DOMAIN asks \union {id}
  BY <1>2 DEF Exchange, Entered
<1>5. IsFiniteSet(DOMAIN asks')
  BY <1>1, <1>4, FS_AddElement
<1>6. (\A y \in flight' : y \in flight \/ FlightWay(y)) /\ (\A b \in busy' : b \in busy \/ BusyWay(b))
      /\ \A y \in pipes' : y \in pipes
  BY <1>2, <1>3
<1> QED
  BY <1>4, <1>5, <1>6, WaysStep

LEMMA ConsultsPromise ==
    ASSUME Parts, Books, Ways, NEW x \in flight, x.stage = "core", IsDirected(x.w), Consults(x),
           Of(x.to.p).does \notin {"reflect", "refuse", "absorb", "remote"}, UNCHANGED <<sys, pipes, early>>,
           NEW D, Promise(D)
    PROVE  \E E : Promise(E)'
<1> DEFINE id == Append(x.w.id, 0)
           z == Asking(x)
           b == Waiter(x)
<1>1. FlightOK(x) /\ sys \in Systems /\ FlightWay(x)
  BY DEF Parts, Ways
<1>2. /\ x.w.load = <<>> /\ flight' = (flight \ {x}) \union {z}
      /\ asks' = Exchange(id, x.star) /\ busy' = busy \union {b}
  BY DEF Consults
<1>3. Payload(x.w) = x.w /\ x.w.kind \in {"ping", "signal"}
  BY <1>1, <1>2, CoreAhead
<1>4. b.w = x.w /\ Payload(z.w) = z.w /\ z.w.kind = "ping" /\ z.w.id = id
  BY <1>1, <1>2, AskingWay
<1>5. x.w.kind = "ping" /\ Hears(x.w.via) => OrElse(Out(z), {"ok"}) = Ahead(x)
  BY <1>1, <1>2, ConsultsAhead
<1>6. id \notin DOMAIN asks
  BY ConsultsBooks
<1>7. \A i : <<i>> # id
  <2>1. FlightToken(x).id = x.w.id
    BY <1>3, TokenFields DEF FlightToken
  <2>2. FlightToken(x) \in Tokens
    BY TokensAre
  <2>3. IdOK(x.w.id, asks)
    BY <2>1, <2>2 DEF Books, Ledger
  <2>4. x.w.id \in Seq(Int) /\ x.w.id # <<>> /\ 0 \in Int
    BY <2>3 DEF IdOK
  <2> QED
    BY <2>4, NotRoot
<1>8. DOMAIN asks' = DOMAIN asks \union {id} /\ asks'[id].st = "waiting" /\ \A i \in DOMAIN asks : asks'[i] = asks[i]
  BY <1>2, <1>6 DEF Exchange, Entered
<1>e. PICK E : E = [i \in DOMAIN asks \union {id} |-> IF i = id THEN Out(z) ELSE D[i]]
  OBVIOUS
<1>9. E[id] = Out(z) /\ \A i \in DOMAIN asks : E[i] = D[i]
  BY <1>6, <1>e
<1>10. BusyClaim(b, E).id = x.w.id /\ BusyClaim(b, E).told = Back(x.w.via, OrElse(Out(z), {"ok"}))
  BY <1>4, <1>9, BusyFields DEF BusyAhead
<1> HIDE DEF id, z, b
<1>11. x.w.kind = "ping" => BusyClaim(b, E).told \subseteq Out(x)
  BY <1>3, <1>5, <1>10 DEF Out, Back
<1>12. ASSUME b.w.kind # "signal" PROVE Backed(D, b.w.id, BusyClaim(b, E).told)
  <2>1. x.w.kind = "ping" /\ Wanted(x.w)
    BY <1>3, <1>4, <1>12 DEF Wanted
  <2> QED
    BY <1>3, <1>4, <1>11, <2>1, FlightBacked
<1>13. ASSUME Wanted(x.w) PROVE Heard(E, FlightClaim(x).id)
  <2>1. b \in busy' /\ b.w.kind # "signal" /\ b.w.id = FlightClaim(x).id
    BY <1>2, <1>3, <1>4, <1>13 DEF Wanted, FlightClaim
  <2> QED
    BY <2>1, NowHeard
<1>14. Heard(E, id)
  <2>1. z \in flight' /\ Wanted(z.w) /\ Payload(z.w).id = id
    BY <1>2, <1>4 DEF Wanted
  <2> QED
    BY <2>1, NowHeard
<1>15. /\ \A y \in flight' : y \in flight \/ (Wanted(y.w) => Payload(y.w).id = id /\ Out(y) \subseteq E[id])
       /\ \A y \in pipes' : y \in pipes
       /\ \A y \in pipes : y \in pipes'
       /\ \A y \in flight : Wanted(y.w) => y \in flight' \/ Heard(E, FlightClaim(y).id)
       /\ busy \subseteq busy'
  BY <1>2, <1>4, <1>9, <1>13
<1>16. \A y \in busy' : y \in busy \/ (y.w.kind # "signal" => Backed(D, y.w.id, BusyClaim(y, E).told))
  BY <1>2, <1>12
<1>17. /\ \A i \in DOMAIN sys.asks : <<i>> = id => E[id] = Root(sys.asks[i])
       /\ asks'[id].st \in {"waiting"} \union E[id]
       /\ asks'[id].st = "waiting" => Heard(E, id)
  BY <1>7, <1>8, <1>14
<1>18. Promise(E)'
  BY <1>6, <1>8, <1>9, <1>15, <1>16, <1>17, ItemsOpen
<1> QED
  BY <1>18

LEMMA CoreHandlesPromise ==
    ASSUME Parts, Books, Ways, NEW x \in flight, CoreHandles(x)
    PROVE  Ways' /\ \A D : Promise(D) => \E E : Promise(E)'
<1>1. /\ x.stage = "core" /\ IsDirected(x.w) /\ UNCHANGED <<sys, pipes, early>>
      /\ \/ Unloads(x)
         \/ Replies(x) /\ Of(x.to.p).does \in {"reflect", "refuse"}
         \/ Absorbs(x) /\ x.w.load = <<>> /\ Of(x.to.p).does \in {"absorb", "remote"}
         \/ Consults(x) /\ Of(x.to.p).does \notin {"reflect", "refuse", "absorb", "remote"}
  BY CoreDoes
<1>2. CASE Unloads(x)
  BY <1>1, <1>2, UnloadsPromise
<1>3. CASE Replies(x) /\ Of(x.to.p).does \in {"reflect", "refuse"}
  BY <1>1, <1>3, RepliesPromise
<1>4. CASE Absorbs(x) /\ x.w.load = <<>> /\ Of(x.to.p).does \in {"absorb", "remote"}
  BY <1>1, <1>4, AbsorbsPromise
<1>5. CASE Consults(x) /\ Of(x.to.p).does \notin {"reflect", "refuse", "absorb", "remote"}
  BY <1>1, <1>5, ConsultsWays, ConsultsPromise
<1> QED
  BY <1>1, <1>2, <1>3, <1>4, <1>5

LEMMA AskStatus ==
    ASSUME Parts, NEW id \in DOMAIN asks, asks[id].st # "waiting"
    PROVE  asks[id].st \in {"ok", "error", "late"}
<1>1. AskOK(asks[id])
  BY DEF Parts, AsksOK
<1> QED
  BY <1>1 DEF AskOK, Statuses

LEMMA CoreResumesPromise ==
    ASSUME Parts, Books, Ways, NEW b \in busy, CoreResumes(b)
    PROVE  Ways' /\ \A D : Promise(D) => Promise(D)'
<1> DEFINE id == Append(b.w.id, 0)
           st == asks[id].st
           ok == st = "ok"
           F == CoreAnswers(b.star, b.w, ok)
<1>1. BusyOK(b) /\ sys \in Systems /\ BusyWay(b) /\ IsFiniteSet(DOMAIN asks) /\ id \in DOMAIN asks
  BY DEF Parts, Ways
<1>2. /\ st # "waiting" /\ busy' = busy \ {b} /\ flight' = flight \union F
      /\ UNCHANGED <<sys, asks, pipes, early>>
  BY DEF CoreResumes
<1>3. CarriedOK(b.w) /\ HomeOf(b.w.to.p, b.star) /\ b.w.kind \in {"ping", "signal"}
  BY <1>1, PlainFields DEF BusyOK, IsDirected
<1>4. b.w.to.p \in Particles
  BY <1>3 DEF HomeOf
<1>5. ViaOK(b.w) /\ (b.w.kind = "ping" => Of(b.w.to.p).shell \/ Lone(b.w))
  BY <1>1 DEF BusyWay
<1>6. ok \in BOOLEAN
  OBVIOUS
<1>7. st \in {"ok", "error", "late"}
  BY <1>1, <1>2, AskStatus
<1> HIDE DEF ok, id
<1>9. CASE b.w.kind = "ping"
  <2>0. /\ b.w.to.p \in Particles /\ (Of(b.w.to.p).shell \/ Lone(b.w)) /\ ok \in BOOLEAN
        /\ CarriedOK(b.w) /\ ViaOK(b.w) /\ b.w.kind = "ping" /\ sys \in Systems
    BY <1>1, <1>3, <1>4, <1>5, <1>6, <1>9
  <2>1. /\ \A z \in F :
             FlightWay(z) /\ z.w = Reflect(b.w, ok, At(b.w.to.p, Of(b.w.to.p).layer))
        /\ At(b.w.to.p, Of(b.w.to.p).layer) \in Places
    BY <2>0, AnswerWay
  <2>g. \E z : F = {z}
    BY <1>9 DEF CoreAnswers
  <2> HIDE DEF F
  <2>2. PICK z : F = {z}
    BY <2>g
  <2>d. FlightWay(z) /\ z.w = Reflect(b.w, ok, At(b.w.to.p, Of(b.w.to.p).layer))
    BY <2>1, <2>2
  <2>3. Payload(z.w) = z.w /\ z.w.kind = "pong" /\ z.w.id = b.w.id /\ z.w.via = b.w.via
    BY <2>0, <2>1, <2>d, ReflectMade
  <2>e. z.w.ok = ok
    BY <2>d DEF Reflect
  <2>a. z.w.kind = "pong" /\ Verdict(z.w.ok) = IF st = "ok" THEN "ok" ELSE "error"
    BY <2>3, <2>e DEF Verdict, ok
  <2>b. PICK v : v = IF st = "ok" THEN "ok" ELSE "error"
    OBVIOUS
  <2>c. Ahead(z) = {v}
    BY <2>3, <2>a, <2>b DEF Ahead
  <2>f. Wanted(z.w) /\ FlightWay(z)
    BY <2>3, <2>d DEF Wanted
  <2>4. Ways'
    BY <1>1, <1>2, <2>2, <2>f, WaysStep
  <2>5. ASSUME NEW D, Promise(D) PROVE Promise(D)'
    <3>1. st \in D[id] \union Slack
      BY <1>1, <1>2, <2>5 DEF Promise, Keeps
    <3>2. v \in OrElse(D[id], {"ok"}) \union Slack
      BY <1>7, <2>b, <3>1 DEF OrElse, Slack
    <3>3. Out(z) = Back(b.w.via, {v})
      BY <2>3, <2>c DEF Out
    <3>4. BusyClaim(b, D).id = b.w.id /\ BusyClaim(b, D).told = Back(b.w.via, OrElse(D[id], {"ok"}))
      BY BusyFields DEF BusyAhead, id
    <3>5. Out(z) \subseteq BusyClaim(b, D).told \union Slack
      BY <3>2, <3>3, <3>4 DEF Back
    <3>6. BusyClaim(b, D) \in Claims(D)
      BY <1>9, ClaimsAre
    <3>7. Backed(D, Payload(z.w).id, Out(z))
      BY <2>3, <2>f, <3>4, <3>5, <3>6, SameBacked
    <3>8. Heard(D, b.w.id)
      BY <1>2, <2>2, <2>3, <2>f, NowHeard
    <3>9. Excused(D, BusyClaim(b, D))
      BY <3>4, <3>8 DEF Excused
    <3>10. /\ \A x \in flight' : x \in flight \/ (Wanted(x.w) => Backed(D, Payload(x.w).id, Out(x)))
           /\ \A x \in flight : Wanted(x.w) => x \in flight'
           /\ \A x \in pipes' : x \in pipes
           /\ \A x \in pipes : x \in pipes'
           /\ \A x \in busy' : x \in busy
           /\ \A x \in busy : x.w.kind # "signal" => x \in busy' \/ Excused(D, BusyClaim(x, D))
      BY <1>2, <2>2, <3>7, <3>9
    <3> QED
      BY <1>2, <2>5, <3>10, ItemsMove
  <2> QED
    BY <2>4, <2>5
<1>10. CASE b.w.kind = "signal"
  <2>1. F = {}
    BY <1>10 DEF CoreAnswers
  <2> HIDE DEF F
  <2>2. Ways'
    BY <1>1, <1>2, <2>1, WaysStep
  <2>3. ASSUME NEW D, Promise(D) PROVE Promise(D)'
    <3>1. /\ \A x \in flight' : x \in flight
          /\ \A x \in flight : x \in flight'
          /\ \A x \in pipes' : x \in pipes
          /\ \A x \in pipes : x \in pipes'
          /\ \A x \in busy' : x \in busy
          /\ \A x \in busy : x.w.kind # "signal" => x \in busy'
      BY <1>2, <1>10, <2>1
    <3> QED
      BY <1>2, <2>3, <3>1, ItemsMove
  <2> QED
    BY <2>2, <2>3
<1> QED
  BY <1>3, <1>9, <1>10

-----------------------------------------------------------------------------
(* ... and where whoever asks is.                                          *)

\* An answer that gets to whoever waits for it, or waited.
LEMMA AnswerPromise ==
    ASSUME Parts, Books, Ways, NEW x \in flight, x.w.kind = "pong", NEW at, AtOf(x.w.via) = at, Hears(x.w.via),
           flight' = flight \ {x}, UNCHANGED <<sys, pipes, busy, early>>, Reflected(x.w, at)
    PROVE  Ways' /\ \A D : Promise(D) => Promise(D)'
<1> DEFINE id == x.w.id
           st == IF x.w.ok THEN "ok" ELSE "error"
<1>1. AsksOK /\ CarriedOK(x.w) /\ IsFiniteSet(DOMAIN asks)
  BY FlightKinds DEF Parts, Ways
<1>2. Payload(x.w) = x.w
  BY <1>1, Loads DEF CarriedOK
<1>3. FlightToken(x).id = id /\ FlightToken(x).at = at /\ FlightToken(x).owed = TRUE /\ FlightToken(x).role = "pong"
  <2>1. Role(x.w) = "pong"
    BY DEF Role
  <2>2. FlightToken(x).owed = (x.w.kind # "signal")
    BY <1>2, TokenFields DEF FlightToken
  <2>3. FlightToken(x).owed = TRUE
    BY <2>2
  <2> QED
    BY <1>2, <2>1, <2>3, TokenFields DEF FlightToken
<1>4. Owed(FlightToken(x), asks)
  <2>1. FlightToken(x) \in Tokens
    BY TokensAre
  <2> QED
    BY <1>3, <2>1 DEF Books, Ledger
<1>5. id \in DOMAIN asks /\ asks[id].at = at /\ asks[id].st \in {"waiting", "late"}
  BY <1>3, <1>4 DEF Owed
<1>6. asks' = IF Waits(id, at) THEN [asks EXCEPT ![id].st = st] ELSE asks
  BY DEF Reflected
<1>7. st \in Statuses /\ st # "waiting" /\ Verdict(x.w.ok) = st
  BY DEF Statuses, Verdict
<1>8. Wanted(x.w) /\ Out(x) = {st}
  BY <1>2, <1>7 DEF Wanted, Out, Back, Ahead
<1>9. FlightClaim(x).id = id /\ FlightClaim(x).told = {st}
  BY <1>2, <1>8 DEF FlightClaim
<1> HIDE DEF id, st
<1>10. CASE Waits(id, at)
  <2>1. /\ DOMAIN asks' = DOMAIN asks /\ asks'[id].st = st
        /\ \A b \in DOMAIN asks : b # id => asks'[b] = asks[b]
    BY <1>1, <1>5, <1>6, <1>7, <1>10, SettledOK
  <2>2. Ways'
    <3>1. \A y \in flight' : y \in flight
      OBVIOUS
    <3>2. IsFiniteSet(DOMAIN asks') /\ DOMAIN asks \subseteq DOMAIN asks'
      BY <1>1, <2>1
    <3> QED
      BY <3>1, <3>2, WaysStep
  <2>3. ASSUME NEW D, Promise(D) PROVE Promise(D)'
    <3>1. Keeps(Claims(D), asks, D, Slack)
      BY <2>3 DEF Promise
    <3>2. FlightClaim(x) \in Claims(D)
      BY <1>8, ClaimsAre
    <3>3. st \in D[id] \union Slack
      BY <1>9, <3>1, <3>2 DEF Keeps
    <3> DEFINE C == Claims(D)
               U == Claims(D)'
    <3>4. \A c \in U : c \in C
      BY ClaimsNext, ClaimsAre
    <3>5. ASSUME NEW c \in C PROVE c \in U \/ c.id = id
      <4>1. CASE \E y \in flight : Wanted(y.w) /\ c = FlightClaim(y)
        <5>1. PICK y \in flight : Wanted(y.w) /\ c = FlightClaim(y)
          BY <4>1
        <5>2. CASE y = x
          BY <1>9, <5>1, <5>2
        <5>3. CASE y # x
          BY <5>1, <5>3, ClaimsNext
        <5> QED
          BY <5>2, <5>3
      <4>2. CASE ~ \E y \in flight : Wanted(y.w) /\ c = FlightClaim(y)
        BY <4>2, ClaimsAre, ClaimsNext
      <4> QED
        BY <4>1, <4>2
    <3> HIDE DEF C, U
    <3>6. PICK A, B, K, V, S : A = asks /\ B = asks' /\ K = C /\ V = U /\ S = Slack
      OBVIOUS
    <3>7. Keeps(K, A, D, S) /\ id \in DOMAIN A
      BY <1>5, <3>1, <3>6 DEF C
    <3>8. PICK i : i = id
      OBVIOUS
    <3>9. DOMAIN B = DOMAIN A /\ (\A b \in DOMAIN A : b # i => B[b] = A[b])
          /\ B[i].st \in D[i] \union S /\ B[i].st # "waiting"
      BY <1>7, <2>1, <3>3, <3>6, <3>8
    <3>10. (\A c \in V : c \in K) /\ \A b \in K : b \in V \/ b.id = i
      BY <3>4, <3>5, <3>6, <3>8
    <3>11. Keeps(V, B, D, S)
      BY <3>7, <3>8, <3>9, <3>10, KeepsAnswer
    <3>12. Slack' = Slack
      BY DEF Slack
    <3>13. Keeps(Claims(D), asks, D, Slack)'
      BY <3>6, <3>11, <3>12 DEF U, Keeps
    <3>14. \A j \in DOMAIN sys.asks : Root(sys.asks[j])' = Root(sys.asks[j])
      BY SameOut DEF Root
    <3> QED
      BY <2>1, <2>3, <3>13, <3>14 DEF Promise
  <2> QED
    BY <2>2, <2>3
<1>11. CASE ~Waits(id, at)
  <2>1. asks' = asks /\ asks[id].st # "waiting"
    BY <1>5, <1>6, <1>11 DEF Waits
  <2>2. Ways'
    <3>1. \A y \in flight' : y \in flight
      OBVIOUS
    <3> QED
      BY <1>1, <2>1, <3>1, WaysStep
  <2>3. ASSUME NEW D, Promise(D) PROVE Promise(D)'
    <3>1. Excused(D, FlightClaim(x))
      BY <1>9, <2>1 DEF Excused
    <3>2. /\ \A y \in flight' : y \in flight
          /\ \A y \in flight : Wanted(y.w) => y \in flight' \/ Excused(D, FlightClaim(y))
      BY <3>1
    <3> QED
      BY <2>1, <2>3, <3>2, ItemsMove
  <2> QED
    BY <2>2, <2>3
<1> QED
  BY <1>10, <1>11

LEMMA DeliveredPromise ==
    ASSUME Parts, Books, Ways, NEW x \in flight, Delivered(x)
    PROVE  Ways' /\ \A D : Promise(D) => Promise(D)'
<1>1. FlightOK(x) /\ FlightWay(x)
  BY DEF Parts, Ways
<1>2. /\ x.stage \in {"field", "shell"} /\ x.dest = x.layer /\ ~IsDirected(x.w)
      /\ flight' = flight \ {x} /\ UNCHANGED <<sys, pipes, busy, early>> /\ Reflected(x.w, x.star)
  BY DEF Delivered
<1>3. TraversalOK(x) /\ CarriedOK(x.w) /\ TraversalWay(x)
  BY <1>1, <1>2, FlightKinds DEF FlightWay
<1>4. x.w.kind = "pong"
  BY <1>2 DEF IsDirected
<1>5. StageOK(x) /\ WayOK(x) /\ AnswerWayOK(x) /\ x \in Traversals
  BY <1>3 DEF TraversalOK
<1>6. x.layer \in {Field, Shell}
  BY <1>2, <1>5 DEF StageOK
<1>7. x.dest # None
  BY <1>2, <1>6 DEF Field, Shell, None
<1>8. HomeOf(x.to.p, x.star) /\ x.to.l = x.layer
  BY <1>2, <1>5, <1>7 DEF WayOK
<1>9. x.w.via = x.to
  BY <1>3, <1>4, <1>5 DEF AnswerWayOK, CarriedOK, WaveOK
<1>10. AtOf(x.w.via) = x.star
  BY <1>6, <1>8, <1>9 DEF AtOf, HomeOf
<1>11. ASSUME x.layer = Shell PROVE Of(x.to.p).shell
  <2>1. x.stage = "shell"
    BY <1>2, <1>5, <1>11 DEF StageOK, Field, Shell
  <2>2. Of(x.point).shell
    BY <1>5, <2>1 DEF StageOK, HasShell
  <2>3. x.point = x.to.p
    BY <1>3, <1>5, <1>7 DEF WayOK, TraversalWay, Traversals
  <2> QED
    BY <2>2, <2>3
<1>12. Hears(x.w.via)
  BY <1>6, <1>8, <1>9, <1>11 DEF Hears
<1> QED
  BY <1>2, <1>4, <1>10, <1>12, AnswerPromise

LEMMA CoreGetsAnswerPromise ==
    ASSUME Parts, Books, Ways, NEW x \in flight, CoreGetsAnswer(x)
    PROVE  Ways' /\ \A D : Promise(D) => Promise(D)'
<1>1. FlightOK(x) /\ FlightWay(x) /\ sys \in Systems
  BY DEF Parts, Ways
<1>2. /\ x.stage = "core" /\ ~IsDirected(x.w) /\ flight' = flight \ {x} /\ UNCHANGED <<sys, pipes, busy, early>>
      /\ IF x.w.to.l = Of(x.to.p).layer THEN Reflected(x.w, x.star)
         ELSE IF Of(x.to.p).does = "remote" THEN Reflected(x.w, "client")
         ELSE UNCHANGED <<asks, unexpected>>
  BY DEF CoreGetsAnswer
<1>3. x.w.kind = "pong"
  BY <1>2 DEF IsDirected
<1>4. x.to = x.w.to /\ x.w.to = x.w.via /\ Shell < x.w.to.l /\ Of(x.to.p).home = x.star /\ CarriedOK(x.w)
  BY <1>1, <1>2, <1>3, CoreFacts
<1>5. x.w.to.l \notin {Field, Shell}
  BY <1>4 DEF Field, Shell
<1>6. Of(x.to.p).shell
  BY <1>1, <1>2, <1>3 DEF FlightWay, TraversalWay
<1>7. CASE x.w.to.l = Of(x.to.p).layer
  <2>1. AtOf(x.w.via) = x.star /\ Hears(x.w.via)
    BY <1>4, <1>6, <1>7 DEF AtOf, Hears
  <2> QED
    BY <1>2, <1>3, <1>7, <2>1, AnswerPromise
<1>8. CASE x.w.to.l # Of(x.to.p).layer /\ Of(x.to.p).does = "remote"
  <2>1. AtOf(x.w.via) = "client" /\ Hears(x.w.via)
    BY <1>4, <1>5, <1>6, <1>8 DEF AtOf, Hears
  <2> QED
    BY <1>2, <1>3, <1>8, <2>1, AnswerPromise
<1>9. CASE x.w.to.l # Of(x.to.p).layer /\ Of(x.to.p).does # "remote"
  <2>1. UNCHANGED <<asks, unexpected>>
    BY <1>2, <1>9
  <2>2. ~Hears(x.w.via)
    BY <1>4, <1>5, <1>9 DEF Hears
  <2>3. Payload(x.w) = x.w
    BY <1>4, Loads, <1>3 DEF CarriedOK
  <2>4. Carries({}, x)
    BY <2>2, <2>3, Lost
  <2>5. flight' = (flight \ {x}) \union {}
    BY <1>2
  <2> QED
    BY <1>2, <2>1, <2>4, <2>5, OnlyFlightPromise
<1> QED
  BY <1>7, <1>8, <1>9

LEMMA AskerWay ==
    ASSUME sys \in Systems, NEW i \in DOMAIN sys.asks
    PROVE  LET a == sys.asks[i]
               w == Directed(a.kind, <<i>>, a.from, a.to, a.from)
               z == Injected(Of(a.from.p).home, w, a.inject, FALSE)
           IN  /\ FlightWay(z) /\ z.w = w /\ Payload(w) = w /\ w.id = <<i>> /\ w.kind = a.kind
               /\ a.kind \in {"ping", "signal"}
               /\ a.kind = "ping" => Out(z) = Tells(a)
<1> DEFINE a == sys.asks[i]
           w == Directed(a.kind, <<i>>, a.from, a.to, a.from)
           z == Injected(Of(a.from.p).home, w, a.inject, FALSE)
<1>1. /\ a.kind \in {"ping", "signal"} /\ a.inject \in 0 .. 6 /\ a.from.l \in 1 .. 6 /\ a.from.p \in Particles
  BY AskFacts
<1>2. /\ a.from.l \in {Shell, Core} \/ (sys.particles[a.from.p].routed /\ Shell < a.from.l)
      /\ a.inject \in {Shell, a.from.l}
  BY AnswersAssumption
<1>3. w.kind = a.kind /\ w.id = <<i>> /\ w.from = a.from /\ w.to = a.to /\ w.via = a.from /\ Payload(w) = w
  BY DEF Directed, Payload
<1>4. w.load = <<>>
  BY DEF Directed
<1> HIDE DEF a, w
<1>5. a.from.l \in PlanOf(a.from.p)
  BY <1>1, <1>2 DEF PlanOf, Of, Field, Shell, Core
<1>6. z.w = w /\ z.stage = "inject" /\ z.layer = a.inject /\ z.gravity = FALSE
  BY DEF Injected
<1> HIDE DEF z
<1>7. 2 <= a.from.l
  BY <1>1, <1>2 DEF Shell, Core
<1>8. InjectWay(z)
  BY <1>1, <1>2, <1>3, <1>6, <1>7 DEF InjectWay, Shell
<1>9. FlightWay(z)
  BY <1>3, <1>5, <1>6, <1>8 DEF FlightWay, ViaOK
<1>10. ASSUME a.kind = "ping" PROVE Out(z) = Tells(a)
  <2>1. Ahead(z) = Told(a.from, a.to, a.inject)
    BY <1>3, <1>4, <1>6, <1>10 DEF Ahead
  <2> QED
    BY <1>3, <1>6, <2>1 DEF Out, Tells
<1> QED
  BY <1>1, <1>3, <1>6, <1>9, <1>10 DEF a, w, z

LEMMA AskPromise ==
    ASSUME Parts, Books, Ways, NEW i \in DOMAIN sys.asks, Ask(i)
    PROVE  Ways' /\ \A D : Promise(D) => \E E : Promise(E)'
<1> DEFINE a == sys.asks[i]
           id == <<i>>
           w == Directed(a.kind, <<i>>, a.from, a.to, a.from)
           z == Injected(Of(a.from.p).home, w, a.inject, FALSE)
           at == IF Of(a.from.p).does = "remote" THEN "client" ELSE Of(a.from.p).home
           st == IF a.kind = "ping" THEN "waiting" ELSE "ok"
<1>1. /\ flight' = flight \union {z} /\ asks' = Entered(id, [at |-> at, st |-> st]) /\ id \notin DOMAIN asks
      /\ UNCHANGED <<sys, pipes, busy, early>>
  BY DEF Ask
<1>2. sys \in Systems /\ IsFiniteSet(DOMAIN asks)
  BY DEF Parts, Ways
<1>3. /\ FlightWay(z) /\ z.w = w /\ Payload(w) = w /\ w.id = id /\ w.kind = a.kind
      /\ a.kind \in {"ping", "signal"}
      /\ a.kind = "ping" => Out(z) = Tells(a)
  BY <1>2, AskerWay
<1>4. Wanted(z.w) <=> a.kind = "ping"
  BY <1>3 DEF Wanted
<1>5. \A j : <<j>> = id => j = i
  OBVIOUS
<1>6. DOMAIN asks' = DOMAIN asks \union {id} /\ asks'[id].st = st /\ \A b \in DOMAIN asks : asks'[b] = asks[b]
  BY <1>1 DEF Entered
<1> HIDE DEF id, z, w, at
<1>7. Ways'
  <2>1. IsFiniteSet(DOMAIN asks')
    BY <1>2, <1>6, FS_AddElement
  <2>2. \A y \in flight' : y \in flight \/ FlightWay(y)
    BY <1>1, <1>3
  <2> QED
    BY <1>1, <1>6, <2>1, <2>2, WaysStep
<1>8. ASSUME NEW D, Promise(D) PROVE \E E : Promise(E)'
  <2>1. PICK E : E = [b \in DOMAIN asks \union {id} |-> IF b = id THEN Root(a) ELSE D[b]]
    OBVIOUS
  <2>2. E[id] = Root(a) /\ \A b \in DOMAIN asks : E[b] = D[b]
    BY <1>1, <2>1
  <2>3. asks'[id].st \in {"waiting"} \union E[id]
    BY <1>3, <1>6, <2>2 DEF Root
  <2>4. ASSUME asks'[id].st = "waiting" PROVE Heard(E, id)
    <3>1. a.kind = "ping"
      BY <1>6, <2>4
    <3>2. z \in flight' /\ Wanted(z.w) /\ Payload(z.w).id = id
      BY <1>1, <1>3, <1>4, <3>1
    <3> QED
      BY <1>1, <3>2, NowHeard
  <2>5. \A j \in DOMAIN sys.asks : <<j>> = id => E[id] = Root(sys.asks[j])
    BY <1>5, <2>2
  <2>6. Wanted(z.w) => Payload(z.w).id = id /\ Out(z) \subseteq E[id]
    BY <1>3, <1>4, <2>2 DEF Root
  <2>7. /\ \A y \in flight' : y \in flight \/ (Wanted(y.w) => Payload(y.w).id = id /\ Out(y) \subseteq E[id])
        /\ \A y \in flight : y \in flight'
        /\ \A y \in pipes' : y \in pipes
        /\ \A y \in pipes : y \in pipes'
        /\ \A y \in busy' : y \in busy
        /\ busy \subseteq busy'
    BY <1>1, <2>6
  <2>8. Promise(E)'
    BY <1>1, <1>6, <1>8, <2>2, <2>3, <2>4, <2>5, <2>7, ItemsOpen
  <2> QED
    BY <2>8
<1> QED
  BY <1>7, <1>8

LEMMA SameParent ==
    ASSUME NEW a \in Seq(Int), NEW b \in Seq(Int), NEW m \in Int, NEW n \in Int, Append(a, m) = Append(b, n)
    PROVE  a = b
<1>1. /\ Len(a) \in Nat /\ Len(Append(a, m)) = Len(a) + 1
      /\ \A i \in 1 .. Len(a) : Append(a, m)[i] = a[i]
  BY Appended
<1>2. /\ Len(b) \in Nat /\ Len(Append(b, n)) = Len(b) + 1
      /\ \A i \in 1 .. Len(b) : Append(b, n)[i] = b[i]
  BY Appended
<1>3. Len(a) = Len(b)
  BY <1>1, <1>2
<1>4. \A i \in 1 .. Len(a) : a[i] = b[i]
  BY <1>1, <1>2, <1>3
<1>5. Extends(a, b) /\ Len(b) <= Len(a)
  BY <1>1, <1>2, <1>3, <1>4 DEF Extends
<1> QED
  BY <1>5, SameLength

LEMMA ChildIsLonger ==
    ASSUME NEW a \in Seq(Int), NEW b \in Seq(Int), NEW m \in Int, Extends(a, b)
    PROVE  Extends(a, Append(b, m)) /\ Append(b, m) # a
<1>1. /\ Len(b) \in Nat /\ Len(Append(b, m)) = Len(b) + 1
      /\ \A i \in 1 .. Len(b) : Append(b, m)[i] = b[i]
  BY Appended
<1>2. Len(a) \in Nat /\ Len(a) <= Len(b) /\ \A i \in 1 .. Len(a) : b[i] = a[i]
  BY DEF Extends
<1>3. Len(a) <= Len(Append(b, m)) /\ Len(a) # Len(Append(b, m))
  BY <1>1, <1>2
<1>4. \A i \in 1 .. Len(a) : Append(b, m)[i] = a[i]
  BY <1>1, <1>2
<1> QED
  BY <1>3, <1>4 DEF Extends

\* Asks nested without end would be infinitely many.
LEMMA NoEndless ==
    ASSUME NEW B, IsFiniteSet(B), \A b \in B : b \in Seq(Int),
           \A b \in B : \E m \in Int : Append(b, m) \in B
    PROVE  B = {}
<1> SUFFICES ASSUME NEW r \in B PROVE FALSE
  OBVIOUS
<1> DEFINE E == {b \in B : Extends(r, b)}
           T == E \ {r}
           f == [b \in E |-> CHOOSE c \in T : \E m \in Int : c = Append(b, m)]
<1>1. E \in SUBSET B /\ r \in E
  BY Reflexive
<1>2. IsFiniteSet(E)
  BY <1>1, FS_Subset
<1>3. IsFiniteSet(T) /\ Cardinality(T) = Cardinality(E) - 1 /\ Cardinality(E) \in Nat
  BY <1>1, <1>2, FS_RemoveElement, FS_CardinalityType
<1>4. ASSUME NEW b \in E PROVE \E c \in T : \E m \in Int : c = Append(b, m)
  <2>1. b \in B /\ Extends(r, b) /\ b \in Seq(Int) /\ r \in Seq(Int)
    OBVIOUS
  <2>2. PICK m \in Int : Append(b, m) \in B
    BY <2>1
  <2>3. Extends(r, Append(b, m)) /\ Append(b, m) # r
    BY <2>1, ChildIsLonger
  <2> QED
    BY <2>2, <2>3
<1>5. \A b \in E : f[b] \in T /\ \E m \in Int : f[b] = Append(b, m)
  BY <1>4
<1>6. \A b \in E : b \in Seq(Int)
  OBVIOUS
<1>7. f \in [E -> T]
  BY <1>5
<1> HIDE DEF f, T, E
<1>8. PICK a, b \in E : a # b /\ f[a] = f[b]
  <2>1. Cardinality(T) < Cardinality(E)
    BY <1>3
  <2> QED
    BY <1>2, <1>3, <1>7, <2>1, FS_PigeonHole
<1>9. PICK m \in Int, n \in Int : f[a] = Append(a, m) /\ f[b] = Append(b, n)
  BY <1>5
<1> QED
  BY <1>6, <1>8, <1>9, SameParent

\* Who waits although nothing moves, and may not be told so, waits for one who waits the same.
LEMMA StuckFor ==
    ASSUME Parts, Books, Ways, Quiet, NEW D, Promise(D), NEW id \in DOMAIN asks,
           asks[id].st = "waiting", "late" \notin D[id] \union Slack
    PROVE  \E m \in Int : /\ Append(id, m) \in DOMAIN asks
                          /\ asks[Append(id, m)].st = "waiting" /\ "late" \notin D[Append(id, m)] \union Slack
<1>1. PICK c \in Claims(D) : c.id = id
  BY DEF Promise, Keeps
<1>2. "late" \notin c.told
  BY <1>1 DEF Promise, Keeps
<1>3. flight = {}
  BY DEF Quiet
<1>4. \A inner, more : "late" \notin OrElse(D[inner], more) => "late" \notin D[inner]
  BY DEF OrElse
<1>5. \A v, told : "late" \notin Back(v, told) => "late" \notin told
  BY DEF Back
<1>6. ASSUME NEW y \in pipes, Claiming(y), c = PipeClaim(y, D)
      PROVE  \E m \in Int : /\ Append(id, m) \in DOMAIN asks
                            /\ asks[Append(id, m)].st = "waiting" /\ "late" \notin D[Append(id, m)] \union Slack
  <2>1. PipeOK(y) /\ PipeWay(y) /\ sys \in Systems /\ StopStatus(y) = "waiting"
    BY DEF Parts, Ways, Quiet
  <2>2. y.t.w.kind \in {"ping", "signal"} /\ y.next \in Nat /\ y.next >= 1 /\ CarriedOK(y.t.w)
    BY <2>1, PipeFacts
  <2>3. /\ y.next # 1 /\ y.t.w.kind # "signal"
        /\ asks[InnerId(y, y.next - 1)].st = "waiting"
    BY <2>1 DEF StopStatus
  <2>4. y.t.w.kind = "ping" /\ y.next > 1
    BY <2>2, <2>3
  <2>5. y.t.w.load = <<>> /\ Payload(y.t.w) = y.t.w
    BY <2>2, <2>4 DEF CarriedOK, WaveOK, Payload
  <2>6. Asked(y)
    BY <1>6, <2>4, <2>5 DEF Asked, Claiming
  <2>7. InnerId(y, y.next - 1) \in DOMAIN asks
    BY <2>1, <2>6 DEF PipeWay
  <2>8. c.id = y.t.w.id /\ c.told = Back(y.t.w.via, PipeAhead(y, D))
    BY <1>6, <2>5, ClaimFields
  <2>9. PipeAhead(y, D) = OrElse(D[InnerId(y, y.next - 1)], Left(y, y.next))
    BY <2>3, <2>5 DEF PipeAhead
  <2>10. "late" \notin D[InnerId(y, y.next - 1)]
    BY <1>2, <1>4, <1>5, <2>8, <2>9
  <2>11. InnerId(y, y.next - 1) = Append(id, y.next - 1) /\ y.next - 1 \in Int
    BY <1>1, <2>2, <2>8 DEF InnerId
  <2> QED
    BY <2>3, <2>7, <2>10, <2>11
<1>7. ASSUME NEW b \in busy, c = BusyClaim(b, D)
      PROVE  \E m \in Int : /\ Append(id, m) \in DOMAIN asks
                            /\ asks[Append(id, m)].st = "waiting" /\ "late" \notin D[Append(id, m)] \union Slack
  <2>1. Append(b.w.id, 0) \in DOMAIN asks /\ asks[Append(b.w.id, 0)].st = "waiting"
    BY DEF Parts, Quiet
  <2>2. c.id = b.w.id /\ c.told = Back(b.w.via, OrElse(D[Append(b.w.id, 0)], {"ok"}))
    BY <1>7, BusyFields DEF BusyAhead
  <2>3. "late" \notin D[Append(b.w.id, 0)]
    BY <1>2, <1>4, <1>5, <2>2
  <2>4. b.w.id = id /\ 0 \in Int
    BY <1>1, <2>2
  <2> QED
    BY <2>1, <2>3, <2>4
<1> QED
  BY <1>3, <1>6, <1>7, ClaimsAre

LEMMA QuietIsLate ==
    ASSUME Parts, Books, Ways, Quiet, NEW D, Promise(D), NEW id \in DOMAIN asks, asks[id].st = "waiting"
    PROVE  "late" \in D[id] \union Slack
<1> DEFINE B == {b \in DOMAIN asks : asks[b].st = "waiting" /\ "late" \notin D[b] \union Slack}
<1>1. IsFiniteSet(B)
  <2>1. B \in SUBSET (DOMAIN asks) /\ IsFiniteSet(DOMAIN asks)
    BY DEF Ways
  <2> QED
    BY <2>1, FS_Subset
<1>2. \A b \in B : b \in Seq(Int)
  BY DEF Books, Ledger, IdOK
<1>3. \A b \in B : \E m \in Int : Append(b, m) \in B
  BY StuckFor
<1>4. B = {}
  <2> HIDE DEF B
  <2> QED
    BY <1>1, <1>2, <1>3, NoEndless
<1> QED
  BY <1>4

LEMMA TimeoutPromise ==
    ASSUME Parts, Books, Ways, NEW id \in DOMAIN asks, Timeout(id)
    PROVE  Ways' /\ \A D : Promise(D) => Promise(D)'
<1>1. /\ asks[id].st = "waiting" /\ (Quiet \/ early < MaxEarly)
      /\ early' = IF Quiet THEN early ELSE early + 1
      /\ asks' = [asks EXCEPT ![id].st = "late"] /\ UNCHANGED <<sys, flight, pipes, busy>>
  BY DEF Timeout
<1>2. AsksOK /\ early \in Nat /\ IsFiniteSet(DOMAIN asks)
  BY SystemsAssumption DEF Parts, Ways
<1>3. "late" \in Statuses
  BY DEF Statuses
<1>4. /\ DOMAIN asks' = DOMAIN asks /\ asks'[id].st = "late"
      /\ \A b \in DOMAIN asks : b # id => asks'[b] = asks[b]
  BY <1>1, <1>2, <1>3, SettledOK
<1>5. Ways'
  BY <1>1, <1>2, <1>4, WaysStep
<1>6. ASSUME NEW D, Promise(D) PROVE Promise(D)'
  <2>1. Keeps(Claims(D), asks, D, Slack)
    BY <1>6 DEF Promise
  <2>2. Slack \subseteq Slack'
    BY <1>1, <1>2 DEF Slack
  <2>3. "late" \in D[id] \union Slack'
    <3>1. CASE Quiet
      BY <1>1, <1>6, <2>2, <3>1, QuietIsLate
    <3>2. CASE ~Quiet
      <4>1. early' > 0
        BY <1>1, <1>2, <3>2
      <4> QED
        BY <4>1 DEF Slack
    <3> QED
      BY <3>1, <3>2
  <2>4. \A c : c \in Claims(D)' <=> c \in Claims(D)
    BY <1>1, ClaimsAre, ClaimsNext
  <2>5. PICK A, B, K, S, T : A = asks /\ B = asks' /\ K = Claims(D) /\ S = Slack /\ T = Slack'
    OBVIOUS
  <2>6. Keeps(K, A, D, S) /\ id \in DOMAIN A /\ DOMAIN B = DOMAIN A /\ (\A b \in DOMAIN A : b # id => B[b] = A[b])
        /\ B[id].st = "late" /\ S \subseteq T /\ "late" \in D[id] \union T
    BY <1>4, <2>1, <2>2, <2>3, <2>5
  <2>7. Keeps(K, B, D, T)
    BY <2>6, KeepsLate
  <2>8. Claims(D)' = K
    BY <2>4, <2>5
  <2>9. Keeps(Claims(D), asks, D, Slack)'
    BY <2>5, <2>7, <2>8 DEF Keeps
  <2>10. \A j \in DOMAIN sys.asks : Root(sys.asks[j])' = Root(sys.asks[j])
    BY <1>1, SameOut DEF Root
  <2> QED
    BY <1>1, <1>4, <1>6, <2>9, <2>10 DEF Promise
<1> QED
  BY <1>5, <1>6

-----------------------------------------------------------------------------
(* What whoever asks is told.                                              *)

\* Somebody is still to keep what was promised, or nobody has to.
Promised == \E D : Promise(D)

LEMMA StepPromise ==
    ASSUME Parts, Books, Ways, Promised, [Next]_vars
    PROVE  Ways' /\ Promised'
<1> DEFINE Kept == Ways' /\ \A D : Promise(D) => \E E : Promise(E)'
<1>0. Kept => Ways' /\ Promised'
  BY DEF Promised
<1>1. ASSUME Ways', \A D : Promise(D) => Promise(D)' PROVE Kept
  BY <1>1
<1>2. CASE UNCHANGED vars
  <2>1. UNCHANGED <<sys, flight, asks, pipes, busy, early>>
    BY <1>2 DEF vars
  <2>2. IsFiniteSet(DOMAIN asks') /\ DOMAIN asks \subseteq DOMAIN asks'
    BY <2>1 DEF Ways
  <2>3. Ways'
    BY <2>1, <2>2, WaysStep
  <2>4. ASSUME NEW D, Promise(D) PROVE Promise(D)'
    BY <2>1, <2>4, ItemsMove
  <2> QED
    BY <1>0, <1>1, <2>3, <2>4
<1>3. ASSUME NEW i \in DOMAIN sys.asks, Ask(i) PROVE Kept
  BY <1>3, AskPromise
<1>4. ASSUME NEW x \in flight, Step(x) PROVE Kept
  <2>1. CASE Inject(x)
    BY <1>1, <2>1, InjectPromise
  <2>2. CASE TraverseToNextLayer(x)
    BY <1>1, <2>2, NextPromise
  <2>3. CASE Delivered(x)
    BY <1>1, <2>3, DeliveredPromise
  <2>4. CASE Pass(x)
    BY <1>1, <2>4, PassPromise
  <2>5. CASE EnterPipeline(x)
    BY <1>1, <2>5, EnterPipelinePromise
  <2>6. CASE ShellHandles(x)
    BY <1>1, <2>6, ShellHandlesPromise
  <2>7. CASE CoreHandles(x)
    BY <2>7, CoreHandlesPromise
  <2>8. CASE CoreGetsAnswer(x)
    BY <1>1, <2>8, CoreGetsAnswerPromise
  <2>9. CASE Shard(x)
    BY <1>1, <2>9, ShardPromise
  <2> HIDE DEF Kept
  <2> QED
    BY <1>4, <2>1, <2>2, <2>3, <2>4, <2>5, <2>6, <2>7, <2>8, <2>9 DEF Step
<1>5. ASSUME NEW y \in pipes, PipeStep(y) PROVE Kept
  BY <1>5, PipeStepPromise
<1>6. ASSUME NEW y \in pipes, PipeEnds(y) PROVE Kept
  BY <1>1, <1>6, PipeEndsPromise
<1>7. ASSUME NEW b \in busy, CoreResumes(b) PROVE Kept
  BY <1>1, <1>7, CoreResumesPromise
<1>8. ASSUME NEW id \in DOMAIN asks, Timeout(id) PROVE Kept
  BY <1>1, <1>8, TimeoutPromise
<1> HIDE DEF Kept
<1> QED
  BY <1>0, <1>2, <1>3, <1>4, <1>5, <1>6, <1>7, <1>8 DEF Next

LEMMA InitPromise == Init => Ways /\ Promised
<1> SUFFICES ASSUME Init PROVE Ways /\ Promised
  OBVIOUS
<1>1. flight = {} /\ pipes = {} /\ busy = {} /\ asks = <<>> /\ DOMAIN asks = {}
  BY DEF Init
<1>2. Ways
  BY <1>1, FS_EmptySet DEF Ways
<1>3. PICK D : D = <<>>
  OBVIOUS
<1>4. \A c \in Claims(D) : FALSE
  BY <1>1, ClaimsAre
<1>5. Promise(D)
  BY <1>1, <1>4 DEF Promise, Keeps
<1> QED
  BY <1>2, <1>5 DEF Promised

LEMMA PromisedTold == Promised => ToldWhatIsSo
<1> SUFFICES ASSUME NEW D, Promise(D), NEW i \in DOMAIN sys.asks, sys.asks[i].kind = "ping", <<i>> \in DOMAIN asks
             PROVE  asks[<<i>>].st \in {"waiting"} \union Tells(sys.asks[i])
                                       \union (IF early > 0 THEN {"late", "error"} ELSE {})
  BY DEF Promised, ToldWhatIsSo
<1>1. D[<<i>>] = Tells(sys.asks[i])
  BY DEF Promise, Root
<1>2. asks[<<i>>].st \in {"waiting"} \union D[<<i>>] \union Slack
  BY DEF Promise, Keeps
<1> QED
  BY <1>1, <1>2 DEF Slack

\* For any systems of particles, whatever they ask and in whatever order the tasks run: whoever
\* asks is told what the particles asked make of it (their binds and cores, errors and the asks
\* nested in them included), by whichever layers and stars it got there and the answer came
\* back; it is told that it is late only if a part of that never answers, or if a timer fired
\* while something was still moving.
THEOREM ToldTheorem == Spec => []ToldWhatIsSo
<1>1. Init => Parts /\ Books /\ UnexpectedOnlyIfLate /\ Ways /\ Promised
  BY InitParts, InitBooks, InitPromise
<1>2. Parts /\ Books /\ UnexpectedOnlyIfLate /\ Ways /\ Promised /\ [Next]_vars
      => (Parts /\ Books /\ UnexpectedOnlyIfLate /\ Ways /\ Promised)'
  BY StepParts, StepBooks, StepPromise
<1>3. Promised => ToldWhatIsSo
  BY PromisedTold
<1> QED
  BY <1>1, <1>2, <1>3, PTL DEF Spec

=============================================================================
