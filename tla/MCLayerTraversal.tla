------------------------- MODULE MCLayerTraversal -------------------------
(* Two stars and a few particles: one system for each way a wave can take. *)
EXTENDS LayerAnswers, TLC

Particle(home, routed, shell, bind, does, layer) ==
    [home |-> home, routed |-> routed, shell |-> shell, bind |-> bind, does |-> does, layer |-> layer]
Plain(home, bind, does) == Particle(home, FALSE, TRUE, bind, does, Core)
Star(s)    == Plain(s, <<"Core">>, "absorb")
Stars      == ("S" :> Star("S")) @@ ("T" :> Star("T"))
Client(at) == Plain(at, <<>>, "absorb")
AskOf(kind, from, to) == [kind |-> kind, from |-> At(from, Core), to |-> At(to, Core), inject |-> Core]
Both       == <<"Core", "Reflect">>

\* A particle whose core asks one of the other star; a pipeline over particles of two stars, and a
\* signal into one; two at once who ask for the same.
Nested == [particles |-> Stars @@ ("a" :> Client("T")) @@ ("b" :> Plain("S", Both, "c"))
                         @@ ("c" :> Plain("T", Both, "refuse")), asks |-> <<AskOf("ping", "a", "b")>>]
Piped  == [particles |-> Stars @@ ("a" :> Client("T")) @@ ("b" :> Plain("S", <<"Core", "c", "Reflect">>, "reflect"))
                         @@ ("c" :> Plain("T", Both, "reflect")), asks |-> <<AskOf("ping", "a", "b")>>]
Signal == [particles |-> Stars @@ ("a" :> Client("T")) @@ ("b" :> Plain("S", <<"Core", "c", "Reflect">>, "reflect"))
                         @@ ("c" :> Plain("S", Both, "reflect")), asks |-> <<AskOf("signal", "a", "b")>>]
Twice  == [particles |-> Stars @@ ("a" :> Client("S")) @@ ("b" :> Plain("S", Both, "c"))
                         @@ ("c" :> Plain("S", Both, "reflect")),
           asks |-> <<AskOf("ping", "a", "b"), AskOf("ping", "b", "c")>>]
\* A core that absorbs, on the other star; a bind without a Reflect.
Silent == [particles |-> Stars @@ ("a" :> Client("S")) @@ ("b" :> Plain("T", Both, "absorb"))
                         @@ ("c" :> Plain("S", <<"Core">>, "reflect")),
           asks |-> <<AskOf("ping", "a", "b"), AskOf("ping", "a", "c")>>]
\* No such particle, and an asker without a shell; no route, and a signal to nowhere.
Wrong  == [particles |-> Stars @@ ("a" :> Client("S")) @@ ("b" :> Particle("S", FALSE, FALSE, Both, "a", Core)),
           asks |-> <<AskOf("ping", "a", "nobody"), AskOf("ping", "b", "a")>>]
NoWay  == [particles |-> Stars @@ ("a" :> Client("S")) @@ ("b" :> Client("S")),
           asks |-> <<AskOf("ping", "b", "a"), AskOf("signal", "a", "nobody")>>]
\* From one layer of a particle to another: the shell's session and a layer there is not; the core
\* from below, and itself; then the shell of somebody else, and its field.
Own     == Stars @@ ("a" :> Plain("S", Both, "reflect")) @@ ("b" :> Client("S"))
Session == [particles |-> Own, asks |-> <<[AskOf("ping", "a", "a") EXCEPT !.to.l = Shell],
                                          [AskOf("ping", "a", "a") EXCEPT !.to.l = Guest]>>]
Inside  == [particles |-> Own, asks |-> <<[AskOf("ping", "a", "a") EXCEPT !.from.l = Shell, !.inject = Shell],
                                          AskOf("ping", "a", "a")>>]
Foreign == [particles |-> Own, asks |-> <<[AskOf("ping", "b", "a") EXCEPT !.to.l = Shell],
                                          [AskOf("ping", "b", "a") EXCEPT !.to.l = Field]>>]
\* Asking in the name of a layer that is not the driver's.
Routed(at, bind, does, layer) == Particle(at, TRUE, TRUE, bind, does, layer)
Misfit  == [particles |-> Stars @@ ("a" :> Plain("S", Both, "reflect")) @@ ("b" :> Routed("S", <<>>, "absorb", Core)),
            asks |-> <<[AskOf("ping", "b", "a") EXCEPT !.from.l = Guest, !.inject = Guest]>>]
\* A particle without a shell is asked; one with every layer opens a session of its own.
Shells  == [particles |-> Stars @@ ("a" :> Particle("S", FALSE, FALSE, Both, "reflect", Core))
                          @@ ("b" :> Routed("T", Both, "a", 4)),
            asks |-> <<[AskOf("ping", "b", "a") EXCEPT !.from.l = 4, !.inject = 4],
                       [AskOf("ping", "b", "b") EXCEPT !.from.l = 4, !.inject = 4, !.to.l = Shell]>>]
\* The client of a control, by its Shell; a particle that runs a command and asks a control.
Remote == [particles |-> Stars @@ ("a" :> Routed("S", Both, "remote", 3))
                         @@ ("b" :> Plain("S", Both, "GLOBAL")) @@ ("c" :> Client("S")),
           asks |-> <<[AskOf("ping", "a", "b") EXCEPT !.inject = Shell], AskOf("ping", "c", "a")>>]
\* A core that asks one that nobody knows.
Lost   == [particles |-> Stars @@ ("a" :> Client("S")) @@ ("b" :> Plain("S", <<"nobody", "Reflect">>, "reflect"))
                         @@ ("c" :> Plain("S", Both, "nobody")),
           asks |-> <<AskOf("ping", "a", "b"), AskOf("ping", "a", "c")>>]

MCSystems == {Nested, Piped, Signal, Twice, Silent, Wrong, NoWay, Session, Inside, Foreign, Misfit, Shells, Remote, Lost}

=============================================================================
