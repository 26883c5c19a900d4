---------------------------- MODULE MCStarFabric ----------------------------
(* The run of StarFabric: the machine of the template, cut down to one star of
   each sort; a ring; and two forwarders that know nothing of a third star. *)
EXTENDS StarFabric

Template == [kind  |-> [c |-> "Central", n |-> "Nexus", s |-> "Other", m |-> "Machine"],
             links |-> {{"c", "n"}, {"s", "n"}, {"c", "m"}, {"s", "m"}, {"n", "m"}}]
Ring     == [kind  |-> [a |-> "Other", b |-> "Other", c |-> "Other", d |-> "Central"],
             links |-> {{"a", "b"}, {"b", "c"}, {"c", "d"}, {"d", "a"}}]
Apart    == [kind  |-> [a |-> "Other", b |-> "Other", z |-> "Other"], links |-> {{"a", "b"}}]

Of(m, from, silent, tries, asked) ==
    [kind |-> m.kind, links |-> m.links, origin |-> from, deaf |-> silent,
     attempts |-> tries, bounces |-> asked]

MCNets == {Of(Template, "c", {}, 1, 1), Of(Template, "s", {}, 2, 0), Of(Template, "s", {"m"}, 3, 0),
           Of(Template, "m", {}, 1, 0), Of(Ring, "a", {}, 2, 0), Of(Ring, "d", {}, 1, 0),
           Of(Ring, "b", {"c"}, 2, 0), Of(Apart, "a", {}, 1, 2)}
=============================================================================
