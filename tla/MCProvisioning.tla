--------------------------- MODULE MCProvisioning ---------------------------
(* The run of Provisioning: the central star c with two hosts; a (wrangled by c onto
   either; h1 was found by two searches, h2 by one), its child b (a base, which h1 can
   only take itself), and d (a driver's own, which has no driver on h2). *)
EXTENDS Provisioning

MCPoints   == {"a", "b", "d"}
MCStars    == {"c", "h1", "h2"}
MCParent   == [a |-> "root", b |-> "a", d |-> "root"]
MCKind     == [a |-> "Space", b |-> "Base", d |-> "Control"]
MCWrangles == [s \in MCStars |-> [k \in {"Space", "Base", "Control"} |->
                  IF s = "c" /\ k = "Space" THEN <<"h1", "h2", "h1">> ELSE <<>>]]
MCExternal == [c |-> {}, h1 |-> {"Space", "Base"}, h2 |-> {"Space"}]
MCDrivers  == [c |-> {}, h1 |-> {"Space", "Base", "Control"}, h2 |-> {"Space"}]

Locating(p) == [what |-> "locate", point |-> p]
Creating(p, how, provision) ==
    [what |-> "create", point |-> p, strategy |-> how, provision |-> provision]
Adopting(p, s) == [what |-> "adopt", point |-> p, star |-> s, strategy |-> "Ensure"]

Plan(first, second, third) == [t1 |-> first, t2 |-> second, t3 |-> third]
MCPlans ==
    {Plan(Creating("a", "Commit", FALSE), Locating("a"), Locating("a")),
     Plan(Creating("a", "Ensure", TRUE), Creating("a", "Commit", FALSE), Locating("a")),
     Plan(Creating("a", "Commit", FALSE), Creating("a", "Commit", FALSE),
          Creating("a", "Ensure", TRUE)),
     Plan(Creating("a", "Commit", FALSE), Creating("b", "Commit", TRUE), Locating("b")),
     Plan(Creating("a", "Ensure", TRUE), Creating("b", "Ensure", TRUE), Locating("b")),
     Plan(Adopting("d", "h1"), Locating("d"), Creating("d", "Override", FALSE)),
     Plan(Adopting("d", "h1"), Adopting("d", "h2"), Locating("d"))}
=============================================================================
