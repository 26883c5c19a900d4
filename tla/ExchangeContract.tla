-------------------------- MODULE ExchangeContract --------------------------
(***************************************************************************)
(* What an exchange promises the caller of direct(): each request that was *)
(* sent gets exactly one answer, of a form its kind of request admits, and *)
(* it does get one.  Exchanger.tla is shown to implement this.             *)
(***************************************************************************)
CONSTANTS
    Requests,
    Acceptable,     \* per request: the answers it admits, NoAnswer not among them
    NoAnswer

VARIABLES asked, answer

Init == asked = {} /\ answer = [r \in Requests |-> NoAnswer]

Ask(r) ==
    /\ r \notin asked
    /\ asked' = asked \union {r}
    /\ UNCHANGED answer

Answer(r) ==
    /\ r \in asked /\ answer[r] = NoAnswer
    /\ \E a \in Acceptable[r] : answer' = [answer EXCEPT ![r] = a]
    /\ UNCHANGED asked

Next == \E r \in Requests : Ask(r) \/ Answer(r)

Spec     == Init /\ [][Next]_<<asked, answer>>
FairSpec == Spec /\ \A r \in Requests : WF_<<asked, answer>>(Answer(r))
=============================================================================
