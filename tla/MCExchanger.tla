---------------------------- MODULE MCExchanger ----------------------------
(* Constants for model checking Exchanger: a ping, a Count and a Timer, or  *)
(* those of them that are in the cfg's Requests.                            *)
EXTENDS Exchanger, TLC

CONSTANTS ping, count, timed,           \* requests
          p1, c1, c2, c3, t1, t2        \* replies

MCReflectionOf ==
    [p \in Replies |-> CASE p = p1              -> ping
                         [] p \in {c1, c2, c3}  -> count
                         [] p \in {t1, t2}      -> timed]
MCKind  == [r \in Requests |-> CASE r = ping -> "single" [] r = count -> "count"
                                 [] r = timed -> "timer"]
MCCap   == [r \in Requests |-> IF r = count THEN 2 ELSE 1]
OneShard == [r \in Requests |-> 1]

=============================================================================
