------------------------------ MODULE StarLife ------------------------------
(***************************************************************************)
(* What a star promises the machine it is part of (hyperspace/src/star.rs):*)
(* how its drivers come up is left open (module StarStartup has that), what*)
(* its status shows, what its call loop waits for and when it begins to    *)
(* look for other stars is not.                                            *)
(*                                                                         *)
(* Four tasks write one status, and the last of them wins: the status task *)
(* that follows the drivers, the one that opens the bridges, the one that  *)
(* reads the star's hyperway, and the one that wrangles.  The star waits   *)
(* for the machine (wait_ready) inside its only call loop.                 *)
(*                                                                         *)
(* A status channel and the task that pumps it into a watch are one step,  *)
(* and a status that is shown again is none.                               *)
(***************************************************************************)
EXTENDS Naturals

CONSTANTS
    Stars,      \* stars, numbered in the order of the machine's table
    Connectors, \* stars whose template has a Connector to another machine
    Frail,      \* bound: the stars in which something may fail
    MaxBreaks   \* bound: things that fail

ASSUME StarLifeAssumption ==
    /\ Stars \subseteq Nat
    /\ Connectors \subseteq Stars /\ Frail \subseteq Stars
    /\ MaxBreaks \in Nat

Busy     == {"Pending", "Init"}     \* Pending stands for Unknown too: nothing tells them apart
Statuses == Busy \union {"Ready", "Panic", "Fatal"}

VARIABLES
    life,       \* life[s]: where the drivers of s are
    asks,       \* asks[s]: how often the star's loop went into start_wrangling
    loop,       \* loop[s]: the star's call loop: free, or inside wait_ready
    wrangling,  \* wrangling[s]: the task that start_wrangling leaves behind
    con,        \* con[s]: the bridge of a Connector
    relay,      \* relay[s]: the task that reads the star's own hyperway runs
    star,       \* star[s]: the watch of the star's status
    breaks      \* things that failed so far

lifeVars == <<life, asks, loop, wrangling, con, relay, star, breaks>>

LifeTypeOK ==
    /\ life \in [Stars -> {"off", "called", "starting", "up", "failed", "told"}]
    /\ asks \in [Stars -> 0 .. 2]
    /\ loop \in [Stars -> {"free", "asking", "waiting"}]
    /\ wrangling \in [Stars -> {"no", "trying", "done"}]
    /\ con \in [Stars -> {"none", "opening", "bridged", "failed"}]
    /\ relay \in [Stars -> BOOLEAN]
    /\ star \in [Stars -> Statuses]
    /\ breaks \in 0 .. MaxBreaks

LifeInit ==
    /\ life = [s \in Stars |-> "off"]
    /\ asks = [s \in Stars |-> 0]
    /\ loop = [s \in Stars |-> "free"]
    /\ wrangling = [s \in Stars |-> "no"]
    /\ con = [s \in Stars |-> IF s \in Connectors THEN "opening" ELSE "none"]
    /\ relay = [s \in Stars |-> TRUE]
    /\ star = [s \in Stars |-> "Pending"]
    /\ breaks = 0

Breaks(s)  == s \in Frail /\ breaks < MaxBreaks /\ breaks' = breaks + 1
Show(s, v) == star' = [star EXCEPT ![s] = v]
Now(s, l)  == life' = [life EXCEPT ![s] = l]

(***************************************************************************)
(* The drivers and the status task that follows them.                      *)
(***************************************************************************)

\* HyperStarCall::Init is put in the star's channel, and taken out.
Call(s) ==
    /\ life[s] = "off" /\ Now(s, "called")
    /\ UNCHANGED <<asks, loop, wrangling, con, relay, star, breaks>>

Begin(s) ==
    /\ life[s] = "called" /\ loop[s] = "free" /\ Now(s, "starting")
    /\ UNCHANGED <<asks, loop, wrangling, con, relay, star, breaks>>

ShowBusy(s) ==
    /\ life[s] \in {"off", "called", "starting", "failed"}
    /\ \E v \in IF life[s] \in {"off", "called"} THEN {"Pending"} ELSE Busy : v # star[s] /\ Show(s, v)
    /\ UNCHANGED <<life, asks, loop, wrangling, con, relay, breaks>>

\* All drivers are Ready and the status task saw it: wrangling is asked for and
\* Ready shown.  The task may see the same Ready twice, and do all this again.
Up(s) ==
    /\ life[s] = "starting" /\ Now(s, "up")
    /\ UNCHANGED <<asks, loop, wrangling, con, relay, star, breaks>>

ShowReady(s) ==
    /\ life[s] = "up" /\ star[s] # "Ready" /\ Show(s, "Ready")
    /\ UNCHANGED <<life, asks, loop, wrangling, con, relay, breaks>>

DriverFails(s) ==
    /\ life[s] = "starting" /\ Breaks(s) /\ Now(s, "failed")
    /\ UNCHANGED <<asks, loop, wrangling, con, relay, star>>

ShowFatal(s) ==
    /\ life[s] = "failed" /\ Now(s, "told") /\ Show(s, "Fatal")
    /\ UNCHANGED <<asks, loop, wrangling, con, relay, breaks>>

(***************************************************************************)
(* The call loop, and what it leaves behind.                               *)
(***************************************************************************)

\* start_wrangling: the loop itself asks the machine, and waits for the answer.
StartWrangling(s) ==
    /\ life[s] = "up" /\ loop[s] = "free" /\ asks[s] < 2
    /\ asks' = [asks EXCEPT ![s] = @ + 1]
    /\ loop' = [loop EXCEPT ![s] = "asking"]
    /\ UNCHANGED <<life, wrangling, con, relay, star, breaks>>

Heard(s) ==
    /\ loop[s] = "asking"
    /\ loop' = [loop EXCEPT ![s] = "waiting"]
    /\ UNCHANGED <<life, asks, wrangling, con, relay, star, breaks>>

Release(s) ==
    /\ loop[s] # "free"
    /\ loop' = [loop EXCEPT ![s] = "free"]
    /\ wrangling' = [wrangling EXCEPT ![s] = "trying"]
    /\ UNCHANGED <<life, asks, con, relay, star, breaks>>

\* One of the attempts succeeds; wrangle declares the star Ready once more.
Wrangle(s) ==
    /\ wrangling[s] = "trying" /\ loop[s] = "free"
    /\ wrangling' = [wrangling EXCEPT ![s] = "done"]
    /\ Show(s, "Ready")
    /\ UNCHANGED <<life, asks, loop, con, relay, breaks>>

(***************************************************************************)
(* Bridges and the star's own hyperway.                                    *)
(***************************************************************************)
Bridge(s) ==
    /\ con[s] = "opening"
    /\ con' = [con EXCEPT ![s] = "bridged"]
    /\ UNCHANGED <<life, asks, loop, wrangling, relay, star, breaks>>

\* No mount, no endpoint factory (of a machine that is gone), or no Bridge.
NoBridge(s) ==
    /\ con[s] = "opening"
    /\ con' = [con EXCEPT ![s] = "failed"]
    /\ Show(s, "Fatal")
    /\ UNCHANGED <<life, asks, loop, wrangling, relay>>

HyperwayEnds(s) ==
    /\ relay[s] /\ Breaks(s)
    /\ relay' = [relay EXCEPT ![s] = FALSE]
    /\ Show(s, "Panic")
    /\ UNCHANGED <<life, asks, loop, wrangling, con>>

\* What a star does, whenever the machine lets it.
LifeNext == \E s \in Stars :
    \/ Call(s) \/ Begin(s) \/ ShowBusy(s) \/ Up(s) \/ ShowReady(s) \/ DriverFails(s) \/ ShowFatal(s)
    \/ StartWrangling(s) \/ Heard(s) \/ Release(s) \/ Wrangle(s)

LifeSpec == LifeInit /\ [][LifeNext]_lifeVars
=============================================================================
