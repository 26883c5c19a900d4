--------------------------- MODULE MachineStartup ---------------------------
(***************************************************************************)
(* How a machine comes up (hyperspace/src/machine.rs): it builds its stars *)
(* (module StarLife), asks each to start, and watches their statuses.  The *)
(* aggregator reads them one after another while they change, and makes    *)
(* one status of them; who waits for the machine (wait_ready), above all   *)
(* its stars, waits for that status to be Ready.                           *)
(***************************************************************************)
EXTENDS StarLife

VARIABLES
    news,       \* news[s]: the status of s changed since the aggregator last waited
    view,       \* view[s]: what the aggregator read of s in this round
    scanning,   \* the aggregator: not there yet, reading the stars, or waiting for a change
    status,     \* the watch of the machine's status
    machine     \* the machine's call loop

machineVars == <<news, view, scanning, status, machine>>
vars == <<lifeVars, machineVars>>

TypeOK ==
    /\ LifeTypeOK
    /\ news \in [Stars -> BOOLEAN]
    /\ view \in [Stars -> Statuses \union {"unread"}]
    /\ scanning \in {"off", "read", "wait"}
    /\ status \in {"Init", "Ready", "Panic", "Fatal"}
    /\ machine \in {"building", "starting", "running", "ended"}

Unread == [s \in Stars |-> "unread"]

Init ==
    /\ LifeInit
    /\ news = [s \in Stars |-> FALSE]
    /\ view = Unread /\ scanning = "off"
    /\ status = "Init"
    /\ machine = "building"

\* A step of a star, with what the aggregator is to hear of it.
Seen(s) ==
    /\ news' = [news EXCEPT ![s] = @ \/ star'[s] # star[s]]
    /\ UNCHANGED <<view, scanning, status, machine>>

Serving == machine \in {"starting", "running"}

(***************************************************************************)
(* The machine's call loop.                                                *)
(***************************************************************************)
Built ==
    /\ machine = "building"
    /\ machine' = "starting"
    /\ scanning' = "read"
    /\ UNCHANGED <<lifeVars, news, view, status>>

\* MachineCall::Init: every star is told to start.
MachineInit ==
    /\ machine = "starting"
    /\ machine' = "running"
    /\ life' = [s \in Stars |-> "called"]
    /\ UNCHANGED <<asks, loop, wrangling, con, relay, star, breaks, news, view, scanning, status>>

\* An error while the stars are built, or Terminate.
MachineEnds ==
    /\ machine # "ended" /\ breaks < MaxBreaks
    /\ breaks' = breaks + 1
    /\ machine' = "ended"
    /\ UNCHANGED <<life, asks, loop, wrangling, con, relay, star, news, view, scanning, status>>

\* wait_ready returns when the machine is Ready, and also when it is gone; a
\* waiter it has heard stays with the status.
WaitReady(s) ==
    /\ \/ Serving /\ Heard(s)
       \/ machine = "ended" /\ loop[s] = "asking" /\ Release(s)
       \/ status = "Ready" /\ loop[s] = "waiting" /\ Release(s)
    /\ UNCHANGED machineVars

\* The machine makes the endpoint factory of a bridge.
OpenBridge(s) ==
    /\ Serving /\ Bridge(s)
    /\ UNCHANGED machineVars

BridgeFails(s) ==
    /\ NoBridge(s)
    /\ IF machine = "ended" THEN UNCHANGED breaks ELSE Breaks(s)
    /\ Seen(s)

(***************************************************************************)
(* The aggregator.                                                         *)
(***************************************************************************)
ReadStar(s) ==
    /\ scanning = "read" /\ \A t \in Stars : view[t] = "unread" <=> t >= s
    /\ view' = [view EXCEPT ![s] = star[s]]
    /\ UNCHANGED <<lifeVars, news, scanning, status, machine>>

Some(v) == \E s \in Stars : view[s] = v

\* Mutants: one star is enough; only when all of them failed.
Verdict_Any == IF Some("Ready") THEN "Ready" ELSE status
Verdict_FatalIfAll ==
    CASE \A s \in Stars : view[s] = "Ready" -> "Ready"
      [] \A s \in Stars : view[s] = "Fatal" -> "Fatal"
      [] Some("Panic") -> "Panic"
      [] Some("Init") /\ ~Some("Panic") -> "Init"
      [] OTHER -> status

\* The status of the machine that the statuses of the stars make.
Verdict ==
    CASE \A s \in Stars : view[s] = "Ready" -> "Ready"
      [] Some("Fatal") -> "Fatal"
      [] Some("Panic") /\ ~Some("Fatal") -> "Panic"
      [] Some("Init") /\ ~Some("Panic") /\ ~Some("Fatal") -> "Init"
      [] OTHER -> status

\* Mutant: what changed while the stars were read is forgotten.
Judge_Forgets ==
    /\ scanning = "read" /\ ~Some("unread")
    /\ status' = Verdict
    /\ view' = Unread /\ scanning' = "wait"
    /\ news' = [s \in Stars |-> FALSE]
    /\ UNCHANGED <<lifeVars, machine>>

Judge ==
    /\ scanning = "read" /\ ~Some("unread")
    /\ status' = Verdict
    /\ view' = Unread /\ scanning' = "wait"
    /\ UNCHANGED <<lifeVars, news, machine>>

ReadAgain(s) ==
    /\ scanning = "wait" /\ news[s]
    /\ news' = [news EXCEPT ![s] = FALSE]
    /\ scanning' = "read"
    /\ UNCHANGED <<lifeVars, view, status, machine>>

(***************************************************************************)
(* Tasks and their scheduling: the runtime polls a task that can go on.    *)
(* Two assumptions: drivers come up or fail (StarComesUp in StarStartup),  *)
(* and an attempt to wrangle succeeds in the end.                          *)
(***************************************************************************)
StatusTask(s) == (Up(s) \/ ShowReady(s) \/ ShowFatal(s)) /\ Seen(s)
StarLoop(s)   == ((Begin(s) \/ StartWrangling(s)) /\ Seen(s)) \/ WaitReady(s)
Other(s)      == (ShowBusy(s) \/ DriverFails(s) \/ HyperwayEnds(s)) /\ Seen(s)
WrangleTask(s) == Wrangle(s) /\ Seen(s)
MachineLoop   == Built \/ MachineInit
Aggregator    == Judge \/ \E s \in Stars : ReadStar(s) \/ ReadAgain(s)

Next == \/ MachineLoop \/ MachineEnds \/ Aggregator
        \/ \E s \in Stars : \/ StatusTask(s) \/ StarLoop(s) \/ Other(s) \/ WrangleTask(s)
                            \/ OpenBridge(s) \/ BridgeFails(s)

Spec == Init /\ [][Next]_vars

FairSpec ==
    /\ Spec
    /\ WF_vars(MachineLoop) /\ WF_vars(Aggregator)
    /\ \A s \in Stars : /\ WF_vars(StatusTask(s)) /\ WF_vars(StarLoop(s))
                        /\ WF_vars(WrangleTask(s)) /\ WF_vars(OpenBridge(s))

(***************************************************************************)
(* Properties.                                                             *)
(***************************************************************************)
IsUp(s) == life[s] = "up"

\* wait_ready holds the stars back: none looks for others before the drivers of
\* every star are Ready, unless the machine has ended (machine.rs WaitForReady
\* and the aggregator, star.rs start_wrangling).
WranglingWaitsForAll ==
    \A s \in Stars : wrangling[s] # "no" => machine = "ended" \/ \A t \in Stars : IsUp(t)

\* When nothing fails every star wrangles and has its loop back, though each
\* blocks that loop until all of them are Ready (star.rs start_wrangling).
MachineComesUp ==
    <>(breaks > 0) \/ <>[](\A s \in Stars : wrangling[s] = "done" /\ loop[s] = "free")

\* A driver that cannot start shows in the status of the machine for good, and
\* nobody is released (star.rs status task, machine.rs aggregator).
FailureIsShown ==
    (\E s \in Stars : life[s] \in {"failed", "told"})
        ~> (machine = "ended" \/ [](status \in {"Fatal", "Panic"}))
=============================================================================
