----------------------------- MODULE StarStartup -----------------------------
(***************************************************************************)
(* How one star comes up (hyperspace/src/driver/mod.rs, star.rs).  The task*)
(* Drivers makes the star's drivers one after another, each when the one   *)
(* before it is Ready; a listener follows the driver's status and makes it *)
(* the status of Drivers; the star's status task follows that, shows it as *)
(* the star's, and at Ready has the star look for others (wrangling).      *)
(*                                                                         *)
(* Registering a driver, and the init of most, goes through the star's     *)
(* only call loop, the one that waits inside start_wrangling until the     *)
(* machine is ready; when the machine answers is not for the star to say.  *)
(*                                                                         *)
(* A status channel and the task that pumps it into a watch are one step.  *)
(***************************************************************************)
EXTENDS Naturals, Sequences

CONSTANTS
    Last,       \* drivers, in the order of the factories; the first is DriverDriver
    Homed,      \* drivers whose init asks something of their own star
    MaxBreaks   \* bound: things that fail (a registration, a factory, an init)

ASSUME StartupAssumption ==
    /\ Last \in Nat /\ Last >= 2
    /\ Homed \subseteq 2 .. Last
    /\ MaxBreaks \in Nat

Drivers        == 1 .. Last
Init0          == 0                 \* DriversCall::Init0; AddDriver of k is the number k
DriverStatuses == {"Unknown", "Pending", "Init", "Ready", "Fatal"}

VARIABLES
    driver,     \* the watch of each driver's status ("Unknown" before there is one)
    phase,      \* how far the creation of each driver is
    known,      \* the drivers in kind_to_driver
    calls,      \* the channel of the task Drivers
    started,    \* the factories taken so far
    listener,   \* status_listen, on the watch of driver `started`: on whose behalf, and where
    news,       \* that watch changed since the listener last waited
    drivers,    \* the status Drivers publish
    drvNews,    \* it changed since the star's status task last waited
    task,       \* the star's status task: where it is, the status it saw before
    todo,       \* calls in the star's channel
    loop,       \* the star's call loop: free, or inside wait_ready
    asks,       \* how often it went there
    wrangling,  \* the task that start_wrangling leaves behind
    star,       \* the watch of the star's status
    breaks      \* things that failed so far

makeVars   == <<phase, known, calls, started>>
hearVars   == <<listener, drivers>>
taskVars   == <<task, star>>
loopVars   == <<loop, asks, wrangling>>
vars == <<driver, news, drvNews, todo, makeVars, hearVars, taskVars, loopVars, breaks>>

TypeOK ==
    /\ driver \in [Drivers -> DriverStatuses]
    /\ phase \in [Drivers -> {"none", "registering", "creating", "adding", "initing", "over"}]
    /\ known \subseteq Drivers
    /\ calls \in Seq({Init0} \union Drivers)
    /\ started \in 0 .. Last
    /\ listener \in [for : {"none", "next", "all"}, at : {"read", "wait"}]
    /\ news \in BOOLEAN /\ drvNews \in BOOLEAN
    /\ drivers \in DriverStatuses
    /\ task \in [at : {"look", "act", "ready", "wait"}, previous : DriverStatuses]
    /\ todo \in Seq({"Init", "StartWrangling"})
    /\ loop \in {"free", "asking", "waiting"} /\ asks \in 0 .. 2
    /\ wrangling \in {"no", "trying", "done"}
    /\ star \in {"Pending", "Init", "Ready", "Fatal"}
    /\ breaks \in 0 .. MaxBreaks

Silent == [for |-> "none", at |-> "read"]

Init ==
    /\ driver = [k \in Drivers |-> "Unknown"]
    /\ phase = [k \in Drivers |-> "none"]
    /\ known = {} /\ calls = <<>> /\ started = 0
    /\ listener = Silent /\ news = FALSE
    /\ drivers = "Pending" /\ drvNews = FALSE
    /\ task = [at |-> "look", previous |-> "Unknown"]
    /\ todo = <<>>
    /\ loop = "free" /\ asks = 0 /\ wrangling = "no"
    /\ star = "Pending"
    /\ breaks = 0

Breaks == breaks < MaxBreaks /\ breaks' = breaks + 1

(***************************************************************************)
(* The task Drivers and the drivers it makes.                              *)
(***************************************************************************)

\* A driver sends its status: the watch changes, the listener has news.
SendStatus(k, v) == driver' = [driver EXCEPT ![k] = v] /\ news' = TRUE
Advance(k, p)    == phase' = [phase EXCEPT ![k] = p]
Listen(for)      == listener' = [for |-> for, at |-> "read"]

IsCall(c) == calls # <<>> /\ Head(calls) = c /\ \A k \in Drivers : phase[k] # "registering"
Served    == calls' = Tail(calls)

\* init0 with a factory left: the driver's watch takes the place of the one before
\* it in statuses_rx (all are under the key Driver), and create registers it.
NextFactory ==
    /\ IsCall(Init0) /\ Served /\ started < Last
    /\ started' = started + 1
    /\ driver' = [driver EXCEPT ![started + 1] = "Pending"]
    /\ news' = FALSE
    /\ Advance(started + 1, "registering")
    /\ UNCHANGED <<drvNews, todo, known, hearVars, taskVars, loopVars, breaks>>

\* init0 with none left: listen to all of them, that is to the last.
NoFactory ==
    /\ IsCall(Init0) /\ Served /\ started = Last
    /\ Listen("all")
    /\ UNCHANGED <<driver, news, drvNews, todo, phase, known, started, drivers,
                   taskVars, loopVars, breaks>>

\* Mutant: the listener of every driver listens for all of them.
Register_ListensForAll(k) ==
    /\ phase[k] = "registering" /\ loop = "free"
    /\ Advance(k, "creating")
    /\ Listen("all")
    /\ UNCHANGED <<driver, news, drvNews, todo, known, calls, started, drivers,
                   taskVars, loopVars, breaks>>

\* create_states goes through the star's call loop; then the factory has a task.
Register(k) ==
    /\ phase[k] = "registering" /\ loop = "free"
    /\ Advance(k, "creating")
    /\ Listen("next")
    /\ UNCHANGED <<driver, news, drvNews, todo, known, calls, started, drivers,
                   taskVars, loopVars, breaks>>

RegisterFails(k) ==
    /\ phase[k] = "registering" /\ loop = "free" /\ Breaks
    /\ SendStatus(k, "Fatal")
    /\ Advance(k, "over")
    /\ Listen("next")
    /\ UNCHANGED <<drvNews, todo, known, calls, started, drivers, taskVars, loopVars>>

\* The factory made the driver.  DriverDriver is told at once that it was added,
\* the others by DriverDriver, when Drivers serve AddDriver.
Create(k) ==
    /\ phase[k] = "creating"
    /\ calls' = Append(calls, k)
    /\ Advance(k, IF k = 1 THEN "initing" ELSE "adding")
    /\ UNCHANGED <<driver, news, drvNews, todo, known, started, hearVars, taskVars, loopVars, breaks>>

AddDriver(k) ==
    /\ IsCall(k) /\ Served
    /\ k # 1 => 1 \in known                     \* find(&Kind::Driver).unwrap()
    /\ known' = known \union {k}
    /\ IF k = 1 THEN UNCHANGED phase ELSE Advance(k, "initing")
    /\ UNCHANGED <<driver, news, drvNews, todo, started, hearVars, taskVars, loopVars, breaks>>

InitBegins(k) ==
    /\ k \in Homed /\ phase[k] = "initing" /\ driver[k] = "Pending"
    /\ SendStatus(k, "Init")
    /\ UNCHANGED <<drvNews, todo, makeVars, hearVars, taskVars, loopVars, breaks>>

InitEnds(k) ==
    /\ phase[k] = "initing"
    /\ k \in Homed => driver[k] = "Init" /\ loop = "free"
    /\ SendStatus(k, "Ready")
    /\ Advance(k, "over")
    /\ UNCHANGED <<drvNews, todo, known, calls, started, hearVars, taskVars, loopVars, breaks>>

\* The factory or the driver's init returns an error.
DriverFails(k) ==
    /\ phase[k] \in {"creating", "initing"} /\ Breaks
    /\ SendStatus(k, "Fatal")
    /\ Advance(k, "over")
    /\ UNCHANGED <<drvNews, todo, known, calls, started, hearVars, taskVars, loopVars>>

(***************************************************************************)
(* The listener.                                                           *)
(***************************************************************************)

\* Drivers publish a status; nothing follows a Fatal, the pump has ended.
Publish(v) ==
    IF drivers = "Fatal" THEN UNCHANGED <<drivers, drvNews>>
                         ELSE drivers' = v /\ drvNews' = TRUE

\* Mutant: goes on listening.
HearReady_Lingers ==
    /\ listener = [for |-> "next", at |-> "read"] /\ driver[started] = "Ready"
    /\ listener' = [listener EXCEPT !.at = "wait"]
    /\ calls' = Append(calls, Init0)
    /\ UNCHANGED <<driver, news, drvNews, todo, phase, known, started, drivers,
                   taskVars, loopVars, breaks>>

\* A listener that waits for the driver before the next asks for the next.
HearReady ==
    /\ listener = [for |-> "next", at |-> "read"] /\ driver[started] = "Ready"
    /\ listener' = Silent
    /\ calls' = Append(calls, Init0)
    /\ UNCHANGED <<driver, news, drvNews, todo, phase, known, started, drivers,
                   taskVars, loopVars, breaks>>

HearFatal ==
    /\ listener.for # "none" /\ listener.at = "read" /\ driver[started] = "Fatal"
    /\ listener' = Silent
    /\ Publish("Fatal")
    /\ UNCHANGED <<driver, news, todo, makeVars, taskVars, loopVars, breaks>>

HearOther ==
    /\ listener.for # "none" /\ listener.at = "read" /\ driver[started] # "Fatal"
    /\ ~(listener.for = "next" /\ driver[started] = "Ready")
    /\ listener' = [listener EXCEPT !.at = "wait"]
    /\ Publish(IF driver[started] = "Pending" THEN "Unknown" ELSE driver[started])
    /\ UNCHANGED <<driver, news, todo, makeVars, taskVars, loopVars, breaks>>

HearAgain ==
    /\ listener.for # "none" /\ listener.at = "wait" /\ news
    /\ Listen(listener.for)
    /\ news' = FALSE
    /\ UNCHANGED <<driver, drvNews, todo, makeVars, drivers, taskVars, loopVars, breaks>>

(***************************************************************************)
(* The star's status task.                                                 *)
(***************************************************************************)

\* `if previous != drivers.status() { previous = drivers.status();` ...
Look ==
    /\ task.at = "look"
    /\ task' = IF task.previous = drivers THEN [task EXCEPT !.at = "wait"]
               ELSE [at |-> "act", previous |-> drivers]
    /\ UNCHANGED <<driver, news, drvNews, todo, makeVars, hearVars, star, loopVars, breaks>>

\* ... `match drivers.status()`, which may be another by now.
Act ==
    /\ task.at = "act" /\ drivers # "Ready"
    /\ task' = [task EXCEPT !.at = "wait"]
    /\ star' = IF drivers = "Unknown" THEN "Pending" ELSE drivers
    /\ UNCHANGED <<driver, news, drvNews, todo, makeVars, hearVars, loopVars, breaks>>

ActReady ==
    /\ task.at = "act" /\ drivers = "Ready"
    /\ task' = [task EXCEPT !.at = "ready"]
    /\ todo' = Append(todo, "StartWrangling")
    /\ UNCHANGED <<driver, news, drvNews, makeVars, hearVars, star, loopVars, breaks>>

ShowReady ==
    /\ task.at = "ready"
    /\ task' = [task EXCEPT !.at = "wait"]
    /\ star' = "Ready"
    /\ UNCHANGED <<driver, news, drvNews, todo, makeVars, hearVars, loopVars, breaks>>

LookAgain ==
    /\ task.at = "wait" /\ drvNews
    /\ task' = [task EXCEPT !.at = "look"]
    /\ drvNews' = FALSE
    /\ UNCHANGED <<driver, news, todo, makeVars, hearVars, star, loopVars, breaks>>

(***************************************************************************)
(* The star's call loop and the machine.                                   *)
(***************************************************************************)
IsTodo(c) == loop = "free" /\ todo # <<>> /\ Head(todo) = c

\* MachineCall::Init reaches the star's channel.
Call ==
    /\ todo = <<>> /\ started = 0 /\ calls = <<>>
    /\ todo' = <<"Init">>
    /\ UNCHANGED <<driver, news, drvNews, makeVars, hearVars, taskVars, loopVars, breaks>>

\* Mutant: wrangling is asked for at once.
StarInit_Wrangles ==
    /\ IsTodo("Init")
    /\ todo' = Append(Tail(todo), "StartWrangling")
    /\ calls' = Append(calls, Init0)
    /\ UNCHANGED <<driver, news, drvNews, phase, known, started, hearVars, taskVars, loopVars, breaks>>

StarInit ==
    /\ IsTodo("Init")
    /\ todo' = Tail(todo)
    /\ calls' = Append(calls, Init0)
    /\ UNCHANGED <<driver, news, drvNews, phase, known, started, hearVars, taskVars, loopVars, breaks>>

StartWrangling ==
    /\ IsTodo("StartWrangling")
    /\ todo' = Tail(todo)
    /\ loop' = "asking" /\ asks' = asks + 1
    /\ UNCHANGED <<driver, news, drvNews, makeVars, hearVars, taskVars, wrangling, breaks>>

Heard ==
    /\ loop = "asking" /\ loop' = "waiting"
    /\ UNCHANGED <<driver, news, drvNews, todo, makeVars, hearVars, taskVars, asks, wrangling, breaks>>

Release ==
    /\ loop # "free" /\ loop' = "free"
    /\ wrangling' = "trying"
    /\ UNCHANGED <<driver, news, drvNews, todo, makeVars, hearVars, taskVars, asks, breaks>>

Wrangle ==
    /\ wrangling = "trying" /\ loop = "free"
    /\ wrangling' = "done"
    /\ star' = "Ready"
    /\ UNCHANGED <<driver, news, drvNews, todo, makeVars, hearVars, task, loop, asks, breaks>>

DriversTask == NextFactory \/ NoFactory \/ \E k \in Drivers : Register(k) \/ AddDriver(k)
DriverTask(k) == Create(k) \/ InitBegins(k) \/ InitEnds(k)
Listener    == HearReady \/ HearFatal \/ HearOther \/ HearAgain
StatusTask  == Look \/ Act \/ ActReady \/ ShowReady \/ LookAgain
StarLoop    == StarInit \/ StartWrangling
Machine     == Call \/ Heard \/ Release

Next == \/ DriversTask \/ Listener \/ StatusTask \/ StarLoop \/ Machine \/ Wrangle
        \/ \E k \in Drivers : DriverTask(k) \/ RegisterFails(k) \/ DriverFails(k)

Spec == Init /\ [][Next]_vars

\* The star's own tasks are scheduled; nothing is assumed of the machine.
FairSpec ==
    /\ Spec
    /\ WF_vars(DriversTask) /\ WF_vars(Listener) /\ WF_vars(StatusTask) /\ WF_vars(StarLoop)
    /\ \A k \in Drivers : WF_vars(DriverTask(k))

(***************************************************************************)
(* Properties.                                                             *)
(***************************************************************************)

\* The task Drivers never stops for good: it does not put a new watch into
\* statuses_rx while a listener may be holding the map's guard over an await
\* (driver/mod.rs status_listen), and AddDriver of a later driver finds
\* DriverDriver in the table (find(&Kind::Driver).unwrap()).
DriversNeverStuck ==
    calls # <<>> => /\ Head(calls) = Init0 => listener.for = "none"
                    /\ Head(calls) > 1 => 1 \in known

\* What the star promises its machine (module StarLife) is what it does.  That it
\* is up there means that EVERY driver is Ready here, although the only watch
\* anyone listens to is the last driver's.
IsUp == task.at = "ready" \/ asks > 0 \/ (todo # <<>> /\ Head(todo) = "StartWrangling")

Life ==
    CASE IsUp /\ \A k \in Drivers : driver[k] = "Ready" -> "up"
      [] star = "Fatal" -> "told"
      [] star # "Fatal" /\ \E k \in Drivers : driver[k] = "Fatal" -> "failed"
      [] todo = <<"Init">> -> "called"
      [] todo = <<>> /\ started = 0 /\ calls = <<>> -> "off"
      [] OTHER -> "starting"

Promised == INSTANCE StarLife WITH
    Stars <- {0}, Connectors <- {}, Frail <- {0}, MaxBreaks <- MaxBreaks,
    life <- [s \in {0} |-> Life], asks <- [s \in {0} |-> asks], loop <- [s \in {0} |-> loop],
    wrangling <- [s \in {0} |-> wrangling], con <- [s \in {0} |-> "none"],
    relay <- [s \in {0} |-> TRUE], star <- [s \in {0} |-> star], breaks <- breaks

ImplementsLife == Promised!LifeSpec

\* A star that is called comes up by itself or a driver fails: nothing it waits
\* for is kept from it by its own loop (star.rs start_wrangling).
StarComesUp == todo = <<"Init">> ~> (star = "Ready" \/ breaks > 0)

=============================================================================
