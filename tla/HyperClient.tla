---------------------------- MODULE HyperClient ----------------------------
(***************************************************************************)
(* A HyperClient (hyperspace/src/hyperlane/mod.rs) keeps one connection to *)
(* a gate alive for whoever owns it.  Three tasks work for it:             *)
(*   the runner  makes connections and moves waves between the client and  *)
(*               the current endpoint (ext);                               *)
(*   the relay   waits for the greeting, then gives what the runner read   *)
(*               to the exchanger or to the listeners;                     *)
(*   the pump    copies statuses from a channel to the watch the owner     *)
(*               reads, and stops after Fatal or Closed;                   *)
(* They share only channels, so each suspension point is a value of run or *)
(* relay.                                                                  *)
(***************************************************************************)
EXTENDS Naturals, Sequences

CONSTANTS
    Exchanging,   \* TRUE: new_with_exchanger; FALSE: new (a Bridge)
    Requests,     \* the owner's waves that go through the exchanger
    FirstWaves,   \* what a gate may send first: "greet", "fatal", "panic"
    MaxConns,     \* bound: connections made
    MaxOut,       \* bound: waves the owner sends
    MaxCommands,  \* bound: resets and closes it asks for
    MaxIn,        \* bound: directed waves the far end sends
    StatusCap,    \* capacity of the status channel              (code: 128)
    RunnerCap,    \* capacity of the channel to the runner       (code: 1024)
    ClientCap     \* capacity of the channel to the relay        (code: 1024)

ASSUME ClientAssumption ==
    /\ Exchanging \in BOOLEAN
    /\ Requests \subseteq 1 .. MaxOut /\ (Requests /= {} => Exchanging)
    /\ FirstWaves \subseteq {"greet", "fatal", "panic"}
    /\ {MaxConns, MaxOut, MaxCommands, MaxIn} \subseteq Nat
    /\ {StatusCap, RunnerCap, ClientCap} \subseteq Nat \ {0}

Waves    == 1 .. MaxOut
Commands == {"Reset", "Close"}

\* What the owner sends to the runner: its waves, and waves addressed to the
\* runner itself, which are commands.
Call(m, w)  == [call |-> m, of |-> w]
WaveCall(w) == Call("Wave", w)
Calls       == [call : {"Wave"}, of : Waves] \union [call : Commands, of : {0}]

\* What comes down a connection: its first wave, directed waves (numbered in
\* the order the far end sends them) and reflections of the owner's waves.
DownWaves == [kind : {"greet", "fatal", "panic"}, of : 1 .. MaxConns]
             \union [kind : {"directed"}, of : 1 .. MaxIn]
             \union [kind : {"reflected"}, of : Requests]

VARIABLES
    statusQ, pump, status,   \* the status channel, whether the pump runs, the watch
    run, hand, toRunner,     \* the runner, the wave it is sending up, its channel
    down, inOpen, outOpen,   \* ext: what it will yield, which halves still work
    relay, toClient, greet,  \* the relay, its channel, the greeting (0: None)
    pending,                 \* waves the exchanger waits for
    listening,               \* whether the broadcast has a receiver
    ownerGone,               \* every sender to the runner was dropped
    conns, out, in,          \* connections made, waves sent by the owner, by the far end
    given,                   \* commands the owner gave
    \* what happened, for the properties
    up,                      \* what reached the far end, in order
    dropped,                 \* waves lost because ext failed
    heard,                   \* what the listeners received, in order
    settled                  \* waves whose reflection reached the exchanger

statusVars == <<statusQ, pump, status>>
runVars    == <<run, hand>>
extVars    == <<down, inOpen, outOpen, conns>>
relayVars  == <<relay, greet, pending, heard, settled>>
ownerVars  == <<listening, ownerGone, out, given>>
histVars   == <<up, dropped>>
vars == <<statusVars, runVars, toRunner, extVars, relayVars, toClient, ownerVars,
          histVars, in>>

Init ==
    /\ statusQ = <<>> /\ pump = TRUE /\ status = "Pending"
    /\ run = "start" /\ hand = 0 /\ toRunner = <<>>
    /\ down = <<>> /\ inOpen = FALSE /\ outOpen = FALSE
    /\ relay = "first" /\ toClient = <<>> /\ greet = 0
    /\ pending = {} /\ listening = FALSE /\ ownerGone = FALSE
    /\ conns = 0 /\ out = 0 /\ in = 0 /\ given = 0
    /\ up = <<>> /\ dropped = {} /\ heard = <<>> /\ settled = {}

-----------------------------------------------------------------------------
(* The pump.                                                               *)

LastStatuses == {"Fatal", "Closed"}

Pump ==
    /\ pump /\ statusQ /= <<>>
    /\ status' = Head(statusQ)
    /\ pump' = (status' \notin LastStatuses)
    /\ statusQ' = IF pump' THEN Tail(statusQ) ELSE <<>>
    /\ UNCHANGED <<runVars, toRunner, extVars, relayVars, toClient, ownerVars,
                   histVars, in>>

\* status_tx.send(s).await: waits for room, and fails once the pump stopped.
SendStatus(s)    == pump /\ Len(statusQ) < StatusCap /\ statusQ' = Append(statusQ, s)
SendFails        == ~pump /\ UNCHANGED statusQ
TrySendStatus(s) == SendStatus(s) \/ SendFails

-----------------------------------------------------------------------------
(* The runner.                                                             *)

Start ==
    /\ run = "start" /\ TrySendStatus("Pending")
    /\ run' = "connect"
    /\ UNCHANGED <<pump, status, hand, toRunner, extVars, relayVars, toClient,
                   ownerVars, histVars, in>>

Connect ==
    /\ run = "connect"
    /\ \/ SendStatus("Connecting") /\ run' = "create"
       \/ SendFails /\ run' = "fatal"
    /\ UNCHANGED <<pump, status, hand, toRunner, extVars, relayVars, toClient,
                   ownerVars, histVars, in>>

\* factory.create succeeds; an attempt that fails is repeated a second later
\* and changes nothing.  The endpoint's first wave is already on its way.
Create ==
    /\ run = "create" /\ conns < MaxConns
    /\ conns' = conns + 1
    /\ \E k \in FirstWaves : down' = <<[kind |-> k, of |-> conns']>>
    /\ inOpen' = TRUE /\ outOpen' = TRUE
    /\ run' = "ready"
    /\ UNCHANGED <<statusVars, hand, toRunner, relayVars, toClient, ownerVars,
                   histVars, in>>

\* An attempt that takes 30 seconds ends the whole process.
CreateTimesOut ==
    /\ run = "create"
    /\ run' = "exit"
    /\ UNCHANGED <<statusVars, hand, toRunner, extVars, relayVars, toClient,
                   ownerVars, histVars, in>>

NoExt == down' = <<>> /\ inOpen' = FALSE /\ outOpen' = FALSE /\ UNCHANGED conns

\* (mutant) a Ready that cannot be shown does not stop the runner
Ready_Ignored ==
    /\ run = "ready" /\ TrySendStatus("Ready") /\ run' = "relay"
    /\ UNCHANGED <<pump, status, hand, toRunner, extVars, relayVars, toClient,
                   ownerVars, histVars, in>>

Ready ==
    /\ run = "ready"
    /\ \/ SendStatus("Ready") /\ run' = "relay" /\ UNCHANGED extVars
       \/ SendFails /\ run' = "fatal" /\ NoExt
    /\ UNCHANGED <<pump, status, hand, toRunner, relayVars, toClient, ownerVars,
                   histVars, in>>

\* The runner reports Fatal, which nobody reads any more, and is dropped.
RunnerFatal ==
    /\ run = "fatal" /\ TrySendStatus("Fatal")
    /\ run' = "gone" /\ toRunner' = <<>>
    /\ UNCHANGED <<pump, status, hand, extVars, relayVars, toClient, ownerVars,
                   histVars, in>>

\* relay() returned an error: ext = None and connect again.
Reconnect == run' = "connect" /\ NoExt

\* relay() returned Ok, "natural end... this runner is ready to be dropped":
\* the break leaves the inner loop only, and the outer one connects again.
\* The old endpoint is not read again; it is dropped by the next replace().
NaturalEnd == run' = "connect" /\ NoExt

Taking(m) == run = "relay" /\ toRunner /= <<>> /\ Head(toRunner).call = m

\* (mutant) a reset starts afresh: what the owner queued goes with the old link
TakeReset_Clears ==
    /\ Taking("Reset")
    /\ toRunner' = <<>>
    /\ Reconnect
    /\ UNCHANGED <<statusVars, hand, relayVars, toClient, ownerVars, up, dropped, in>>

TakeReset ==
    /\ Taking("Reset")
    /\ toRunner' = Tail(toRunner)
    /\ Reconnect
    /\ UNCHANGED <<statusVars, hand, relayVars, toClient, ownerVars, up, dropped, in>>

TakeClose ==
    /\ Taking("Close")
    /\ toRunner' = Tail(toRunner)
    /\ run' = "closing"
    /\ UNCHANGED <<statusVars, hand, extVars, relayVars, toClient, ownerVars,
                   histVars, in>>

\* (mutant) the connection is given up without saying so
Closing_Silent ==
    /\ run = "closing" /\ NaturalEnd
    /\ UNCHANGED <<statusVars, hand, toRunner, relayVars, toClient, ownerVars, up,
                   dropped, in>>

Closing ==
    /\ run = "closing" /\ TrySendStatus("Closed")
    /\ NaturalEnd
    /\ UNCHANGED <<pump, status, hand, toRunner, relayVars, toClient, ownerVars, up,
                   dropped, in>>

TakeOut ==
    /\ Taking("Wave") /\ hand' = Head(toRunner).of
    /\ toRunner' = Tail(toRunner)
    /\ run' = "push"
    /\ UNCHANGED <<statusVars, extVars, relayVars, toClient, ownerVars, histVars, in>>

\* ext.tx.send(wave).await
Push ==
    /\ run = "push" /\ outOpen
    /\ up' = Append(up, hand) /\ hand' = 0
    /\ run' = "relay"
    /\ UNCHANGED <<statusVars, toRunner, extVars, relayVars, toClient, ownerVars,
                   dropped, in>>

\* (mutant) the wave goes back to the end of the queue ("need to requeue it")
PushFails_Requeues ==
    /\ run = "push" /\ ~outOpen
    /\ toRunner' = Append(toRunner, WaveCall(hand)) /\ hand' = 0
    /\ Reconnect
    /\ UNCHANGED <<statusVars, relayVars, toClient, ownerVars, up, dropped, in>>

\* "wave gets lost... need to requeue it somehow..."
PushFails ==
    /\ run = "push" /\ ~outOpen
    /\ dropped' = dropped \union {hand} /\ hand' = 0
    /\ Reconnect
    /\ UNCHANGED <<statusVars, toRunner, relayVars, toClient, ownerVars, up, in>>

OwnerEnded ==
    /\ run = "relay" /\ toRunner = <<>> /\ ownerGone
    /\ NaturalEnd
    /\ UNCHANGED <<statusVars, hand, toRunner, relayVars, toClient, ownerVars, up,
                   dropped, in>>

\* (mutant) the end of ext is noticed only when the owner has something to send
ExtEnded_Lazily ==
    /\ run = "relay" /\ down = <<>> /\ ~inOpen /\ toRunner /= <<>>
    /\ NaturalEnd
    /\ UNCHANGED <<statusVars, hand, toRunner, relayVars, toClient, ownerVars, up,
                   dropped, in>>

ExtEnded ==
    /\ run = "relay" /\ down = <<>> /\ ~inOpen
    /\ NaturalEnd
    /\ UNCHANGED <<statusVars, hand, toRunner, relayVars, toClient, ownerVars, up,
                   dropped, in>>

TakeIn ==
    /\ run = "relay" /\ down /= <<>>
    /\ run' = "deliver"
    /\ UNCHANGED <<statusVars, hand, toRunner, extVars, relayVars, toClient,
                   ownerVars, histVars, in>>

\* to_client_tx.send(wave).await; a relay that ended swallows the wave.
Deliver ==
    /\ run = "deliver"
    /\ \/ relay /= "gone" /\ Len(toClient) < ClientCap /\ toClient' = Append(toClient, Head(down))
       \/ relay = "gone" /\ UNCHANGED toClient
    /\ down' = Tail(down)
    /\ run' = "relay"
    /\ UNCHANGED <<statusVars, hand, toRunner, inOpen, outOpen, conns, relayVars,
                   ownerVars, histVars, in>>

Runner == \/ Start \/ Connect \/ Create \/ Ready \/ RunnerFatal
          \/ TakeReset \/ TakeClose \/ Closing \/ TakeOut \/ Push \/ PushFails
          \/ OwnerEnded \/ ExtEnded \/ TakeIn \/ Deliver

-----------------------------------------------------------------------------
(* The relay.                                                              *)

Reading == toClient /= <<>> /\ toClient' = Tail(toClient)
Gone    == relay' = "gone" /\ toClient' = <<>>

\* (mutant) a gate that is unavailable is taken for one that greets
FirstVerdict_Lax(w) == IF w.kind = "fatal" THEN "Fatal" ELSE "ok"

\* What the first wave must be: a reflected greeting with a success status.
FirstVerdict(w) == CASE w.kind = "greet" -> "ok"
                     [] w.kind = "panic" -> "Panic"
                     [] OTHER            -> "Fatal"

First ==
    LET w == Head(toClient) IN
    /\ relay = "first" /\ Reading
    /\ relay' = IF FirstVerdict(w) = "ok" THEN "loop" ELSE FirstVerdict(w)
    /\ greet' = IF w.kind = "greet" THEN w.of ELSE greet
    /\ UNCHANGED <<statusVars, runVars, toRunner, extVars, pending, heard, settled,
                   ownerVars, histVars, in>>

\* (mutant) the relay ends without reporting
Refused_Silently ==
    /\ relay \in {"Fatal", "Panic"} /\ Gone
    /\ UNCHANGED <<statusVars, runVars, toRunner, extVars, greet, pending, heard,
                   settled, ownerVars, histVars, in>>

\* The first wave was not a greeting: the relay reports it and ends.
Refused ==
    /\ relay \in {"Fatal", "Panic"} /\ TrySendStatus(relay)
    /\ Gone
    /\ UNCHANGED <<pump, status, runVars, toRunner, extVars, greet, pending, heard,
                   settled, ownerVars, histVars, in>>

ToExchanger(w) == Exchanging /\ w.kind /= "directed"

\* A reflection somebody waits for.
Reflect ==
    LET w == Head(toClient) IN
    /\ relay = "loop" /\ Reading
    /\ ToExchanger(w) /\ w.kind = "reflected" /\ w.of \in pending
    /\ pending' = pending \ {w.of}
    /\ settled' = settled \union {w.of}
    /\ UNCHANGED <<statusVars, runVars, relay, greet, heard, toRunner, extVars,
                   ownerVars, histVars, in>>

\* Exchanger::reflected fails for anything else (a late answer, the greeting
\* of a later connection) and the ? ends the relay for good.
ReflectFails ==
    LET w == Head(toClient) IN
    /\ relay = "loop" /\ toClient /= <<>>
    /\ ToExchanger(w) /\ ~(w.kind = "reflected" /\ w.of \in pending)
    /\ Gone
    /\ UNCHANGED <<statusVars, runVars, greet, pending, heard, settled, toRunner,
                   extVars, ownerVars, histVars, in>>

Forward ==
    LET w == Head(toClient) IN
    /\ relay = "loop" /\ Reading
    /\ ~ToExchanger(w) /\ listening
    /\ heard' = Append(heard, w)
    /\ UNCHANGED <<statusVars, runVars, relay, greet, pending, settled, toRunner,
                   extVars, ownerVars, histVars, in>>

\* A broadcast without receivers is an error, and ends the relay as well.
ForwardFails ==
    /\ relay = "loop" /\ toClient /= <<>>
    /\ ~ToExchanger(Head(toClient)) /\ ~listening
    /\ Gone
    /\ UNCHANGED <<statusVars, runVars, greet, pending, heard, settled, toRunner,
                   extVars, ownerVars, histVars, in>>

\* The runner is gone and so is its sender.
RelayEnds ==
    /\ relay \in {"first", "loop"} /\ toClient = <<>> /\ run = "gone"
    /\ Gone
    /\ UNCHANGED <<statusVars, runVars, greet, pending, heard, settled, toRunner,
                   extVars, ownerVars, histVars, in>>

Relay == First \/ Refused \/ Reflect \/ ReflectFails \/ Forward \/ ForwardFails
         \/ RelayEnds

-----------------------------------------------------------------------------
(* The owner.                                                              *)

ToRunner(m) ==
    /\ ~ownerGone /\ run /= "gone" /\ Len(toRunner) < RunnerCap
    /\ toRunner' = Append(toRunner, m)

\* A wave through the router; the exchanger registers the ones it waits for.
OwnerSend ==
    /\ out < MaxOut /\ out' = out + 1
    /\ ToRunner(WaveCall(out'))
    /\ pending' = pending \union ({out'} \intersect Requests)
    /\ UNCHANGED <<statusVars, runVars, extVars, relay, greet, heard, settled, toClient,
                   listening, ownerGone, given, histVars, in>>

\* reset() and close(): each is a wave like the others, in the same channel.
Command(m) ==
    /\ given < MaxCommands /\ given' = given + 1
    /\ ToRunner(Call(m, 0))
    /\ UNCHANGED <<statusVars, runVars, extVars, relayVars, toClient, listening,
                   ownerGone, out, histVars, in>>

\* The exchanger gives up a wave (its timeout, or a lower one).
GiveUp(w) ==
    /\ w \in pending
    /\ pending' = pending \ {w}
    /\ UNCHANGED <<statusVars, runVars, toRunner, extVars, relay, greet, heard, settled,
                   toClient, ownerVars, histVars, in>>

\* rx() subscribes; the receiver may be dropped again.
Listen ==
    /\ ~ownerGone
    /\ listening' = ~listening
    /\ UNCHANGED <<statusVars, runVars, toRunner, extVars, relayVars, toClient,
                   ownerGone, out, given, histVars, in>>

DropOwner ==
    /\ ~ownerGone /\ ownerGone' = TRUE
    /\ UNCHANGED <<statusVars, runVars, toRunner, extVars, relayVars, toClient,
                   listening, out, given, histVars, in>>

-----------------------------------------------------------------------------
(* The far end of the current endpoint.                                    *)

SendsDown(w) == inOpen /\ down' = Append(down, w)

FarSends ==
    /\ in < MaxIn /\ in' = in + 1
    /\ SendsDown([kind |-> "directed", of |-> in'])
    /\ UNCHANGED <<statusVars, runVars, toRunner, inOpen, outOpen, conns, relayVars,
                   toClient, ownerVars, histVars>>

InSeq(s) == {s[i] : i \in DOMAIN s}

\* A reflection of a wave that got up, once (a wave already answered is not
\* answered again by the same far end).
FarAnswers(w) ==
    /\ w \in (Requests \intersect InSeq(up)) \ settled
    /\ [kind |-> "reflected", of |-> w] \notin InSeq(down) \union InSeq(toClient)
    /\ SendsDown([kind |-> "reflected", of |-> w])
    /\ UNCHANGED <<statusVars, runVars, toRunner, inOpen, outOpen, conns, relayVars,
                   toClient, ownerVars, histVars, in>>

\* Either half of the link breaks; what was already read stays readable.
CutIn ==
    /\ inOpen /\ inOpen' = FALSE
    /\ UNCHANGED <<statusVars, runVars, toRunner, down, outOpen, conns, relayVars,
                   toClient, ownerVars, histVars, in>>

CutOut ==
    /\ outOpen /\ outOpen' = FALSE
    /\ UNCHANGED <<statusVars, runVars, toRunner, down, inOpen, conns, relayVars,
                   toClient, ownerVars, histVars, in>>

-----------------------------------------------------------------------------
\* process::exit stops every task of the process.
Running == run /= "exit"

Next ==
    /\ Running
    /\ \/ Pump \/ Runner \/ CreateTimesOut \/ Relay
       \/ OwnerSend \/ Listen \/ DropOwner
       \/ \E m \in Commands : Command(m)
       \/ \E w \in Waves : GiveUp(w) \/ FarAnswers(w)
       \/ FarSends \/ CutIn \/ CutOut

Spec == Init /\ [][Next]_vars

\* tokio runs every task that can make progress.  Runner includes Create and
\* Push: the gate can be reached, and the far end takes what is sent to it.
FairSpec ==
    /\ Spec
    /\ WF_vars(Running /\ Pump) /\ WF_vars(Running /\ Runner)
    /\ WF_vars(Running /\ Relay)

-----------------------------------------------------------------------------
(* Properties.                                                             *)

Statuses == {"Pending", "Connecting", "Ready", "Panic", "Fatal", "Closed"}
Relaying == run \in {"relay", "push", "deliver", "closing"}

\* Types and capacities, and a hand that is full exactly while it pushes.
TypeOK ==
    /\ statusQ \in Seq(Statuses) /\ Len(statusQ) <= StatusCap
    /\ pump \in BOOLEAN /\ status \in Statuses
    /\ run \in {"start", "connect", "create", "ready", "relay", "push", "deliver",
                "closing", "fatal", "gone", "exit"}
    /\ hand \in Waves \union {0} /\ (hand /= 0 <=> run = "push")
    /\ toRunner \in Seq(Calls) /\ Len(toRunner) <= RunnerCap
    /\ down \in Seq(DownWaves) /\ inOpen \in BOOLEAN /\ outOpen \in BOOLEAN
    /\ relay \in {"first", "loop", "Fatal", "Panic", "gone"}
    /\ toClient \in Seq(DownWaves) /\ Len(toClient) <= ClientCap
    /\ greet \in 0 .. MaxConns /\ pending \subseteq Requests
    /\ listening \in BOOLEAN /\ ownerGone \in BOOLEAN
    /\ conns \in 0 .. MaxConns /\ out \in 0 .. MaxOut /\ in \in 0 .. MaxIn
    /\ given \in 0 .. MaxCommands /\ up \in Seq(Waves) /\ dropped \subseteq Waves
    /\ heard \in Seq(DownWaves) /\ settled \subseteq Requests

\* Through resets, broken links and reconnections, what the owner sends goes
\* up in the order it was sent, and no wave goes up twice.
UpInOrder == \A i, j \in DOMAIN up : i < j => up[i] < up[j]

\* A wave the owner sent is where the code means it to be (queued, in the
\* runner's hand, sent up) or was lost with the link that failed under it: a
\* reset or a reconnection loses nothing that is queued.
UpAccounted ==
    run /= "gone" =>
        \A w \in 1 .. out :
            \/ WaveCall(w) \in InSeq(toRunner)
            \/ w \in InSeq(up) \union dropped \union {hand}

\* Nothing reaches a listener or the exchanger of a client that has not been
\* greeted, whatever the gate sends first and however often it reconnects.
GreetedFirst == heard /= <<>> \/ settled /= {} => greet /= 0

\* Fatal and Closed are the last statuses an owner sees.
LastStatusStays == [][(status \in {"Fatal", "Closed"}) => status' = status]_vars

\* Once the pump has shown a last status, the runner may finish with the link
\* it has but never starts using another one.
NoNewLinkOnceOver == [][~pump /\ ~Relaying => ~Relaying']_vars

\* The runner reads the inbound half all the time; the outbound half it only touches
\* with a wave or a command of the owner, so that of an idle owner stays cut unseen.
CutShows == ~inOpen \/ (~outOpen /\ (hand /= 0 \/ toRunner /= <<>>))

\* A cut that can show is acted on: the runner does not sit on a link whose inbound half
\* was cut, nor on one whose outbound half was cut once the owner has something to send,
\* whatever it was doing, as long as gates can be reached.
CutLinkIsReplaced ==
    \A n \in 1 .. MaxConns :
        (Relaying /\ CutShows /\ conns = n /\ n < MaxConns)
        ~> (conns > n \/ run \in {"gone", "exit"})

\* An owner that closes a connected client sees it Closed (or Fatal).
CloseIsShown == run = "closing" ~> (status \in {"Closed", "Fatal"} \/ run = "exit")

\* A client whose first wave is no greeting is told so: the relay's Fatal gets through
\* to the status, however busy the runner keeps the status channel.  (A Panic, for a gate
\* that is not available, is no last status: the runner may write over it.)
RefusalIsShown ==
    relay = "Fatal" ~> (status \in {"Closed", "Fatal"} \/ run = "exit")

=============================================================================
