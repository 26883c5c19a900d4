---------------------------- MODULE Interchange ----------------------------
(***************************************************************************)
(* A HyperwayInterchange (hyperspace/src/hyperlane/mod.rs) is a task that  *)
(* owns a table of hyperways keyed by the surface at their far end, and    *)
(* moves waves between them.  One hyperway is special: Home, the star (or  *)
(* the control driver) the interchange was made for.  Waves from every     *)
(* other hyperway are readdressed to it (singular_to); it addresses        *)
(* whoever it likes.                                                       *)
(*                                                                         *)
(* Connections come in through one of two gates.  An InterchangeGate adds  *)
(* a hyperway for each connection, mounts it, and asks for the hyperway of *)
(* that SURFACE to be removed when the endpoint is dropped.  A             *)
(* MountInterchangeGate mounts hyperways that stand from the beginning and *)
(* removes nothing; a second mount of a hyperway takes its outbound lane   *)
(* from the first.                                                         *)
(*                                                                         *)
(* Adds, removes, mounts and waves reach the task through one bounded      *)
(* channel, and the task waits while it serves a wave or a mount.          *)
(*                                                                         *)
(* The outbound lane of a hyperway is a task too, with the mailbox, the    *)
(* queue and the listener of module Hyperlane: the interchange waits for   *)
(* room in the mailbox, and so does the lane itself when its listener has  *)
(* hung up.  What nobody hangs up on is a queue here: the inbound lanes,   *)
(* whose listeners are the forwarders, and the lane to Home.               *)
(***************************************************************************)
EXTENDS Naturals, Sequences

CONSTANTS
    Conns,      \* connections, numbered in the order they knock
    Surfaces,   \* far ends other than Home
    SurfaceOf,  \* the surface a connection is for; several may share one
    MaxWaves,   \* bound: waves sent, by Home and by the connections together
    MaxUp,      \* bound: waves the connections send
    CallCap,    \* capacity of the interchange's channel      (code: 1024)
    MailCap,    \* capacity of a lane's mailbox               (code: 1024)
    QueueCap    \* waves a lane keeps for its next listener   (code: 1024)

ASSUME InterchangeAssumption ==
    /\ Conns \subseteq Nat \ {0}
    /\ Surfaces \subseteq STRING \ {"home", "none"}     \* names the model uses itself
    /\ SurfaceOf \in [Conns -> Surfaces]
    /\ MaxWaves \in Nat /\ MaxUp \in Nat
    /\ CallCap \in Nat \ {0} /\ MailCap \in Nat \ {0} /\ QueueCap \in Nat

\* Hyperways are named by the connection they were added for; those that stand
\* from the beginning are named by their surface.
Home        == [standing |-> "home", conn |-> 0]
Standing(s) == [standing |-> s, conn |-> 0]
Added(c)    == [standing |-> "no", conn |-> c]
Hyperways   == {Home} \union {Standing(s) : s \in Surfaces} \union {Added(c) : c \in Conns}
NoHyperway  == [standing |-> "none", conn |-> 0]
Nobody      == 0

\* Waves: the greeting of a mount, down from Home to a surface, up to Home.
Greeting   == [kind |-> "greet", no |-> 0, to |-> "conn"]
DownWaves  == [kind : {"down"}, no : 1 .. MaxWaves, to : Surfaces]
UpWaves    == [kind : {"up"}, no : 1 .. MaxUp, to : {"home"}]
Waves      == DownWaves \union UpWaves

\* What else is posted to a lane: its next listener, and word that one hung up.
ExtPost(c) == [kind |-> "ext", no |-> c, to |-> "conn"]
ResetExt   == [kind |-> "reset", no |-> 0, to |-> "conn"]
Posts      == Waves \union {ExtPost(c) : c \in Conns} \union {ResetExt}

\* HyperwayInterchangeCall.
Internal(c) == [call |-> "Internal", conn |-> c, wave |-> Greeting]
Remove(c)   == [call |-> "Remove", conn |-> c, wave |-> Greeting]
Mount(c)    == [call |-> "Mount", conn |-> c, wave |-> Greeting]
WaveCall(w) == [call |-> "Wave", conn |-> Nobody, wave |-> w]

VARIABLES
    gate,       \* "Interchange" or "Mount": the gate in front of the interchange
    calls,      \* the interchange's channel
    table,      \* per surface, and for "home": the hyperway, or NoHyperway
    task,       \* "recv", or the call it waits in: "route", "mount"
    current,    \* that call
    inbound,    \* per hyperway: waves on their way to the interchange
    mail,       \* per hyperway: the mailbox of its outbound lane
    queue,      \* per hyperway: waves the lane has taken and not handed over
    ear,        \* per hyperway: the connection the lane hands waves to, or Nobody
    requeueing, \* lanes between their ResetExt and the failed wave that follows it
    conn,       \* per connection: "idle", "added", "waiting", "live", "failed",
                \*                 "dropped", "removed"
    bound,      \* per connection: the hyperway its endpoint belongs to
    downs, ups, \* waves sent so far
    \* what happened, for the properties
    heard,      \* per connection: what was put in its channel, in order
    home,       \* what Home received, in order
    requeued    \* waves that went back to the mailbox after a failed hand-over

connVars == <<conn, bound, heard>>
outVars  == <<mail, queue, ear, requeueing, requeued>>
laneVars == <<inbound, outVars>>
taskVars == <<table, task, current>>
countVars == <<downs, ups>>
vars == <<gate, calls, taskVars, laneVars, connVars, home, countVars>>

Init ==
    /\ gate \in {"Interchange", "Mount"}
    /\ calls = <<>> /\ task = "recv" /\ current = WaveCall(Greeting)
    /\ table = [s \in Surfaces \union {"home"} |->
                  IF s = "home" THEN Home
                  ELSE IF gate = "Mount" THEN Standing(s) ELSE NoHyperway]
    /\ inbound = [h \in Hyperways |-> <<>>]
    /\ mail = [h \in Hyperways |-> <<>>] /\ queue = [h \in Hyperways |-> <<>>]
    /\ requeueing = {} /\ requeued = {}
    /\ ear = [h \in Hyperways |-> Nobody]
    /\ conn = [c \in Conns |-> "idle"] /\ bound = [c \in Conns |-> NoHyperway]
    /\ downs = 0 /\ ups = 0
    /\ heard = [c \in Conns |-> <<>>] /\ home = <<>>

Called(call) == Len(calls) < CallCap /\ calls' = Append(calls, call)

-----------------------------------------------------------------------------
(* The gates.                                                              *)

\* InterchangeGate::enter: the new hyperway is added ...
Enter(c) ==
    /\ gate = "Interchange" /\ conn[c] = "idle"
    /\ Called(Internal(c))
    /\ conn' = [conn EXCEPT ![c] = "added"]
    /\ UNCHANGED <<gate, taskVars, laneVars, bound, heard, home, countVars>>

\* (mutant) the gate mounts without waiting for the add
AskMount_Early(c) ==
    /\ conn[c] \in {"idle", "added"}
    /\ Called(Mount(c))
    /\ conn' = [conn EXCEPT ![c] = "waiting"]
    /\ UNCHANGED <<gate, taskVars, laneVars, bound, heard, home, countVars>>

\* ... and then mounted; a MountInterchangeGate only mounts.
AskMount(c) ==
    /\ conn[c] = IF gate = "Interchange" THEN "added" ELSE "idle"
    /\ Called(Mount(c))
    /\ conn' = [conn EXCEPT ![c] = "waiting"]
    /\ UNCHANGED <<gate, taskVars, laneVars, bound, heard, home, countVars>>

\* The endpoint is dropped.
Drop(c) ==
    /\ conn[c] = "live"
    /\ conn' = [conn EXCEPT ![c] = "dropped"]
    /\ UNCHANGED <<gate, calls, taskVars, laneVars, bound, heard, home, countVars>>

\* (mutant) the removal is not tied to the drop
AskRemove_AtOnce(c) ==
    /\ gate = "Interchange" /\ conn[c] \in {"live", "dropped"}
    /\ Called(Remove(c))
    /\ conn' = [conn EXCEPT ![c] = IF @ = "dropped" THEN "removed" ELSE @]
    /\ UNCHANGED <<gate, taskVars, laneVars, bound, heard, home, countVars>>

\* drop_rx fires and a task asks for the removal of the endpoint's surface.
AskRemove(c) ==
    /\ gate = "Interchange" /\ conn[c] = "dropped"
    /\ Called(Remove(c))
    /\ conn' = [conn EXCEPT ![c] = "removed"]
    /\ UNCHANGED <<gate, taskVars, laneVars, bound, heard, home, countVars>>

-----------------------------------------------------------------------------
(* Waves on the inbound lanes.                                             *)

\* Home addresses a surface.
SendDown(s) ==
    /\ downs + ups < MaxWaves /\ downs' = downs + 1
    /\ inbound' = [inbound EXCEPT ![Home] =
                     Append(@, [kind |-> "down", no |-> downs', to |-> s])]
    /\ UNCHANGED <<gate, calls, taskVars, outVars, connVars, home, ups>>

\* Whatever a connection addresses, singular_to makes it Home.
SendUp(c) ==
    /\ conn[c] = "live"
    /\ ups < MaxUp /\ downs + ups < MaxWaves /\ ups' = ups + 1
    /\ inbound' = [inbound EXCEPT ![bound[c]] =
                     Append(@, [kind |-> "up", no |-> ups', to |-> "home"])]
    /\ UNCHANGED <<gate, calls, taskVars, outVars, connVars, home, downs>>

\* The forwarder of a hyperway; it outlives the hyperway's place in the table.
Forward(h) ==
    /\ inbound[h] /= <<>>
    /\ Called(WaveCall(Head(inbound[h])))
    /\ inbound' = [inbound EXCEPT ![h] = Tail(@)]
    /\ UNCHANGED <<gate, taskVars, outVars, connVars, home, countVars>>

\* (mutant) the wave is tried again, behind those that came after it
ForwardTimeout_Requeues(h) ==
    /\ inbound[h] /= <<>> /\ Len(calls) = CallCap
    /\ inbound' = [inbound EXCEPT ![h] = Append(Tail(@), Head(@))]
    /\ UNCHANGED <<gate, calls, taskVars, outVars, connVars, home, countVars>>

\* send_timeout: after 60 seconds of a full channel the wave is given up.
ForwardTimeout(h) ==
    /\ inbound[h] /= <<>> /\ Len(calls) = CallCap
    /\ inbound' = [inbound EXCEPT ![h] = Tail(@)]
    /\ UNCHANGED <<gate, calls, taskVars, outVars, connVars, home, countVars>>

-----------------------------------------------------------------------------
(* The interchange's task.                                                 *)

Taking(kind) ==
    /\ task = "recv" /\ calls /= <<>> /\ Head(calls).call = kind
    /\ calls' = Tail(calls)

TakeInternal ==
    LET c == Head(calls).conn IN
    /\ Taking("Internal")
    /\ table' = [table EXCEPT ![SurfaceOf[c]] = Added(c)]
    /\ UNCHANGED <<gate, task, current, laneVars, connVars, home, countVars>>

\* Remove names a surface: whatever hyperway is there now goes.
TakeRemove ==
    LET c == Head(calls).conn IN
    /\ Taking("Remove")
    /\ table' = [table EXCEPT ![SurfaceOf[c]] = NoHyperway]
    /\ UNCHANGED <<gate, task, current, laneVars, connVars, home, countVars>>

\* A wave for a surface that is not in the table goes nowhere.
TakeWave ==
    /\ Taking("Wave")
    /\ IF table[Head(calls).wave.to] = NoHyperway
       THEN UNCHANGED <<task, current>>
       ELSE task' = "route" /\ current' = Head(calls)
    /\ UNCHANGED <<gate, table, laneVars, connVars, home, countVars>>

TakeMount ==
    LET c == Head(calls).conn IN
    /\ Taking("Mount")
    /\ IF table[SurfaceOf[c]] = NoHyperway
       THEN conn' = [conn EXCEPT ![c] = "failed"] /\ UNCHANGED <<task, current>>
       ELSE task' = "mount" /\ current' = Head(calls) /\ UNCHANGED conn
    /\ UNCHANGED <<gate, table, laneVars, bound, heard, home, countVars>>

HasRoom(h) == Len(mail[h]) < MailCap
Posted(h, post) == HasRoom(h) /\ mail' = [mail EXCEPT ![h] = Append(@, post)]

Target == table[current.wave.to]

\* hyperway.outbound.send(wave).await ...
Route ==
    /\ task = "route" /\ Posted(Target, current.wave)
    /\ task' = "recv"
    /\ UNCHANGED <<gate, calls, table, current, inbound, queue, ear, requeueing, requeued,
                   connVars, home, countVars>>

\* (mutant) the task waits for as long as the mailbox is full
RouteTimeout_Never == FALSE /\ UNCHANGED vars

\* ... for at most 5 seconds.
RouteTimeout ==
    /\ task = "route" /\ ~HasRoom(Target)
    /\ task' = "recv"
    /\ UNCHANGED <<gate, calls, table, current, laneVars, connVars, home, countVars>>

\* hyperway_endpoint_far(init_wave).await: the greeting goes into the new channel,
\* and the channel to the lane, for whose mailbox it waits without a limit.
Mounted ==
    LET c == current.conn
        h == table[SurfaceOf[c]]
    IN  /\ task = "mount" /\ Posted(h, ExtPost(c))
        /\ bound' = [bound EXCEPT ![c] = h]
        /\ heard' = [heard EXCEPT ![c] = <<Greeting>>]
        /\ conn' = [conn EXCEPT ![c] = "live"]
        /\ task' = "recv"
        /\ UNCHANGED <<gate, calls, table, current, inbound, queue, ear, requeueing,
                       requeued, home, countVars>>

Task == TakeInternal \/ TakeRemove \/ TakeWave \/ TakeMount \/ Route \/ Mounted

-----------------------------------------------------------------------------
(* The lanes' tasks.                                                       *)

\* A lane that has waves and a listener hands the waves over before it takes
\* anything from its mailbox.
Busy(h) == queue[h] /= <<>> /\ ear[h] /= Nobody

LaneTakes(h) ==
    /\ h /= Home /\ ~Busy(h) /\ mail[h] /= <<>>
    /\ mail' = [mail EXCEPT ![h] = Tail(@)]

\* while queue.len() > QueueCap { queue.remove(0) }: it is never longer by two.
Trimmed(q) == IF Len(q) > QueueCap THEN Tail(q) ELSE q

LaneTakesWave(h) ==
    /\ LaneTakes(h) /\ Head(mail[h]) \in Waves
    /\ queue' = [queue EXCEPT ![h] = Append(Trimmed(@), Head(mail[h]))]
    /\ UNCHANGED <<gate, calls, taskVars, inbound, ear, requeueing, requeued, connVars, home,
                   countVars>>

\* A new listener replaces whoever had the lane.
LaneTakesExt(h) ==
    /\ LaneTakes(h) /\ Head(mail[h]).kind = "ext"
    /\ ear' = [ear EXCEPT ![h] = Head(mail[h]).no]
    /\ UNCHANGED <<gate, calls, taskVars, inbound, queue, requeueing, requeued, connVars, home,
                   countVars>>

\* ResetExt says that A listener hung up, and unseats whoever listens by now.
LaneTakesReset(h) ==
    /\ LaneTakes(h) /\ Head(mail[h]) = ResetExt
    /\ ear' = [ear EXCEPT ![h] = Nobody]
    /\ UNCHANGED <<gate, calls, taskVars, inbound, queue, requeueing, requeued, connVars, home,
                   countVars>>

Gone(c) == conn[c] \in {"dropped", "removed"}

\* ext_tx.send(wave).await; it may take for ever while the listener does not receive.
HandOver(h) ==
    /\ Busy(h) /\ h \notin requeueing /\ ~Gone(ear[h])
    /\ heard' = [heard EXCEPT ![ear[h]] = Append(@, Head(queue[h]))]
    /\ queue' = [queue EXCEPT ![h] = Tail(@)]
    /\ UNCHANGED <<gate, calls, taskVars, inbound, mail, ear, requeueing, requeued, conn, bound,
                   home, countVars>>

\* It fails: the lane waits for room for a ResetExt in its own mailbox ...
HandOverFails(h) ==
    /\ Busy(h) /\ h \notin requeueing /\ Gone(ear[h]) /\ Posted(h, ResetExt)
    /\ requeueing' = requeueing \union {h}
    /\ UNCHANGED <<gate, calls, taskVars, inbound, queue, ear, requeued, connVars, home,
                   countVars>>

\* ... and tries to put the wave behind it: behind everything posted by then.
Requeue(h) ==
    /\ h \in requeueing /\ requeueing' = requeueing \ {h}
    /\ \/ Posted(h, Head(queue[h])) /\ requeued' = requeued \union {Head(queue[h])}
       \/ ~HasRoom(h) /\ UNCHANGED <<mail, requeued>>
    /\ queue' = [queue EXCEPT ![h] = Tail(@)]
    /\ UNCHANGED <<gate, calls, taskVars, inbound, ear, connVars, home, countVars>>

Lane(h) == LaneTakesWave(h) \/ LaneTakesExt(h) \/ LaneTakesReset(h)
           \/ HandOverFails(h) \/ Requeue(h)

\* Home's endpoint is never dropped.
HandOverHome ==
    /\ mail[Home] /= <<>>
    /\ home' = Append(home, Head(mail[Home]))
    /\ mail' = [mail EXCEPT ![Home] = Tail(@)]
    /\ UNCHANGED <<gate, calls, taskVars, inbound, queue, ear, requeueing, requeued, connVars,
                   countVars>>

Next ==
    \/ Task \/ RouteTimeout \/ HandOverHome
    \/ \E c \in Conns : \/ Enter(c) \/ AskMount(c) \/ Drop(c) \/ AskRemove(c)
                        \/ SendUp(c)
    \/ \E s \in Surfaces : SendDown(s)
    \/ \E h \in Hyperways : Forward(h) \/ ForwardTimeout(h) \/ Lane(h) \/ HandOver(h)

Spec == Init /\ [][Next]_vars

\* The interchange's task and the lanes' tasks run, and the timer fires.  Nothing
\* obliges a connection to knock, to send, to drop its endpoint or to RECEIVE,
\* so a hand-over may never succeed.
FairSpec ==
    /\ Spec
    /\ WF_vars(Task \/ RouteTimeout)
    /\ \A h \in Hyperways \ {Home} : WF_vars(Lane(h))

-----------------------------------------------------------------------------
(* Properties.                                                             *)

CallTypes == [call : {"Internal", "Remove", "Mount"}, conn : Conns, wave : {Greeting}]
             \union [call : {"Wave"}, conn : {Nobody}, wave : Waves]

InSeq(s) == {s[i] : i \in DOMAIN s}

\* Types, capacities, and what a waiting task relies on.
TypeOK ==
    /\ gate \in {"Interchange", "Mount"}
    /\ calls \in Seq(CallTypes) /\ Len(calls) <= CallCap
    /\ table \in [Surfaces \union {"home"} -> Hyperways \union {NoHyperway}]
    /\ \A s \in Surfaces : table[s] /= Home
    /\ task \in {"recv", "route", "mount"}
    /\ current \in CallTypes \union {WaveCall(Greeting)}
    /\ task = "route" => current.wave \in Waves /\ Target /= NoHyperway
    /\ task = "mount" => /\ current.call = "Mount" /\ conn[current.conn] = "waiting"
                         /\ table[SurfaceOf[current.conn]] /= NoHyperway
    /\ inbound \in [Hyperways -> Seq(Waves)]
    /\ mail \in [Hyperways -> Seq(Posts)] /\ queue \in [Hyperways -> Seq(Waves)]
    /\ \A h \in Hyperways : Len(mail[h]) <= MailCap /\ Len(queue[h]) <= QueueCap + 1
    /\ InSeq(mail[Home]) \subseteq Waves /\ queue[Home] = <<>>
    /\ requeueing \subseteq {h \in Hyperways \ {Home} : Busy(h)} /\ requeued \subseteq Waves
    /\ ear \in [Hyperways -> Conns \union {Nobody}]
    /\ conn \in [Conns -> {"idle", "added", "waiting", "live", "failed", "dropped",
                           "removed"}]
    /\ bound \in [Conns -> Hyperways \union {NoHyperway}]
    /\ downs \in 0 .. MaxWaves /\ ups \in 0 .. MaxUp /\ downs + ups <= MaxWaves
    /\ heard \in [Conns -> Seq(Waves \union {Greeting})] /\ home \in Seq(Waves)

Rivals(c) == {d \in Conns \ {c} : SurfaceOf[d] = SurfaceOf[c]}

\* A connection that is up can be reached: its surface is routed, unless ANOTHER
\* endpoint for the same surface has been dropped (its Remove names the surface
\* and takes down whatever is there).
LiveIsRouted ==
    \A c \in Conns :
        conn[c] = "live" /\ table[SurfaceOf[c]] = NoHyperway
        => \E d \in Rivals(c) : conn[d] \in {"dropped", "removed"}

\* A mount finds its hyperway (the add went before it), with the same exception.
MountFindsHyperway ==
    \A c \in Conns :
        conn[c] = "failed" => \E d \in Rivals(c) : conn[d] \in {"dropped", "removed"}

\* What a connection hears is for its surface, in the order Home sent it but for
\* waves that were requeued, and no wave is heard twice, by one connection or by
\* two, nor by Home.
HeardInOrder ==
    /\ \A c \in Conns :
          /\ \A i \in DOMAIN heard[c] : heard[c][i].to \in {SurfaceOf[c], "conn"}
          /\ \A i, j \in DOMAIN heard[c] : i < j =>
                /\ heard[c][i] /= heard[c][j]
                /\ \/ heard[c][i].no < heard[c][j].no
                   \/ heard[c][i] \in requeued \/ heard[c][j] \in requeued
          /\ \A d \in Conns \ {c} : InSeq(heard[c]) \intersect InSeq(heard[d])
                                     \subseteq {Greeting}
    /\ \A i, j \in DOMAIN home : home[i] = home[j] => i = j

\* A lane that waits for room in the mailbox that only it empties, for ever.
WaitsForItself(h) ==
    Busy(h) /\ Gone(ear[h]) /\ h \notin requeueing /\ ~HasRoom(h)

\* The interchange serves the next call however the listeners behave, when it waits
\* in a wave; when it waits in a mount, only if listeners keep receiving, and even
\* then not when the lane it mounts waits for itself.
KeepsServing ==
    /\ task = "route" ~> task = "recv"
    /\ (\A h \in Hyperways \ {Home} : WF_vars(HandOver(h)))
       => (task = "mount" ~> \/ task = "recv"
                             \/ task = "mount" /\ WaitsForItself(table[SurfaceOf[current.conn]]))

=============================================================================
