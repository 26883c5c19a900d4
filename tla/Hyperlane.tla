------------------------------ MODULE Hyperlane ------------------------------
(***************************************************************************)
(* A Hyperlane (hyperspace/src/hyperlane/mod.rs) is a task that buffers    *)
(* waves travelling in one direction of a Hyperway until somebody listens. *)
(* Everything reaches it through one bounded mailbox: waves, a new         *)
(* listener (Ext), transforms, and the ResetExt the lane posts to ITSELF   *)
(* when handing a wave to its listener fails.                              *)
(*                                                                         *)
(* The listener is the receiving half of a channel made by rx(): it can be *)
(* dropped at any moment (a client that disconnects) and a new one can be  *)
(* opened before the lane has noticed.  The lane has the one sender of the *)
(* channel: when it forgets a listener, the channel ends.  Every suspension*)
(* point of the task is a value of pc, so that producers and listeners     *)
(* interleave with it.                                                     *)
(***************************************************************************)
EXTENDS Naturals, Sequences

CONSTANTS
    MaxWaves,     \* bound: waves sent during a behaviour
    Listeners,    \* the listeners rx() may create, 1 .. n in the order of creation
    Transforms,   \* the transforms posted before the lane is shared (a sequence)
    MailboxCap,   \* capacity of the lane's mailbox               (code: 1024)
    QueueCap,     \* waves kept while nobody listens              (code: 1024)
    ChanCap,      \* capacity of a listener's channel             (code: 1024)
    RelayCap      \* capacity of the channel in front of tx()     (code: 1024)

ASSUME CapsAssumption ==
    /\ MaxWaves \in Nat
    /\ Listeners \subseteq Nat \ {0}
    /\ Transforms \in Seq(STRING)
    /\ MailboxCap \in Nat \ {0} /\ Len(Transforms) <= MailboxCap
    /\ QueueCap \in Nat /\ ChanCap \in Nat \ {0} /\ RelayCap \in Nat \ {0}

Waves    == 1 .. MaxWaves
Greeting == 0            \* the init_wave that rx() puts in a new channel
NoExt    == 0            \* ext = None

\* HyperlaneCall.  Drain has a handler and no sender, so it is left out.
WaveCall(w)      == [call |-> "Wave",      arg |-> w]
ExtCall(c)       == [call |-> "Ext",       arg |-> c]
ResetExtCall     == [call |-> "ResetExt",  arg |-> 0]
TransformCall(t) == [call |-> "Transform", arg |-> t]

VARIABLES
    mailbox,    \* mpsc channel of HyperlaneCall
    ext,        \* the listener installed by the last Ext, or NoExt
    queue,      \* waves not handed over yet; drained from its head
    transforms, \* the installed transforms, in order
    pc,         \* where the task is suspended
    chan,       \* per listener: waves sent to it and not received
    listener,   \* per listener: "unborn", "posting", "live", "gone" (it hung up),
                \*               "ended" (it read the end of its channel)
    relay,      \* channel between tx() and the mailbox
    sent,       \* number of waves handed to send() or tx() so far
    stamps,     \* per wave: the transforms it has been through
    \* what happened, for the properties
    got,        \* per listener: what it received, in order
    path,       \* per wave: "send" or "tx", how it came in
    lost,       \* per wave: why the lane gave it up, or "no"
    requeued    \* waves that went back to the mailbox after a failed hand-over

laneVars == <<mailbox, ext, queue, transforms, pc>>
endVars  == <<chan, listener, got>>
waveVars == <<relay, sent, path>>
histVars == <<stamps, lost, requeued>>
vars     == <<laneVars, endVars, waveVars, histVars>>

MailboxHasRoom == Len(mailbox) < MailboxCap

\* Hyperway::new and the configurators post their transforms with try_send
\* before the lane is given to an interchange, so they are first in the mailbox.
Init ==
    /\ mailbox = [i \in 1 .. Len(Transforms) |-> TransformCall(Transforms[i])]
    /\ ext = NoExt /\ queue = <<>> /\ transforms = <<>> /\ pc = "recv"
    /\ chan = [c \in Listeners |-> <<>>]
    /\ listener = [c \in Listeners |-> "unborn"]
    /\ got = [c \in Listeners |-> <<>>]
    /\ relay = <<>> /\ sent = 0
    /\ path = [w \in Waves |-> "unsent"]
    /\ stamps = [w \in Waves |-> <<>>]
    /\ lost = [w \in Waves |-> "no"]
    /\ requeued = {}

-----------------------------------------------------------------------------
(* Producers.                                                              *)

\* Hyperlane::send: the interchange's way in.
Send ==
    /\ sent < MaxWaves /\ MailboxHasRoom
    /\ sent' = sent + 1
    /\ path' = [path EXCEPT ![sent'] = "send"]
    /\ mailbox' = Append(mailbox, WaveCall(sent'))
    /\ UNCHANGED <<ext, queue, transforms, pc, endVars, relay, histVars>>

\* send_timeout gives the wave up when the mailbox stays full for 5 seconds.
SendTimeout ==
    /\ sent < MaxWaves /\ ~MailboxHasRoom
    /\ sent' = sent + 1
    /\ path' = [path EXCEPT ![sent'] = "send"]
    /\ lost' = [lost EXCEPT ![sent'] = "refused"]
    /\ UNCHANGED <<laneVars, endVars, relay, stamps, requeued>>

\* An endpoint's tx: a channel of its own, forwarded by a task of its own.
TxSend ==
    /\ sent < MaxWaves /\ Len(relay) < RelayCap
    /\ sent' = sent + 1
    /\ path' = [path EXCEPT ![sent'] = "tx"]
    /\ relay' = Append(relay, sent')
    /\ UNCHANGED <<laneVars, endVars, histVars>>

TxForward ==
    /\ relay /= <<>> /\ MailboxHasRoom
    /\ mailbox' = Append(mailbox, WaveCall(Head(relay)))
    /\ relay' = Tail(relay)
    /\ UNCHANGED <<ext, queue, transforms, pc, endVars, sent, path, histVars>>

-----------------------------------------------------------------------------
(* Listeners: rx() and the fate of the receiver it returns.                *)

MayOpen(c) == /\ listener[c] = "unborn"
              /\ \A d \in Listeners : d < c => listener[d] /= "unborn"

\* (mutant) the init wave is sent through the lane like any other wave
Open_GreetsThroughLane(c) ==
    /\ MayOpen(c)
    /\ MailboxHasRoom /\ mailbox' = Append(mailbox, WaveCall(Greeting))
    /\ listener' = [listener EXCEPT ![c] = "posting"]
    /\ UNCHANGED <<ext, queue, transforms, pc, chan, got, waveVars, histVars>>

\* rx(init_wave): the init wave goes into the fresh channel first.
Open(c) ==
    /\ MayOpen(c)
    /\ \E init \in {<<>>, <<Greeting>>} : chan' = [chan EXCEPT ![c] = init]
    /\ listener' = [listener EXCEPT ![c] = "posting"]
    /\ UNCHANGED <<laneVars, got, waveVars, histVars>>

\* ... and then the sender is posted to the lane, waiting for room.
PostExt(c) ==
    /\ listener[c] = "posting" /\ MailboxHasRoom
    /\ mailbox' = Append(mailbox, ExtCall(c))
    /\ listener' = [listener EXCEPT ![c] = "live"]
    /\ UNCHANGED <<ext, queue, transforms, pc, chan, got, waveVars, histVars>>

Receive(c) ==
    /\ listener[c] = "live" /\ chan[c] /= <<>>
    /\ got' = [got EXCEPT ![c] = Append(@, Head(chan[c]))]
    /\ chan' = [chan EXCEPT ![c] = Tail(@)]
    /\ UNCHANGED <<laneVars, listener, waveVars, histVars>>

InSeq(s) == {s[i] : i \in DOMAIN s}

\* The receiver is dropped; what it had not received goes with it.
DropListener(c) ==
    /\ listener[c] = "live"
    /\ listener' = [listener EXCEPT ![c] = "gone"]
    /\ lost' = [w \in Waves |-> IF w \in InSeq(chan[c]) THEN "dropped" ELSE lost[w]]
    /\ chan' = [chan EXCEPT ![c] = <<>>]
    /\ UNCHANGED <<laneVars, got, waveVars, stamps, requeued>>

\* The one sender of a listener's channel: in rx(), on its way in an Ext, or ext.
HasSender(c) == \/ listener[c] = "posting" \/ ext = c
                \/ \E i \in DOMAIN mailbox : mailbox[i] = ExtCall(c)

\* ext.replace() or ext = None dropped the sender: what is in the channel can still be
\* received, and then recv() yields None and the listener is over.
ReadEnd(c) ==
    /\ listener[c] = "live" /\ chan[c] = <<>> /\ ~HasSender(c)
    /\ listener' = [listener EXCEPT ![c] = "ended"]
    /\ UNCHANGED <<laneVars, chan, got, waveVars, histVars>>

-----------------------------------------------------------------------------
(* The lane's task.  After EVERY call it drains the queue if it has a      *)
(* listener; NextPc says whether it does.                                  *)

\* (mutant) only a new wave drains the queue
TakeExt_NoDrain ==
    /\ pc = "recv" /\ mailbox /= <<>> /\ Head(mailbox).call = "Ext"
    /\ mailbox' = Tail(mailbox)
    /\ ext' = Head(mailbox).arg
    /\ UNCHANGED <<queue, transforms, pc, endVars, waveVars, histVars>>

NextPc(q, e) == IF q /= <<>> /\ e /= NoExt THEN "drain" ELSE "recv"

Receiving(kind) ==
    /\ pc = "recv" /\ mailbox /= <<>> /\ Head(mailbox).call = kind
    /\ mailbox' = Tail(mailbox)

\* The listener before, if there was one, loses its sender here.
TakeExt ==
    /\ Receiving("Ext")
    /\ ext' = Head(mailbox).arg
    /\ pc' = NextPc(queue, ext')
    /\ UNCHANGED <<queue, transforms, endVars, waveVars, histVars>>

\* So does whoever is the listener by now, the failed one or one that came after it.
TakeResetExt ==
    /\ Receiving("ResetExt")
    /\ ext' = NoExt
    /\ UNCHANGED <<queue, transforms, pc, endVars, waveVars, histVars>>

TakeTransform ==
    /\ Receiving("Transform")
    /\ transforms' = Append(transforms, Head(mailbox).arg)
    /\ pc' = NextPc(queue, ext)
    /\ UNCHANGED <<ext, queue, endVars, waveVars, histVars>>

\* while queue.len() > QueueCap { queue.remove(0) }
Excess == IF Len(queue) > QueueCap THEN Len(queue) - QueueCap ELSE 0

\* Every installed transform filters the wave, in the order of installation.
Filtered(w) == stamps[w] \o transforms

\* (mutant) the newest wave goes first
Pushed_Front(q, w) == <<w>> \o q

Pushed(q, w) == Append(q, w)

TakeWave ==
    LET w == Head(mailbox).arg IN
    /\ Receiving("Wave")
    /\ lost' = [v \in Waves |->
                  IF v \in InSeq(SubSeq(queue, 1, Excess)) THEN "overflow" ELSE lost[v]]
    /\ stamps' = [stamps EXCEPT ![w] = Filtered(w)]
    /\ queue' = Pushed(SubSeq(queue, Excess + 1, Len(queue)), w)
    /\ pc' = NextPc(queue', ext)
    /\ UNCHANGED <<ext, transforms, endVars, waveVars, requeued>>

\* (mutant) the loop reads the queue without draining it
Drained_Kept == queue

\* queue.drain(..) has yielded its first wave
Drained == Tail(queue)

\* ext_tx.send(wave).await succeeds: the listener is there and has room.
HandOver ==
    /\ pc = "drain" /\ listener[ext] /= "gone" /\ Len(chan[ext]) < ChanCap
    /\ chan' = [chan EXCEPT ![ext] = Append(@, Head(queue))]
    /\ queue' = Drained
    /\ pc' = NextPc(queue', ext)
    /\ UNCHANGED <<mailbox, ext, transforms, listener, got, waveVars, histVars>>

\* It fails: the lane must first get a ResetExt into its own mailbox ...
HandOverFails ==
    /\ pc = "drain" /\ listener[ext] = "gone"
    /\ pc' = "reset"
    /\ UNCHANGED <<mailbox, ext, queue, transforms, endVars, waveVars, histVars>>

PostResetExt ==
    /\ pc = "reset" /\ MailboxHasRoom
    /\ mailbox' = Append(mailbox, ResetExtCall)
    /\ pc' = "requeue"
    /\ UNCHANGED <<ext, queue, transforms, endVars, waveVars, histVars>>

\* (mutant) the wave waits for room in the mailbox as well
Requeue_Waits ==
    /\ pc = "requeue" /\ MailboxHasRoom
    /\ mailbox' = Append(mailbox, WaveCall(Head(queue)))
    /\ requeued' = requeued \union {Head(queue)}
    /\ queue' = Drained
    /\ pc' = NextPc(queue', ext)
    /\ UNCHANGED <<ext, transforms, endVars, waveVars, stamps, lost>>

\* ... and then tries, without waiting, to get the wave back in behind it.
Requeue ==
    LET w == Head(queue) IN
    /\ pc = "requeue"
    /\ queue' = Drained
    /\ pc' = NextPc(queue', ext)
    /\ \/ /\ MailboxHasRoom
          /\ mailbox' = Append(mailbox, WaveCall(w))
          /\ requeued' = requeued \union {w}
          /\ UNCHANGED lost
       \/ /\ ~MailboxHasRoom
          /\ lost' = [lost EXCEPT ![w] = "full"]
          /\ UNCHANGED <<mailbox, requeued>>
    /\ UNCHANGED <<ext, transforms, endVars, waveVars, stamps>>

-----------------------------------------------------------------------------
Task == \/ TakeExt \/ TakeResetExt \/ TakeTransform \/ TakeWave
        \/ HandOver \/ HandOverFails \/ PostResetExt \/ Requeue

Next ==
    \/ Task
    \/ Send \/ SendTimeout \/ TxSend \/ TxForward
    \/ \E c \in Listeners : \/ Open(c) \/ PostExt(c) \/ Receive(c)
                             \/ DropListener(c) \/ ReadEnd(c)

Spec == Init /\ [][Next]_vars

\* tokio runs every task that can make progress, and a listener that is kept
\* keeps receiving; nobody is obliged to send, to listen or to hang up.
FairSpec ==
    /\ Spec
    /\ WF_vars(Task) /\ WF_vars(TxForward)
    /\ \A c \in Listeners : /\ WF_vars(PostExt(c))
                           /\ WF_vars(Receive(c)) /\ WF_vars(ReadEnd(c))

-----------------------------------------------------------------------------
(* Properties.                                                             *)

Calls == [call : {"Wave"}, arg : Waves] \union [call : {"Ext"}, arg : Listeners]
         \union [call : {"ResetExt"}, arg : {0}]
         \union [call : {"Transform"}, arg : STRING]

\* The types, and the capacities the code means to keep: the mailbox and the
\* channels are bounded, and the queue of a lane nobody listens to stops
\* growing at one wave more than the limit it is trimmed to.
TypeOK ==
    /\ mailbox \in Seq(Calls) /\ Len(mailbox) <= MailboxCap
    /\ ext \in Listeners \union {NoExt}
    /\ queue \in Seq(Waves) /\ Len(queue) <= QueueCap + 1
    /\ transforms \in Seq(STRING)
    /\ pc \in {"recv", "drain", "reset", "requeue"}
    /\ pc /= "recv" => queue /= <<>> /\ ext /= NoExt
    /\ chan \in [Listeners -> Seq(Waves \union {Greeting})]
    /\ \A c \in Listeners : Len(chan[c]) <= ChanCap
    /\ listener \in [Listeners -> {"unborn", "posting", "live", "gone", "ended"}]
    /\ relay \in Seq(Waves) /\ Len(relay) <= RelayCap
    /\ sent \in 0 .. MaxWaves
    /\ stamps \in [Waves -> Seq(STRING)]
    /\ got \in [Listeners -> Seq(Waves \union {Greeting})]
    /\ path \in [Waves -> {"unsent", "send", "tx"}]
    /\ lost \in [Waves -> {"no", "refused", "overflow", "dropped", "full"}]
    /\ requeued \subseteq Waves

\* The places a wave can be in.
Mailed    == {w \in Waves : \E i \in DOMAIN mailbox : mailbox[i] = WaveCall(w)}
Lost      == {w \in Waves : lost[w] /= "no"}
Holders   == {"relay", "mailbox", "queue", "lost"} \X {0} \union {"chan", "got"} \X Listeners
At(h) == CASE h[1] = "relay"   -> InSeq(relay)
           [] h[1] = "mailbox" -> Mailed
           [] h[1] = "queue"   -> InSeq(queue)
           [] h[1] = "lost"    -> Lost
           [] h[1] = "chan"    -> InSeq(chan[h[2]])
           [] h[1] = "got"     -> InSeq(got[h[2]])

Distinct(s) == \A i, j \in DOMAIN s : s[i] = s[j] => i = j

\* No wave is duplicated and none vanishes: across failed hand-overs, requeues,
\* new listeners and dropped ones, a wave that was sent is in exactly one place,
\* once, and a wave the lane gave up is accounted for by the reason it did.
OnePlace ==
    /\ \A w \in Waves : w <= sent => \E h \in Holders : w \in At(h)
    /\ \A g, h \in Holders : g /= h => At(g) \intersect At(h) \subseteq {Greeting}
    /\ Distinct(relay) /\ Distinct(queue)
    /\ \A i, j \in DOMAIN mailbox :
          mailbox[i] = mailbox[j] /\ mailbox[i].call = "Wave" => i = j
    /\ \A c \in Listeners : Distinct(chan[c]) /\ Distinct(got[c])

Handed(c) == got[c] \o chan[c]

\* Two waves that came in the same way reach a listener in the order they were
\* sent, unless the lane put one of them back after a hand-over that failed.
InOrderUnlessRequeued ==
    \A c \in Listeners : \A i, j \in DOMAIN Handed(c) :
        LET v == Handed(c)[i]
            w == Handed(c)[j]
        IN  /\ i < j /\ v /= Greeting /\ w /= Greeting
            /\ path[v] = path[w] /\ {v, w} \intersect requeued = {}
            => v < w

\* Nothing reaches a listener before it went through every transform the lane
\* was set up with (the sender's surface and agent are stamped this way).
Complete(s) ==
    /\ Len(s) >= Len(Transforms)
    /\ \A i \in 1 .. Len(Transforms) : s[i] = Transforms[i]

Stamped ==
    \A c \in Listeners : \A w \in InSeq(Handed(c)) \ {Greeting} : Complete(stamps[w])

\* A greeting is the first thing its listener can receive, however many waves
\* were waiting in the lane when the listener was opened (HyperClient treats
\* anything else in first place as fatal).
GreetingFirst ==
    \A c \in Listeners : \A i \in DOMAIN Handed(c) :
        Handed(c)[i] = Greeting => i = 1

Live     == {c \in Listeners : listener[c] = "live"}
HungUp   == \E c \in Listeners : listener[c] = "gone"
Received == UNION {InSeq(got[c]) : c \in Listeners}

\* As long as no listener has hung up, having a listener is enough: every wave
\* sent is received or dropped by the limit on the queue, those queued before
\* the first listener included.
DeliveredUnlessHungUp ==
    \A w \in Waves : (w <= sent /\ Live /= {}) ~> (w \in Received \union Lost \/ HungUp)

\* The newest listener is live and the ones before it are over.
OnlyNewestLive ==
    \E c \in Live : /\ \A d \in Listeners : d < c => listener[d] \in {"gone", "ended"}
                   /\ \A d \in Listeners : d > c => listener[d] = "unborn"

\* The lane waits for room in a mailbox that only it empties.
WaitsForItself == pc = "reset" /\ ~MailboxHasRoom

\* However many listeners hung up before, and whatever ResetExt they left behind: if
\* from some moment on one listener stays, the newest, then every wave sent is received
\* or lost for a reason; only the lane that waits for itself keeps it.  A stale ResetExt
\* cannot starve a listener silently, it ends the listener's channel.
DeliveredToWhoStays ==
    <>[]OnlyNewestLive =>
        \A w \in Waves : (w <= sent) ~> (w \in Received \union Lost \/ WaitsForItself)

\* What HandlingKind::Durable says of a wave ("Mesh will guarantee delivery
\* eventually once Request call has returned", space/src/wave.rs:3180), even
\* forgiving every loss the lane accounts for: if from some moment on the lane
\* has one listener, the newest, and it receives, no wave stays in the lane.
DurableDelivery ==
    <>[]OnlyNewestLive => \A w \in Waves : (w <= sent) ~> (w \in Received \union Lost)

=============================================================================
