--------------------------- MODULE HyperlaneProofs ---------------------------
(***************************************************************************)
(* Proofs about a Hyperlane for any number of waves and listeners, any     *)
(* transforms and any capacities.                                          *)
(***************************************************************************)
EXTENDS Hyperlane, SequenceTheorems, TLAPS

\* A call at the head of the mailbox carries what its kind says.
LEMMA ReceivingTypes ==
    ASSUME TypeOK, NEW kind, Receiving(kind)
    PROVE  mailbox' \in Seq(Calls) /\ Len(mailbox') <= MailboxCap
<1>1. mailbox \in Seq(Calls) /\ mailbox /= <<>> /\ mailbox' = Tail(mailbox)
  BY DEF TypeOK, Receiving
<1>2. Tail(mailbox) \in Seq(Calls) /\ Len(Tail(mailbox)) = Len(mailbox) - 1 /\ Len(mailbox) \in Nat
  BY <1>1
<1> QED
  BY <1>1, <1>2, CapsAssumption DEF TypeOK

LEMMA ArgTypes ==
    ASSUME TypeOK
    PROVE  /\ Receiving("Wave")      => Head(mailbox).arg \in Waves
           /\ Receiving("Ext")       => Head(mailbox).arg \in Listeners
           /\ Receiving("Transform") => Head(mailbox).arg \in STRING
<1>1. mailbox /= <<>> => Head(mailbox) \in Calls
  BY DEF TypeOK
<1> QED
  BY <1>1 DEF Receiving, Calls

\* What is appended to the mailbox is a call, and there was room for it.
LEMMA PostedTypes ==
    ASSUME TypeOK, MailboxHasRoom, NEW call \in Calls, mailbox' = Append(mailbox, call)
    PROVE  mailbox' \in Seq(Calls) /\ Len(mailbox') <= MailboxCap
  BY CapsAssumption DEF TypeOK, MailboxHasRoom

LEMMA CallTypes ==
    /\ \A w \in Waves : WaveCall(w) \in Calls
    /\ \A c \in Listeners : ExtCall(c) \in Calls
    /\ \A t \in STRING : TransformCall(t) \in Calls
    /\ ResetExtCall \in Calls
  BY DEF WaveCall, ExtCall, TransformCall, ResetExtCall, Calls

LEMMA InitTypeOK == Init => TypeOK
<1> SUFFICES ASSUME Init PROVE TypeOK
  OBVIOUS
<1>1. mailbox \in Seq(Calls) /\ Len(mailbox) <= MailboxCap
  <2>1. \A i \in 1 .. Len(Transforms) : TransformCall(Transforms[i]) \in Calls
    <3>1. \A i \in 1 .. Len(Transforms) : Transforms[i] \in STRING
      BY CapsAssumption
    <3> QED
      BY <3>1, CallTypes
  <2> QED
    BY <2>1, CapsAssumption DEF Init
<1> QED
  BY <1>1, CapsAssumption DEF Init, TypeOK

LEMMA SendType == TypeOK /\ Send => TypeOK'
<1> SUFFICES ASSUME TypeOK, Send PROVE TypeOK'
  OBVIOUS
<1>1. sent' \in Waves
  BY CapsAssumption DEF TypeOK, Send, Waves
<1>2. mailbox' \in Seq(Calls) /\ Len(mailbox') <= MailboxCap
  BY <1>1, PostedTypes, CallTypes DEF Send
<1> QED
  BY <1>1, <1>2, SMTT(20) DEF TypeOK, Send, endVars, histVars, Waves

LEMMA SendTimeoutType == TypeOK /\ SendTimeout => TypeOK'
<1> SUFFICES ASSUME TypeOK, SendTimeout PROVE TypeOK'
  OBVIOUS
<1>1. sent' \in Waves
  BY CapsAssumption DEF TypeOK, SendTimeout, Waves
<1> QED
  BY <1>1 DEF TypeOK, SendTimeout, laneVars, endVars, Waves

LEMMA TxSendType == TypeOK /\ TxSend => TypeOK'
<1> SUFFICES ASSUME TypeOK, TxSend PROVE TypeOK'
  OBVIOUS
<1>1. sent' \in Waves
  BY CapsAssumption DEF TypeOK, TxSend, Waves
<1>2. relay' \in Seq(Waves) /\ Len(relay') <= RelayCap
  BY <1>1, CapsAssumption DEF TypeOK, TxSend
<1> QED
  BY <1>1, <1>2, SMTT(20) DEF TypeOK, TxSend, laneVars, endVars, histVars, Waves

LEMMA TxForwardType == TypeOK /\ TxForward => TypeOK'
<1> SUFFICES ASSUME TypeOK, TxForward PROVE TypeOK'
  OBVIOUS
<1>1. Head(relay) \in Waves /\ relay' \in Seq(Waves) /\ Len(relay') <= RelayCap
  BY CapsAssumption DEF TypeOK, TxForward
<1>2. mailbox' \in Seq(Calls) /\ Len(mailbox') <= MailboxCap
  BY <1>1, PostedTypes, CallTypes DEF TxForward
<1> QED
  BY <1>1, <1>2 DEF TypeOK, TxForward, endVars, histVars

LEMMA OpenType == ASSUME TypeOK, NEW c \in Listeners, Open(c) PROVE TypeOK'
<1>1. PICK init \in {<<>>, <<Greeting>>} : chan' = [chan EXCEPT ![c] = init]
  BY DEF Open
<1>2. init \in Seq(Waves \union {Greeting}) /\ Len(init) <= ChanCap
  <2>1. <<Greeting>> \in Seq(Waves \union {Greeting}) /\ Len(<<Greeting>>) = 1
    OBVIOUS
  <2>2. <<>> \in Seq(Waves \union {Greeting}) /\ Len(<<>>) = 0
    OBVIOUS
  <2>3. 0 <= ChanCap /\ 1 <= ChanCap
    BY CapsAssumption
  <2>4. init = <<>> \/ init = <<Greeting>>
    BY <1>1
  <2> QED
    BY <2>1, <2>2, <2>3, <2>4
<1>3. chan' \in [Listeners -> Seq(Waves \union {Greeting})]
      /\ \A d \in Listeners : Len(chan'[d]) <= ChanCap
  BY <1>1, <1>2 DEF TypeOK
<1> QED
  BY <1>3 DEF TypeOK, Open, laneVars, waveVars, histVars

LEMMA PostExtType == ASSUME TypeOK, NEW c \in Listeners, PostExt(c) PROVE TypeOK'
<1>1. mailbox' \in Seq(Calls) /\ Len(mailbox') <= MailboxCap
  BY PostedTypes, CallTypes DEF PostExt
<1> QED
  BY <1>1 DEF TypeOK, PostExt, waveVars, histVars

LEMMA ReceiveType == ASSUME TypeOK, NEW c \in Listeners, Receive(c) PROVE TypeOK'
<1>1. chan[c] \in Seq(Waves \union {Greeting}) /\ chan[c] /= <<>>
  BY DEF TypeOK, Receive
<1>2. /\ Head(chan[c]) \in Waves \union {Greeting}
      /\ Tail(chan[c]) \in Seq(Waves \union {Greeting})
      /\ Len(Tail(chan[c])) = Len(chan[c]) - 1
  BY <1>1
<1>3. Len(Tail(chan[c])) <= ChanCap
  BY <1>1, <1>2, CapsAssumption DEF TypeOK
<1>4. /\ chan' \in [Listeners -> Seq(Waves \union {Greeting})]
      /\ \A d \in Listeners : Len(chan'[d]) <= ChanCap
  BY <1>2, <1>3 DEF TypeOK, Receive
<1>5. got' \in [Listeners -> Seq(Waves \union {Greeting})]
  <2>1. Append(got[c], Head(chan[c])) \in Seq(Waves \union {Greeting})
    BY <1>2 DEF TypeOK
  <2> QED
    BY <2>1 DEF TypeOK, Receive
<1> QED
  BY <1>4, <1>5 DEF TypeOK, Receive, laneVars, waveVars, histVars

LEMMA DropType == ASSUME TypeOK, NEW c \in Listeners, DropListener(c) PROVE TypeOK'
<1>1. <<>> \in Seq(Waves \union {Greeting}) /\ Len(<<>>) <= ChanCap
  BY CapsAssumption
<1> QED
  BY <1>1 DEF TypeOK, DropListener, laneVars, waveVars

LEMMA ReadEndType == ASSUME TypeOK, NEW c \in Listeners, ReadEnd(c) PROVE TypeOK'
  BY DEF TypeOK, ReadEnd, laneVars, waveVars, histVars

LEMMA TakeExtType == TypeOK /\ TakeExt => TypeOK'
<1> SUFFICES ASSUME TypeOK, TakeExt PROVE TypeOK'
  OBVIOUS
<1>1. /\ mailbox' \in Seq(Calls) /\ Len(mailbox') <= MailboxCap
      /\ ext' \in Listeners
  BY ReceivingTypes, ArgTypes DEF TakeExt
<1> QED
  BY <1>1, CapsAssumption DEF TypeOK, TakeExt, NextPc, NoExt, endVars, waveVars, histVars

LEMMA TakeResetExtType == TypeOK /\ TakeResetExt => TypeOK'
<1> SUFFICES ASSUME TypeOK, TakeResetExt PROVE TypeOK'
  OBVIOUS
<1>1. mailbox' \in Seq(Calls) /\ Len(mailbox') <= MailboxCap
  BY ReceivingTypes DEF TakeResetExt
<1> QED
  BY <1>1 DEF TypeOK, TakeResetExt, Receiving, endVars, waveVars, histVars

LEMMA TakeTransformType == TypeOK /\ TakeTransform => TypeOK'
<1> SUFFICES ASSUME TypeOK, TakeTransform PROVE TypeOK'
  OBVIOUS
<1>1. /\ mailbox' \in Seq(Calls) /\ Len(mailbox') <= MailboxCap
      /\ Head(mailbox).arg \in STRING
  BY ReceivingTypes, ArgTypes DEF TakeTransform
<1> QED
  BY <1>1 DEF TypeOK, TakeTransform, NextPc, endVars, waveVars, histVars

LEMMA TakeWaveType == TypeOK /\ TakeWave => TypeOK'
<1> SUFFICES ASSUME TypeOK, TakeWave PROVE TypeOK'
  OBVIOUS
<1>1. /\ mailbox' \in Seq(Calls) /\ Len(mailbox') <= MailboxCap
      /\ Head(mailbox).arg \in Waves
  BY ReceivingTypes, ArgTypes DEF TakeWave
<1>2. /\ Excess \in 0 .. Len(queue) /\ Len(queue) - Excess <= QueueCap
      /\ Len(queue) \in Nat
  <2>1. Len(queue) \in Nat /\ QueueCap \in Nat
    BY CapsAssumption DEF TypeOK
  <2> QED
    BY <2>1 DEF Excess
<1>3. /\ SubSeq(queue, Excess + 1, Len(queue)) \in Seq(Waves)
      /\ Len(SubSeq(queue, Excess + 1, Len(queue))) = Len(queue) - Excess
  BY <1>2, SubSeqProperties DEF TypeOK
<1>4. /\ queue' \in Seq(Waves) /\ queue' /= <<>> /\ Len(queue') <= QueueCap + 1
  <2> DEFINE rest == SubSeq(queue, Excess + 1, Len(queue))
  <2>1. queue' = Append(rest, Head(mailbox).arg)
    BY DEF TakeWave, Pushed
  <2>2. rest \in Seq(Waves) /\ Len(rest) \in Nat /\ Len(rest) <= QueueCap
    BY <1>2, <1>3
  <2> HIDE DEF rest
  <2>3. queue' \in Seq(Waves) /\ Len(queue') = Len(rest) + 1
    BY <2>1, <2>2, <1>1
  <2> QED
    BY <2>2, <2>3, CapsAssumption
<1>5. \A w \in Waves : stamps[w] \o transforms \in Seq(STRING)
  BY DEF TypeOK
<1>6. stamps' \in [Waves -> Seq(STRING)]
  BY <1>1, <1>5 DEF TypeOK, TakeWave, Filtered
<1>7. lost' \in [Waves -> {"no", "refused", "overflow", "dropped", "full"}]
  BY DEF TypeOK, TakeWave
<1> QED
  BY <1>1, <1>4, <1>6, <1>7 DEF TypeOK, TakeWave, NextPc, endVars, waveVars

\* Taking the first wave out of the queue.
LEMMA DrainedTypes ==
    ASSUME TypeOK, pc /= "recv"
    PROVE  /\ Head(queue) \in Waves /\ Drained \in Seq(Waves)
           /\ Len(Drained) <= QueueCap + 1
  BY CapsAssumption DEF TypeOK, Drained

LEMMA HandOverType == TypeOK /\ HandOver => TypeOK'
<1> SUFFICES ASSUME TypeOK, HandOver PROVE TypeOK'
  OBVIOUS
<1>1. /\ Head(queue) \in Waves /\ Drained \in Seq(Waves)
      /\ Len(Drained) <= QueueCap + 1
  BY DrainedTypes DEF HandOver
<1>2. ext \in Listeners /\ chan[ext] \in Seq(Waves \union {Greeting})
  BY DEF TypeOK, HandOver
<1>3. /\ Append(chan[ext], Head(queue)) \in Seq(Waves \union {Greeting})
      /\ Len(Append(chan[ext], Head(queue))) <= ChanCap
  BY <1>1, <1>2, CapsAssumption DEF HandOver
<1> QED
  BY <1>1, <1>2, <1>3 DEF TypeOK, HandOver, NextPc, waveVars, histVars

LEMMA HandOverFailsType == TypeOK /\ HandOverFails => TypeOK'
  BY DEF TypeOK, HandOverFails, endVars, waveVars, histVars

LEMMA PostResetExtType == TypeOK /\ PostResetExt => TypeOK'
<1> SUFFICES ASSUME TypeOK, PostResetExt PROVE TypeOK'
  OBVIOUS
<1>1. mailbox' \in Seq(Calls) /\ Len(mailbox') <= MailboxCap
  BY PostedTypes, CallTypes DEF PostResetExt
<1> QED
  BY <1>1 DEF TypeOK, PostResetExt, endVars, waveVars, histVars

LEMMA RequeueType == TypeOK /\ Requeue => TypeOK'
<1> SUFFICES ASSUME TypeOK, Requeue PROVE TypeOK'
  OBVIOUS
<1>1. /\ Head(queue) \in Waves /\ Drained \in Seq(Waves)
      /\ Len(Drained) <= QueueCap + 1
  BY DrainedTypes DEF Requeue
<1>2. mailbox' \in Seq(Calls) /\ Len(mailbox') <= MailboxCap
  BY <1>1, PostedTypes, CallTypes DEF Requeue, TypeOK
<1>3. /\ requeued' \subseteq Waves
      /\ lost' \in [Waves -> {"no", "refused", "overflow", "dropped", "full"}]
  BY <1>1 DEF TypeOK, Requeue
<1> QED
  BY <1>1, <1>2, <1>3 DEF TypeOK, Requeue, NextPc, endVars, waveVars

\* Every variable keeps its type, and every bounded channel its bound: the
\* mailbox, the queue of a lane without a listener, the listeners' channels.
THEOREM TypeTheorem == Spec => []TypeOK
<1>1. TypeOK /\ [Next]_vars => TypeOK'
  <2> SUFFICES ASSUME TypeOK, [Next]_vars PROVE TypeOK'
    OBVIOUS
  <2>1. CASE UNCHANGED vars
    BY <2>1 DEF vars, laneVars, endVars, waveVars, histVars, TypeOK
  <2>2. CASE Task
    BY <2>2, TakeExtType, TakeResetExtType, TakeTransformType, TakeWaveType, HandOverType,
       HandOverFailsType, PostResetExtType, RequeueType DEF Task
  <2>3. CASE Send \/ SendTimeout \/ TxSend \/ TxForward
    BY <2>3, SendType, SendTimeoutType, TxSendType, TxForwardType
  <2>4. ASSUME NEW c \in Listeners, Open(c) \/ PostExt(c) \/ Receive(c) \/ DropListener(c)
                               \/ ReadEnd(c)
        PROVE  TypeOK'
    BY <2>4, OpenType, PostExtType, ReceiveType, DropType, ReadEndType
  <2> QED
    BY <2>1, <2>2, <2>3, <2>4 DEF Next
<1> QED
  BY InitTypeOK, <1>1, PTL DEF Spec

-----------------------------------------------------------------------------
(* What InSeq makes of the operators on sequences.                         *)

LEMMA InSeqHead ==
    ASSUME NEW S, NEW s \in Seq(S), s /= <<>>
    PROVE  Head(s) \in InSeq(s) /\ InSeq(Tail(s)) \subseteq InSeq(s)
<1>1. Head(s) = s[1] /\ 1 \in DOMAIN s
  OBVIOUS
<1>2. \A i \in DOMAIN Tail(s) : i + 1 \in DOMAIN s /\ Tail(s)[i] = s[i + 1]
  OBVIOUS
<1> QED
  BY <1>1, <1>2 DEF InSeq

LEMMA InSeqAppend ==
    ASSUME NEW S, NEW s \in Seq(S), NEW x \in S
    PROVE  InSeq(Append(s, x)) = InSeq(s) \union {x}
<1> DEFINE t == Append(s, x)
<1>1. DOMAIN t = 1 .. Len(s) + 1 /\ DOMAIN s = 1 .. Len(s) /\ Len(s) \in Nat
  OBVIOUS
<1>2. t[Len(s) + 1] = x /\ \A i \in 1 .. Len(s) : t[i] = s[i]
  OBVIOUS
<1> HIDE DEF t
<1>3. InSeq(t) = InSeq(s) \union {x}
  BY <1>1, <1>2 DEF InSeq
<1> QED
  BY <1>3 DEF t

LEMMA InSeqSubSeq ==
    ASSUME NEW S, NEW s \in Seq(S), NEW m \in 1 .. Len(s) + 1
    PROVE  InSeq(SubSeq(s, m, Len(s))) \subseteq InSeq(s)
<1> DEFINE t == SubSeq(s, m, Len(s))
<1>1. DOMAIN t = 1 .. Len(s) - m + 1 /\ DOMAIN s = 1 .. Len(s) /\ Len(s) \in Nat
  BY SubSeqProperties
<1>2. \A i \in 1 .. Len(s) - m + 1 : t[i] = s[m + i - 1]
  BY SubSeqProperties
<1> HIDE DEF t
<1>4. ASSUME NEW i \in DOMAIN t PROVE m + i - 1 \in DOMAIN s /\ t[i] = s[m + i - 1]
  <2>1. i \in 1 .. Len(s) - m + 1
    BY <1>1
  <2>2. m + i - 1 \in 1 .. Len(s)
    BY <2>1, <1>1
  <2> QED
    BY <2>1, <2>2, <1>1, <1>2
<1>3. InSeq(t) \subseteq InSeq(s)
  BY <1>4 DEF InSeq
<1> QED
  BY <1>3 DEF t

LEMMA InSeqConcat ==
    ASSUME NEW S, NEW s \in Seq(S), NEW t \in Seq(S)
    PROVE  InSeq(s \o t) \subseteq InSeq(s) \union InSeq(t)
<1> DEFINE u == s \o t
<1>1. DOMAIN u = 1 .. Len(s) + Len(t) /\ DOMAIN s = 1 .. Len(s) /\ DOMAIN t = 1 .. Len(t)
      /\ Len(s) \in Nat /\ Len(t) \in Nat
  OBVIOUS
<1>2. \A i \in 1 .. Len(s) + Len(t) : u[i] = IF i <= Len(s) THEN s[i] ELSE t[i - Len(s)]
  OBVIOUS
<1> HIDE DEF u
<1>3. ASSUME NEW i \in DOMAIN u PROVE u[i] \in InSeq(s) \union InSeq(t)
  <2>1. CASE i <= Len(s)
    BY <1>1, <1>2, <2>1 DEF InSeq
  <2>2. CASE i > Len(s)
    <3>1. i - Len(s) \in DOMAIN t /\ u[i] = t[i - Len(s)]
      BY <1>1, <1>2, <2>2
    <3> QED
      BY <3>1 DEF InSeq
  <2> QED
    BY <1>1, <2>1, <2>2
<1> QED
  BY <1>3 DEF u, InSeq

-----------------------------------------------------------------------------
(* Stamped.                                                                *)

\* How many transforms the lane has still to take from its mailbox.
Pending == Len(Transforms) - Len(transforms)

\* The lane has taken the first of its transforms, the others are the first
\* calls of its mailbox, in order, and there are no more.
TransformsFirst ==
    /\ Len(transforms) <= Len(Transforms)
    /\ \A i \in 1 .. Len(transforms) : transforms[i] = Transforms[i]
    /\ Pending <= Len(mailbox)
    /\ \A i \in 1 .. Pending : mailbox[i] = TransformCall(Transforms[Len(transforms) + i])
    /\ \A i \in 1 .. Len(mailbox) : i > Pending => mailbox[i].call /= "Transform"

\* A wave goes through all the transforms or through none (a requeued wave goes
\* through them once more), and those past the mailbox have been through them.
StampedInv ==
    /\ TransformsFirst
    /\ \A w \in Waves : stamps[w] = <<>> \/ Complete(stamps[w])
    /\ \A w \in InSeq(queue) : Complete(stamps[w])
    /\ \A c \in Listeners : \A w \in (InSeq(chan[c]) \union InSeq(got[c])) \ {Greeting} :
          Complete(stamps[w])

LEMMA FirstKeptByPost ==
    ASSUME TypeOK, TransformsFirst, NEW call \in Calls, call.call /= "Transform",
           mailbox' = Append(mailbox, call), transforms' = transforms
    PROVE  TransformsFirst'
<1>1. mailbox \in Seq(Calls) /\ transforms \in Seq(STRING) /\ Transforms \in Seq(STRING)
  BY CapsAssumption DEF TypeOK
<1>2. /\ Len(mailbox') = Len(mailbox) + 1 /\ mailbox'[Len(mailbox) + 1] = call
      /\ \A i \in 1 .. Len(mailbox) : mailbox'[i] = mailbox[i]
      /\ Len(mailbox) \in Nat /\ Len(transforms) \in Nat /\ Len(Transforms) \in Nat
  BY <1>1
<1>3. Pending' = Pending /\ Pending \in Nat /\ Pending <= Len(mailbox)
  BY <1>2 DEF TransformsFirst, Pending
<1>4. ASSUME NEW i \in 1 .. Pending
      PROVE  mailbox'[i] = TransformCall(Transforms[Len(transforms) + i])
  <2>1. i \in 1 .. Len(mailbox)
    BY <1>2, <1>3
  <2>2. mailbox[i] = TransformCall(Transforms[Len(transforms) + i])
    BY DEF TransformsFirst
  <2> QED
    BY <1>2, <2>1, <2>2
<1>5. ASSUME NEW i \in 1 .. Len(mailbox'), i > Pending
      PROVE  mailbox'[i].call /= "Transform"
  <2>1. CASE i = Len(mailbox) + 1
    BY <1>2, <2>1
  <2>2. CASE i /= Len(mailbox) + 1
    <3>1. i \in 1 .. Len(mailbox)
      BY <1>2, <2>2
    <3> QED
      BY <1>2, <1>5, <3>1 DEF TransformsFirst
  <2> QED
    BY <2>1, <2>2
<1>6. Pending' <= Len(mailbox')
  BY <1>2, <1>3
<1>7. /\ Len(transforms') <= Len(Transforms)
      /\ \A i \in 1 .. Len(transforms') : transforms'[i] = Transforms[i]
  BY DEF TransformsFirst
<1>8. \A i \in 1 .. Pending' : mailbox'[i] = TransformCall(Transforms[Len(transforms') + i])
  BY <1>3, <1>4
<1>9. \A i \in 1 .. Len(mailbox') : i > Pending' => mailbox'[i].call /= "Transform"
  BY <1>3, <1>5
<1> QED
  BY <1>6, <1>7, <1>8, <1>9 DEF TransformsFirst

\* A call that is not a transform is taken only when all of them have been.
LEMMA FirstKeptByTake ==
    ASSUME TypeOK, TransformsFirst, NEW kind, kind /= "Transform", Receiving(kind),
           transforms' = transforms
    PROVE  TransformsFirst' /\ Len(transforms) = Len(Transforms)
<1>1. /\ mailbox \in Seq(Calls) /\ mailbox /= <<>> /\ mailbox' = Tail(mailbox)
      /\ Head(mailbox).call = kind
  BY DEF TypeOK, Receiving
<1>2. /\ Head(mailbox) = mailbox[1] /\ Len(mailbox) \in Nat /\ Len(mailbox) >= 1
      /\ Len(mailbox') = Len(mailbox) - 1
      /\ \A i \in 1 .. Len(mailbox') : mailbox'[i] = mailbox[i + 1] /\ i + 1 \in 1 .. Len(mailbox)
      /\ Len(transforms) \in Nat /\ Len(Transforms) \in Nat
  <2>1. transforms \in Seq(STRING) /\ Transforms \in Seq(STRING)
    BY CapsAssumption DEF TypeOK
  <2> QED
    BY <1>1, <2>1
<1>3. Pending = 0
  <2> SUFFICES ASSUME Pending >= 1 PROVE FALSE
    BY <1>2 DEF TransformsFirst, Pending
  <2>1. mailbox[1] = TransformCall(Transforms[Len(transforms) + 1])
    BY <1>2 DEF TransformsFirst, Pending
  <2> QED
    BY <2>1, <1>1, <1>2 DEF TransformCall
<1>4. \A i \in 1 .. Len(mailbox') : mailbox'[i].call /= "Transform"
  BY <1>2, <1>3 DEF TransformsFirst
<1> QED
  BY <1>2, <1>3, <1>4 DEF TransformsFirst, Pending

LEMMA FirstKeptByTransform ==
    ASSUME TypeOK, TransformsFirst, TakeTransform
    PROVE  TransformsFirst'
<1>1. /\ mailbox \in Seq(Calls) /\ mailbox /= <<>> /\ mailbox' = Tail(mailbox)
      /\ Head(mailbox).call = "Transform" /\ Head(mailbox).arg \in STRING
      /\ transforms \in Seq(STRING) /\ transforms' = Append(transforms, Head(mailbox).arg)
  BY ArgTypes DEF TypeOK, TakeTransform, Receiving
<1>2. /\ Head(mailbox) = mailbox[1] /\ Len(mailbox) \in Nat /\ Len(mailbox) >= 1
      /\ Len(mailbox') = Len(mailbox) - 1
      /\ \A i \in 1 .. Len(mailbox') : mailbox'[i] = mailbox[i + 1]
      /\ Len(transforms) \in Nat /\ Len(Transforms) \in Nat
  BY <1>1, CapsAssumption
<1>3. /\ Len(transforms') = Len(transforms) + 1
      /\ transforms'[Len(transforms) + 1] = Head(mailbox).arg
      /\ \A i \in 1 .. Len(transforms) : transforms'[i] = transforms[i]
  BY <1>1
<1>4. Pending >= 1
  <2> SUFFICES ASSUME Pending < 1 PROVE FALSE
    BY <1>2 DEF Pending
  <2> QED
    BY <1>1, <1>2 DEF TransformsFirst, Pending
<1>5. mailbox[1] = TransformCall(Transforms[Len(transforms) + 1])
  BY <1>2, <1>4 DEF TransformsFirst, Pending
<1>6. Head(mailbox).arg = Transforms[Len(transforms) + 1]
  BY <1>2, <1>5 DEF TransformCall
<1>7. Pending' = Pending - 1
  BY <1>2, <1>3 DEF Pending
<1>8. \A i \in 1 .. Len(transforms') : transforms'[i] = Transforms[i]
  BY <1>2, <1>3, <1>6 DEF TransformsFirst
<1>9. \A i \in 1 .. Pending' : mailbox'[i] = TransformCall(Transforms[Len(transforms') + i])
  <2> SUFFICES ASSUME NEW i \in 1 .. Pending'
               PROVE  mailbox'[i] = TransformCall(Transforms[Len(transforms') + i])
    OBVIOUS
  <2>1. i + 1 \in 1 .. Pending /\ i \in 1 .. Len(mailbox')
    BY <1>2, <1>7 DEF TransformsFirst, Pending
  <2>2. mailbox[i + 1] = TransformCall(Transforms[Len(transforms) + (i + 1)])
    BY <2>1 DEF TransformsFirst
  <2>3. Len(transforms) + (i + 1) = Len(transforms') + i
    BY <1>2, <1>3
  <2> QED
    BY <1>2, <2>1, <2>2, <2>3
<1>10. \A i \in 1 .. Len(mailbox') : i > Pending' => mailbox'[i].call /= "Transform"
  <2> SUFFICES ASSUME NEW i \in 1 .. Len(mailbox'), i > Pending'
               PROVE  mailbox'[i].call /= "Transform"
    OBVIOUS
  <2>1. i + 1 \in 1 .. Len(mailbox) /\ i + 1 > Pending
    BY <1>2, <1>7 DEF Pending
  <2>2. mailbox[i + 1].call /= "Transform"
    BY <2>1 DEF TransformsFirst
  <2> QED
    BY <1>2, <2>2
<1>11. Len(transforms') <= Len(Transforms) /\ Pending' <= Len(mailbox')
  BY <1>2, <1>3, <1>4, <1>7 DEF TransformsFirst, Pending
<1> QED
  BY <1>8, <1>9, <1>10, <1>11 DEF TransformsFirst

\* Filtering makes an unfiltered wave complete and keeps a complete one so.
LEMMA FilterCompletes ==
    ASSUME TypeOK, TransformsFirst, Len(transforms) = Len(Transforms),
           NEW w \in Waves, stamps[w] = <<>> \/ Complete(stamps[w])
    PROVE  Complete(Filtered(w))
<1>1. /\ stamps[w] \in Seq(STRING) /\ transforms \in Seq(STRING) /\ Len(Transforms) \in Nat
      /\ Len(stamps[w]) \in Nat
      /\ \A i \in 1 .. Len(Transforms) : transforms[i] = Transforms[i]
  BY CapsAssumption DEF TypeOK, TransformsFirst
<1> DEFINE f == stamps[w] \o transforms
<1>2. /\ Len(f) = Len(stamps[w]) + Len(Transforms) /\ Len(stamps[w]) \in Nat
      /\ \A i \in 1 .. Len(f) : f[i] = IF i <= Len(stamps[w]) THEN stamps[w][i]
                                       ELSE transforms[i - Len(stamps[w])]
  BY <1>1, SMTT(20)
<1>3. Len(<<>>) = 0
  OBVIOUS
<1> HIDE DEF f
<1>4. Complete(f)
  <2>1. CASE stamps[w] = <<>>
    <3>1. Len(stamps[w]) = 0
      BY <2>1
    <3> QED
      BY <1>1, <1>2, <3>1 DEF Complete
  <2>2. CASE Complete(stamps[w])
    <3>1. Len(stamps[w]) >= Len(Transforms)
      BY <2>2 DEF Complete
    <3>2. Len(f) >= Len(Transforms)
      BY <3>1, <1>1, <1>2
    <3>3. ASSUME NEW i \in 1 .. Len(Transforms) PROVE f[i] = Transforms[i]
      <4>1. i \in 1 .. Len(f) /\ i <= Len(stamps[w])
        BY <3>1, <3>2, <1>1, <1>2
      <4>2. stamps[w][i] = Transforms[i]
        BY <2>2 DEF Complete
      <4> QED
        BY <4>1, <4>2, <1>2
    <3> QED
      BY <3>2, <3>3 DEF Complete
  <2> QED
    BY <2>1, <2>2
<1> QED
  BY <1>4 DEF f, Filtered

-----------------------------------------------------------------------------
(* StampedInv step by step: first what puts a call in the mailbox, then    *)
(* the ends of the channels, then the calls the task takes.                *)

LEMMA InitStamped == Init => StampedInv
<1> SUFFICES ASSUME Init PROVE StampedInv
  OBVIOUS
<1>1. Len(<<>>) = 0 /\ DOMAIN <<>> = {} /\ Len(Transforms) \in Nat
  BY CapsAssumption
<1>2. Len(mailbox) = Len(Transforms)
      /\ \A i \in 1 .. Len(Transforms) : mailbox[i] = TransformCall(Transforms[i])
  BY <1>1 DEF Init
<1>3. TransformsFirst
  BY <1>1, <1>2 DEF Init, TransformsFirst, Pending
<1> QED
  BY <1>1, <1>3 DEF Init, StampedInv, InSeq

\* Steps of producers and listeners that only put a call in the mailbox.
LEMMA PostsStamped ==
    ASSUME TypeOK, StampedInv, NEW call \in Calls, call.call /= "Transform",
           mailbox' = Append(mailbox, call), UNCHANGED <<transforms, stamps, queue, chan, got>>
    PROVE  StampedInv'
<1>1. TransformsFirst'
  BY FirstKeptByPost DEF StampedInv
<1> QED
  BY <1>1 DEF StampedInv, Complete, InSeq

\* Steps that leave the mailbox alone.
LEMMA UnpostedStamped ==
    ASSUME StampedInv, UNCHANGED <<mailbox, transforms, stamps>>,
           InSeq(queue') \subseteq InSeq(queue),
           \A c \in Listeners : InSeq(chan'[c]) \union InSeq(got'[c])
              \subseteq InSeq(chan[c]) \union InSeq(got[c]) \union InSeq(queue) \union {Greeting}
    PROVE  StampedInv'
<1>1. TransformsFirst'
  BY DEF StampedInv, TransformsFirst, Pending
<1>2. \A w \in InSeq(queue') : Complete(stamps'[w])
  BY DEF StampedInv
<1>3. ASSUME NEW c \in Listeners, NEW w \in (InSeq(chan'[c]) \union InSeq(got'[c])) \ {Greeting}
      PROVE  Complete(stamps'[w])
  BY <1>3 DEF StampedInv
<1> QED
  BY <1>1, <1>2, <1>3 DEF StampedInv, InSeq, Complete

LEMMA ListenersStamped ==
    ASSUME TypeOK, StampedInv, NEW c \in Listeners,
           Open(c) \/ Receive(c) \/ DropListener(c) \/ ReadEnd(c)
    PROVE  StampedInv'
<1>1. CASE Open(c)
  <2>1. InSeq(<<>>) = {} /\ InSeq(<<Greeting>>) = {Greeting}
    BY DEF InSeq
  <2>2. \A d \in Listeners : InSeq(chan'[d]) \subseteq InSeq(chan[d]) \union {Greeting}
    BY <1>1, <2>1 DEF Open, TypeOK
  <2> QED
    BY <1>1, <2>2, UnpostedStamped DEF Open, laneVars, histVars
<1>2. CASE Receive(c)
  <2>1. chan[c] \in Seq(Waves \union {Greeting}) /\ chan[c] /= <<>>
        /\ got[c] \in Seq(Waves \union {Greeting})
    BY <1>2 DEF Receive, TypeOK
  <2>2. Head(chan[c]) \in Waves \union {Greeting}
    BY <2>1
  <2>3. /\ InSeq(Tail(chan[c])) \subseteq InSeq(chan[c])
        /\ InSeq(Append(got[c], Head(chan[c]))) \subseteq InSeq(got[c]) \union InSeq(chan[c])
    BY <2>1, <2>2, InSeqHead, InSeqAppend
  <2>4. \A d \in Listeners : InSeq(chan'[d]) \union InSeq(got'[d])
            \subseteq InSeq(chan[d]) \union InSeq(got[d])
    BY <1>2, <2>3 DEF Receive, TypeOK
  <2> QED
    BY <1>2, <2>4, UnpostedStamped DEF Receive, laneVars, histVars
<1>3. CASE DropListener(c)
  <2>1. InSeq(<<>>) = {}
    BY DEF InSeq
  <2>2. \A d \in Listeners : InSeq(chan'[d]) \subseteq InSeq(chan[d])
    BY <1>3, <2>1 DEF DropListener, TypeOK
  <2> QED
    BY <1>3, <2>2, UnpostedStamped DEF DropListener, laneVars
<1>4. CASE ReadEnd(c)
  BY <1>4, UnpostedStamped DEF ReadEnd, laneVars, histVars
<1> QED
  BY <1>1, <1>2, <1>3, <1>4

LEMMA ProducersStamped ==
    ASSUME TypeOK, StampedInv,
           Send \/ SendTimeout \/ TxSend \/ TxForward \/ \E c \in Listeners : PostExt(c)
    PROVE  StampedInv'
<1>1. \A w \in Waves : WaveCall(w) \in Calls /\ WaveCall(w).call /= "Transform"
  BY CallTypes DEF WaveCall
<1>2. \A c \in Listeners : ExtCall(c) \in Calls /\ ExtCall(c).call /= "Transform"
  BY CallTypes DEF ExtCall
<1>3. CASE Send
  <2>1. sent' \in Waves
    BY <1>3, CapsAssumption DEF TypeOK, Send, Waves
  <2> QED
    BY <1>1, <1>3, <2>1, PostsStamped DEF Send, endVars, histVars
<1>4. CASE SendTimeout \/ TxSend
  BY <1>4, UnpostedStamped DEF SendTimeout, TxSend, laneVars, endVars, histVars
<1>5. CASE TxForward
  <2>1. Head(relay) \in Waves
    BY <1>5 DEF TypeOK, TxForward
  <2> QED
    BY <1>1, <1>5, <2>1, PostsStamped DEF TxForward, endVars, histVars
<1>6. ASSUME NEW c \in Listeners, PostExt(c)
      PROVE  StampedInv'
  BY <1>2, <1>6, PostsStamped DEF PostExt, histVars
<1> QED
  BY <1>3, <1>4, <1>5, <1>6

\* Taking a listener, a reset or a transform changes no wave.
LEMMA OtherCallsStamped ==
    ASSUME TypeOK, StampedInv, TakeExt \/ TakeResetExt \/ TakeTransform
    PROVE  StampedInv'
<1>1. TransformsFirst'
  <2>1. CASE TakeExt
    BY <2>1, FirstKeptByTake DEF StampedInv, TakeExt
  <2>2. CASE TakeResetExt
    BY <2>2, FirstKeptByTake DEF StampedInv, TakeResetExt
  <2>3. CASE TakeTransform
    BY <2>3, FirstKeptByTransform DEF StampedInv
  <2> QED
    BY <2>1, <2>2, <2>3
<1>2. UNCHANGED <<stamps, queue, chan, got>>
  BY DEF TakeExt, TakeResetExt, TakeTransform, endVars, histVars
<1> QED
  BY <1>1, <1>2 DEF StampedInv, Complete, InSeq

LEMMA TakeWaveStamped ==
    ASSUME TypeOK, StampedInv, TakeWave
    PROVE  StampedInv'
<1> DEFINE w == Head(mailbox).arg
           rest == SubSeq(queue, Excess + 1, Len(queue))
<1>1. w \in Waves
  BY ArgTypes DEF TakeWave
<1>2. TransformsFirst' /\ Len(transforms) = Len(Transforms)
  BY FirstKeptByTake DEF StampedInv, TakeWave
<1>3. Complete(Filtered(w))
  BY <1>1, <1>2, FilterCompletes DEF StampedInv
<1>4. stamps' = [stamps EXCEPT ![w] = Filtered(w)] /\ UNCHANGED <<chan, got>>
  BY DEF TakeWave, endVars
<1>5. \A v \in Waves : Complete(stamps[v]) => Complete(stamps'[v])
  BY <1>1, <1>3, <1>4 DEF TypeOK
<1>6. stamps'[w] = Filtered(w) /\ \A v \in Waves : v /= w => stamps'[v] = stamps[v]
  BY <1>1, <1>4 DEF TypeOK
<1>7. InSeq(queue') \subseteq InSeq(queue) \union {w}
  <2>1. queue \in Seq(Waves) /\ Excess + 1 \in 1 .. Len(queue) + 1
    <3>1. queue \in Seq(Waves) /\ Len(queue) \in Nat /\ QueueCap \in Nat
      BY CapsAssumption DEF TypeOK
    <3> QED
      BY <3>1 DEF Excess
  <2>2. rest \in Seq(Waves) /\ InSeq(rest) \subseteq InSeq(queue)
    BY <2>1, InSeqSubSeq, SubSeqProperties
  <2>3. queue' = Append(rest, w)
    BY DEF TakeWave, Pushed
  <2> HIDE DEF w, rest
  <2> QED
    BY <1>1, <2>2, <2>3, InSeqAppend
<1>8. InSeq(queue) \subseteq Waves
  BY DEF TypeOK, InSeq
<1>9. \A v \in InSeq(queue') : Complete(stamps'[v])
  BY <1>3, <1>5, <1>6, <1>7, <1>8 DEF StampedInv
<1>10. \A c \in Listeners : InSeq(chan[c]) \union InSeq(got[c]) \subseteq Waves \union {Greeting}
  BY DEF TypeOK, InSeq
<1>11. \A c \in Listeners : \A v \in (InSeq(chan'[c]) \union InSeq(got'[c])) \ {Greeting} :
          Complete(stamps'[v])
  BY <1>4, <1>5, <1>10 DEF StampedInv
<1>12. \A v \in Waves : stamps'[v] = <<>> \/ Complete(stamps'[v])
  BY <1>3, <1>6 DEF StampedInv
<1> QED
  BY <1>2, <1>9, <1>11, <1>12 DEF StampedInv, InSeq, Complete

\* A failed or successful hand-over takes the head of the queue away.
LEMMA DrainStamped ==
    ASSUME TypeOK, StampedInv, HandOver \/ HandOverFails \/ PostResetExt \/ Requeue
    PROVE  StampedInv'
<1>1. \A q \in Seq(Waves) : q /= <<>> => Head(q) \in InSeq(q) /\ InSeq(Tail(q)) \subseteq InSeq(q)
  BY InSeqHead
<1>2. CASE HandOver
  <2>1. queue \in Seq(Waves) /\ queue /= <<>> /\ ext \in Listeners
        /\ chan[ext] \in Seq(Waves \union {Greeting})
    BY <1>2 DEF HandOver, TypeOK
  <2>2. Head(queue) \in Waves
    BY <2>1
  <2>3. InSeq(Append(chan[ext], Head(queue))) = InSeq(chan[ext]) \union {Head(queue)}
    BY <2>1, <2>2, InSeqAppend
  <2>4. \A c \in Listeners : InSeq(chan'[c]) \subseteq InSeq(chan[c]) \union InSeq(queue)
    BY <1>1, <1>2, <2>1, <2>3 DEF HandOver, TypeOK
  <2>5. InSeq(queue') \subseteq InSeq(queue)
    BY <1>1, <1>2, <2>1 DEF HandOver, Drained
  <2> QED
    BY <1>2, <2>4, <2>5, UnpostedStamped DEF HandOver, histVars
<1>3. CASE HandOverFails
  BY <1>3, UnpostedStamped DEF HandOverFails, endVars, histVars
<1>4. CASE PostResetExt
  <2>1. ResetExtCall \in Calls /\ ResetExtCall.call /= "Transform"
    BY CallTypes DEF ResetExtCall
  <2> QED
    BY <1>4, <2>1, PostsStamped DEF PostResetExt, endVars, histVars
<1>5. CASE Requeue
  <2>1. queue \in Seq(Waves) /\ queue /= <<>>
    BY <1>5 DEF Requeue, TypeOK
  <2>2. InSeq(queue') \subseteq InSeq(queue) /\ Head(queue) \in Waves
    BY <1>1, <1>5, <2>1 DEF Requeue, Drained
  <2>3. TransformsFirst'
    <3>1. WaveCall(Head(queue)) \in Calls /\ WaveCall(Head(queue)).call /= "Transform"
      BY <2>2, CallTypes DEF WaveCall
    <3>2. CASE mailbox' = Append(mailbox, WaveCall(Head(queue)))
      BY <1>5, <3>1, <3>2, FirstKeptByPost DEF Requeue, StampedInv
    <3>3. CASE mailbox' = mailbox
      BY <1>5, <3>3 DEF Requeue, StampedInv, TransformsFirst, Pending
    <3> QED
      BY <1>5, <3>2, <3>3 DEF Requeue
  <2>4. UNCHANGED <<stamps, chan, got>>
    BY <1>5 DEF Requeue, endVars
  <2>5. \A w \in InSeq(queue') : Complete(stamps'[w])
    BY <2>2, <2>4 DEF StampedInv
  <2>6. \A c \in Listeners : \A w \in (InSeq(chan'[c]) \union InSeq(got'[c])) \ {Greeting} :
           Complete(stamps'[w])
    BY <2>4 DEF StampedInv
  <2>7. \A w \in Waves : stamps'[w] = <<>> \/ Complete(stamps'[w])
    BY <2>4 DEF StampedInv
  <2> QED
    BY <2>3, <2>5, <2>6, <2>7 DEF StampedInv, Complete, InSeq
<1> QED
  BY <1>2, <1>3, <1>4, <1>5

\* No listener is ever handed a wave that has not been through every transform
\* of the lane, in order, however early its Ext or the wave was posted.
THEOREM StampedTheorem == Spec => []Stamped
<1>1. TypeOK /\ StampedInv /\ [Next]_vars => StampedInv'
  <2> SUFFICES ASSUME TypeOK, StampedInv, [Next]_vars PROVE StampedInv'
    OBVIOUS
  <2>1. CASE UNCHANGED vars
    BY <2>1 DEF vars, laneVars, endVars, waveVars, histVars, StampedInv, TransformsFirst,
                Pending, Complete, InSeq
  <2>2. CASE Next
    BY <2>2, ListenersStamped, ProducersStamped, OtherCallsStamped, TakeWaveStamped,
       DrainStamped DEF Next, Task
  <2> QED
    BY <2>1, <2>2
<1>2. TypeOK /\ StampedInv => Stamped
  <2> SUFFICES ASSUME TypeOK, StampedInv, NEW c \in Listeners,
                      NEW w \in InSeq(Handed(c)) \ {Greeting}
               PROVE  Complete(stamps[w])
    BY DEF Stamped
  <2>1. InSeq(Handed(c)) \subseteq InSeq(got[c]) \union InSeq(chan[c])
    BY InSeqConcat DEF TypeOK, Handed
  <2> QED
    BY <2>1 DEF StampedInv
<1> QED
  BY InitStamped, TypeTheorem, <1>1, <1>2, PTL DEF Spec

-----------------------------------------------------------------------------
(* GreetingFirst.                                                          *)

GreetingOnlyAtHead(s) == \A i \in 1 .. Len(s) : s[i] = Greeting => i = 1

\* A listener nobody has opened has received nothing, and a greeting not yet
\* received is at the head of a channel nothing has been received from.
GreetingInv ==
    \A c \in Listeners :
        /\ listener[c] = "unborn" => chan[c] = <<>> /\ got[c] = <<>>
        /\ GreetingOnlyAtHead(got[c])
        /\ GreetingOnlyAtHead(chan[c])
        /\ \A i \in 1 .. Len(chan[c]) : chan[c][i] = Greeting => got[c] = <<>>

\* The lane, and the calls on their way to it, know only listeners that are open.
ExtOpened ==
    /\ ext /= NoExt => listener[ext] /= "unborn"
    /\ \A i \in 1 .. Len(mailbox) : mailbox[i].call = "Ext" => listener[mailbox[i].arg] /= "unborn"

LEMMA OpenGreets == ASSUME TypeOK, GreetingInv, NEW c \in Listeners, Open(c) PROVE GreetingInv'
<1>1. PICK init \in {<<>>, <<Greeting>>} : chan' = [chan EXCEPT ![c] = init]
  BY DEF Open
<1>2. GreetingOnlyAtHead(init)
  BY <1>1 DEF GreetingOnlyAtHead
<1>3. got' = got /\ got[c] = <<>> /\ listener'[c] = "posting"
      /\ \A d \in Listeners : d /= c => listener'[d] = listener[d] /\ chan'[d] = chan[d]
  BY <1>1 DEF Open, MayOpen, GreetingInv, TypeOK
<1>4. chan'[c] = init
  BY <1>1 DEF TypeOK
<1> QED
  BY <1>2, <1>3, <1>4 DEF GreetingInv, GreetingOnlyAtHead

LEMMA ReceiveGreets ==
    ASSUME TypeOK, GreetingInv, NEW c \in Listeners, Receive(c) PROVE GreetingInv'
<1>1. chan[c] \in Seq(Waves \union {Greeting}) /\ chan[c] /= <<>>
      /\ got[c] \in Seq(Waves \union {Greeting})
  BY DEF Receive, TypeOK
<1>2. /\ Head(chan[c]) = chan[c][1] /\ Len(chan[c]) \in Nat /\ Len(chan[c]) >= 1
      /\ Len(Tail(chan[c])) = Len(chan[c]) - 1
      /\ \A i \in 1 .. Len(Tail(chan[c])) : Tail(chan[c])[i] = chan[c][i + 1]
  BY <1>1
<1>3. \A i \in 1 .. Len(Tail(chan[c])) : Tail(chan[c])[i] /= Greeting
  <2> SUFFICES ASSUME NEW i \in 1 .. Len(Tail(chan[c])) PROVE Tail(chan[c])[i] /= Greeting
    OBVIOUS
  <2>1. i + 1 \in 1 .. Len(chan[c]) /\ i + 1 /= 1
    BY <1>2
  <2>2. chan[c][i + 1] /= Greeting
    BY <2>1 DEF GreetingInv, GreetingOnlyAtHead
  <2> QED
    BY <1>2, <2>2
<1> DEFINE g == Append(got[c], Head(chan[c]))
<1>4. GreetingOnlyAtHead(g)
  <2>1. Len(g) = Len(got[c]) + 1 /\ g[Len(got[c]) + 1] = Head(chan[c]) /\ Len(got[c]) \in Nat
        /\ \A i \in 1 .. Len(got[c]) : g[i] = got[c][i]
    BY <1>1
  <2>2. Head(chan[c]) = Greeting => Len(got[c]) = 0
    <3>1. 1 \in 1 .. Len(chan[c]) /\ Len(<<>>) = 0
      BY <1>2
    <3> QED
      BY <1>2, <3>1 DEF GreetingInv
  <2> HIDE DEF g
  <2> QED
    BY <2>1, <2>2 DEF GreetingInv, GreetingOnlyAtHead
<1>5. /\ chan'[c] = Tail(chan[c]) /\ got'[c] = g /\ listener' = listener /\ listener[c] = "live"
      /\ \A d \in Listeners : d /= c => got'[d] = got[d] /\ chan'[d] = chan[d]
  BY DEF Receive, TypeOK
<1> HIDE DEF g
<1>6. GreetingOnlyAtHead(chan'[c])
      /\ \A i \in 1 .. Len(chan'[c]) : chan'[c][i] = Greeting => got'[c] = <<>>
  BY <1>3, <1>5 DEF GreetingOnlyAtHead
<1>7. GreetingOnlyAtHead(got'[c]) /\ listener'[c] /= "unborn"
  BY <1>4, <1>5
<1>8. ASSUME NEW d \in Listeners, d /= c
      PROVE  /\ listener'[d] = "unborn" => chan'[d] = <<>> /\ got'[d] = <<>>
             /\ GreetingOnlyAtHead(got'[d]) /\ GreetingOnlyAtHead(chan'[d])
             /\ \A i \in 1 .. Len(chan'[d]) : chan'[d][i] = Greeting => got'[d] = <<>>
  BY <1>5, <1>8 DEF GreetingInv
<1> QED
  BY <1>6, <1>7, <1>8 DEF GreetingInv, GreetingOnlyAtHead

LEMMA DropGreets ==
    ASSUME TypeOK, GreetingInv, NEW c \in Listeners, DropListener(c) PROVE GreetingInv'
<1>1. /\ chan'[c] = <<>> /\ got' = got /\ listener'[c] = "gone" /\ Len(<<>>) = 0
      /\ \A d \in Listeners : d /= c => chan'[d] = chan[d] /\ listener'[d] = listener[d]
  BY DEF DropListener, TypeOK
<1> QED
  BY <1>1 DEF GreetingInv, GreetingOnlyAtHead

LEMMA ReadEndGreets ==
    ASSUME TypeOK, GreetingInv, NEW c \in Listeners, ReadEnd(c) PROVE GreetingInv'
<1>1. /\ chan' = chan /\ got' = got /\ listener[c] = "live" /\ listener'[c] = "ended"
      /\ \A d \in Listeners : d /= c => listener'[d] = listener[d]
  BY DEF ReadEnd, TypeOK
<1> QED
  BY <1>1 DEF GreetingInv, GreetingOnlyAtHead

\* The wave that is handed over is not a greeting, and its listener is open: the
\* lane knows it from the Ext that was posted after it had been.
LEMMA HandOverGreets == ASSUME TypeOK, GreetingInv, ExtOpened, HandOver PROVE GreetingInv'
<1>1. /\ queue \in Seq(Waves) /\ queue /= <<>> /\ ext \in Listeners
      /\ chan[ext] \in Seq(Waves \union {Greeting})
  BY DEF HandOver, TypeOK
<1>2. Head(queue) /= Greeting
  <2>1. Head(queue) \in Waves
    BY <1>1
  <2> QED
    BY <2>1, CapsAssumption DEF Waves, Greeting
<1> DEFINE s == Append(chan[ext], Head(queue))
<1>3. Len(s) = Len(chan[ext]) + 1 /\ s[Len(s)] = Head(queue) /\ Len(chan[ext]) \in Nat
      /\ \A i \in 1 .. Len(chan[ext]) : s[i] = chan[ext][i]
  BY <1>1
<1>4. /\ chan'[ext] = s /\ UNCHANGED <<got, listener>> /\ listener[ext] /= "unborn"
      /\ \A d \in Listeners : d /= ext => chan'[d] = chan[d]
  BY DEF HandOver, TypeOK, ExtOpened
<1> HIDE DEF s
<1>5. \A i \in 1 .. Len(s) : s[i] = Greeting => i \in 1 .. Len(chan[ext])
  BY <1>2, <1>3
<1>6. GreetingOnlyAtHead(s)
  BY <1>1, <1>3, <1>5 DEF GreetingInv, GreetingOnlyAtHead
<1>7. \A i \in 1 .. Len(s) : s[i] = Greeting => got[ext] = <<>>
  BY <1>1, <1>3, <1>5 DEF GreetingInv
<1> QED
  BY <1>1, <1>4, <1>6, <1>7 DEF GreetingInv

\* ExtOpened, for a step that puts a call in the mailbox or leaves it alone.
LEMMA PostsKeepExtOpened ==
    ASSUME TypeOK, ExtOpened, ext' = ext,
           \A c \in Listeners : listener'[c] = "unborn" => listener[c] = "unborn",
           \/ mailbox' = mailbox
           \/ \E call \in Calls : /\ mailbox' = Append(mailbox, call)
                                  /\ call.call = "Ext" => listener'[call.arg] /= "unborn"
    PROVE  ExtOpened'
<1>1. \A i \in 1 .. Len(mailbox) : mailbox[i].call = "Ext" => mailbox[i].arg \in Listeners
  <2>1. \A i \in 1 .. Len(mailbox) : mailbox[i] \in Calls
    BY DEF TypeOK
  <2> QED
    BY <2>1 DEF Calls
<1>2. CASE mailbox' = mailbox
  BY <1>1, <1>2 DEF ExtOpened, TypeOK
<1>3. ASSUME NEW call \in Calls, mailbox' = Append(mailbox, call),
             call.call = "Ext" => listener'[call.arg] /= "unborn"
      PROVE  ExtOpened'
  <2>1. /\ Len(mailbox') = Len(mailbox) + 1 /\ mailbox'[Len(mailbox) + 1] = call
        /\ \A i \in 1 .. Len(mailbox) : mailbox'[i] = mailbox[i]
        /\ Len(mailbox) \in Nat
    BY <1>3 DEF TypeOK
  <2> QED
    BY <1>1, <1>3, <2>1, SMTT(20) DEF ExtOpened, TypeOK
<1> QED
  BY <1>2, <1>3

\* ExtOpened, for a step that takes a call.
LEMMA TakesKeepExtOpened ==
    ASSUME TypeOK, ExtOpened, NEW kind, Receiving(kind), listener' = listener,
           ext' \in {ext, NoExt} \/ (kind = "Ext" /\ ext' = Head(mailbox).arg)
    PROVE  ExtOpened'
<1>1. mailbox \in Seq(Calls) /\ mailbox /= <<>> /\ mailbox' = Tail(mailbox)
      /\ Head(mailbox).call = kind
  BY DEF TypeOK, Receiving
<1>2. /\ Head(mailbox) = mailbox[1] /\ Len(mailbox) \in Nat /\ Len(mailbox) >= 1
      /\ Len(mailbox') = Len(mailbox) - 1
      /\ \A i \in 1 .. Len(mailbox') : mailbox'[i] = mailbox[i + 1]
  BY <1>1
<1>3. ASSUME NEW i \in 1 .. Len(mailbox'), mailbox'[i].call = "Ext"
      PROVE  listener'[mailbox'[i].arg] /= "unborn"
  <2>1. i + 1 \in 1 .. Len(mailbox) /\ mailbox'[i] = mailbox[i + 1]
    BY <1>2
  <2> QED
    BY <1>3, <2>1 DEF ExtOpened
<1>4. ext' /= NoExt => listener'[ext'] /= "unborn"
  <2>1. CASE ext' \in {ext, NoExt}
    BY <2>1 DEF ExtOpened
  <2>2. CASE kind = "Ext" /\ ext' = Head(mailbox).arg
    BY <1>1, <1>2, <2>2 DEF ExtOpened
  <2> QED
    BY <2>1, <2>2
<1> QED
  BY <1>3, <1>4 DEF ExtOpened

LEMMA StepKeepsExtOpened ==
    ASSUME TypeOK, ExtOpened, Next
    PROVE  ExtOpened'
<1>1. /\ \A w \in Waves : WaveCall(w) \in Calls /\ WaveCall(w).call /= "Ext"
      /\ ResetExtCall \in Calls /\ ResetExtCall.call /= "Ext"
  BY CallTypes DEF WaveCall, ResetExtCall
<1>2. CASE TakeExt
  BY <1>2, TakesKeepExtOpened DEF TakeExt, endVars
<1>3. CASE TakeResetExt
  BY <1>3, TakesKeepExtOpened DEF TakeResetExt, endVars
<1>4. CASE TakeTransform
  BY <1>4, TakesKeepExtOpened DEF TakeTransform, endVars
<1>5. CASE TakeWave
  BY <1>5, TakesKeepExtOpened DEF TakeWave, endVars
<1>6. CASE HandOver \/ HandOverFails \/ SendTimeout \/ TxSend
  BY <1>6, PostsKeepExtOpened DEF HandOver, HandOverFails, SendTimeout, TxSend, laneVars, endVars
<1>7. CASE PostResetExt
  BY <1>1, <1>7, PostsKeepExtOpened DEF PostResetExt, endVars
<1>8. CASE Requeue
  <2>1. Head(queue) \in Waves
    BY <1>8, DrainedTypes DEF Requeue
  <2> QED
    BY <1>1, <1>8, <2>1, PostsKeepExtOpened DEF Requeue, endVars
<1>9. CASE Send
  <2>1. sent' \in Waves
    BY <1>9, CapsAssumption DEF TypeOK, Send, Waves
  <2> QED
    BY <1>1, <1>9, <2>1, PostsKeepExtOpened DEF Send, endVars
<1>10. CASE TxForward
  <2>1. Head(relay) \in Waves
    BY <1>10 DEF TypeOK, TxForward
  <2> QED
    BY <1>1, <1>10, <2>1, PostsKeepExtOpened DEF TxForward, endVars
<1>11. ASSUME NEW c \in Listeners, Open(c) \/ Receive(c) \/ DropListener(c) \/ ReadEnd(c)
       PROVE  ExtOpened'
  BY <1>11, PostsKeepExtOpened DEF Open, Receive, DropListener, ReadEnd, laneVars, TypeOK
<1>12. ASSUME NEW c \in Listeners, PostExt(c)
       PROVE  ExtOpened'
  <2>1. ExtCall(c) \in Calls /\ ExtCall(c).arg = c /\ listener'[c] = "live"
        /\ \A d \in Listeners : listener'[d] = "unborn" => listener[d] = "unborn"
    BY <1>12, CallTypes DEF PostExt, ExtCall, TypeOK
  <2> QED
    BY <1>12, <2>1, PostsKeepExtOpened DEF PostExt
<1> QED
  BY <1>2, <1>3, <1>4, <1>5, <1>6, <1>7, <1>8, <1>9, <1>10, <1>11, <1>12 DEF Next, Task

LEMMA GreetingOnlyAtHeadOfConcat ==
    ASSUME NEW S, NEW s \in Seq(S), NEW t \in Seq(S),
           GreetingOnlyAtHead(s), GreetingOnlyAtHead(t),
           \A i \in 1 .. Len(t) : t[i] = Greeting => s = <<>>,
           NEW i \in DOMAIN (s \o t), (s \o t)[i] = Greeting
    PROVE  i = 1
<1>1. /\ Len(s) \in Nat /\ Len(t) \in Nat /\ Len(<<>>) = 0 /\ i \in 1 .. Len(s) + Len(t)
      /\ (s \o t)[i] = IF i <= Len(s) THEN s[i] ELSE t[i - Len(s)]
  OBVIOUS
<1>2. CASE i <= Len(s)
  BY <1>1, <1>2 DEF GreetingOnlyAtHead
<1>3. CASE i > Len(s)
  <2> DEFINE j == i - Len(s)
  <2>1. j \in 1 .. Len(t) /\ t[j] = Greeting
    BY <1>1, <1>3
  <2>2. j = 1 /\ s = <<>>
    BY <2>1 DEF GreetingOnlyAtHead
  <2> QED
    BY <1>1, <2>2
<1> QED
  BY <1>1, <1>2, <1>3

LEMMA GreetingInvHolds == Spec => [](ExtOpened /\ GreetingInv)
<1>1. Init => ExtOpened /\ GreetingInv
  <2> SUFFICES ASSUME Init PROVE ExtOpened /\ GreetingInv
    OBVIOUS
  <2>1. Len(<<>>) = 0 /\ Len(mailbox) = Len(Transforms) /\ Len(Transforms) \in Nat
        /\ \A i \in 1 .. Len(Transforms) : mailbox[i].call = "Transform"
    BY CapsAssumption DEF Init, TransformCall
  <2>2. ExtOpened
    BY <2>1 DEF Init, ExtOpened
  <2>3. GreetingInv
    BY <2>1 DEF Init, GreetingInv, GreetingOnlyAtHead
  <2> QED
    BY <2>2, <2>3
<1>2. TypeOK /\ ExtOpened /\ GreetingInv /\ [Next]_vars => ExtOpened' /\ GreetingInv'
  <2> SUFFICES ASSUME TypeOK, ExtOpened, GreetingInv, [Next]_vars
               PROVE  ExtOpened' /\ GreetingInv'
    OBVIOUS
  <2>1. CASE UNCHANGED vars
    BY <2>1 DEF vars, laneVars, endVars, ExtOpened, GreetingInv, GreetingOnlyAtHead
  <2>2. CASE Next
    <3>1. ExtOpened'
      BY <2>2, StepKeepsExtOpened
    <3>2. CASE UNCHANGED <<chan, listener, got>>
      BY <3>1, <3>2 DEF GreetingInv, GreetingOnlyAtHead
    <3>3. ASSUME NEW c \in Listeners, PostExt(c)
          PROVE  GreetingInv'
      BY <3>3 DEF PostExt, GreetingInv, GreetingOnlyAtHead, TypeOK
    <3>4. UNCHANGED <<chan, listener, got>> \/ HandOver \/ \E c \in Listeners :
             Open(c) \/ PostExt(c) \/ Receive(c) \/ DropListener(c) \/ ReadEnd(c)
      BY <2>2 DEF Next, Task, TakeExt, TakeResetExt, TakeTransform, TakeWave, HandOverFails,
                  PostResetExt, Requeue, Send, SendTimeout, TxSend, TxForward, endVars
    <3> QED
      BY <3>1, <3>2, <3>3, <3>4, OpenGreets, ReceiveGreets, DropGreets, ReadEndGreets,
         HandOverGreets
  <2> QED
    BY <2>1, <2>2
<1> QED
  BY <1>1, <1>2, TypeTheorem, PTL DEF Spec

\* However many waves wait in the lane, a listener opened with a greeting gets
\* the greeting first and gets no other.
THEOREM GreetingTheorem == Spec => []GreetingFirst
<1>1. TypeOK /\ GreetingInv => GreetingFirst
  <2> SUFFICES ASSUME TypeOK, GreetingInv, NEW c \in Listeners, NEW i \in DOMAIN Handed(c),
                      Handed(c)[i] = Greeting
               PROVE  i = 1
    BY DEF GreetingFirst
  <2>1. got[c] \in Seq(Waves \union {Greeting}) /\ chan[c] \in Seq(Waves \union {Greeting})
    BY DEF TypeOK
  <2>2. GreetingOnlyAtHead(got[c]) /\ GreetingOnlyAtHead(chan[c])
        /\ \A j \in 1 .. Len(chan[c]) : chan[c][j] = Greeting => got[c] = <<>>
    BY DEF GreetingInv
  <2>3. i \in DOMAIN (got[c] \o chan[c]) /\ (got[c] \o chan[c])[i] = Greeting
    BY DEF Handed
  <2> QED
    BY <2>1, <2>2, <2>3, GreetingOnlyAtHeadOfConcat
<1> QED
  BY <1>1, TypeTheorem, GreetingInvHolds, PTL

-----------------------------------------------------------------------------
(* OnePlace.                                                               *)

LEMMA DistinctTail ==
    ASSUME NEW S, NEW s \in Seq(S), s /= <<>>, Distinct(s)
    PROVE  Distinct(Tail(s)) /\ InSeq(Tail(s)) = InSeq(s) \ {Head(s)}
<1> DEFINE t == Tail(s)
<1>1. /\ DOMAIN s = 1 .. Len(s) /\ DOMAIN t = 1 .. Len(s) - 1 /\ Len(s) \in Nat /\ Len(s) >= 1
      /\ Head(s) = s[1] /\ \A i \in 1 .. Len(s) - 1 : t[i] = s[i + 1]
  OBVIOUS
<1> HIDE DEF t
<1>2. Distinct(t)
  BY <1>1, SMTT(20) DEF Distinct
<1>3. ASSUME NEW i \in DOMAIN s, i /= 1 PROVE s[i] \in InSeq(t)
  <2>1. i - 1 \in DOMAIN t /\ t[i - 1] = s[i]
    BY <1>1, <1>3
  <2> QED
    BY <2>1 DEF InSeq
<1>4. ASSUME NEW i \in DOMAIN t PROVE t[i] \in InSeq(s) /\ t[i] /= s[1]
  <2>1. i + 1 \in DOMAIN s /\ 1 \in DOMAIN s /\ i + 1 /= 1 /\ t[i] = s[i + 1]
    BY <1>1
  <2> QED
    BY <2>1 DEF InSeq, Distinct
<1>5. InSeq(t) = InSeq(s) \ {Head(s)}
  BY <1>1, <1>3, <1>4 DEF InSeq
<1> QED
  BY <1>2, <1>5 DEF t

LEMMA DistinctAppend ==
    ASSUME NEW S, NEW s \in Seq(S), NEW x \in S, Distinct(s), x \notin InSeq(s)
    PROVE  Distinct(Append(s, x))
<1> DEFINE t == Append(s, x)
<1>1. /\ DOMAIN t = 1 .. Len(s) + 1 /\ DOMAIN s = 1 .. Len(s) /\ Len(s) \in Nat
      /\ t[Len(s) + 1] = x /\ \A i \in 1 .. Len(s) : t[i] = s[i]
  OBVIOUS
<1> HIDE DEF t
<1>2. \A i \in 1 .. Len(s) : s[i] /= x
  BY <1>1 DEF InSeq
<1>3. Distinct(t)
  BY <1>1, <1>2 DEF Distinct
<1> QED
  BY <1>3 DEF t

\* Cutting a sequence in two.
LEMMA DistinctCut ==
    ASSUME NEW S, NEW s \in Seq(S), Distinct(s), NEW n \in 0 .. Len(s)
    PROVE  LET front == SubSeq(s, 1, n)
               rest  == SubSeq(s, n + 1, Len(s))
           IN  Distinct(rest) /\ rest \in Seq(S) /\ InSeq(front) \subseteq InSeq(s)
               /\ InSeq(rest) = InSeq(s) \ InSeq(front)
<1> DEFINE f == SubSeq(s, 1, n)
           r == SubSeq(s, n + 1, Len(s))
<1>1. DOMAIN s = 1 .. Len(s) /\ Len(s) \in Nat /\ n \in Nat
  OBVIOUS
<1>2. r \in Seq(S) /\ DOMAIN r = 1 .. Len(s) - n /\ \A i \in 1 .. Len(s) - n : r[i] = s[n + i]
  <2>0. (\A i \in n + 1 .. Len(s) : s[i] \in S) /\ n + 1 \in Int /\ Len(s) \in Int
    BY <1>1
  <2>3. /\ r \in Seq(S) /\ Len(r) = IF n + 1 <= Len(s) THEN Len(s) - (n + 1) + 1 ELSE 0
        /\ \A i \in 1 .. Len(s) - (n + 1) + 1 : r[i] = s[n + 1 + i - 1]
    BY <2>0, SubSeqProperties
  <2> HIDE DEF r
  <2>1. Len(r) = Len(s) - n /\ r \in Seq(S) /\ \A i \in 1 .. Len(r) : r[i] = s[n + 1 + i - 1]
    <3>1. n <= Len(s) /\ Len(s) - (n + 1) + 1 = Len(s) - n
      BY <1>1
    <3>2. Len(r) = Len(s) - n
      <4>1. CASE n + 1 <= Len(s)
        BY <2>3, <3>1, <4>1
      <4>2. CASE ~(n + 1 <= Len(s))
        <5>1. n = Len(s) /\ Len(s) - n = 0
          <6>1. \A a, b \in Nat : a <= b /\ ~(a + 1 <= b) => a = b /\ b - a = 0
            OBVIOUS
          <6> QED
            BY <1>1, <3>1, <4>2, <6>1
        <5> QED
          BY <2>3, <4>2, <5>1
      <4> QED
        BY <4>1, <4>2
    <3> QED
      BY <2>3, <3>1, <3>2
  <2>2. \A i \in 1 .. Len(r) : n + 1 + i - 1 = n + i
    BY <1>1
  <2> QED
    BY <2>1, <2>2
<1>3. DOMAIN f = 1 .. n /\ \A i \in 1 .. n : f[i] = s[i]
  <2>1. Len(f) = n /\ f \in Seq(S) /\ \A i \in 1 .. Len(f) : f[i] = s[1 + i - 1]
    BY <1>1, SubSeqProperties
  <2> HIDE DEF f
  <2>2. \A i \in 1 .. Len(f) : 1 + i - 1 = i
    BY <1>1
  <2> QED
    BY <2>1, <2>2
<1> HIDE DEF f, r
<1>4. Distinct(r)
  <2> SUFFICES ASSUME NEW i \in DOMAIN r, NEW j \in DOMAIN r, r[i] = r[j] PROVE i = j
    BY DEF Distinct
  <2>1. /\ n + i \in DOMAIN s /\ n + j \in DOMAIN s /\ i \in Nat /\ j \in Nat
        /\ s[n + i] = s[n + j]
    BY <1>1, <1>2
  <2>2. n + i = n + j
    BY <2>1 DEF Distinct
  <2> QED
    BY <2>1, <2>2
<1>5. ASSUME NEW i \in DOMAIN s, i > n PROVE s[i] \in InSeq(r)
  <2>1. i - n \in DOMAIN r /\ r[i - n] = s[i]
    BY <1>1, <1>2, <1>5
  <2> QED
    BY <2>1 DEF InSeq
<1>6. ASSUME NEW i \in DOMAIN s, ~(i > n) PROVE s[i] \in InSeq(f)
  <2>1. i \in DOMAIN f /\ f[i] = s[i]
    BY <1>1, <1>3, <1>6
  <2> QED
    BY <2>1 DEF InSeq
<1>7. ASSUME NEW i \in DOMAIN f PROVE f[i] \in InSeq(s)
  BY <1>1, <1>3 DEF InSeq
<1>8. ASSUME NEW i \in DOMAIN r PROVE r[i] \in InSeq(s) /\ r[i] \notin InSeq(f)
  <2>1. n + i \in DOMAIN s /\ r[i] = s[n + i]
    BY <1>1, <1>2
  <2>2. ASSUME NEW j \in DOMAIN f PROVE f[j] /= r[i]
    <3>1. j \in DOMAIN s /\ f[j] = s[j] /\ j /= n + i
      BY <1>1, <1>2, <1>3
    <3> QED
      BY <3>1, <2>1 DEF Distinct
  <2> QED
    BY <2>1, <2>2 DEF InSeq
<1>9. InSeq(f) \subseteq InSeq(s) /\ InSeq(r) = InSeq(s) \ InSeq(f)
  <2>1. InSeq(f) \subseteq InSeq(s) /\ InSeq(r) \subseteq InSeq(s) \ InSeq(f)
    BY <1>7, <1>8 DEF InSeq
  <2>2. \A x \in InSeq(s) : x \in InSeq(r) \/ x \in InSeq(f)
    BY <1>5, <1>6 DEF InSeq
  <2> QED
    BY <2>1, <2>2
<1> QED
  BY <1>2, <1>4, <1>9 DEF f, r

\* The calls of the mailbox that carry waves.
MailDistinct ==
    \A i, j \in DOMAIN mailbox :
       mailbox[i] = mailbox[j] /\ mailbox[i].call = "Wave" => i = j

LEMMA MailedByPost ==
    ASSUME TypeOK, NEW call \in Calls, mailbox' = Append(mailbox, call)
    PROVE  /\ call.call /= "Wave" => Mailed' = Mailed
           /\ \A w \in Waves : call = WaveCall(w) => Mailed' = Mailed \union {w}
           /\ MailDistinct /\ (\A w \in Mailed : call /= WaveCall(w)) => MailDistinct'
<1>1. /\ DOMAIN mailbox' = 1 .. Len(mailbox) + 1 /\ DOMAIN mailbox = 1 .. Len(mailbox)
      /\ Len(mailbox) \in Nat /\ mailbox'[Len(mailbox) + 1] = call
      /\ \A i \in 1 .. Len(mailbox) : mailbox'[i] = mailbox[i] /\ mailbox[i] \in Calls
  BY DEF TypeOK
<1>2. call.call = "Wave" => call.arg \in Waves /\ call = WaveCall(call.arg)
  BY DEF Calls, WaveCall
<1>3. Mailed' = {w \in Waves : w \in Mailed \/ call = WaveCall(w)}
  <2>1. ASSUME NEW w \in Waves, w \in Mailed PROVE w \in Mailed'
    BY <1>1, <2>1 DEF Mailed
  <2>2. ASSUME NEW w \in Waves, call = WaveCall(w) PROVE w \in Mailed'
    <3>1. Len(mailbox) + 1 \in DOMAIN mailbox'
      BY <1>1
    <3> QED
      BY <1>1, <2>2, <3>1 DEF Mailed, WaveCall
  <2>3. ASSUME NEW w \in Waves, w \in Mailed' PROVE w \in Mailed \/ call = WaveCall(w)
    <3>1. PICK i \in DOMAIN mailbox' : mailbox'[i] = WaveCall(w)
      BY <2>3 DEF Mailed, WaveCall
    <3> QED
      BY <1>1, <3>1 DEF Mailed
  <2> QED
    BY <2>1, <2>2, <2>3 DEF Mailed
<1>4. Mailed \subseteq Waves
  BY DEF Mailed
<1>5. ASSUME MailDistinct, \A w \in Mailed : call /= WaveCall(w) PROVE MailDistinct'
  <2>1. ASSUME NEW i \in 1 .. Len(mailbox), mailbox[i] = call, call.call = "Wave" PROVE FALSE
    BY <1>1, <1>2, <1>5, <2>1 DEF Mailed
  <2> QED
    BY <1>1, <1>5, <2>1 DEF MailDistinct
<1>6. \A v, w \in Waves : WaveCall(v) = WaveCall(w) => v = w
  BY DEF WaveCall
<1>7. \A w \in Waves : WaveCall(w).call = "Wave"
  BY DEF WaveCall
<1> QED
  BY <1>3, <1>4, <1>5, <1>6, <1>7

LEMMA MailedByTake ==
    ASSUME TypeOK, MailDistinct, NEW kind, Receiving(kind)
    PROVE  /\ MailDistinct'
           /\ Mailed' = IF kind = "Wave" THEN Mailed \ {Head(mailbox).arg} ELSE Mailed
           /\ kind = "Wave" => Head(mailbox).arg \in Mailed
<1>1. mailbox \in Seq(Calls) /\ mailbox /= <<>> /\ mailbox' = Tail(mailbox)
      /\ Head(mailbox).call = kind
  BY DEF TypeOK, Receiving
<1>2. /\ DOMAIN mailbox = 1 .. Len(mailbox) /\ DOMAIN mailbox' = 1 .. Len(mailbox) - 1
      /\ Head(mailbox) = mailbox[1] /\ Len(mailbox) \in Nat /\ Len(mailbox) >= 1
      /\ \A i \in 1 .. Len(mailbox) - 1 : mailbox'[i] = mailbox[i + 1]
      /\ mailbox[1] \in Calls
  BY <1>1
<1>3. MailDistinct'
  BY <1>2 DEF MailDistinct
<1>4. kind = "Wave" => Head(mailbox).arg \in Waves /\ mailbox[1] = WaveCall(Head(mailbox).arg)
  BY <1>1, <1>2 DEF Calls, WaveCall
<1>5. kind /= "Wave" => \A w \in Waves : mailbox[1] /= WaveCall(w)
  BY <1>1, <1>2 DEF WaveCall
<1>6. ASSUME NEW w \in Waves, w \in Mailed' PROVE w \in Mailed /\ mailbox[1] /= WaveCall(w)
  <2>1. PICK i \in DOMAIN mailbox' : mailbox'[i] = WaveCall(w)
    BY <1>6 DEF Mailed, WaveCall
  <2>2. i + 1 \in DOMAIN mailbox /\ mailbox[i + 1] = WaveCall(w) /\ 1 \in DOMAIN mailbox
        /\ i + 1 /= 1
    BY <1>2, <2>1
  <2> QED
    BY <2>2 DEF Mailed, MailDistinct, WaveCall
<1>7. ASSUME NEW w \in Waves, w \in Mailed, mailbox[1] /= WaveCall(w) PROVE w \in Mailed'
  <2>1. PICK i \in DOMAIN mailbox : mailbox[i] = WaveCall(w)
    BY <1>7 DEF Mailed
  <2>2. i - 1 \in DOMAIN mailbox' /\ mailbox'[i - 1] = WaveCall(w)
    BY <1>2, <1>7, <2>1
  <2> QED
    BY <2>2 DEF Mailed, WaveCall
<1>8. Mailed' = {w \in Waves : w \in Mailed /\ mailbox[1] /= WaveCall(w)}
  BY <1>6, <1>7 DEF Mailed
<1>9. \A v, w \in Waves : WaveCall(v) = WaveCall(w) => v = w
  BY DEF WaveCall
<1>10. Mailed \subseteq Waves /\ 1 \in DOMAIN mailbox
  BY <1>2 DEF Mailed
<1>11. kind = "Wave" => Head(mailbox).arg \in Mailed
  BY <1>4, <1>10 DEF Mailed
<1> QED
  BY <1>3, <1>4, <1>5, <1>8, <1>9, <1>10, <1>11

Held(h) == At(h) \ {Greeting}

\* What is held was sent, it is held by somebody, and by nobody else.
PlaceInv ==
    /\ \A w \in Waves : w <= sent => \E h \in Holders : w \in At(h)
    /\ \A g, h \in Holders : g /= h => At(g) \intersect At(h) \subseteq {Greeting}
    /\ \A h \in Holders : \A w \in Held(h) : w \in Waves /\ w <= sent

\* No place holds a wave twice.
OnceInv ==
    /\ Distinct(relay) /\ Distinct(queue) /\ MailDistinct
    /\ \A c \in Listeners : Distinct(chan[c]) /\ Distinct(got[c])

\* The holders, one by one.
LEMMA HolderCases ==
    ASSUME NEW h \in Holders
    PROVE  \/ h = <<"relay", 0>>   /\ At(h) = InSeq(relay) /\ At(h)' = InSeq(relay')
           \/ h = <<"mailbox", 0>> /\ At(h) = Mailed       /\ At(h)' = Mailed'
           \/ h = <<"queue", 0>>   /\ At(h) = InSeq(queue) /\ At(h)' = InSeq(queue')
           \/ h = <<"lost", 0>>    /\ At(h) = Lost         /\ At(h)' = Lost'
           \/ \E c \in Listeners : /\ h = <<"chan", c>> /\ At(h) = InSeq(chan[c])
                                   /\ At(h)' = InSeq(chan'[c])
           \/ \E c \in Listeners : /\ h = <<"got", c>> /\ At(h) = InSeq(got[c])
                                   /\ At(h)' = InSeq(got'[c])
<1>1. \/ h \in {"relay", "mailbox", "queue", "lost"} \X {0}
      \/ h \in {"chan", "got"} \X Listeners
  BY DEF Holders
<1>2. CASE h \in {"relay", "mailbox", "queue", "lost"} \X {0}
  <2>1. h \in {<<"relay", 0>>, <<"mailbox", 0>>, <<"queue", 0>>, <<"lost", 0>>}
    BY <1>2
  <2> QED
    BY <2>1 DEF At, InSeq
<1>3. CASE h \in {"chan", "got"} \X Listeners
  <2>1. PICK c \in Listeners : h = <<"chan", c>> \/ h = <<"got", c>>
    BY <1>3
  <2> QED
    BY <2>1 DEF At, InSeq
<1> QED
  BY <1>1, <1>2, <1>3

LEMMA HoldersAre ==
    /\ <<"relay", 0>> \in Holders /\ <<"mailbox", 0>> \in Holders
    /\ <<"queue", 0>> \in Holders /\ <<"lost", 0>> \in Holders
    /\ \A c \in Listeners : <<"chan", c>> \in Holders /\ <<"got", c>> \in Holders
  BY DEF Holders

\* A step that gives every wave of W to the holder D says, keeps every wave in one place.
LEMMA Moved ==
    ASSUME TypeOK, PlaceInv, sent' \in Nat, sent <= sent',
           NEW W \in SUBSET Waves, NEW D \in [W -> Holders],
           \A w \in W : w <= sent',
           \A w \in Waves : w <= sent' => w <= sent \/ w \in W,
           \A h \in Holders : Held(h)' = (Held(h) \ W) \union {w \in W : D[w] = h}
    PROVE  PlaceInv'
<1>0. sent \in Nat /\ \A w \in Waves : w \in Nat /\ w /= Greeting
  BY CapsAssumption DEF TypeOK, Waves, Greeting
<1>1. ASSUME NEW w \in Waves, w <= sent' PROVE \E h \in Holders : w \in At(h)'
  <2>1. CASE w \in W
    <3>1. D[w] \in Holders /\ w \in Held(D[w])'
      BY <2>1
    <3> QED
      BY <3>1 DEF Held
  <2>2. CASE w \notin W
    <3>1. PICK h \in Holders : w \in At(h)
      BY <1>1, <2>2 DEF PlaceInv
    <3>2. w \in Held(h)'
      BY <1>0, <2>2, <3>1 DEF Held
    <3> QED
      BY <3>2 DEF Held
  <2> QED
    BY <2>1, <2>2
<1>2. ASSUME NEW g \in Holders, NEW h \in Holders, g /= h
      PROVE  At(g)' \intersect At(h)' \subseteq {Greeting}
  <2>1. Held(g) \intersect Held(h) = {}
    BY <1>2 DEF PlaceInv, Held
  <2>2. Held(g)' \intersect Held(h)' = {}
    BY <1>2, <2>1
  <2> QED
    BY <2>2 DEF Held
<1>3. ASSUME NEW h \in Holders, NEW w \in Held(h)' PROVE w \in Waves /\ w <= sent'
  <2>1. CASE w \in W
    BY <2>1
  <2>2. CASE w \in Held(h)
    <3>1. w \in Waves /\ w <= sent
      BY <2>2 DEF PlaceInv
    <3>2. \A a, b, c \in Nat : a <= b /\ b <= c => a <= c
      OBVIOUS
    <3> QED
      BY <1>0, <3>1, <3>2
  <2> QED
    BY <1>3, <2>1, <2>2
<1> QED
  BY <1>1, <1>2, <1>3 DEF PlaceInv

\* A step that moves nothing.
LEMMA Stayed ==
    ASSUME PlaceInv, sent' = sent, \A h \in Holders : Held(h)' = Held(h)
    PROVE  PlaceInv'
<1>1. \A h \in Holders : At(h)' \ {Greeting} = At(h) \ {Greeting}
  BY DEF Held
<1>2. ASSUME NEW w \in Waves, w <= sent PROVE \E h \in Holders : w \in At(h)'
  <2>1. w /= Greeting
    BY CapsAssumption DEF Waves, Greeting
  <2> QED
    BY <1>1, <1>2, <2>1 DEF PlaceInv
<1>3. \A g, h \in Holders : g /= h => At(g)' \intersect At(h)' \subseteq {Greeting}
  BY <1>1 DEF PlaceInv
<1> QED
  BY <1>2, <1>3 DEF PlaceInv

\* A step that takes the waves W from one holder to another.
LEMMA MovedFromTo ==
    ASSUME TypeOK, PlaceInv, sent' = sent, NEW from \in Holders, NEW to \in Holders, from /= to,
           NEW W \in SUBSET Held(from),
           \A h \in Holders : /\ h /= from /\ h /= to => Held(h)' = Held(h)
                              /\ h = from => Held(h)' = Held(h) \ W
                              /\ h = to => Held(h)' = Held(h) \union W
    PROVE  PlaceInv'
<1> DEFINE D == [w \in W |-> to]
<1>1. W \in SUBSET Waves /\ \A w \in W : w <= sent
  BY DEF PlaceInv
<1>2. \A h \in Holders : h /= from => Held(h) \intersect W = {}
  BY DEF PlaceInv, Held
<1>3. D \in [W -> Holders]
  OBVIOUS
<1>4. ASSUME NEW h \in Holders PROVE Held(h)' = (Held(h) \ W) \union {w \in W : D[w] = h}
  BY <1>2
<1>5. sent \in Nat
  BY CapsAssumption DEF TypeOK
<1> HIDE DEF D
<1> QED
  BY <1>1, <1>3, <1>4, <1>5, Moved

\* The next wave enters the lane.
LEMMA Entered ==
    ASSUME TypeOK, PlaceInv, sent < MaxWaves, sent' = sent + 1, NEW to \in Holders,
           \A h \in Holders : /\ h /= to => Held(h)' = Held(h)
                              /\ h = to => Held(h)' = Held(h) \union {sent'}
    PROVE  PlaceInv'
<1> DEFINE W == {sent'}
           D == [w \in W |-> to]
<1>1. sent \in Nat /\ sent' \in Nat /\ sent <= sent' /\ sent' \in Waves
  BY CapsAssumption DEF TypeOK, Waves
<1>2. \A h \in Holders : sent' \notin Held(h)
  BY <1>1 DEF PlaceInv
<1>3. D \in [W -> Holders] /\ W \in SUBSET Waves
  BY <1>1
<1>4. ASSUME NEW h \in Holders PROVE Held(h)' = (Held(h) \ W) \union {w \in W : D[w] = h}
  BY <1>2
<1>5. \A w \in Waves : w <= sent' => w <= sent \/ w \in W
  BY <1>1 DEF Waves
<1>6. \A w \in W : w <= sent'
  BY <1>1
<1> HIDE DEF D, W
<1> QED
  BY <1>1, <1>3, <1>4, <1>5, <1>6, Moved

\* What every holder holds before and after a step.
LEMMA HeldAre ==
    /\ Held(<<"relay", 0>>) = InSeq(relay) \ {Greeting}
    /\ Held(<<"relay", 0>>)' = InSeq(relay') \ {Greeting}
    /\ Held(<<"mailbox", 0>>) = Mailed /\ Held(<<"mailbox", 0>>)' = Mailed'
    /\ Held(<<"queue", 0>>) = InSeq(queue) \ {Greeting}
    /\ Held(<<"queue", 0>>)' = InSeq(queue') \ {Greeting}
    /\ Held(<<"lost", 0>>) = Lost /\ Held(<<"lost", 0>>)' = Lost'
    /\ \A c \in Listeners : /\ Held(<<"chan", c>>) = InSeq(chan[c]) \ {Greeting}
                            /\ Held(<<"chan", c>>)' = InSeq(chan'[c]) \ {Greeting}
                            /\ Held(<<"got", c>>) = InSeq(got[c]) \ {Greeting}
                            /\ Held(<<"got", c>>)' = InSeq(got'[c]) \ {Greeting}
<1>1. Greeting \notin Waves
  BY CapsAssumption DEF Waves, Greeting
<1>2. Greeting \notin Mailed /\ Greeting \notin Lost /\ Greeting \notin Mailed' /\ Greeting \notin Lost'
  BY <1>1 DEF Mailed, Lost
<1> QED
  BY <1>2 DEF Held, At, InSeq

\* The holders by their names.
LEMMA HolderNames ==
    ASSUME NEW h \in Holders
    PROVE  \/ h \in {<<"relay", 0>>, <<"mailbox", 0>>, <<"queue", 0>>, <<"lost", 0>>}
           \/ \E c \in Listeners : h = <<"chan", c>> \/ h = <<"got", c>>
<1>1. \/ h \in {"relay", "mailbox", "queue", "lost"} \X {0}
      \/ h \in {"chan", "got"} \X Listeners
  BY DEF Holders
<1> QED
  BY <1>1

\* A holder whose place does not change keeps what it holds.
LEMMA HeldKept ==
    ASSUME NEW h \in Holders,
           h = <<"relay", 0>> => relay' = relay, h = <<"mailbox", 0>> => mailbox' = mailbox,
           h = <<"queue", 0>> => queue' = queue, h = <<"lost", 0>> => lost' = lost,
           \A c \in Listeners : /\ h = <<"chan", c>> => chan'[c] = chan[c]
                                /\ h = <<"got", c>> => got'[c] = got[c]
    PROVE  Held(h)' = Held(h)
<1>1. CASE h = <<"relay", 0>>
  BY <1>1, HeldAre
<1>2. CASE h = <<"mailbox", 0>>
  <2>1. Mailed' = Mailed
    BY <1>2 DEF Mailed
  <2> QED
    BY <1>2, <2>1, HeldAre
<1>3. CASE h = <<"queue", 0>>
  BY <1>3, HeldAre
<1>4. CASE h = <<"lost", 0>>
  <2>1. Lost' = Lost
    BY <1>4 DEF Lost
  <2> QED
    BY <1>4, <2>1, HeldAre
<1>5. ASSUME NEW c \in Listeners, h = <<"chan", c>> PROVE Held(h)' = Held(h)
  BY <1>5, HeldAre
<1>6. ASSUME NEW c \in Listeners, h = <<"got", c>> PROVE Held(h)' = Held(h)
  BY <1>6, HeldAre
<1> QED
  BY <1>1, <1>2, <1>3, <1>4, <1>5, <1>6, HolderNames

LEMMA SendPlace == ASSUME TypeOK, PlaceInv, Send PROVE PlaceInv'
<1>1. sent' \in Waves /\ sent < MaxWaves /\ sent' = sent + 1
  BY CapsAssumption DEF TypeOK, Send, Waves
<1>2. Mailed' = Mailed \union {sent'}
  BY <1>1, MailedByPost, CallTypes DEF Send
<1>3. UNCHANGED <<queue, relay, chan, got, lost>>
  BY DEF Send, endVars, histVars
<1>4. ASSUME NEW h \in Holders
      PROVE  /\ h /= <<"mailbox", 0>> => Held(h)' = Held(h)
             /\ h = <<"mailbox", 0>> => Held(h)' = Held(h) \union {sent'}
  <2>1. Held(<<"mailbox", 0>>)' = Held(<<"mailbox", 0>>) \union {sent'}
    BY <1>2, HeldAre
  <2> QED
    BY <1>3, <2>1, HeldKept
<1> QED
  BY <1>1, <1>4, HoldersAre, Entered

LEMMA SendTimeoutPlace == ASSUME TypeOK, PlaceInv, SendTimeout PROVE PlaceInv'
<1>1. sent' \in Waves /\ sent < MaxWaves /\ sent' = sent + 1
  BY CapsAssumption DEF TypeOK, SendTimeout, Waves
<1>2. Lost' = Lost \union {sent'}
  BY <1>1 DEF SendTimeout, Lost, TypeOK
<1>3. UNCHANGED <<mailbox, queue, relay, chan, got>>
  BY DEF SendTimeout, laneVars, endVars
<1>4. ASSUME NEW h \in Holders
      PROVE  /\ h /= <<"lost", 0>> => Held(h)' = Held(h)
             /\ h = <<"lost", 0>> => Held(h)' = Held(h) \union {sent'}
  <2>1. Held(<<"lost", 0>>)' = Held(<<"lost", 0>>) \union {sent'}
    BY <1>2, HeldAre
  <2> QED
    BY <1>3, <2>1, HeldKept
<1> QED
  BY <1>1, <1>4, HoldersAre, Entered

LEMMA TxSendPlace == ASSUME TypeOK, PlaceInv, TxSend PROVE PlaceInv'
<1>1. sent' \in Waves /\ sent < MaxWaves /\ sent' = sent + 1 /\ sent' /= Greeting
  BY CapsAssumption DEF TypeOK, TxSend, Waves, Greeting
<1>2. InSeq(relay') = InSeq(relay) \union {sent'}
  BY <1>1, InSeqAppend DEF TxSend, TypeOK
<1>3. UNCHANGED <<mailbox, queue, chan, got, lost>>
  BY DEF TxSend, laneVars, endVars, histVars
<1>4. ASSUME NEW h \in Holders
      PROVE  /\ h /= <<"relay", 0>> => Held(h)' = Held(h)
             /\ h = <<"relay", 0>> => Held(h)' = Held(h) \union {sent'}
  <2>1. InSeq(relay') \ {Greeting} = (InSeq(relay) \ {Greeting}) \union {sent'}
    BY <1>1, <1>2
  <2>2. Held(<<"relay", 0>>)' = Held(<<"relay", 0>>) \union {sent'}
    BY <2>1, HeldAre
  <2> QED
    BY <1>3, <2>2, HeldKept
<1> QED
  BY <1>1, <1>4, HoldersAre, Entered

LEMMA TxForwardPlace == ASSUME TypeOK, PlaceInv, OnceInv, TxForward PROVE PlaceInv'
<1>1. relay \in Seq(Waves) /\ relay /= <<>> /\ Distinct(relay) /\ relay' = Tail(relay)
  BY DEF TxForward, TypeOK, OnceInv
<1>2. Head(relay) \in Waves /\ Head(relay) /= Greeting
  BY <1>1, CapsAssumption DEF Waves, Greeting
<1>3. InSeq(relay') = InSeq(relay) \ {Head(relay)} /\ Head(relay) \in InSeq(relay)
  BY <1>1, DistinctTail, InSeqHead
<1>4. Mailed' = Mailed \union {Head(relay)}
  BY <1>2, MailedByPost, CallTypes DEF TxForward
<1>5. UNCHANGED <<queue, chan, got, lost, sent>>
  BY DEF TxForward, endVars, histVars
<1> DEFINE W == {Head(relay)}
<1>6. W \in SUBSET Held(<<"relay", 0>>)
  BY <1>2, <1>3, HeldAre
<1>7. ASSUME NEW h \in Holders
      PROVE  /\ h /= <<"relay", 0>> /\ h /= <<"mailbox", 0>> => Held(h)' = Held(h)
             /\ h = <<"relay", 0>> => Held(h)' = Held(h) \ W
             /\ h = <<"mailbox", 0>> => Held(h)' = Held(h) \union W
  <2>1. InSeq(relay') \ {Greeting} = (InSeq(relay) \ {Greeting}) \ W
    BY <1>3
  <2>2. Held(<<"relay", 0>>)' = Held(<<"relay", 0>>) \ W
    BY <2>1, HeldAre
  <2>3. Held(<<"mailbox", 0>>)' = Held(<<"mailbox", 0>>) \union W
    BY <1>4, HeldAre
  <2>4. h /= <<"relay", 0>> /\ h /= <<"mailbox", 0>> => Held(h)' = Held(h)
    BY <1>5, HeldKept
  <2> QED
    BY <2>2, <2>3, <2>4
<1>8. <<"relay", 0>> /= <<"mailbox", 0>>
  OBVIOUS
<1> HIDE DEF W
<1> QED
  BY <1>5, <1>6, <1>7, <1>8, HoldersAre, MovedFromTo

\* Opening and posting move no wave.
LEMMA OpenPlace == ASSUME TypeOK, PlaceInv, GreetingInv, NEW c \in Listeners, Open(c) PROVE PlaceInv'
<1>1. PICK init \in {<<>>, <<Greeting>>} : chan' = [chan EXCEPT ![c] = init]
  BY DEF Open
<1>2. chan[c] = <<>> /\ UNCHANGED <<mailbox, queue, relay, got, lost, sent>>
  BY DEF Open, MayOpen, GreetingInv, laneVars, waveVars, histVars
<1>3. InSeq(init) \subseteq {Greeting} /\ InSeq(<<>>) = {}
  BY <1>1 DEF InSeq
<1>4. \A d \in Listeners : InSeq(chan'[d]) \ {Greeting} = InSeq(chan[d]) \ {Greeting}
  BY <1>1, <1>2, <1>3 DEF TypeOK
<1>5. ASSUME NEW h \in Holders PROVE Held(h)' = Held(h)
  <2>1. CASE \E d \in Listeners : h = <<"chan", d>>
    BY <1>4, <2>1, HeldAre, ZenonT(30)
  <2>2. CASE ~\E d \in Listeners : h = <<"chan", d>>
    BY <1>2, <2>2, HeldKept
  <2> QED
    BY <2>1, <2>2
<1> QED
  BY <1>2, <1>5, Stayed

LEMMA ReceivePlace ==
    ASSUME TypeOK, PlaceInv, OnceInv, NEW c \in Listeners, Receive(c) PROVE PlaceInv'
<1> DEFINE w == Head(chan[c])
           W == {w} \ {Greeting}
<1>1. /\ chan[c] \in Seq(Waves \union {Greeting}) /\ chan[c] /= <<>> /\ Distinct(chan[c])
      /\ got[c] \in Seq(Waves \union {Greeting})
  BY DEF Receive, TypeOK, OnceInv
<1>2. w \in Waves \union {Greeting} /\ w \in InSeq(chan[c])
      /\ InSeq(Tail(chan[c])) = InSeq(chan[c]) \ {w}
  BY <1>1, DistinctTail, InSeqHead
<1>3. InSeq(Append(got[c], w)) = InSeq(got[c]) \union {w}
  BY <1>1, <1>2, InSeqAppend
<1>4. /\ chan'[c] = Tail(chan[c]) /\ got'[c] = Append(got[c], w)
      /\ \A d \in Listeners : d /= c => chan'[d] = chan[d] /\ got'[d] = got[d]
      /\ UNCHANGED <<mailbox, queue, relay, lost, sent>>
  BY DEF Receive, TypeOK, laneVars, waveVars, histVars
<1>5. W \in SUBSET Held(<<"chan", c>>)
  <2>1. \A v \in InSeq(chan[c]) \ {Greeting} : v \in Held(<<"chan", c>>)
    BY HeldAre
  <2> QED
    BY <1>2, <2>1
<1> HIDE DEF w
<1>6. ASSUME NEW h \in Holders
      PROVE  /\ h /= <<"chan", c>> /\ h /= <<"got", c>> => Held(h)' = Held(h)
             /\ h = <<"chan", c>> => Held(h)' = Held(h) \ W
             /\ h = <<"got", c>> => Held(h)' = Held(h) \union W
  <2>1. h /= <<"chan", c>> /\ h /= <<"got", c>> => Held(h)' = Held(h)
    BY <1>4, HeldKept
  <2>2. Held(<<"chan", c>>)' = Held(<<"chan", c>>) \ W
    <3>1. InSeq(chan'[c]) \ {Greeting} = (InSeq(chan[c]) \ {Greeting}) \ W
      BY <1>2, <1>4
    <3> QED
      BY <3>1, HeldAre
  <2>3. Held(<<"got", c>>)' = Held(<<"got", c>>) \union W
    <3>1. InSeq(got'[c]) \ {Greeting} = (InSeq(got[c]) \ {Greeting}) \union W
      BY <1>3, <1>4
    <3> QED
      BY <3>1, HeldAre
  <2> QED
    BY <2>1, <2>2, <2>3
<1>7. <<"chan", c>> /= <<"got", c>>
  OBVIOUS
<1> HIDE DEF W
<1> QED
  BY <1>4, <1>5, <1>6, <1>7, HoldersAre, MovedFromTo

LEMMA DropPlace ==
    ASSUME TypeOK, PlaceInv, NEW c \in Listeners, DropListener(c) PROVE PlaceInv'
<1> DEFINE W == InSeq(chan[c]) \ {Greeting}
<1>1. W \in SUBSET Held(<<"chan", c>>) /\ W \subseteq Waves
  BY HeldAre, HoldersAre DEF PlaceInv
<1>2. /\ chan'[c] = <<>> /\ InSeq(<<>>) = {}
      /\ \A d \in Listeners : d /= c => chan'[d] = chan[d]
      /\ UNCHANGED <<mailbox, queue, relay, got, sent>>
  BY DEF DropListener, TypeOK, laneVars, waveVars, InSeq
<1>3. Lost' = Lost \union W
  <2>1. \A w \in Waves : lost'[w] = IF w \in W THEN "dropped" ELSE lost[w]
    BY CapsAssumption DEF DropListener, Waves, Greeting
  <2> QED
    BY <1>1, <2>1 DEF Lost
<1>4. ASSUME NEW h \in Holders
      PROVE  /\ h /= <<"chan", c>> /\ h /= <<"lost", 0>> => Held(h)' = Held(h)
             /\ h = <<"chan", c>> => Held(h)' = Held(h) \ W
             /\ h = <<"lost", 0>> => Held(h)' = Held(h) \union W
  <2>1. h /= <<"chan", c>> /\ h /= <<"lost", 0>> => Held(h)' = Held(h)
    BY <1>2, HeldKept
  <2>2. Held(<<"chan", c>>)' = Held(<<"chan", c>>) \ W
    <3>1. InSeq(chan'[c]) \ {Greeting} = (InSeq(chan[c]) \ {Greeting}) \ W
      BY <1>2
    <3> QED
      BY <3>1, HeldAre
  <2>3. Held(<<"lost", 0>>)' = Held(<<"lost", 0>>) \union W
    BY <1>3, HeldAre
  <2> QED
    BY <2>1, <2>2, <2>3
<1>5. <<"chan", c>> /= <<"lost", 0>>
  OBVIOUS
<1>6. W \in SUBSET Held(<<"chan", c>>) /\ sent' = sent
  BY <1>1, <1>2
<1>7. <<"chan", c>> \in Holders /\ <<"lost", 0>> \in Holders
  BY HoldersAre
<1> HIDE DEF W
<1> QED
  BY <1>4, <1>5, <1>6, <1>7, MovedFromTo

\* A step of the task on a call that is not a wave, or one that posts such a call.
LEMMA OtherPlace ==
    ASSUME TypeOK, PlaceInv, OnceInv,
           \/ TakeExt \/ TakeResetExt \/ TakeTransform \/ HandOverFails \/ PostResetExt
           \/ \E c \in Listeners : PostExt(c) \/ ReadEnd(c)
    PROVE  PlaceInv' /\ OnceInv'
<1>1. UNCHANGED <<queue, relay, chan, got, lost, sent>>
  BY DEF TakeExt, TakeResetExt, TakeTransform, HandOverFails, PostResetExt, PostExt, ReadEnd,
         laneVars, endVars, waveVars, histVars
<1>2. Mailed' = Mailed /\ MailDistinct'
  <2>1. CASE TakeExt \/ TakeResetExt \/ TakeTransform
    <3>1. Receiving("Ext") \/ Receiving("ResetExt") \/ Receiving("Transform")
      BY <2>1 DEF TakeExt, TakeResetExt, TakeTransform
    <3> QED
      BY <3>1, MailedByTake DEF OnceInv
  <2>2. CASE HandOverFails \/ \E c \in Listeners : ReadEnd(c)
    <3>1. mailbox' = mailbox
      BY <2>2 DEF HandOverFails, ReadEnd, laneVars
    <3> QED
      BY <3>1 DEF Mailed, MailDistinct, OnceInv
  <2>3. CASE PostResetExt
    <3>1. ResetExtCall \in Calls /\ ResetExtCall.call /= "Wave"
          /\ \A w \in Waves : ResetExtCall /= WaveCall(w)
      BY CallTypes DEF ResetExtCall, WaveCall
    <3>2. Mailed \subseteq Waves
      BY DEF Mailed
    <3> QED
      BY <2>3, <3>1, <3>2, MailedByPost DEF PostResetExt, OnceInv
  <2>4. ASSUME NEW c \in Listeners, PostExt(c) PROVE Mailed' = Mailed /\ MailDistinct'
    <3>1. ExtCall(c) \in Calls /\ ExtCall(c).call /= "Wave"
          /\ \A w \in Waves : ExtCall(c) /= WaveCall(w)
      BY CallTypes DEF ExtCall, WaveCall
    <3>2. Mailed \subseteq Waves
      BY DEF Mailed
    <3> QED
      BY <2>4, <3>1, <3>2, MailedByPost DEF PostExt, OnceInv
  <2> QED
    BY <2>1, <2>2, <2>3, <2>4
<1>3. ASSUME NEW h \in Holders PROVE Held(h)' = Held(h)
  <2>1. CASE h = <<"mailbox", 0>>
    BY <1>2, <2>1, HeldAre
  <2>2. CASE h /= <<"mailbox", 0>>
    BY <1>1, <2>2, HeldKept
  <2> QED
    BY <2>1, <2>2
<1>4. PlaceInv'
  BY <1>1, <1>3, Stayed
<1>5. OnceInv'
  BY <1>1, <1>2 DEF OnceInv, Distinct
<1> QED
  BY <1>4, <1>5

\* The head of the queue, and the queue without it.
LEMMA QueueHead ==
    ASSUME TypeOK, PlaceInv, OnceInv, pc /= "recv", queue' = Drained
    PROVE  /\ Head(queue) \in Waves /\ Head(queue) /= Greeting
           /\ Head(queue) \in InSeq(queue) /\ InSeq(queue') = InSeq(queue) \ {Head(queue)}
           /\ Distinct(queue')
           /\ {Head(queue)} \in SUBSET Held(<<"queue", 0>>)
           /\ Held(<<"queue", 0>>)' = Held(<<"queue", 0>>) \ {Head(queue)}
<1>1. queue \in Seq(Waves) /\ queue /= <<>> /\ Distinct(queue) /\ queue' = Tail(queue)
  BY DEF TypeOK, OnceInv, Drained
<1>2. Head(queue) \in Waves /\ Head(queue) /= Greeting
  BY <1>1, CapsAssumption DEF Waves, Greeting
<1>3. InSeq(queue') = InSeq(queue) \ {Head(queue)} /\ Head(queue) \in InSeq(queue)
      /\ Distinct(queue')
  BY <1>1, DistinctTail, InSeqHead
<1>4. Head(queue) \in Held(<<"queue", 0>>)
  BY <1>2, <1>3, HeldAre
<1>5. InSeq(queue') \ {Greeting} = (InSeq(queue) \ {Greeting}) \ {Head(queue)}
  BY <1>3
<1>6. Held(<<"queue", 0>>)' = Held(<<"queue", 0>>) \ {Head(queue)}
  BY <1>5, HeldAre
<1> QED
  BY <1>2, <1>3, <1>4, <1>6

LEMMA HandOverPlace == ASSUME TypeOK, PlaceInv, OnceInv, HandOver PROVE PlaceInv'
<1> DEFINE w == Head(queue)
           W == {w}
<1>1. /\ w \in Waves /\ w /= Greeting
      /\ W \in SUBSET Held(<<"queue", 0>>)
      /\ Held(<<"queue", 0>>)' = Held(<<"queue", 0>>) \ W
  BY QueueHead DEF HandOver
<1>2. ext \in Listeners /\ chan[ext] \in Seq(Waves \union {Greeting})
      /\ chan' = [chan EXCEPT ![ext] = Append(@, w)]
      /\ UNCHANGED <<mailbox, relay, got, lost, sent>>
  BY DEF HandOver, TypeOK, waveVars, histVars
<1>3. chan'[ext] = Append(chan[ext], w) /\ \A d \in Listeners : d /= ext => chan'[d] = chan[d]
  BY <1>2 DEF TypeOK
<1> HIDE DEF w
<1>4. InSeq(chan'[ext]) = InSeq(chan[ext]) \union W
  BY <1>1, <1>2, <1>3, InSeqAppend
<1>5. PICK c \in Listeners : c = ext
  BY <1>2
<1>6. Held(<<"chan", c>>)' = Held(<<"chan", c>>) \union W
  <2>1. InSeq(chan'[c]) \ {Greeting} = (InSeq(chan[c]) \ {Greeting}) \union W
    BY <1>1, <1>4, <1>5
  <2> QED
    BY <2>1, HeldAre
<1>7. ASSUME NEW h \in Holders
      PROVE  /\ h /= <<"queue", 0>> /\ h /= <<"chan", c>> => Held(h)' = Held(h)
             /\ h = <<"queue", 0>> => Held(h)' = Held(h) \ W
             /\ h = <<"chan", c>> => Held(h)' = Held(h) \union W
  <2>1. h /= <<"queue", 0>> /\ h /= <<"chan", c>> => Held(h)' = Held(h)
    BY <1>2, <1>3, <1>5, HeldKept
  <2> QED
    BY <1>1, <1>6, <2>1
<1>8. /\ <<"queue", 0>> /= <<"chan", c>> /\ <<"queue", 0>> \in Holders /\ <<"chan", c>> \in Holders
      /\ W \in SUBSET Held(<<"queue", 0>>) /\ sent' = sent
  BY <1>1, <1>2, HoldersAre
<1> HIDE DEF W
<1> QED
  BY <1>7, <1>8, MovedFromTo

LEMMA RequeuePlace == ASSUME TypeOK, PlaceInv, OnceInv, Requeue PROVE PlaceInv'
<1> DEFINE w == Head(queue)
           W == {w}
<1>1. /\ w \in Waves /\ w /= Greeting
      /\ W \in SUBSET Held(<<"queue", 0>>)
      /\ Held(<<"queue", 0>>)' = Held(<<"queue", 0>>) \ W
  BY QueueHead DEF Requeue
<1>2. UNCHANGED <<relay, chan, got, sent>>
  BY DEF Requeue, endVars, waveVars
<1>3. \/ mailbox' = Append(mailbox, WaveCall(w)) /\ lost' = lost
      \/ mailbox' = mailbox /\ lost' = [lost EXCEPT ![w] = "full"]
  BY DEF Requeue
<1> HIDE DEF w
<1>4. CASE mailbox' = Append(mailbox, WaveCall(w)) /\ lost' = lost
  <2>1. Mailed' = Mailed \union W
    BY <1>1, <1>4, MailedByPost, CallTypes
  <2>2. Held(<<"mailbox", 0>>)' = Held(<<"mailbox", 0>>) \union W
    BY <2>1, HeldAre
  <2>3. ASSUME NEW h \in Holders
        PROVE  /\ h /= <<"queue", 0>> /\ h /= <<"mailbox", 0>> => Held(h)' = Held(h)
               /\ h = <<"queue", 0>> => Held(h)' = Held(h) \ W
               /\ h = <<"mailbox", 0>> => Held(h)' = Held(h) \union W
    <3>1. h /= <<"queue", 0>> /\ h /= <<"mailbox", 0>> => Held(h)' = Held(h)
      BY <1>2, <1>4, HeldKept
    <3> QED
      BY <1>1, <2>2, <3>1
  <2>4. /\ <<"queue", 0>> /= <<"mailbox", 0>> /\ <<"queue", 0>> \in Holders
        /\ <<"mailbox", 0>> \in Holders
        /\ W \in SUBSET Held(<<"queue", 0>>) /\ sent' = sent
    BY <1>1, <1>2, HoldersAre
  <2> HIDE DEF W
  <2> QED
    BY <2>3, <2>4, MovedFromTo
<1>5. CASE mailbox' = mailbox /\ lost' = [lost EXCEPT ![w] = "full"]
  <2>1. Lost' = Lost \union W
    BY <1>1, <1>5 DEF TypeOK, Lost
  <2>2. Held(<<"lost", 0>>)' = Held(<<"lost", 0>>) \union W
    BY <2>1, HeldAre
  <2>3. ASSUME NEW h \in Holders
        PROVE  /\ h /= <<"queue", 0>> /\ h /= <<"lost", 0>> => Held(h)' = Held(h)
               /\ h = <<"queue", 0>> => Held(h)' = Held(h) \ W
               /\ h = <<"lost", 0>> => Held(h)' = Held(h) \union W
    <3>1. h /= <<"queue", 0>> /\ h /= <<"lost", 0>> => Held(h)' = Held(h)
      BY <1>2, <1>5, HeldKept
    <3> QED
      BY <1>1, <2>2, <3>1
  <2>4. /\ <<"queue", 0>> /= <<"lost", 0>> /\ <<"queue", 0>> \in Holders
        /\ <<"lost", 0>> \in Holders
        /\ W \in SUBSET Held(<<"queue", 0>>) /\ sent' = sent
    BY <1>1, <1>2, HoldersAre
  <2> HIDE DEF W
  <2> QED
    BY <2>3, <2>4, MovedFromTo
<1> QED
  BY <1>3, <1>4, <1>5

\* Taking a wave trims the front of the queue and puts the wave behind it.
LEMMA TakeWavePlace == ASSUME TypeOK, PlaceInv, OnceInv, TakeWave PROVE PlaceInv' /\ OnceInv'
<1> DEFINE w     == Head(mailbox).arg
           front == SubSeq(queue, 1, Excess)
           rest  == SubSeq(queue, Excess + 1, Len(queue))
           F     == InSeq(front)
<1>1. queue \in Seq(Waves) /\ Distinct(queue) /\ Excess \in 0 .. Len(queue)
  BY CapsAssumption DEF TypeOK, OnceInv, Excess
<1>2. Distinct(rest) /\ rest \in Seq(Waves) /\ F \subseteq InSeq(queue)
      /\ InSeq(rest) = InSeq(queue) \ F
  BY <1>1, DistinctCut
<1>3. w \in Waves /\ w \in Mailed /\ Mailed' = Mailed \ {w} /\ MailDistinct'
  BY ArgTypes, MailedByTake DEF TakeWave, OnceInv
<1>4. queue' = Append(rest, w) /\ UNCHANGED <<relay, chan, got, sent>>
      /\ \A v \in Waves : lost'[v] = IF v \in F THEN "overflow" ELSE lost[v]
  BY DEF TakeWave, Pushed, endVars, waveVars
<1> HIDE DEF w, front, rest, F
<1>5. InSeq(queue') = InSeq(rest) \union {w}
  BY <1>2, <1>3, <1>4, InSeqAppend
<1>6. Held(<<"mailbox", 0>>) = Mailed /\ Held(<<"mailbox", 0>>)' = Mailed'
  BY HeldAre
<1>7. /\ InSeq(queue) \subseteq Waves /\ w /= Greeting /\ \A v \in Waves : v /= Greeting
  BY <1>1, <1>3, CapsAssumption DEF InSeq, Waves, Greeting
<1>8. Held(<<"queue", 0>>) = InSeq(queue) /\ Held(<<"queue", 0>>)' = InSeq(queue')
  <2>1. Greeting \notin InSeq(queue) /\ Greeting \notin InSeq(queue')
    BY <1>2, <1>5, <1>7
  <2>2. InSeq(queue) \ {Greeting} = InSeq(queue) /\ InSeq(queue') \ {Greeting} = InSeq(queue')
    BY <2>1
  <2> QED
    BY <2>2, HeldAre
<1>9. Lost' = Lost \union F
  BY <1>2, <1>4, <1>7 DEF Lost
<1>10. Held(<<"lost", 0>>) = Lost /\ Held(<<"lost", 0>>)' = Lost'
  BY HeldAre
<1>11. w \notin InSeq(queue)
  <2>1. <<"mailbox", 0>> \in Holders /\ <<"queue", 0>> \in Holders
        /\ <<"mailbox", 0>> /= <<"queue", 0>>
    BY HoldersAre
  <2>2. At(<<"mailbox", 0>>) \intersect At(<<"queue", 0>>) \subseteq {Greeting}
    BY <2>1 DEF PlaceInv
  <2> QED
    BY <1>3, <1>6, <1>7, <1>8, <2>2 DEF Held
<1> DEFINE W == F \union {w}
           D == [v \in W |-> IF v = w THEN <<"queue", 0>> ELSE <<"lost", 0>>]
<1>12. D \in [W -> Holders] /\ W \in SUBSET Waves /\ w \notin F
  BY <1>2, <1>3, <1>7, <1>11, HoldersAre
<1>13. ASSUME NEW h \in Holders PROVE Held(h)' = (Held(h) \ W) \union {v \in W : D[v] = h}
  <2>1. CASE h = <<"mailbox", 0>>
    <3>1. Mailed \intersect F = {}
      <4>1. Held(<<"mailbox", 0>>) \intersect Held(<<"queue", 0>>) = {}
        <5>1. <<"mailbox", 0>> \in Holders /\ <<"queue", 0>> \in Holders
              /\ <<"mailbox", 0>> /= <<"queue", 0>>
          BY HoldersAre
        <5> QED
          BY <5>1 DEF PlaceInv, Held
      <4> QED
        BY <1>2, <1>6, <1>8, <4>1
    <3>2. {v \in W : D[v] = h} = {}
      BY <2>1
    <3> QED
      BY <1>3, <1>6, <2>1, <3>1, <3>2
  <2>2. CASE h = <<"queue", 0>>
    <3>1. {v \in W : D[v] = h} = {w}
      BY <2>2
    <3> QED
      BY <1>2, <1>5, <1>8, <1>11, <2>2, <3>1
  <2>3. CASE h = <<"lost", 0>>
    <3>1. {v \in W : D[v] = h} = F
      BY <1>12, <2>3
    <3>2. w \notin Lost
      <4>1. Held(<<"mailbox", 0>>) \intersect Held(<<"lost", 0>>) = {}
        <5>1. <<"mailbox", 0>> \in Holders /\ <<"lost", 0>> \in Holders
              /\ <<"mailbox", 0>> /= <<"lost", 0>>
          BY HoldersAre
        <5> QED
          BY <5>1 DEF PlaceInv, Held
      <4> QED
        BY <1>3, <1>6, <1>10, <4>1
    <3> QED
      BY <1>9, <1>10, <2>3, <3>1, <3>2
  <2>4. CASE h \notin {<<"mailbox", 0>>, <<"queue", 0>>, <<"lost", 0>>}
    <3>1. Held(h)' = Held(h)
      BY <1>4, <2>4, HeldKept
    <3>2. {v \in W : D[v] = h} = {}
      BY <2>4
    <3>3. Held(h) \intersect Held(<<"mailbox", 0>>) = {} /\ Held(h) \intersect Held(<<"queue", 0>>) = {}
      BY <2>4, HoldersAre DEF PlaceInv, Held
    <3> QED
      BY <1>2, <1>3, <1>6, <1>8, <3>1, <3>2, <3>3, ZenonT(30)
  <2> QED
    BY <2>1, <2>2, <2>3, <2>4
<1>14. \A v \in W : v <= sent'
  <2>1. \A v \in Held(<<"mailbox", 0>>) \union Held(<<"queue", 0>>) : v <= sent
    BY HoldersAre DEF PlaceInv
  <2> QED
    BY <1>2, <1>3, <1>4, <1>6, <1>8, <2>1
<1>15. sent \in Nat /\ sent' = sent
  BY <1>4, CapsAssumption DEF TypeOK
<1> HIDE DEF D, W
<1>16. PlaceInv'
  BY <1>12, <1>13, <1>14, <1>15, Moved
<1>17. Distinct(queue')
  BY <1>2, <1>3, <1>4, <1>11, DistinctAppend
<1>18. OnceInv'
  BY <1>3, <1>4, <1>17 DEF OnceInv, Distinct
<1> QED
  BY <1>16, <1>18

\* A wave that enters is at no holder yet.
LEMMA NewIsNowhere ==
    ASSUME TypeOK, PlaceInv, sent < MaxWaves, sent' = sent + 1
    PROVE  sent' \notin InSeq(relay) /\ sent' \notin Mailed
<1>1. sent \in Nat /\ sent' \in Waves /\ sent' /= Greeting /\ ~(sent' <= sent)
  BY CapsAssumption DEF TypeOK, Waves, Greeting
<1>2. sent' \notin Held(<<"relay", 0>>) /\ sent' \notin Held(<<"mailbox", 0>>)
  BY <1>1, HoldersAre DEF PlaceInv
<1>3. Held(<<"relay", 0>>) = InSeq(relay) \ {Greeting} /\ Held(<<"mailbox", 0>>) = Mailed
  BY HeldAre
<1> QED
  BY <1>1, <1>2, <1>3

\* Two holders share no wave.
LEMMA Apart ==
    ASSUME PlaceInv, NEW g \in Holders, NEW h \in Holders, g /= h
    PROVE  Held(g) \intersect Held(h) = {}
  BY DEF PlaceInv, Held

LEMMA ProducersOnce ==
    ASSUME TypeOK, PlaceInv, OnceInv, Send \/ SendTimeout \/ TxSend \/ TxForward
    PROVE  OnceInv'
<1>1. CASE Send
  <2>0. sent' \in Waves
    BY <1>1, CapsAssumption DEF Send, TypeOK, Waves
  <2>1. sent' \in Waves /\ sent' \notin Mailed
    BY <1>1, <2>0, NewIsNowhere DEF Send
  <2>2. MailDistinct'
    <3>1. \A v \in Mailed : WaveCall(sent') /= WaveCall(v)
      BY <2>1 DEF WaveCall
    <3> QED
      BY <1>1, <2>1, <3>1, MailedByPost, CallTypes DEF Send, OnceInv
  <2> QED
    BY <1>1, <2>2 DEF Send, endVars, histVars, OnceInv, Distinct
<1>2. CASE SendTimeout
  BY <1>2 DEF SendTimeout, laneVars, endVars, OnceInv, MailDistinct, Distinct
<1>3. CASE TxSend
  <2>0. sent' \in Waves
    BY <1>3, CapsAssumption DEF TxSend, TypeOK, Waves
  <2>1. sent' \in Waves /\ sent' \notin InSeq(relay)
    BY <1>3, <2>0, NewIsNowhere DEF TxSend
  <2>2. Distinct(relay')
    BY <1>3, <2>1, DistinctAppend DEF TxSend, TypeOK, OnceInv
  <2> QED
    BY <1>3, <2>2 DEF TxSend, laneVars, endVars, OnceInv, MailDistinct, Distinct
<1>4. CASE TxForward
  <2>1. relay \in Seq(Waves) /\ relay /= <<>> /\ Distinct(relay) /\ relay' = Tail(relay)
    BY <1>4 DEF TxForward, TypeOK, OnceInv
  <2>2. Distinct(relay') /\ Head(relay) \in InSeq(relay) /\ Head(relay) \in Waves
    BY <2>1, DistinctTail, InSeqHead
  <2>3. Head(relay) \notin Mailed
    <3>1. <<"relay", 0>> \in Holders /\ <<"mailbox", 0>> \in Holders
          /\ <<"relay", 0>> /= <<"mailbox", 0>>
      BY HoldersAre
    <3>2. Held(<<"relay", 0>>) \intersect Held(<<"mailbox", 0>>) = {}
      BY <3>1, Apart
    <3>3. Held(<<"relay", 0>>) = InSeq(relay) \ {Greeting} /\ Held(<<"mailbox", 0>>) = Mailed
      BY HeldAre
    <3>4. Head(relay) /= Greeting
      BY <2>2, CapsAssumption DEF Waves, Greeting
    <3> QED
      BY <2>2, <3>2, <3>3, <3>4
  <2>4. MailDistinct'
    <3>1. \A v \in Mailed : WaveCall(Head(relay)) /= WaveCall(v)
      BY <2>3 DEF WaveCall
    <3> QED
      BY <1>4, <2>2, <3>1, MailedByPost, CallTypes DEF TxForward, OnceInv
  <2> QED
    BY <1>4, <2>2, <2>4 DEF TxForward, endVars, OnceInv, Distinct
<1> QED
  BY <1>1, <1>2, <1>3, <1>4

LEMMA ListenersOnce ==
    ASSUME TypeOK, PlaceInv, OnceInv, GreetingInv, NEW c \in Listeners,
           Open(c) \/ Receive(c) \/ DropListener(c)
    PROVE  OnceInv'
<1>1. CASE Open(c)
  <2>1. PICK init \in {<<>>, <<Greeting>>} : chan' = [chan EXCEPT ![c] = init]
    BY <1>1 DEF Open
  <2>2. Distinct(init)
    BY <2>1 DEF Distinct
  <2>3. \A d \in Listeners : Distinct(chan'[d])
    BY <2>1, <2>2 DEF TypeOK, OnceInv
  <2> QED
    BY <1>1, <2>3 DEF Open, laneVars, waveVars, OnceInv, MailDistinct, Distinct
<1>2. CASE Receive(c)
  <2> DEFINE w == Head(chan[c])
  <2>1. /\ chan[c] \in Seq(Waves \union {Greeting}) /\ chan[c] /= <<>> /\ Distinct(chan[c])
        /\ got[c] \in Seq(Waves \union {Greeting}) /\ Distinct(got[c])
    BY <1>2 DEF Receive, TypeOK, OnceInv
  <2>2. w \in Waves \union {Greeting} /\ w \in InSeq(chan[c]) /\ Distinct(Tail(chan[c]))
    BY <2>1, DistinctTail, InSeqHead
  <2>3. w \notin InSeq(got[c])
    <3>1. CASE w = Greeting
      <4>1. w = chan[c][1] /\ 1 \in 1 .. Len(chan[c])
        BY <2>1
      <4>2. got[c] = <<>>
        BY <3>1, <4>1 DEF GreetingInv
      <4> QED
        BY <4>2 DEF InSeq
    <3>2. CASE w /= Greeting
      <4>1. <<"chan", c>> \in Holders /\ <<"got", c>> \in Holders /\ <<"chan", c>> /= <<"got", c>>
        BY HoldersAre
      <4>2. Held(<<"chan", c>>) \intersect Held(<<"got", c>>) = {}
        BY <4>1, Apart
      <4>3. /\ Held(<<"chan", c>>) = InSeq(chan[c]) \ {Greeting}
            /\ Held(<<"got", c>>) = InSeq(got[c]) \ {Greeting}
        BY HeldAre
      <4> QED
        BY <2>2, <3>2, <4>2, <4>3
    <3> QED
      BY <3>1, <3>2
  <2>4. Distinct(Append(got[c], w))
    BY <2>1, <2>2, <2>3, DistinctAppend
  <2> HIDE DEF w
  <2>5. /\ chan' = [chan EXCEPT ![c] = Tail(@)] /\ got' = [got EXCEPT ![c] = Append(@, w)]
        /\ UNCHANGED <<mailbox, queue, relay>>
    BY <1>2 DEF Receive, laneVars, waveVars, w
  <2>6. \A d \in Listeners : Distinct(chan'[d]) /\ Distinct(got'[d])
    BY <2>2, <2>4, <2>5 DEF TypeOK, OnceInv
  <2> QED
    BY <2>5, <2>6 DEF OnceInv, MailDistinct, Distinct
<1>3. CASE DropListener(c)
  <2>1. Distinct(<<>>)
    BY DEF Distinct
  <2>2. \A d \in Listeners : Distinct(chan'[d])
    BY <1>3, <2>1 DEF DropListener, TypeOK, OnceInv
  <2> QED
    BY <1>3, <2>2 DEF DropListener, laneVars, waveVars, OnceInv, MailDistinct, Distinct
<1> QED
  BY <1>1, <1>2, <1>3

\* What the queue holds is neither in the mailbox nor at a listener.
LEMMA QueueApart ==
    ASSUME PlaceInv, NEW w \in InSeq(queue), w /= Greeting
    PROVE  w \notin Mailed /\ \A c \in Listeners : w \notin InSeq(chan[c])
<1>1. w \in Held(<<"queue", 0>>)
  BY HeldAre
<1>2. /\ Held(<<"queue", 0>>) \intersect Held(<<"mailbox", 0>>) = {}
      /\ \A c \in Listeners : Held(<<"queue", 0>>) \intersect Held(<<"chan", c>>) = {}
  <2>1. /\ <<"queue", 0>> /= <<"mailbox", 0>>
        /\ \A c \in Listeners : <<"queue", 0>> /= <<"chan", c>>
    OBVIOUS
  <2> QED
    BY <2>1, HoldersAre, Apart
<1>3. w \notin Held(<<"mailbox", 0>>) /\ \A c \in Listeners : w \notin Held(<<"chan", c>>)
  BY <1>1, <1>2
<1> QED
  BY <1>3, HeldAre

LEMMA DrainOnce ==
    ASSUME TypeOK, PlaceInv, OnceInv, HandOver \/ Requeue
    PROVE  OnceInv'
<1> DEFINE w == Head(queue)
<1>1. w \in Waves /\ w /= Greeting /\ w \in InSeq(queue) /\ Distinct(queue')
  BY QueueHead DEF HandOver, Requeue
<1>2. w \notin Mailed /\ \A c \in Listeners : w \notin InSeq(chan[c])
  BY <1>1, QueueApart
<1>3. CASE HandOver
  <2>1. chan' = [chan EXCEPT ![ext] = Append(@, w)] /\ ext \in Listeners
        /\ UNCHANGED <<mailbox, relay, got>>
    BY <1>3 DEF HandOver, TypeOK, waveVars
  <2> HIDE DEF w
  <2>2. Distinct(Append(chan[ext], w))
    BY <1>1, <1>2, <2>1, DistinctAppend DEF TypeOK, OnceInv
  <2>3. \A d \in Listeners : Distinct(chan'[d])
    BY <2>1, <2>2 DEF TypeOK, OnceInv
  <2> QED
    BY <1>1, <2>1, <2>3 DEF OnceInv, MailDistinct, Distinct
<1>4. CASE Requeue
  <2>1. mailbox' = mailbox \/ mailbox' = Append(mailbox, WaveCall(w))
    BY <1>4 DEF Requeue
  <2>2. UNCHANGED <<relay, chan, got>>
    BY <1>4 DEF Requeue, endVars, waveVars
  <2> HIDE DEF w
  <2>3. MailDistinct'
    <3>1. CASE mailbox' = mailbox
      BY <3>1 DEF OnceInv, MailDistinct
    <3>2. CASE mailbox' = Append(mailbox, WaveCall(w))
      <4>1. \A v \in Mailed : WaveCall(w) /= WaveCall(v)
        BY <1>2 DEF WaveCall
      <4> QED
        BY <1>1, <3>2, <4>1, MailedByPost, CallTypes DEF OnceInv
    <3> QED
      BY <2>1, <3>1, <3>2
  <2> QED
    BY <1>1, <2>2, <2>3 DEF OnceInv, Distinct
<1> QED
  BY <1>3, <1>4

LEMMA InitPlace == Init => PlaceInv /\ OnceInv
<1> SUFFICES ASSUME Init PROVE PlaceInv /\ OnceInv
  OBVIOUS
<1>1. InSeq(<<>>) = {} /\ Distinct(<<>>)
  BY DEF InSeq, Distinct
<1>2. Mailed = {} /\ Lost = {} /\ MailDistinct
  BY CapsAssumption DEF Init, Mailed, Lost, MailDistinct, TransformCall, WaveCall
<1>3. \A h \in Holders : At(h) = {}
  <2>1. \A c \in Listeners : chan[c] = <<>> /\ got[c] = <<>>
    BY DEF Init
  <2>2. relay = <<>> /\ queue = <<>>
    BY DEF Init
  <2> QED
    BY <1>1, <1>2, <2>1, <2>2, HolderCases
<1>4. ~\E w \in Waves : w <= sent
  BY CapsAssumption DEF Init, Waves
<1>5. PlaceInv
  BY <1>3, <1>4 DEF PlaceInv, Held
<1>6. OnceInv
  BY <1>1, <1>2 DEF Init, OnceInv
<1> QED
  BY <1>5, <1>6

LEMMA StepPlace ==
    ASSUME TypeOK, GreetingInv, PlaceInv, OnceInv, [Next]_vars
    PROVE  PlaceInv' /\ OnceInv'
<1>1. CASE UNCHANGED vars
  <2>1. UNCHANGED <<mailbox, queue, relay, chan, got, lost, sent>>
    BY <1>1 DEF vars, laneVars, endVars, waveVars, histVars
  <2>2. \A h \in Holders : Held(h)' = Held(h)
    BY <2>1, HeldKept
  <2> QED
    BY <2>1, <2>2, Stayed DEF OnceInv, MailDistinct, Distinct
<1>2. CASE Task
  BY <1>2, OtherPlace, TakeWavePlace, HandOverPlace, RequeuePlace, DrainOnce DEF Task
<1>3. CASE Send \/ SendTimeout \/ TxSend \/ TxForward
  BY <1>3, SendPlace, SendTimeoutPlace, TxSendPlace, TxForwardPlace, ProducersOnce
<1>4. ASSUME NEW c \in Listeners,
             Open(c) \/ PostExt(c) \/ Receive(c) \/ DropListener(c) \/ ReadEnd(c)
      PROVE  PlaceInv' /\ OnceInv'
  BY <1>4, OpenPlace, OtherPlace, ReceivePlace, DropPlace, ListenersOnce
<1> QED
  BY <1>1, <1>2, <1>3, <1>4 DEF Next

LEMMA PlaceInvHolds == Spec => [](PlaceInv /\ OnceInv)
<1>1. TypeOK /\ GreetingInv /\ PlaceInv /\ OnceInv /\ [Next]_vars => PlaceInv' /\ OnceInv'
  BY StepPlace
<1> QED
  BY <1>1, InitPlace, TypeTheorem, GreetingInvHolds, PTL DEF Spec

\* No wave is duplicated and none vanishes: through failed hand-overs, requeues, new
\* listeners and dropped ones, every wave sent is in one place or given up for a reason.
THEOREM OnePlaceTheorem == Spec => []OnePlace
<1>1. PlaceInv /\ OnceInv => OnePlace
  BY DEF PlaceInv, OnceInv, MailDistinct, OnePlace
<1> QED
  BY <1>1, PlaceInvHolds, PTL

-----------------------------------------------------------------------------
(* InOrderUnlessRequeued.                                                  *)

\* The pairs of waves a listener may receive in this order.
Order == {p \in Waves \X Waves :
            path[p[1]] = path[p[2]] /\ {p[1], p[2]} \intersect requeued = {} => p[1] < p[2]}

Before(R, S, T) == \A v \in S \ {Greeting}, w \in T \ {Greeting} : <<v, w>> \in R

InLine(R, s) == \A i, j \in 1 .. Len(s) :
                   i < j /\ s[i] /= Greeting /\ s[j] /= Greeting => <<s[i], s[j]>> \in R

\* The waves of the mailbox in their places; other calls count as no wave.
Letter(call) == IF call.call = "Wave" THEN call.arg ELSE Greeting
Letters == [i \in 1 .. Len(mailbox) |-> Letter(mailbox[i])]

\* What is ahead on the way to a listener may go ahead.
LineInv(R) ==
    /\ InLine(R, relay) /\ InLine(R, Letters) /\ InLine(R, queue)
    /\ Before(R, Mailed, InSeq(relay))
    /\ Before(R, InSeq(queue), Mailed \union InSeq(relay))
    /\ \A c \in Listeners :
        /\ InLine(R, got[c]) /\ InLine(R, chan[c])
        /\ Before(R, InSeq(got[c]), InSeq(chan[c]))
        /\ Before(R, InSeq(got[c]) \union InSeq(chan[c]),
                  InSeq(queue) \union Mailed \union InSeq(relay))

OrderInv == LineInv(Order) /\ \A w \in InSeq(relay) : path[w] = "tx"

LEMMA InLineTail ==
    ASSUME NEW S, NEW s \in Seq(S), s /= <<>>, NEW R, InLine(R, s)
    PROVE  InLine(R, Tail(s)) /\ Before(R, {Head(s)}, InSeq(Tail(s)))
<1> DEFINE t == Tail(s)
<1>1. /\ Len(t) = Len(s) - 1 /\ DOMAIN t = 1 .. Len(t) /\ Len(s) \in Nat /\ Len(s) >= 1
      /\ Head(s) = s[1] /\ \A i \in 1 .. Len(t) : t[i] = s[i + 1]
  OBVIOUS
<1> HIDE DEF t
<1>2. ASSUME NEW i \in 1 .. Len(t), NEW j \in 1 .. Len(t), i < j, t[i] /= Greeting, t[j] /= Greeting
      PROVE  <<t[i], t[j]>> \in R
  <2>1. i + 1 \in 1 .. Len(s) /\ j + 1 \in 1 .. Len(s) /\ i + 1 < j + 1
    BY <1>1, <1>2
  <2>2. t[i] = s[i + 1] /\ t[j] = s[j + 1]
    BY <1>1
  <2> QED
    BY <1>2, <2>1, <2>2 DEF InLine
<1>3. ASSUME NEW j \in DOMAIN t, Head(s) /= Greeting, t[j] /= Greeting
      PROVE  <<Head(s), t[j]>> \in R
  <2>1. 1 \in 1 .. Len(s) /\ j + 1 \in 1 .. Len(s) /\ 1 < j + 1 /\ t[j] = s[j + 1]
    BY <1>1
  <2> QED
    BY <1>1, <1>3, <2>1 DEF InLine
<1>4. InLine(R, t)
  BY <1>2 DEF InLine
<1>5. Before(R, {Head(s)}, InSeq(t))
  BY <1>3 DEF Before, InSeq
<1> QED
  BY <1>4, <1>5 DEF t

LEMMA InLineAppend ==
    ASSUME NEW S, NEW s \in Seq(S), NEW x, NEW R, InLine(R, s), Before(R, InSeq(s), {x})
    PROVE  InLine(R, Append(s, x))
<1> DEFINE t == Append(s, x)
<1>1. /\ Len(t) = Len(s) + 1 /\ DOMAIN s = 1 .. Len(s) /\ Len(s) \in Nat
      /\ t[Len(s) + 1] = x /\ \A i \in 1 .. Len(s) : t[i] = s[i]
  OBVIOUS
<1> HIDE DEF t
<1>2. ASSUME NEW i \in 1 .. Len(t), NEW j \in 1 .. Len(t), i < j, t[i] /= Greeting, t[j] /= Greeting
      PROVE  <<t[i], t[j]>> \in R
  <2>1. i \in 1 .. Len(s) /\ t[i] = s[i]
    BY <1>1, <1>2
  <2>2. CASE j \in 1 .. Len(s)
    BY <1>1, <1>2, <2>1, <2>2 DEF InLine
  <2>3. CASE j = Len(s) + 1
    <3>1. t[i] \in InSeq(s) \ {Greeting} /\ t[j] \in {x} \ {Greeting}
      BY <1>1, <1>2, <2>1, <2>3 DEF InSeq
    <3> QED
      BY <3>1 DEF Before
  <2> QED
    BY <1>1, <2>2, <2>3
<1> QED
  BY <1>2 DEF InLine, t

LEMMA InLineCut ==
    ASSUME NEW S, NEW s \in Seq(S), NEW n \in 0 .. Len(s), NEW R, InLine(R, s)
    PROVE  InLine(R, SubSeq(s, n + 1, Len(s)))
<1> DEFINE r == SubSeq(s, n + 1, Len(s))
<1>1. DOMAIN s = 1 .. Len(s) /\ Len(s) \in Nat /\ n \in Nat
  OBVIOUS
<1>2. Len(r) = Len(s) - n /\ \A i \in 1 .. Len(s) - n : r[i] = s[n + i]
  <2>0. (\A i \in n + 1 .. Len(s) : s[i] \in S) /\ n + 1 \in Int /\ Len(s) \in Int
    BY <1>1
  <2>3. /\ r \in Seq(S) /\ Len(r) = IF n + 1 <= Len(s) THEN Len(s) - (n + 1) + 1 ELSE 0
        /\ \A i \in 1 .. Len(s) - (n + 1) + 1 : r[i] = s[n + 1 + i - 1]
    BY <2>0, SubSeqProperties
  <2> HIDE DEF r
  <2>1. Len(r) = Len(s) - n /\ \A i \in 1 .. Len(r) : r[i] = s[n + 1 + i - 1]
    <3>1. n <= Len(s) /\ Len(s) - (n + 1) + 1 = Len(s) - n
      BY <1>1
    <3>2. Len(r) = Len(s) - n
      <4>1. CASE n + 1 <= Len(s)
        BY <2>3, <3>1, <4>1
      <4>2. CASE ~(n + 1 <= Len(s))
        <5>1. n = Len(s) /\ Len(s) - n = 0
          <6>1. \A a, b \in Nat : a <= b /\ ~(a + 1 <= b) => a = b /\ b - a = 0
            OBVIOUS
          <6> QED
            BY <1>1, <3>1, <4>2, <6>1
        <5> QED
          BY <2>3, <4>2, <5>1
      <4> QED
        BY <4>1, <4>2
    <3> QED
      BY <2>3, <3>1, <3>2
  <2>2. \A i \in 1 .. Len(r) : n + 1 + i - 1 = n + i
    BY <1>1
  <2> QED
    BY <2>1, <2>2
<1> HIDE DEF r
<1>3. ASSUME NEW i \in 1 .. Len(r), NEW j \in 1 .. Len(r), i < j, r[i] /= Greeting, r[j] /= Greeting
      PROVE  <<r[i], r[j]>> \in R
  <2>1. n + i \in 1 .. Len(s) /\ n + j \in 1 .. Len(s) /\ n + i < n + j
    BY <1>1, <1>2, <1>3
  <2>2. r[i] = s[n + i] /\ r[j] = s[n + j]
    BY <1>2
  <2> QED
    BY <1>3, <2>1, <2>2 DEF InLine
<1> QED
  BY <1>3 DEF InLine, r

\* A larger order, as far as the waves concerned go.
LEMMA InLineGrows ==
    ASSUME NEW S, NEW s \in Seq(S), NEW R, NEW Q, InLine(R, s),
           \A v, w \in InSeq(s) \ {Greeting} : <<v, w>> \in R => <<v, w>> \in Q
    PROVE  InLine(Q, s)
<1>1. DOMAIN s = 1 .. Len(s)
  OBVIOUS
<1>2. \A i \in 1 .. Len(s) : s[i] \in InSeq(s)
  BY <1>1 DEF InSeq
<1> QED
  BY <1>2 DEF InLine

LEMMA LettersTypes ==
    ASSUME TypeOK
    PROVE  Letters \in Seq(Waves \union {Greeting}) /\ InSeq(Letters) \ {Greeting} = Mailed
<1>1. mailbox \in Seq(Calls) /\ Len(mailbox) \in Nat /\ DOMAIN mailbox = 1 .. Len(mailbox)
  BY DEF TypeOK
<1>2. \A i \in 1 .. Len(mailbox) : mailbox[i] \in Calls
  BY <1>1
<1>3. \A i \in 1 .. Len(mailbox) : Letters[i] \in Waves \union {Greeting}
  BY <1>2 DEF Letters, Letter, Calls
<1>4. Letters \in Seq(Waves \union {Greeting}) /\ DOMAIN Letters = 1 .. Len(mailbox)
  BY <1>1, <1>3 DEF Letters
<1>5. \A w \in Waves : w /= Greeting /\ WaveCall(w).call = "Wave" /\ WaveCall(w).arg = w
  BY CapsAssumption DEF Waves, Greeting, WaveCall
<1>6. \A i \in 1 .. Len(mailbox) : \A w \in Waves : Letters[i] = w <=> mailbox[i] = WaveCall(w)
  <2> SUFFICES ASSUME NEW i \in 1 .. Len(mailbox), NEW w \in Waves
               PROVE  Letters[i] = w <=> mailbox[i] = WaveCall(w)
    OBVIOUS
  <2>1. Letters[i] = IF mailbox[i].call = "Wave" THEN mailbox[i].arg ELSE Greeting
    BY DEF Letters, Letter
  <2>2. mailbox[i].call = "Wave" => mailbox[i] = WaveCall(mailbox[i].arg)
    BY <1>2 DEF Calls, WaveCall
  <2> QED
    BY <1>5, <2>1, <2>2
<1>7. InSeq(Letters) \ {Greeting} = {w \in Waves : \E i \in 1 .. Len(mailbox) : Letters[i] = w}
  BY <1>3, <1>4, <1>5 DEF InSeq
<1>8. Mailed = {w \in Waves : \E i \in 1 .. Len(mailbox) : mailbox[i] = WaveCall(w)}
  BY <1>1 DEF Mailed
<1> QED
  BY <1>4, <1>6, <1>7, <1>8

LEMMA AppendAsFunction ==
    ASSUME NEW S, NEW s \in Seq(S), NEW x \in S
    PROVE  Append(s, x) = [i \in 1 .. Len(s) + 1 |-> IF i = Len(s) + 1 THEN x ELSE s[i]]
<1> DEFINE t == [i \in 1 .. Len(s) + 1 |-> IF i = Len(s) + 1 THEN x ELSE s[i]]
<1>1. Len(s) \in Nat /\ \A i \in 1 .. Len(s) : s[i] \in S
  OBVIOUS
<1>2. \A i \in 1 .. Len(s) + 1 : t[i] \in S
  BY <1>1
<1>3. t \in Seq(S) /\ Len(t) = Len(s) + 1
  BY <1>1, <1>2
<1>4. /\ Append(s, x) \in Seq(S) /\ Len(Append(s, x)) = Len(s) + 1
      /\ \A i \in 1 .. Len(s) : Append(s, x)[i] = s[i]
      /\ Append(s, x)[Len(s) + 1] = x
  BY AppendProperties
<1>5. \A i \in 1 .. Len(s) + 1 : Append(s, x)[i] = t[i]
  BY <1>1, <1>4
<1> HIDE DEF t
<1>6. Append(s, x) = t
  BY <1>3, <1>4, <1>5, SeqEqual
<1> QED
  BY <1>6 DEF t

LEMMA TailAsFunction ==
    ASSUME NEW S, NEW s \in Seq(S), s /= <<>>
    PROVE  Head(s) = s[1] /\ Tail(s) = [i \in 1 .. Len(s) - 1 |-> s[i + 1]]
<1> DEFINE t == [i \in 1 .. Len(s) - 1 |-> s[i + 1]]
<1>1. Len(s) \in Nat /\ Len(s) >= 1 /\ Head(s) = s[1] /\ \A i \in 1 .. Len(s) : s[i] \in S
  OBVIOUS
<1>2. ASSUME NEW i \in 1 .. Len(s) - 1 PROVE t[i] \in S
  <2>1. i + 1 \in 1 .. Len(s)
    BY <1>1
  <2> QED
    BY <1>1, <2>1
<1>3. t \in Seq(S) /\ Len(t) = Len(s) - 1
  BY <1>1, <1>2
<1>4. /\ Tail(s) \in Seq(S) /\ Len(Tail(s)) = Len(s) - 1
      /\ \A i \in 1 .. Len(Tail(s)) : Tail(s)[i] = s[i + 1]
  BY HeadTailProperties
<1>5. \A i \in 1 .. Len(Tail(s)) : Tail(s)[i] = t[i]
  BY <1>4
<1> HIDE DEF t
<1>6. Tail(s) = t
  BY <1>3, <1>4, <1>5, SeqEqual
<1> QED
  BY <1>1, <1>6 DEF t

LEMMA LettersPosted ==
    ASSUME TypeOK, NEW call \in Calls, mailbox' = Append(mailbox, call)
    PROVE  Letters' = Append(Letters, Letter(call))
<1>1. mailbox \in Seq(Calls) /\ Len(mailbox) \in Nat
  BY DEF TypeOK
<1>2. Len(mailbox') = Len(mailbox) + 1 /\ mailbox'[Len(mailbox) + 1] = call
      /\ \A i \in 1 .. Len(mailbox) : mailbox'[i] = mailbox[i]
  BY <1>1
<1>3. Letters' = [i \in 1 .. Len(mailbox) + 1 |-> Letter(mailbox'[i])]
  BY <1>2 DEF Letters, Letter
<1>4. Letters \in Seq(Waves \union {Greeting}) /\ Len(Letters) = Len(mailbox)
  BY <1>1, LettersTypes DEF Letters
<1>5. Append(Letters, Letter(call)) =
        [i \in 1 .. Len(mailbox) + 1 |-> IF i = Len(mailbox) + 1 THEN Letter(call) ELSE Letters[i]]
  <2>1. Letter(call) \in Waves \union {Greeting}
    BY DEF Letter, Calls
  <2> QED
    BY <1>4, <2>1, AppendAsFunction
<1>6. \A i \in 1 .. Len(mailbox) : Letters[i] = Letter(mailbox[i])
  BY DEF Letters
<1>7. \A i \in 1 .. Len(mailbox) + 1 :
         Letter(mailbox'[i]) = IF i = Len(mailbox) + 1 THEN Letter(call) ELSE Letters[i]
  BY <1>1, <1>2, <1>6
<1> QED
  BY <1>3, <1>5, <1>7

LEMMA LettersTaken ==
    ASSUME TypeOK, mailbox /= <<>>, mailbox' = Tail(mailbox)
    PROVE  Letters' = Tail(Letters) /\ Letters /= <<>> /\ Head(Letters) = Letter(Head(mailbox))
<1>1. mailbox \in Seq(Calls) /\ Len(mailbox) \in Nat /\ Len(mailbox) >= 1
  BY DEF TypeOK
<1>2. Len(mailbox') = Len(mailbox) - 1 /\ Head(mailbox) = mailbox[1]
      /\ \A i \in 1 .. Len(mailbox) - 1 : mailbox'[i] = mailbox[i + 1]
  BY <1>1
<1>3. Letters' = [i \in 1 .. Len(mailbox) - 1 |-> Letter(mailbox'[i])]
  BY <1>2 DEF Letters, Letter
<1>4. Letters \in Seq(Waves \union {Greeting}) /\ Len(Letters) = Len(mailbox)
  BY <1>1, LettersTypes DEF Letters
<1>5. Letters /= <<>> /\ Head(Letters) = Letters[1]
      /\ Tail(Letters) = [i \in 1 .. Len(mailbox) - 1 |-> Letters[i + 1]]
  <2>1. Letters /= <<>>
    BY <1>1, <1>4
  <2> QED
    BY <1>4, <2>1, TailAsFunction
<1>6. \A i \in 1 .. Len(mailbox) : Letters[i] = Letter(mailbox[i])
  BY DEF Letters
<1>7. \A i \in 1 .. Len(mailbox) - 1 : Letter(mailbox'[i]) = Letters[i + 1]
  <2> SUFFICES ASSUME NEW i \in 1 .. Len(mailbox) - 1 PROVE Letter(mailbox'[i]) = Letters[i + 1]
    OBVIOUS
  <2>1. i + 1 \in 1 .. Len(mailbox)
    BY <1>1
  <2> QED
    BY <1>2, <1>6, <2>1
<1> QED
  BY <1>1, <1>2, <1>3, <1>5, <1>6, <1>7

\* The waves on their way, and only those.
LEMMA LineTypes ==
    ASSUME TypeOK, PlaceInv
    PROVE  /\ relay \in Seq(Waves) /\ queue \in Seq(Waves)
           /\ Letters \in Seq(Waves \union {Greeting}) /\ InSeq(Letters) \ {Greeting} = Mailed
           /\ \A c \in Listeners : chan[c] \in Seq(Waves \union {Greeting})
                                   /\ got[c] \in Seq(Waves \union {Greeting})
           /\ \A w \in (InSeq(relay) \union InSeq(queue) \union Mailed) \ {Greeting} :
                 w \in Waves /\ w <= sent
           /\ \A c \in Listeners : \A w \in (InSeq(chan[c]) \union InSeq(got[c])) \ {Greeting} :
                 w \in Waves /\ w <= sent
<1>1. \A h \in Holders : \A w \in Held(h) : w \in Waves /\ w <= sent
  BY DEF PlaceInv
<1>2. \A w \in (InSeq(relay) \union InSeq(queue) \union Mailed) \ {Greeting} :
         w \in Waves /\ w <= sent
  BY <1>1, HoldersAre, HeldAre
<1>3. ASSUME NEW c \in Listeners, NEW w \in (InSeq(chan[c]) \union InSeq(got[c])) \ {Greeting}
      PROVE  w \in Waves /\ w <= sent
  <2>1. w \in Held(<<"chan", c>>) \/ w \in Held(<<"got", c>>)
    BY HeldAre
  <2> QED
    BY <1>1, <2>1, HoldersAre
<1> QED
  BY <1>2, <1>3, LettersTypes DEF TypeOK

\* An order that says at least as much of the waves sent so far.
LEMMA LineGrows ==
    ASSUME TypeOK, PlaceInv, NEW R, NEW Q, LineInv(R),
           \A v, w \in Waves : v <= sent /\ w <= sent /\ <<v, w>> \in R => <<v, w>> \in Q
    PROVE  LineInv(Q)
<1>1. InLine(Q, relay)
  BY LineTypes, InLineGrows DEF LineInv
<1>2. InLine(Q, queue)
  BY LineTypes, InLineGrows DEF LineInv
<1>3. InLine(Q, Letters)
  BY LineTypes, InLineGrows DEF LineInv
<1>4. Before(Q, Mailed, InSeq(relay)) /\ Before(Q, InSeq(queue), Mailed \union InSeq(relay))
  BY LineTypes DEF LineInv, Before
<1>5. ASSUME NEW c \in Listeners
      PROVE  InLine(Q, got[c]) /\ InLine(Q, chan[c])
  BY LineTypes, InLineGrows DEF LineInv
<1>6. ASSUME NEW c \in Listeners
      PROVE  /\ Before(Q, InSeq(got[c]), InSeq(chan[c]))
             /\ Before(Q, InSeq(got[c]) \union InSeq(chan[c]),
                       InSeq(queue) \union Mailed \union InSeq(relay))
  <2>1. /\ Before(R, InSeq(got[c]), InSeq(chan[c]))
        /\ Before(R, InSeq(got[c]) \union InSeq(chan[c]),
                  InSeq(queue) \union Mailed \union InSeq(relay))
    BY DEF LineInv
  <2> QED
    BY <2>1, LineTypes DEF Before
<1> QED
  BY <1>1, <1>2, <1>3, <1>4, <1>5, <1>6 DEF LineInv

\* The line after a step.
LEMMA LineIs ==
    ASSUME NEW Q, InLine(Q, relay'), InLine(Q, Letters'), InLine(Q, queue'),
           Before(Q, Mailed', InSeq(relay')),
           Before(Q, InSeq(queue'), Mailed' \union InSeq(relay')),
           \A c \in Listeners :
               /\ InLine(Q, got'[c]) /\ InLine(Q, chan'[c])
               /\ Before(Q, InSeq(got'[c]), InSeq(chan'[c]))
               /\ Before(Q, InSeq(got'[c]) \union InSeq(chan'[c]),
                         InSeq(queue') \union Mailed' \union InSeq(relay'))
    PROVE  LineInv(Q)'
<1>1. /\ InLine(Q, relay)' /\ InLine(Q, Letters)' /\ InLine(Q, queue)'
  BY DEF InLine
<1>2. /\ Before(Q, Mailed, InSeq(relay))'
      /\ Before(Q, InSeq(queue), Mailed \union InSeq(relay))'
  BY DEF Before, InSeq
<1>3. ASSUME NEW c \in Listeners
      PROVE  /\ InLine(Q, got[c])' /\ InLine(Q, chan[c])'
             /\ Before(Q, InSeq(got[c]), InSeq(chan[c]))'
             /\ Before(Q, InSeq(got[c]) \union InSeq(chan[c]),
                       InSeq(queue) \union Mailed \union InSeq(relay))'
  BY DEF InLine, Before, InSeq
<1> QED
  BY <1>1, <1>2, <1>3 DEF LineInv

\* A step that only takes waves out of their places.
LEMMA LineShrinks ==
    ASSUME NEW Q, LineInv(Q),
           InLine(Q, relay'), InLine(Q, Letters'), InLine(Q, queue'),
           \A c \in Listeners : InLine(Q, got'[c]) /\ InLine(Q, chan'[c]),
           InSeq(relay') \subseteq InSeq(relay), Mailed' \subseteq Mailed,
           InSeq(queue') \subseteq InSeq(queue),
           \A c \in Listeners : /\ InSeq(got'[c]) \ {Greeting} \subseteq InSeq(got[c])
                                /\ InSeq(chan'[c]) \ {Greeting} \subseteq InSeq(chan[c])
    PROVE  LineInv(Q)'
<1>1. /\ Before(Q, Mailed', InSeq(relay'))
      /\ Before(Q, InSeq(queue'), Mailed' \union InSeq(relay'))
  BY DEF LineInv, Before
<1>2. ASSUME NEW c \in Listeners
      PROVE  /\ Before(Q, InSeq(got'[c]), InSeq(chan'[c]))
             /\ Before(Q, InSeq(got'[c]) \union InSeq(chan'[c]),
                       InSeq(queue') \union Mailed' \union InSeq(relay'))
  <2>1. /\ Before(Q, InSeq(got[c]), InSeq(chan[c]))
        /\ Before(Q, InSeq(got[c]) \union InSeq(chan[c]),
                  InSeq(queue) \union Mailed \union InSeq(relay))
    BY DEF LineInv
  <2> QED
    BY <2>1 DEF Before
<1> QED
  BY <1>1, <1>2, LineIs

\* A wave may go behind all those that are on their way: w goes to the mailbox.
LEMMA LineMail ==
    ASSUME TypeOK, PlaceInv, NEW Q, LineInv(Q), NEW w \in Waves,
           mailbox' = Append(mailbox, WaveCall(w)), UNCHANGED <<chan, got>>,
           InLine(Q, relay'), InSeq(relay') \subseteq InSeq(relay),
           InLine(Q, queue'), InSeq(queue') \subseteq InSeq(queue),
           Before(Q, Mailed \union InSeq(queue'), {w}), Before(Q, {w}, InSeq(relay')),
           \A c \in Listeners : Before(Q, InSeq(got[c]) \union InSeq(chan[c]), {w})
    PROVE  LineInv(Q)'
<1>1. Mailed' = Mailed \union {w}
  BY MailedByPost, CallTypes
<1>2. InLine(Q, Letters')
  <2>1. Letters' = Append(Letters, w)
    <3>1. WaveCall(w) \in Calls /\ Letter(WaveCall(w)) = w
      BY CallTypes DEF WaveCall, Letter
    <3> QED
      BY <3>1, LettersPosted
  <2>2. Before(Q, InSeq(Letters), {w})
    BY LineTypes DEF Before
  <2> QED
    BY <2>1, <2>2, LineTypes, InLineAppend DEF LineInv
<1>3. Before(Q, Mailed', InSeq(relay')) /\ Before(Q, InSeq(queue'), Mailed' \union InSeq(relay'))
  BY <1>1 DEF Before, LineInv
<1>4. ASSUME NEW c \in Listeners
      PROVE  Before(Q, InSeq(got[c]) \union InSeq(chan[c]),
                    InSeq(queue') \union Mailed' \union InSeq(relay'))
  <2>1. Before(Q, InSeq(got[c]) \union InSeq(chan[c]), InSeq(queue) \union Mailed \union InSeq(relay))
    BY DEF LineInv
  <2> QED
    BY <1>1, <2>1 DEF Before
<1>5. \A c \in Listeners : InLine(Q, got[c]) /\ InLine(Q, chan[c])
                           /\ Before(Q, InSeq(got[c]), InSeq(chan[c]))
  BY DEF LineInv
<1> QED
  BY <1>2, <1>3, <1>4, <1>5, LineIs

LEMMA TxForwardLine ==
    ASSUME TypeOK, PlaceInv, NEW Q, LineInv(Q), TxForward
    PROVE  LineInv(Q)'
<1> DEFINE w == Head(relay)
<1>1. relay \in Seq(Waves) /\ relay /= <<>> /\ relay' = Tail(relay)
  BY DEF TxForward, TypeOK
<1>2. w \in Waves /\ w \in InSeq(relay) /\ InSeq(relay') \subseteq InSeq(relay)
  BY <1>1, InSeqHead
<1>3. InLine(Q, relay') /\ Before(Q, {w}, InSeq(relay'))
  BY <1>1, InLineTail DEF LineInv
<1>4. mailbox' = Append(mailbox, WaveCall(w)) /\ UNCHANGED <<queue, chan, got>>
  BY DEF TxForward, endVars
<1> HIDE DEF w
<1>5. /\ Before(Q, Mailed \union InSeq(queue'), {w})
      /\ InLine(Q, queue') /\ InSeq(queue') \subseteq InSeq(queue)
  BY <1>2, <1>4 DEF LineInv, Before
<1>6. ASSUME NEW c \in Listeners PROVE Before(Q, InSeq(got[c]) \union InSeq(chan[c]), {w})
  <2>1. Before(Q, InSeq(got[c]) \union InSeq(chan[c]), InSeq(queue) \union Mailed \union InSeq(relay))
    BY DEF LineInv
  <2> QED
    BY <1>2, <2>1 DEF Before
<1> QED
  BY <1>2, <1>3, <1>4, <1>5, <1>6, LineMail

\* A wave sent just now goes behind all others.
LEMMA SendLine ==
    ASSUME TypeOK, PlaceInv, NEW Q, LineInv(Q), Send,
           \A v \in Waves : v <= sent => <<v, sent'>> \in Q,
           \A v \in InSeq(relay) : <<sent', v>> \in Q
    PROVE  LineInv(Q)'
<1>1. sent' \in Waves /\ mailbox' = Append(mailbox, WaveCall(sent'))
      /\ UNCHANGED <<relay, queue, chan, got>>
  BY CapsAssumption DEF Send, TypeOK, Waves, endVars
<1>2. PICK w \in Waves : w = sent'
  BY <1>1
<1>3. Before(Q, Mailed \union InSeq(queue'), {w}) /\ Before(Q, {w}, InSeq(relay'))
  BY <1>1, <1>2, LineTypes DEF Before
<1>4. \A c \in Listeners : Before(Q, InSeq(got[c]) \union InSeq(chan[c]), {w})
  BY <1>2, LineTypes DEF Before
<1>5. /\ InLine(Q, relay') /\ InSeq(relay') \subseteq InSeq(relay)
      /\ InLine(Q, queue') /\ InSeq(queue') \subseteq InSeq(queue)
  BY <1>1 DEF LineInv
<1>6. mailbox' = Append(mailbox, WaveCall(w)) /\ UNCHANGED <<chan, got>>
  BY <1>1, <1>2
<1> QED
  BY <1>3, <1>4, <1>5, <1>6, LineMail

LEMMA TxSendLine ==
    ASSUME TypeOK, PlaceInv, NEW Q, LineInv(Q), TxSend,
           \A v \in Waves : v <= sent => <<v, sent'>> \in Q
    PROVE  LineInv(Q)'
<1>1. sent' \in Waves /\ relay' = Append(relay, sent')
      /\ UNCHANGED <<mailbox, queue, chan, got>>
  BY CapsAssumption DEF TxSend, TypeOK, Waves, laneVars, endVars
<1>2. InSeq(relay') = InSeq(relay) \union {sent'}
  BY <1>1, InSeqAppend DEF TypeOK
<1>3. InLine(Q, relay')
  <2>1. Before(Q, InSeq(relay), {sent'})
    BY LineTypes DEF Before
  <2> QED
    BY <1>1, <2>1, LineTypes, InLineAppend DEF LineInv
<1>4. Letters' = Letters /\ Mailed' = Mailed
  BY <1>1 DEF Letters, Mailed
<1>5. /\ Before(Q, Mailed, InSeq(relay'))
      /\ Before(Q, InSeq(queue), Mailed \union InSeq(relay'))
  BY <1>2, LineTypes DEF LineInv, Before
<1>6. ASSUME NEW c \in Listeners
      PROVE  /\ InLine(Q, got[c]) /\ InLine(Q, chan[c])
             /\ Before(Q, InSeq(got[c]), InSeq(chan[c]))
             /\ Before(Q, InSeq(got[c]) \union InSeq(chan[c]),
                       InSeq(queue) \union Mailed \union InSeq(relay'))
  <2>1. /\ InLine(Q, got[c]) /\ InLine(Q, chan[c])
        /\ Before(Q, InSeq(got[c]), InSeq(chan[c]))
        /\ Before(Q, InSeq(got[c]) \union InSeq(chan[c]),
                  InSeq(queue) \union Mailed \union InSeq(relay))
    BY DEF LineInv
  <2> QED
    BY <1>2, <2>1, LineTypes DEF Before
<1>7. InLine(Q, queue) /\ InLine(Q, Letters)
  BY DEF LineInv
<1> QED
  BY <1>1, <1>3, <1>4, <1>5, <1>6, <1>7, LineIs

\* Calls that are not waves come and go without touching the line.
LEMMA OtherLine ==
    ASSUME TypeOK, PlaceInv, OnceInv, NEW Q, LineInv(Q),
           \/ TakeExt \/ TakeResetExt \/ TakeTransform \/ HandOverFails \/ PostResetExt
           \/ SendTimeout \/ \E c \in Listeners : PostExt(c) \/ ReadEnd(c)
    PROVE  LineInv(Q)'
<1>1. UNCHANGED <<queue, relay, chan, got>>
  BY DEF TakeExt, TakeResetExt, TakeTransform, HandOverFails, PostResetExt, PostExt, SendTimeout,
         ReadEnd, laneVars, endVars, waveVars, histVars
<1>2. Mailed' \subseteq Mailed /\ InLine(Q, Letters')
  <2>1. InLine(Q, Letters) /\ Letters \in Seq(Waves \union {Greeting})
    BY LineTypes DEF LineInv
  <2>2. CASE TakeExt \/ TakeResetExt \/ TakeTransform
    <3>1. Receiving("Ext") \/ Receiving("ResetExt") \/ Receiving("Transform")
      BY <2>2 DEF TakeExt, TakeResetExt, TakeTransform
    <3>2. Mailed' = Mailed
      BY <3>1, MailedByTake DEF OnceInv
    <3>3. mailbox /= <<>> /\ mailbox' = Tail(mailbox)
      BY <3>1 DEF Receiving
    <3> QED
      BY <2>1, <3>2, <3>3, LettersTaken, InLineTail
  <2>3. CASE HandOverFails \/ SendTimeout \/ \E c \in Listeners : ReadEnd(c)
    <3>1. mailbox' = mailbox
      BY <2>3 DEF HandOverFails, SendTimeout, ReadEnd, laneVars
    <3> QED
      BY <2>1, <3>1 DEF Mailed, Letters
  <2>4. ASSUME NEW call \in Calls, call.call /= "Wave", mailbox' = Append(mailbox, call)
        PROVE  Mailed' \subseteq Mailed /\ InLine(Q, Letters')
    <3>1. Mailed' = Mailed
      BY <2>4, MailedByPost
    <3>2. Letters' = Append(Letters, Greeting)
      BY <2>4, LettersPosted DEF Letter
    <3>3. Before(Q, InSeq(Letters), {Greeting})
      BY DEF Before
    <3> QED
      BY <2>1, <3>1, <3>2, <3>3, InLineAppend
  <2>5. CASE PostResetExt
    BY <2>4, <2>5, CallTypes DEF PostResetExt, ResetExtCall
  <2>6. ASSUME NEW c \in Listeners, PostExt(c) PROVE Mailed' \subseteq Mailed /\ InLine(Q, Letters')
    BY <2>4, <2>6, CallTypes DEF PostExt, ExtCall
  <2> QED
    BY <2>2, <2>3, <2>5, <2>6
<1>3. /\ InLine(Q, relay') /\ InLine(Q, queue')
      /\ \A c \in Listeners : InLine(Q, got'[c]) /\ InLine(Q, chan'[c])
  BY <1>1 DEF LineInv
<1>4. /\ InSeq(relay') \subseteq InSeq(relay) /\ InSeq(queue') \subseteq InSeq(queue)
      /\ \A c \in Listeners : /\ InSeq(got'[c]) \ {Greeting} \subseteq InSeq(got[c])
                              /\ InSeq(chan'[c]) \ {Greeting} \subseteq InSeq(chan[c])
  BY <1>1
<1> QED
  BY <1>2, <1>3, <1>4, LineShrinks

LEMMA ListenersLine ==
    ASSUME TypeOK, PlaceInv, NEW Q, LineInv(Q), NEW c \in Listeners, Open(c) \/ DropListener(c)
    PROVE  LineInv(Q)'
<1>1. UNCHANGED <<mailbox, queue, relay, got>>
  BY DEF Open, DropListener, laneVars, waveVars
<1>2. PICK s \in {<<>>, <<Greeting>>} : chan' = [chan EXCEPT ![c] = s]
  BY DEF Open, DropListener
<1>3. InSeq(s) \subseteq {Greeting} /\ InLine(Q, s)
  BY <1>2 DEF InSeq, InLine
<1>4. chan'[c] = s /\ \A d \in Listeners : d /= c => chan'[d] = chan[d]
  BY <1>2 DEF TypeOK
<1>5. Letters' = Letters /\ Mailed' = Mailed
  BY <1>1 DEF Letters, Mailed
<1>6. /\ InLine(Q, relay') /\ InLine(Q, Letters') /\ InLine(Q, queue')
      /\ \A d \in Listeners : InLine(Q, got'[d]) /\ InLine(Q, chan'[d])
  BY <1>1, <1>3, <1>4, <1>5 DEF LineInv
<1>7. /\ InSeq(relay') \subseteq InSeq(relay) /\ InSeq(queue') \subseteq InSeq(queue)
      /\ Mailed' \subseteq Mailed
      /\ \A d \in Listeners : /\ InSeq(got'[d]) \ {Greeting} \subseteq InSeq(got[d])
                              /\ InSeq(chan'[d]) \ {Greeting} \subseteq InSeq(chan[d])
  BY <1>1, <1>3, <1>4, <1>5
<1> QED
  BY <1>6, <1>7, LineShrinks

LEMMA ReceiveLine ==
    ASSUME TypeOK, PlaceInv, NEW Q, LineInv(Q), NEW c \in Listeners, Receive(c)
    PROVE  LineInv(Q)'
<1> DEFINE w == Head(chan[c])
<1>1. /\ chan[c] \in Seq(Waves \union {Greeting}) /\ chan[c] /= <<>>
      /\ got[c] \in Seq(Waves \union {Greeting})
  BY DEF Receive, TypeOK
<1>2. w \in Waves \union {Greeting} /\ w \in InSeq(chan[c])
      /\ InSeq(Tail(chan[c])) \subseteq InSeq(chan[c])
  BY <1>1, InSeqHead
<1>3. /\ chan'[c] = Tail(chan[c]) /\ got'[c] = Append(got[c], w)
      /\ \A d \in Listeners : d /= c => chan'[d] = chan[d] /\ got'[d] = got[d]
      /\ UNCHANGED <<mailbox, queue, relay>>
  BY DEF Receive, TypeOK, laneVars, waveVars
<1>4. InLine(Q, chan'[c]) /\ Before(Q, {w}, InSeq(chan'[c]))
  BY <1>1, <1>3, InLineTail DEF LineInv
<1> HIDE DEF w
<1>5. InSeq(got'[c]) = InSeq(got[c]) \union {w}
  BY <1>1, <1>2, <1>3, InSeqAppend
<1>6. InLine(Q, got'[c])
  <2>1. Before(Q, InSeq(got[c]), {w})
    BY <1>2 DEF LineInv, Before
  <2> QED
    BY <1>1, <1>3, <2>1, InLineAppend DEF LineInv
<1>7. Letters' = Letters /\ Mailed' = Mailed
  BY <1>3 DEF Letters, Mailed
<1>8. ASSUME NEW d \in Listeners
      PROVE  /\ InLine(Q, got'[d]) /\ InLine(Q, chan'[d])
             /\ Before(Q, InSeq(got'[d]), InSeq(chan'[d]))
             /\ Before(Q, InSeq(got'[d]) \union InSeq(chan'[d]),
                       InSeq(queue) \union Mailed \union InSeq(relay))
  <2>1. /\ InLine(Q, got[d]) /\ InLine(Q, chan[d])
        /\ Before(Q, InSeq(got[d]), InSeq(chan[d]))
        /\ Before(Q, InSeq(got[d]) \union InSeq(chan[d]),
                  InSeq(queue) \union Mailed \union InSeq(relay))
    BY DEF LineInv
  <2>2. CASE d = c
    <3>1. Before(Q, InSeq(got'[c]), InSeq(chan'[c]))
      BY <1>2, <1>3, <1>4, <1>5, <2>1, <2>2 DEF Before
    <3>2. Before(Q, InSeq(got'[c]) \union InSeq(chan'[c]),
                 InSeq(queue) \union Mailed \union InSeq(relay))
      BY <1>2, <1>3, <1>5, <2>1, <2>2 DEF Before
    <3> QED
      BY <1>4, <1>6, <2>2, <3>1, <3>2
  <2>3. CASE d /= c
    BY <1>3, <2>1, <2>3
  <2> QED
    BY <2>2, <2>3
<1>9. /\ InLine(Q, relay) /\ InLine(Q, Letters) /\ InLine(Q, queue)
      /\ Before(Q, Mailed, InSeq(relay)) /\ Before(Q, InSeq(queue), Mailed \union InSeq(relay))
  BY DEF LineInv
<1> QED
  BY <1>3, <1>7, <1>8, <1>9, LineIs

LEMMA HandOverLine ==
    ASSUME TypeOK, PlaceInv, NEW Q, LineInv(Q), HandOver
    PROVE  LineInv(Q)'
<1> DEFINE w == Head(queue)
<1>1. queue \in Seq(Waves) /\ queue /= <<>> /\ queue' = Tail(queue)
  BY DEF HandOver, TypeOK, Drained
<1>2. w \in Waves /\ w \in InSeq(queue) /\ InSeq(queue') \subseteq InSeq(queue)
  BY <1>1, InSeqHead
<1>3. ext \in Listeners /\ chan[ext] \in Seq(Waves \union {Greeting})
      /\ chan' = [chan EXCEPT ![ext] = Append(@, w)] /\ UNCHANGED <<mailbox, relay, got>>
  BY DEF HandOver, TypeOK, waveVars
<1>4. InLine(Q, queue') /\ Before(Q, {w}, InSeq(queue'))
  BY <1>1, InLineTail DEF LineInv
<1> HIDE DEF w
<1>5. chan'[ext] = Append(chan[ext], w) /\ \A d \in Listeners : d /= ext => chan'[d] = chan[d]
  BY <1>3 DEF TypeOK
<1>6. InSeq(chan'[ext]) = InSeq(chan[ext]) \union {w}
  BY <1>2, <1>3, <1>5, InSeqAppend
<1>7. InLine(Q, chan'[ext])
  <2>1. Before(Q, InSeq(chan[ext]), {w})
    BY <1>2, <1>3 DEF LineInv, Before
  <2> QED
    BY <1>3, <1>5, <2>1, InLineAppend DEF LineInv
<1>8. Letters' = Letters /\ Mailed' = Mailed
  BY <1>3 DEF Letters, Mailed
<1>9. ASSUME NEW d \in Listeners
      PROVE  /\ InLine(Q, got[d]) /\ InLine(Q, chan'[d])
             /\ Before(Q, InSeq(got[d]), InSeq(chan'[d]))
             /\ Before(Q, InSeq(got[d]) \union InSeq(chan'[d]),
                       InSeq(queue') \union Mailed \union InSeq(relay))
  <2>1. /\ InLine(Q, got[d]) /\ InLine(Q, chan[d])
        /\ Before(Q, InSeq(got[d]), InSeq(chan[d]))
        /\ Before(Q, InSeq(got[d]) \union InSeq(chan[d]),
                  InSeq(queue) \union Mailed \union InSeq(relay))
        /\ Before(Q, InSeq(queue), Mailed \union InSeq(relay))
    BY DEF LineInv
  <2>2. CASE d = ext
    <3>1. Before(Q, InSeq(got[ext]), InSeq(chan'[ext]))
      BY <1>2, <1>6, <2>1, <2>2 DEF Before
    <3>2. Before(Q, InSeq(got[ext]) \union InSeq(chan'[ext]),
                 InSeq(queue') \union Mailed \union InSeq(relay))
      BY <1>2, <1>4, <1>6, <2>1, <2>2 DEF Before
    <3> QED
      BY <1>7, <2>1, <2>2, <3>1, <3>2
  <2>3. CASE d /= ext
    <3>1. Before(Q, InSeq(got[d]) \union InSeq(chan[d]),
                 InSeq(queue') \union Mailed \union InSeq(relay))
      BY <1>2, <2>1 DEF Before
    <3> QED
      BY <1>5, <2>1, <2>3, <3>1
  <2> QED
    BY <2>2, <2>3
<1>10. /\ InLine(Q, relay) /\ InLine(Q, Letters) /\ Before(Q, Mailed, InSeq(relay))
       /\ Before(Q, InSeq(queue'), Mailed \union InSeq(relay))
  BY <1>2 DEF LineInv, Before
<1> QED
  BY <1>3, <1>4, <1>8, <1>9, <1>10, LineIs

\* The wave that goes back to the mailbox may be passed by any other.
LEMMA RequeueLine ==
    ASSUME TypeOK, PlaceInv, OnceInv, NEW Q, LineInv(Q), Requeue,
           MailboxHasRoom => \A v \in Waves : <<v, Head(queue)>> \in Q /\ <<Head(queue), v>> \in Q
    PROVE  LineInv(Q)'
<1> DEFINE w == Head(queue)
<1>1. queue \in Seq(Waves) /\ queue /= <<>> /\ queue' = Tail(queue)
  BY DEF Requeue, TypeOK, Drained
<1>2. w \in Waves /\ w \in InSeq(queue) /\ InSeq(queue') \subseteq InSeq(queue)
  BY <1>1, InSeqHead
<1>3. InLine(Q, queue')
  BY <1>1, InLineTail DEF LineInv
<1>4. UNCHANGED <<relay, chan, got>>
  BY DEF Requeue, endVars, waveVars
<1>5. CASE MailboxHasRoom
  <2>1. mailbox' = Append(mailbox, WaveCall(w)) /\ UNCHANGED <<chan, got>>
    BY <1>4, <1>5 DEF Requeue
  <2>2. /\ Before(Q, Mailed \union InSeq(queue'), {w}) /\ Before(Q, {w}, InSeq(relay'))
        /\ \A c \in Listeners : Before(Q, InSeq(got[c]) \union InSeq(chan[c]), {w})
    BY <1>2, <1>4, <1>5, LineTypes DEF Before
  <2>3. InLine(Q, relay') /\ InSeq(relay') \subseteq InSeq(relay)
    BY <1>4 DEF LineInv
  <2> HIDE DEF w
  <2> QED
    BY <1>2, <1>3, <2>1, <2>2, <2>3, LineMail
<1>6. CASE ~MailboxHasRoom
  <2>1. mailbox' = mailbox
    BY <1>6 DEF Requeue
  <2>2. Letters' = Letters /\ Mailed' = Mailed
    BY <2>1 DEF Letters, Mailed
  <2>3. /\ InLine(Q, relay') /\ InLine(Q, Letters')
        /\ \A c \in Listeners : InLine(Q, got'[c]) /\ InLine(Q, chan'[c])
    BY <1>4, <2>2 DEF LineInv
  <2>4. /\ InSeq(relay') \subseteq InSeq(relay) /\ Mailed' \subseteq Mailed
        /\ \A c \in Listeners : /\ InSeq(got'[c]) \ {Greeting} \subseteq InSeq(got[c])
                                /\ InSeq(chan'[c]) \ {Greeting} \subseteq InSeq(chan[c])
    BY <1>4, <2>2
  <2> QED
    BY <1>2, <1>3, <2>3, <2>4, LineShrinks
<1> QED
  BY <1>5, <1>6

LEMMA TakeWaveLine ==
    ASSUME TypeOK, PlaceInv, OnceInv, NEW Q, LineInv(Q), TakeWave
    PROVE  LineInv(Q)'
<1> DEFINE w    == Head(mailbox).arg
           rest == SubSeq(queue, Excess + 1, Len(queue))
<1>1. queue \in Seq(Waves) /\ Distinct(queue) /\ Excess \in 0 .. Len(queue)
  BY CapsAssumption DEF TypeOK, OnceInv, Excess
<1>2. rest \in Seq(Waves) /\ InSeq(rest) \subseteq InSeq(queue) /\ InLine(Q, rest)
  BY <1>1, DistinctCut, InLineCut DEF LineInv
<1>3. /\ w \in Waves /\ w \in Mailed /\ Mailed' = Mailed \ {w}
      /\ mailbox /= <<>> /\ mailbox' = Tail(mailbox) /\ Letter(Head(mailbox)) = w
  BY ArgTypes, MailedByTake DEF TakeWave, OnceInv, Receiving, Letter
<1>4. queue' = Append(rest, w) /\ UNCHANGED <<relay, chan, got>>
  BY DEF TakeWave, Pushed, endVars, waveVars
<1> HIDE DEF w, rest
<1>5. InSeq(queue') = InSeq(rest) \union {w}
  BY <1>2, <1>3, <1>4, InSeqAppend
<1>6. Letters' = Tail(Letters) /\ Letters /= <<>> /\ Head(Letters) = w
  BY <1>3, LettersTaken
<1>7. InLine(Q, Letters') /\ Before(Q, {w}, InSeq(Letters'))
  BY <1>6, LineTypes, InLineTail DEF LineInv
<1>8. Before(Q, {w}, Mailed')
  <2>1. InSeq(Letters') \ {Greeting} = Mailed'
    <3>1. TypeOK'
      BY TakeWaveType
    <3>2. (Letters \in Seq(Waves \union {Greeting}) /\ InSeq(Letters) \ {Greeting} = Mailed)'
      BY <3>1, LettersTypes, PTL
    <3> QED
      BY <3>2 DEF InSeq
  <2> QED
    BY <1>7, <2>1 DEF Before
<1>9. InLine(Q, queue')
  <2>1. Before(Q, InSeq(rest), {w})
    BY <1>2, <1>3 DEF LineInv, Before
  <2> QED
    BY <1>2, <1>4, <2>1, InLineAppend
<1>10. /\ Before(Q, Mailed', InSeq(relay))
       /\ Before(Q, InSeq(queue'), Mailed' \union InSeq(relay))
  <2>1. Before(Q, Mailed, InSeq(relay)) /\ Before(Q, InSeq(queue), Mailed \union InSeq(relay))
    BY DEF LineInv
  <2> QED
    BY <1>2, <1>3, <1>5, <1>8, <2>1 DEF Before
<1>11. ASSUME NEW c \in Listeners
       PROVE  /\ InLine(Q, got[c]) /\ InLine(Q, chan[c])
              /\ Before(Q, InSeq(got[c]), InSeq(chan[c]))
              /\ Before(Q, InSeq(got[c]) \union InSeq(chan[c]),
                        InSeq(queue') \union Mailed' \union InSeq(relay))
  <2>1. /\ InLine(Q, got[c]) /\ InLine(Q, chan[c])
        /\ Before(Q, InSeq(got[c]), InSeq(chan[c]))
        /\ Before(Q, InSeq(got[c]) \union InSeq(chan[c]),
                  InSeq(queue) \union Mailed \union InSeq(relay))
    BY DEF LineInv
  <2> QED
    BY <1>2, <1>3, <1>5, <2>1 DEF Before
<1>12. InLine(Q, relay)
  BY DEF LineInv
<1> QED
  BY <1>4, <1>7, <1>9, <1>10, <1>11, <1>12, LineIs

\* What may be said of the waves sent so far is not taken back.
LEMMA OrderGrows ==
    ASSUME TypeOK, PlaceInv, [Next]_vars
    PROVE  \A v, w \in Waves : v <= sent /\ w <= sent /\ <<v, w>> \in Order => <<v, w>> \in Order'
<1>1. requeued \subseteq requeued'
  BY DEF Next, Task, TakeExt, TakeResetExt, TakeTransform, TakeWave, HandOver, HandOverFails,
         PostResetExt, Requeue, Send, SendTimeout, TxSend, TxForward, Open, PostExt, Receive,
         DropListener, ReadEnd, vars, histVars
<1>2. \/ path' = path
      \/ sent' = sent + 1 /\ \E how \in {"send", "tx"} : path' = [path EXCEPT ![sent'] = how]
  BY DEF Next, Task, TakeExt, TakeResetExt, TakeTransform, TakeWave, HandOver, HandOverFails,
         PostResetExt, Requeue, Send, SendTimeout, TxSend, TxForward, Open, PostExt, Receive,
         DropListener, ReadEnd, vars, waveVars
<1>3. \A w \in Waves : w <= sent => path'[w] = path[w]
  <2>1. sent \in Nat /\ \A w \in Waves : w <= sent => w /= sent + 1
    BY CapsAssumption DEF TypeOK, Waves
  <2> QED
    BY <1>2, <2>1 DEF TypeOK
<1> QED
  BY <1>1, <1>3 DEF Order

\* What a wave sent just now may follow, and what may follow it.
LEMMA OrderOfNew ==
    ASSUME TypeOK, PlaceInv, OrderInv, sent < MaxWaves, sent' = sent + 1
    PROVE  /\ \A v \in Waves : v <= sent => <<v, sent'>> \in Order'
           /\ path' = [path EXCEPT ![sent'] = "send"] =>
                 \A v \in InSeq(relay) : <<sent', v>> \in Order'
<1>1. sent \in Nat /\ sent' \in Waves
  BY CapsAssumption DEF TypeOK, Waves
<1>2. \A v \in Waves : v <= sent => v < sent'
  BY <1>1 DEF Waves
<1>3. ASSUME path' = [path EXCEPT ![sent'] = "send"], NEW v \in InSeq(relay)
      PROVE  <<sent', v>> \in Order'
  <2>1. v \in Waves /\ v <= sent /\ path[v] = "tx"
    <3>1. v /= Greeting
      <4>1. v \in Waves
        BY <1>3 DEF InSeq, TypeOK
      <4> QED
        BY <4>1, CapsAssumption DEF Waves, Greeting
    <3> QED
      BY <3>1, <1>3, LineTypes DEF OrderInv
  <2>2. v /= sent' /\ path'[v] = "tx" /\ path'[sent'] = "send"
    BY <1>1, <1>2, <1>3, <2>1 DEF TypeOK, Waves
  <2> QED
    BY <1>1, <2>1, <2>2 DEF Order
<1> QED
  BY <1>1, <1>2, <1>3 DEF Order

LEMMA RelayKeepsPath ==
    ASSUME TypeOK, PlaceInv, OrderInv, [Next]_vars
    PROVE  \A w \in InSeq(relay') : path'[w] = "tx"
<1>1. relay \in Seq(Waves) /\ sent \in Nat
      /\ \A w \in InSeq(relay) : w \in Waves /\ w <= sent /\ path[w] = "tx"
  <2>1. relay \in Seq(Waves) /\ sent \in Nat
    BY CapsAssumption DEF TypeOK
  <2>2. ASSUME NEW w \in InSeq(relay) PROVE w \in Waves /\ w /= Greeting
    <3>1. w \in Waves
      BY <2>1 DEF InSeq
    <3> QED
      BY <3>1, CapsAssumption DEF Waves, Greeting
  <2> QED
    BY <2>1, <2>2, LineTypes DEF OrderInv
<1>2. CASE TxSend
  <2>1. sent' \in Waves /\ relay' = Append(relay, sent') /\ sent' = sent + 1
        /\ path' = [path EXCEPT ![sent'] = "tx"]
    BY <1>2, CapsAssumption DEF TxSend, TypeOK, Waves
  <2>2. InSeq(relay') = InSeq(relay) \union {sent'}
    BY <1>1, <2>1, InSeqAppend
  <2> QED
    BY <1>1, <2>1, <2>2 DEF TypeOK, Waves
<1>3. CASE Send \/ SendTimeout
  <2>1. relay' = relay /\ sent' = sent + 1 /\ path' = [path EXCEPT ![sent'] = "send"]
    BY <1>3 DEF Send, SendTimeout
  <2>2. \A w \in InSeq(relay) : w /= sent'
    BY <1>1, <2>1 DEF Waves
  <2> QED
    BY <1>1, <2>1, <2>2 DEF TypeOK
<1>4. CASE TxForward
  <2>1. path' = path /\ relay /= <<>> /\ relay' = Tail(relay)
    BY <1>4 DEF TxForward
  <2>2. InSeq(relay') \subseteq InSeq(relay)
    BY <1>1, <2>1, InSeqHead
  <2> QED
    BY <1>1, <2>1, <2>2
<1>5. (UNCHANGED <<relay, path>>) \/ TxSend \/ Send \/ SendTimeout \/ TxForward
  BY DEF Next, Task, TakeExt, TakeResetExt, TakeTransform, TakeWave, HandOver, HandOverFails,
         PostResetExt, Requeue, Open, PostExt, Receive, DropListener, ReadEnd,
         vars, waveVars
<1> QED
  BY <1>1, <1>2, <1>3, <1>4, <1>5

LEMMA StepLine ==
    ASSUME TypeOK, PlaceInv, OnceInv, OrderInv, [Next]_vars
    PROVE  OrderInv'
<1>1. PICK Q : Q = Order'
  OBVIOUS
<1>2. LineInv(Q)
  <2>1. LineInv(Order)
    BY DEF OrderInv
  <2> QED
    BY <1>1, <2>1, OrderGrows, LineGrows
<1>3. LineInv(Q)'
  <2>1. CASE UNCHANGED vars
    <3>1. UNCHANGED <<mailbox, queue, relay, chan, got>>
      BY <2>1 DEF vars, laneVars, endVars, waveVars
    <3>2. Letters' = Letters /\ Mailed' = Mailed
      BY <3>1 DEF Letters, Mailed
    <3>3. /\ InLine(Q, relay') /\ InLine(Q, Letters') /\ InLine(Q, queue')
          /\ \A c \in Listeners : InLine(Q, got'[c]) /\ InLine(Q, chan'[c])
      BY <1>2, <3>1, <3>2 DEF LineInv
    <3>4. /\ InSeq(relay') \subseteq InSeq(relay) /\ Mailed' \subseteq Mailed
          /\ InSeq(queue') \subseteq InSeq(queue)
          /\ \A c \in Listeners : /\ InSeq(got'[c]) \ {Greeting} \subseteq InSeq(got[c])
                                  /\ InSeq(chan'[c]) \ {Greeting} \subseteq InSeq(chan[c])
      BY <3>1, <3>2
    <3> QED
      BY <1>2, <3>3, <3>4, LineShrinks
  <2>2. CASE Send
    <3>1. sent < MaxWaves /\ sent' = sent + 1 /\ path' = [path EXCEPT ![sent'] = "send"]
      BY <2>2 DEF Send
    <3> QED
      BY <1>1, <1>2, <2>2, <3>1, OrderOfNew, SendLine
  <2>3. CASE TxSend
    <3>1. sent < MaxWaves /\ sent' = sent + 1
      BY <2>3 DEF TxSend
    <3> QED
      BY <1>1, <1>2, <2>3, <3>1, OrderOfNew, TxSendLine
  <2>4. CASE Requeue
    <3>1. MailboxHasRoom => requeued' = requeued \union {Head(queue)}
      BY <2>4 DEF Requeue
    <3>2. Head(queue) \in Waves
      BY <2>4, DrainedTypes DEF Requeue
    <3>3. MailboxHasRoom =>
             \A v \in Waves : <<v, Head(queue)>> \in Q /\ <<Head(queue), v>> \in Q
      BY <1>1, <3>1, <3>2 DEF Order
    <3> QED
      BY <1>2, <2>4, <3>3, RequeueLine
  <2>5. CASE TxForward \/ TakeWave \/ HandOver
    BY <1>2, <2>5, TxForwardLine, TakeWaveLine, HandOverLine
  <2>6. CASE TakeExt \/ TakeResetExt \/ TakeTransform \/ HandOverFails \/ PostResetExt \/ SendTimeout
    BY <1>2, <2>6, OtherLine
  <2>7. ASSUME NEW c \in Listeners,
               Open(c) \/ PostExt(c) \/ Receive(c) \/ DropListener(c) \/ ReadEnd(c)
        PROVE  LineInv(Q)'
    BY <1>2, <2>7, OtherLine, ListenersLine, ReceiveLine
  <2> QED
    BY <2>1, <2>2, <2>3, <2>4, <2>5, <2>6, <2>7 DEF Next, Task
<1>4. LineInv(Order)'
  BY <1>1, <1>3 DEF LineInv, InLine, Before, InSeq
<1>5. \A w \in InSeq(relay') : path'[w] = "tx"
  BY RelayKeepsPath
<1> QED
  BY <1>4, <1>5 DEF OrderInv, InSeq

LEMMA InitLine == Init => OrderInv
<1> SUFFICES ASSUME Init PROVE OrderInv
  OBVIOUS
<1>1. \A s : s = <<>> => InSeq(s) = {} /\ InLine(Order, s)
  BY DEF InSeq, InLine
<1>2. \A S : Before(Order, {}, S) /\ Before(Order, S, {})
  BY DEF Before
<1>3. Mailed = {} /\ InLine(Order, Letters)
  <2>1. Len(mailbox) = Len(Transforms) /\ DOMAIN mailbox = 1 .. Len(mailbox)
        /\ \A i \in 1 .. Len(mailbox) : mailbox[i].call = "Transform"
    BY CapsAssumption DEF Init, TransformCall
  <2>2. Mailed = {}
    BY <2>1 DEF Mailed, WaveCall
  <2>3. Len(Letters) = Len(mailbox) /\ \A i \in 1 .. Len(mailbox) : Letters[i] = Greeting
    <3>1. Len(mailbox) \in Nat
      BY <2>1, CapsAssumption
    <3> QED
      BY <2>1, <3>1 DEF Letters, Letter
  <2> QED
    BY <2>2, <2>3 DEF InLine
<1>4. relay = <<>> /\ queue = <<>> /\ \A c \in Listeners : chan[c] = <<>> /\ got[c] = <<>>
  BY DEF Init
<1>5. InSeq(relay) = {} /\ InSeq(queue) = {} /\ InLine(Order, relay) /\ InLine(Order, queue)
      /\ \A c \in Listeners : /\ InSeq(chan[c]) = {} /\ InSeq(got[c]) = {}
                              /\ InLine(Order, chan[c]) /\ InLine(Order, got[c])
  BY <1>1, <1>4
<1>6. LineInv(Order)
  BY <1>2, <1>3, <1>5 DEF LineInv
<1> QED
  BY <1>5, <1>6 DEF OrderInv

\* Two waves that came in the same way reach a listener in the order they were sent,
\* unless the lane put one of them back after a hand-over that failed.
THEOREM OrderTheorem == Spec => []InOrderUnlessRequeued
<1>1. TypeOK /\ PlaceInv /\ OnceInv /\ OrderInv /\ [Next]_vars => OrderInv'
  BY StepLine
<1>2. TypeOK /\ OrderInv => InOrderUnlessRequeued
  <2> SUFFICES ASSUME TypeOK, OrderInv, NEW c \in Listeners,
                      NEW i \in DOMAIN Handed(c), NEW j \in DOMAIN Handed(c), i < j,
                      Handed(c)[i] /= Greeting, Handed(c)[j] /= Greeting
               PROVE  <<Handed(c)[i], Handed(c)[j]>> \in Order
    BY DEF InOrderUnlessRequeued, Order
  <2> DEFINE g == got[c]
             h == chan[c]
  <2>1. g \in Seq(Waves \union {Greeting}) /\ h \in Seq(Waves \union {Greeting})
    BY DEF TypeOK
  <2>2. InLine(Order, g) /\ InLine(Order, h) /\ Before(Order, InSeq(g), InSeq(h))
    BY DEF OrderInv, LineInv
  <2>3. Handed(c) = g \o h
    BY DEF Handed
  <2> HIDE DEF g, h
  <2>4. /\ Len(g) \in Nat /\ Len(h) \in Nat /\ DOMAIN g = 1 .. Len(g) /\ DOMAIN h = 1 .. Len(h)
        /\ DOMAIN Handed(c) = 1 .. Len(g) + Len(h)
        /\ \A k \in 1 .. Len(g) + Len(h) : Handed(c)[k] = IF k <= Len(g) THEN g[k] ELSE h[k - Len(g)]
    BY <2>1, <2>3
  <2>5. CASE j <= Len(g)
    BY <2>2, <2>4, <2>5 DEF InLine
  <2>6. CASE ~(i <= Len(g))
    <3>1. /\ i - Len(g) \in 1 .. Len(h) /\ j - Len(g) \in 1 .. Len(h)
          /\ i - Len(g) < j - Len(g) /\ ~(j <= Len(g))
      BY <2>4, <2>6
    <3>2. Handed(c)[i] = h[i - Len(g)] /\ Handed(c)[j] = h[j - Len(g)]
      BY <2>4, <2>6, <3>1
    <3> QED
      BY <2>2, <3>1, <3>2 DEF InLine
  <2>7. CASE i <= Len(g) /\ ~(j <= Len(g))
    <3>1. i \in DOMAIN g /\ j - Len(g) \in DOMAIN h
      BY <2>4, <2>7
    <3>2. Handed(c)[i] = g[i] /\ Handed(c)[j] = h[j - Len(g)]
      BY <2>4, <2>7
    <3> QED
      BY <2>2, <3>1, <3>2 DEF Before, InSeq
  <2> QED
    BY <2>4, <2>5, <2>6, <2>7
<1> QED
  BY <1>1, <1>2, InitLine, TypeTheorem, PlaceInvHolds, PTL DEF Spec

=============================================================================
