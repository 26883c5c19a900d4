------------------------- MODULE HyperClientProofs -------------------------
(***************************************************************************)
(* Theorems about HyperClient, for every number of waves, connections and  *)
(* commands and every capacity.                                            *)
(***************************************************************************)
EXTENDS HyperClient, TLAPS

-----------------------------------------------------------------------------
(* Typing, one group of variables at a time: TypeOK is their conjunction.  *)

StatusOK == /\ statusQ \in Seq(Statuses) /\ Len(statusQ) <= StatusCap
            /\ pump \in BOOLEAN /\ status \in Statuses
RunOK    == /\ run \in {"start", "connect", "create", "ready", "relay", "push", "deliver",
                        "closing", "fatal", "gone", "exit"}
            /\ hand \in Waves \union {0} /\ (hand /= 0 <=> run = "push")
QueueOK  == toRunner \in Seq(Calls) /\ Len(toRunner) <= RunnerCap
ExtOK    == /\ down \in Seq(DownWaves) /\ inOpen \in BOOLEAN /\ outOpen \in BOOLEAN
            /\ conns \in 0 .. MaxConns
RelayOK  == /\ relay \in {"first", "loop", "Fatal", "Panic", "gone"}
            /\ greet \in 0 .. MaxConns /\ pending \subseteq Requests
            /\ heard \in Seq(DownWaves) /\ settled \subseteq Requests
ClientOK == toClient \in Seq(DownWaves) /\ Len(toClient) <= ClientCap
OwnerOK  == /\ listening \in BOOLEAN /\ ownerGone \in BOOLEAN
            /\ out \in 0 .. MaxOut /\ given \in 0 .. MaxCommands
HistOK   == up \in Seq(Waves) /\ dropped \subseteq Waves
InOK     == in \in 0 .. MaxIn

LEMMA TypeParts ==
    TypeOK <=> /\ StatusOK /\ RunOK /\ QueueOK /\ ExtOK /\ RelayOK /\ ClientOK
               /\ OwnerOK /\ HistOK /\ InOK
  BY DEF TypeOK, StatusOK, RunOK, QueueOK, ExtOK, RelayOK, ClientOK, OwnerOK, HistOK, InOK

LEMMA PartsType ==
    /\ StatusOK' /\ RunOK' /\ QueueOK' /\ ExtOK' /\ RelayOK' /\ ClientOK'
    /\ OwnerOK' /\ HistOK' /\ InOK'
    => TypeOK'
  BY DEF TypeOK, StatusOK, RunOK, QueueOK, ExtOK, RelayOK, ClientOK, OwnerOK, HistOK, InOK,
         Statuses

\* A group keeps its types when none of its variables changes.
LEMMA Untouched ==
    /\ StatusOK /\ UNCHANGED statusVars => StatusOK'
    /\ RunOK /\ UNCHANGED runVars => RunOK'
    /\ QueueOK /\ UNCHANGED toRunner => QueueOK'
    /\ ExtOK /\ UNCHANGED extVars => ExtOK'
    /\ RelayOK /\ UNCHANGED relayVars => RelayOK'
    /\ ClientOK /\ UNCHANGED toClient => ClientOK'
    /\ OwnerOK /\ UNCHANGED ownerVars => OwnerOK'
    /\ HistOK /\ UNCHANGED histVars => HistOK'
    /\ InOK /\ UNCHANGED in => InOK'
  BY DEF StatusOK, RunOK, QueueOK, ExtOK, RelayOK, ClientOK, OwnerOK, HistOK, InOK,
         statusVars, runVars, extVars, relayVars, ownerVars, histVars

\* Between reading a wave and delivering it the runner has it.
DownOK == run = "deliver" => down /= <<>>

LEMMA CapTypes ==
    /\ StatusCap \in Nat \ {0} /\ RunnerCap \in Nat \ {0} /\ ClientCap \in Nat \ {0}
    /\ MaxConns \in Nat /\ MaxOut \in Nat /\ MaxCommands \in Nat /\ MaxIn \in Nat
    /\ Requests \subseteq Waves /\ 0 \notin Waves
  BY ClientAssumption DEF Waves

LEMMA CallTypes ==
    /\ \A w \in Waves : WaveCall(w) \in Calls
    /\ \A m \in Commands : Call(m, 0) \in Calls
    /\ \A c \in Calls : c.call = "Wave" => c.of \in Waves
    /\ \A c \in Calls : c.call = "Wave" => c = WaveCall(c.of)
  BY DEF Calls, Call, WaveCall, Commands

\* A status that is sent, or not because the pump has stopped.
LEMMA SendTypes ==
    ASSUME StatusOK, NEW s \in Statuses, TrySendStatus(s), UNCHANGED <<pump, status>>
    PROVE  StatusOK'
<1>1. CASE UNCHANGED statusQ
  BY <1>1 DEF StatusOK
<1>2. CASE statusQ' = Append(statusQ, s) /\ Len(statusQ) < StatusCap
  <2>1. statusQ' \in Seq(Statuses) /\ Len(statusQ') <= StatusCap
    BY <1>2, CapTypes DEF StatusOK
  <2> QED
    BY <2>1 DEF StatusOK
<1> QED
  BY <1>1, <1>2 DEF TrySendStatus, SendStatus, SendFails

\* Taking the first element of one of the channels.
LEMMA TakeTypes ==
    ASSUME NEW S, NEW q \in Seq(S), q /= <<>>
    PROVE  Head(q) \in S /\ Tail(q) \in Seq(S) /\ Len(Tail(q)) = Len(q) - 1 /\ Len(q) \in Nat
  OBVIOUS

LEMMA TakeRunner ==
    ASSUME QueueOK, NEW m, Taking(m), toRunner' = Tail(toRunner)
    PROVE  QueueOK' /\ Head(toRunner) \in Calls
<1>1. toRunner \in Seq(Calls) /\ toRunner /= <<>> /\ Len(toRunner) <= RunnerCap
  BY DEF QueueOK, Taking
<1>2. /\ Head(toRunner) \in Calls /\ toRunner' \in Seq(Calls)
      /\ Len(toRunner') = Len(toRunner) - 1 /\ Len(toRunner) \in Nat
  BY <1>1, TakeTypes
<1> QED
  BY <1>2, CapTypes DEF QueueOK

LEMMA TakeClient ==
    ASSUME ClientOK, Reading
    PROVE  ClientOK' /\ Head(toClient) \in DownWaves
<1>1. toClient \in Seq(DownWaves) /\ toClient /= <<>> /\ Len(toClient) <= ClientCap
  BY DEF ClientOK, Reading
<1>2. /\ Head(toClient) \in DownWaves /\ toClient' \in Seq(DownWaves)
      /\ Len(toClient') = Len(toClient) - 1 /\ Len(toClient) \in Nat
  BY <1>1, TakeTypes DEF Reading
<1> QED
  BY <1>2, CapTypes DEF ClientOK

\* What the runner has read waits at the head of down until it is delivered.
LEMMA DownTypes ==
    ASSUME ExtOK, ClientOK, down /= <<>>
    PROVE  /\ Tail(down) \in Seq(DownWaves)
           /\ Append(toClient, Head(down)) \in Seq(DownWaves)
           /\ Len(Append(toClient, Head(down))) = Len(toClient) + 1
           /\ Len(toClient) \in Nat
  BY TakeTypes DEF ExtOK, ClientOK

LEMMA NoExtTypes == ASSUME ExtOK, NoExt PROVE ExtOK'
<1>1. down' \in Seq(DownWaves)
  BY DEF NoExt
<1>2. inOpen' \in BOOLEAN /\ outOpen' \in BOOLEAN /\ conns' = conns
  BY DEF NoExt
<1> QED
  BY <1>1, <1>2 DEF ExtOK

LEMMA InitType == ASSUME Init PROVE TypeOK
<1>1. StatusOK
  <2>1. statusQ \in Seq(Statuses) /\ Len(statusQ) <= StatusCap /\ status \in Statuses
    BY CapTypes DEF Init, Statuses
  <2>2. pump \in BOOLEAN
    BY DEF Init
  <2> QED
    BY <2>1, <2>2 DEF StatusOK
<1>2. RunOK /\ QueueOK /\ RelayOK /\ ClientOK /\ HistOK /\ InOK
  BY CapTypes DEF Init, RunOK, QueueOK, RelayOK, ClientOK, HistOK, InOK
<1>3. ExtOK /\ OwnerOK
  <2>1. /\ down \in Seq(DownWaves) /\ conns \in 0 .. MaxConns
        /\ out \in 0 .. MaxOut /\ given \in 0 .. MaxCommands
    BY CapTypes DEF Init
  <2>2. {inOpen, outOpen, listening, ownerGone} \subseteq BOOLEAN
    BY DEF Init
  <2> QED
    BY <2>1, <2>2 DEF ExtOK, OwnerOK
<1> QED
  BY <1>1, <1>2, <1>3, TypeParts

LEMMA PumpType == ASSUME TypeOK, Pump PROVE TypeOK'
<1>1. statusQ \in Seq(Statuses) /\ statusQ /= <<>> /\ Len(statusQ) <= StatusCap
  BY TypeParts DEF StatusOK, Pump
<1>2. /\ Head(statusQ) \in Statuses /\ Tail(statusQ) \in Seq(Statuses)
      /\ Len(Tail(statusQ)) = Len(statusQ) - 1 /\ Len(statusQ) \in Nat
  BY <1>1, TakeTypes
<1>3. statusQ' \in Seq(Statuses) /\ Len(statusQ') <= StatusCap
  BY <1>1, CapTypes DEF Pump
<1>4. pump' \in BOOLEAN
  BY DEF Pump
<1>5. StatusOK'
  BY <1>2, <1>3 DEF StatusOK, Pump
<1> QED
  BY <1>5, Untouched, TypeParts, PartsType DEF Pump

LEMMA CreateType == ASSUME TypeOK, Create PROVE TypeOK'
<1>1. conns' \in 1 .. MaxConns
  BY TypeParts, CapTypes DEF Create, ExtOK
<1>2. down' \in Seq(DownWaves)
  <2>1. PICK k \in FirstWaves : down' = <<[kind |-> k, of |-> conns']>>
    BY DEF Create
  <2>2. [kind |-> k, of |-> conns'] \in DownWaves
    BY <1>1, ClientAssumption DEF DownWaves
  <2> QED
    BY <2>1, <2>2
<1>3. inOpen' \in BOOLEAN /\ outOpen' \in BOOLEAN
  BY DEF Create
<1>4. ExtOK'
  BY <1>1, <1>2, <1>3 DEF ExtOK
<1>5. RunOK'
  BY TypeParts DEF Create, RunOK
<1> QED
  BY <1>4, <1>5, Untouched, TypeParts, PartsType DEF Create

LEMMA StartType == ASSUME TypeOK, Start PROVE TypeOK'
<1>1. StatusOK'
  BY TypeParts, SendTypes DEF Start, Statuses
<1>2. RunOK'
  BY TypeParts DEF Start, RunOK
<1> QED
  BY <1>1, <1>2, Untouched, TypeParts, PartsType DEF Start

LEMMA ConnectType == ASSUME TypeOK, Connect PROVE TypeOK'
<1>1. StatusOK'
  BY TypeParts, SendTypes DEF Connect, Statuses, TrySendStatus
<1>2. RunOK'
  BY TypeParts DEF Connect, RunOK
<1> QED
  BY <1>1, <1>2, Untouched, TypeParts, PartsType DEF Connect

LEMMA CreateTimesOutType == ASSUME TypeOK, CreateTimesOut PROVE TypeOK'
<1>1. RunOK'
  BY TypeParts DEF CreateTimesOut, RunOK
<1> QED
  BY <1>1, Untouched, TypeParts, PartsType DEF CreateTimesOut

LEMMA ReadyType == ASSUME TypeOK, Ready PROVE TypeOK'
<1>1. StatusOK'
  BY TypeParts, SendTypes DEF Ready, Statuses, TrySendStatus
<1>2. RunOK'
  BY TypeParts DEF Ready, RunOK
<1>3. ExtOK'
  BY TypeParts, NoExtTypes, Untouched DEF Ready
<1> QED
  BY <1>1, <1>2, <1>3, Untouched, TypeParts, PartsType DEF Ready

LEMMA RunnerFatalType == ASSUME TypeOK, RunnerFatal PROVE TypeOK'
<1>1. StatusOK'
  BY TypeParts, SendTypes DEF RunnerFatal, Statuses
<1>2. RunOK'
  BY TypeParts DEF RunnerFatal, RunOK
<1>3. QueueOK'
  BY CapTypes DEF RunnerFatal, QueueOK
<1> QED
  BY <1>1, <1>2, <1>3, Untouched, TypeParts, PartsType DEF RunnerFatal

LEMMA TakeResetType == ASSUME TypeOK, TakeReset PROVE TypeOK'
<1>1. QueueOK'
  BY TypeParts, TakeRunner DEF TakeReset
<1>2. RunOK'
  BY TypeParts DEF TakeReset, RunOK, Taking, Reconnect
<1>3. ExtOK'
  BY TypeParts, NoExtTypes DEF TakeReset, Reconnect
<1>4. HistOK'
  BY TypeParts, Untouched DEF TakeReset, Reconnect, histVars
<1> QED
  BY <1>1, <1>2, <1>3, <1>4, Untouched, TypeParts, PartsType DEF TakeReset

LEMMA TakeCloseType == ASSUME TypeOK, TakeClose PROVE TypeOK'
<1>1. QueueOK'
  BY TypeParts, TakeRunner DEF TakeClose
<1>2. RunOK'
  BY TypeParts DEF TakeClose, RunOK, Taking
<1> QED
  BY <1>1, <1>2, Untouched, TypeParts, PartsType DEF TakeClose

LEMMA ClosingType == ASSUME TypeOK, Closing PROVE TypeOK'
<1>1. StatusOK'
  BY TypeParts, SendTypes DEF Closing, Statuses
<1>2. RunOK'
  BY TypeParts DEF Closing, RunOK, NaturalEnd
<1>3. ExtOK'
  BY TypeParts, NoExtTypes DEF Closing, NaturalEnd
<1>4. HistOK'
  BY TypeParts DEF Closing, HistOK, NaturalEnd, ExtOK
<1> QED
  BY <1>1, <1>2, <1>3, <1>4, Untouched, TypeParts, PartsType DEF Closing

LEMMA TakeOutType == ASSUME TypeOK, TakeOut PROVE TypeOK'
<1>1. QueueOK'
  BY TypeParts, TakeRunner DEF TakeOut
<1>2. RunOK'
  BY TypeParts, CallTypes, TakeRunner, CapTypes DEF TakeOut, RunOK, Taking
<1> QED
  BY <1>1, <1>2, Untouched, TypeParts, PartsType DEF TakeOut

LEMMA PushType == ASSUME TypeOK, Push PROVE TypeOK'
<1>1. RunOK'
  BY TypeParts DEF Push, RunOK
<1>2. HistOK'
  BY TypeParts DEF Push, HistOK, RunOK
<1> QED
  BY <1>1, <1>2, Untouched, TypeParts, PartsType DEF Push

LEMMA PushFailsType == ASSUME TypeOK, PushFails PROVE TypeOK'
<1>1. RunOK'
  BY DEF PushFails, RunOK, Reconnect
<1>2. ExtOK'
  BY TypeParts, NoExtTypes DEF PushFails, Reconnect
<1>3. HistOK'
  BY TypeParts DEF PushFails, HistOK, Reconnect, RunOK
<1> QED
  BY <1>1, <1>2, <1>3, Untouched, TypeParts, PartsType DEF PushFails

LEMMA OwnerEndedType == ASSUME TypeOK, OwnerEnded PROVE TypeOK'
<1>1. RunOK'
  BY TypeParts DEF OwnerEnded, RunOK, NaturalEnd
<1>2. ExtOK'
  BY TypeParts, NoExtTypes DEF OwnerEnded, NaturalEnd
<1>3. HistOK'
  BY TypeParts DEF OwnerEnded, HistOK, NaturalEnd, ExtOK
<1> QED
  BY <1>1, <1>2, <1>3, Untouched, TypeParts, PartsType DEF OwnerEnded

LEMMA ExtEndedType == ASSUME TypeOK, ExtEnded PROVE TypeOK'
<1>1. RunOK'
  BY TypeParts DEF ExtEnded, RunOK, NaturalEnd
<1>2. ExtOK'
  BY TypeParts, NoExtTypes DEF ExtEnded, NaturalEnd
<1>3. HistOK'
  BY TypeParts DEF ExtEnded, HistOK, NaturalEnd, ExtOK
<1> QED
  BY <1>1, <1>2, <1>3, Untouched, TypeParts, PartsType DEF ExtEnded

LEMMA TakeInType == ASSUME TypeOK, TakeIn PROVE TypeOK'
<1>1. RunOK'
  BY TypeParts DEF TakeIn, RunOK
<1> QED
  BY <1>1, Untouched, TypeParts, PartsType DEF TakeIn

LEMMA DeliverType == ASSUME TypeOK, DownOK, Deliver PROVE TypeOK'
<1>1. RunOK'
  BY TypeParts DEF Deliver, RunOK
<1>2. ClientOK'
  <2>1. CASE Len(toClient) < ClientCap /\ toClient' = Append(toClient, Head(down))
    <3>1. down /= <<>> /\ ExtOK /\ ClientOK
      BY TypeParts DEF Deliver, DownOK
    <3>2. toClient' \in Seq(DownWaves) /\ Len(toClient') = Len(toClient) + 1 /\ Len(toClient) \in Nat
      BY <2>1, <3>1, DownTypes
    <3> QED
      BY <2>1, <3>2, CapTypes DEF ClientOK
  <2>2. CASE UNCHANGED toClient
    BY <2>2, TypeParts DEF ClientOK
  <2> QED
    BY <2>1, <2>2 DEF Deliver
<1>3. ExtOK'
  BY TypeParts DEF Deliver, ExtOK, DownOK
<1> QED
  BY <1>1, <1>2, <1>3, Untouched, TypeParts, PartsType DEF Deliver

LEMMA FirstType == ASSUME TypeOK, First PROVE TypeOK'
<1>1. RelayOK'
  BY TypeParts, TakeClient DEF First, RelayOK, FirstVerdict, DownWaves
<1>2. ClientOK'
  BY TypeParts, TakeClient DEF First
<1> QED
  BY <1>1, <1>2, Untouched, TypeParts, PartsType DEF First

LEMMA RefusedType == ASSUME TypeOK, Refused PROVE TypeOK'
<1>1. StatusOK'
  BY TypeParts, SendTypes DEF Refused, Statuses
<1>2. RelayOK'
  BY TypeParts DEF Refused, RelayOK, Gone
<1>3. ClientOK'
  BY CapTypes DEF Refused, ClientOK, Gone
<1> QED
  BY <1>1, <1>2, <1>3, Untouched, TypeParts, PartsType DEF Refused

LEMMA ReflectType == ASSUME TypeOK, Reflect PROVE TypeOK'
<1>1. RelayOK'
  BY TypeParts DEF Reflect, RelayOK
<1>2. ClientOK'
  BY TypeParts, TakeClient DEF Reflect
<1> QED
  BY <1>1, <1>2, Untouched, TypeParts, PartsType DEF Reflect

LEMMA ReflectFailsType == ASSUME TypeOK, ReflectFails PROVE TypeOK'
<1>1. RelayOK'
  BY TypeParts DEF ReflectFails, RelayOK, Gone
<1>2. ClientOK'
  BY CapTypes DEF ReflectFails, ClientOK, Gone
<1> QED
  BY <1>1, <1>2, Untouched, TypeParts, PartsType DEF ReflectFails

LEMMA ForwardType == ASSUME TypeOK, Forward PROVE TypeOK'
<1>1. RelayOK'
  BY TypeParts, TakeClient DEF Forward, RelayOK
<1>2. ClientOK'
  BY TypeParts, TakeClient DEF Forward
<1> QED
  BY <1>1, <1>2, Untouched, TypeParts, PartsType DEF Forward

LEMMA ForwardFailsType == ASSUME TypeOK, ForwardFails PROVE TypeOK'
<1>1. RelayOK'
  BY TypeParts DEF ForwardFails, RelayOK, Gone
<1>2. ClientOK'
  BY CapTypes DEF ForwardFails, ClientOK, Gone
<1> QED
  BY <1>1, <1>2, Untouched, TypeParts, PartsType DEF ForwardFails

LEMMA RelayEndsType == ASSUME TypeOK, RelayEnds PROVE TypeOK'
<1>1. RelayOK'
  BY TypeParts DEF RelayEnds, RelayOK, Gone
<1>2. ClientOK'
  BY CapTypes DEF RelayEnds, ClientOK, Gone
<1> QED
  BY <1>1, <1>2, Untouched, TypeParts, PartsType DEF RelayEnds

LEMMA OwnerSendType == ASSUME TypeOK, OwnerSend PROVE TypeOK'
<1>1. QueueOK'
  BY TypeParts, CallTypes, CapTypes DEF OwnerSend, QueueOK, ToRunner, Waves, OwnerOK
<1>2. RelayOK'
  BY TypeParts DEF OwnerSend, RelayOK
<1>3. OwnerOK'
  BY TypeParts, CapTypes DEF OwnerSend, OwnerOK
<1> QED
  BY <1>1, <1>2, <1>3, Untouched, TypeParts, PartsType DEF OwnerSend

LEMMA CommandType == ASSUME TypeOK, NEW m \in Commands, Command(m) PROVE TypeOK'
<1>1. QueueOK'
  BY TypeParts, CallTypes, CapTypes DEF Command, QueueOK, ToRunner
<1>2. OwnerOK'
  BY TypeParts, CapTypes DEF Command, OwnerOK
<1> QED
  BY <1>1, <1>2, Untouched, TypeParts, PartsType DEF Command

LEMMA GiveUpType == ASSUME TypeOK, NEW w \in Waves, GiveUp(w) PROVE TypeOK'
<1>1. RelayOK'
  BY TypeParts DEF GiveUp, RelayOK
<1> QED
  BY <1>1, Untouched, TypeParts, PartsType DEF GiveUp

LEMMA ListenType == ASSUME TypeOK, Listen PROVE TypeOK'
<1>1. OwnerOK'
  BY TypeParts DEF Listen, OwnerOK
<1> QED
  BY <1>1, Untouched, TypeParts, PartsType DEF Listen

LEMMA DropOwnerType == ASSUME TypeOK, DropOwner PROVE TypeOK'
<1>1. OwnerOK'
  BY TypeParts DEF DropOwner, OwnerOK
<1> QED
  BY <1>1, Untouched, TypeParts, PartsType DEF DropOwner

LEMMA FarSendsType == ASSUME TypeOK, FarSends PROVE TypeOK'
<1>1. ExtOK'
  BY TypeParts, CapTypes DEF FarSends, ExtOK, SendsDown, DownWaves, InOK
<1>2. InOK'
  BY TypeParts, CapTypes DEF FarSends, InOK
<1> QED
  BY <1>1, <1>2, Untouched, TypeParts, PartsType DEF FarSends

LEMMA FarAnswersType == ASSUME TypeOK, NEW w \in Waves, FarAnswers(w) PROVE TypeOK'
<1>1. ExtOK'
  BY TypeParts DEF FarAnswers, ExtOK, SendsDown, DownWaves
<1> QED
  BY <1>1, Untouched, TypeParts, PartsType DEF FarAnswers

LEMMA CutInType == ASSUME TypeOK, CutIn PROVE TypeOK'
<1>1. ExtOK'
  BY TypeParts DEF CutIn, ExtOK
<1> QED
  BY <1>1, Untouched, TypeParts, PartsType DEF CutIn

LEMMA CutOutType == ASSUME TypeOK, CutOut PROVE TypeOK'
<1>1. ExtOK'
  BY TypeParts DEF CutOut, ExtOK
<1> QED
  BY <1>1, Untouched, TypeParts, PartsType DEF CutOut
-----------------------------------------------------------------------------
(* The step of a runner, of a relay, of the owner or of the far end.       *)

LEMMA DownStep == ASSUME TypeOK, DownOK, [Next]_vars PROVE DownOK'
<1>1. CASE UNCHANGED <<run, down>>
  BY <1>1 DEF DownOK
<1>2. ASSUME Start \/ Connect \/ Create \/ CreateTimesOut \/ Ready \/ RunnerFatal \/ TakeReset
             \/ TakeClose \/ Closing \/ TakeOut \/ Push \/ PushFails \/ OwnerEnded
             \/ ExtEnded \/ Deliver
      PROVE  run' /= "deliver"
  BY <1>2
  DEF Start, Connect, Create, CreateTimesOut, Ready, RunnerFatal, TakeReset,
      TakeClose, Closing, TakeOut, Push, PushFails, OwnerEnded, ExtEnded, Deliver,
      Reconnect, NaturalEnd
<1>3. CASE TakeIn
  BY <1>3 DEF TakeIn, extVars, DownOK
<1>4. ASSUME FarSends \/ \E w \in Waves : FarAnswers(w)
      PROVE  down' /= <<>>
  <2>1. down \in Seq(DownWaves)
    BY TypeParts DEF ExtOK
  <2>2. ASSUME NEW w \in DownWaves, SendsDown(w) PROVE down' /= <<>>
    BY <2>1, <2>2 DEF SendsDown
  <2>3. CASE FarSends
    <3>1. [kind |-> "directed", of |-> in'] \in DownWaves
      BY <2>3, TypeParts, CapTypes DEF FarSends, InOK, DownWaves
    <3> QED
      BY <2>2, <2>3, <3>1 DEF FarSends
  <2>4. CASE \E w \in Waves : FarAnswers(w)
    <3>1. PICK w \in Waves : FarAnswers(w)
      BY <2>4
    <3>2. [kind |-> "reflected", of |-> w] \in DownWaves
      BY <3>1 DEF FarAnswers, DownWaves
    <3> QED
      BY <2>2, <3>1, <3>2 DEF FarAnswers
  <2> QED
    BY <1>4, <2>3, <2>4
<1>5. CASE Pump \/ Relay
  BY <1>5, <1>1
  DEF Pump, Relay, First, Refused, Reflect, ReflectFails, Forward, ForwardFails,
      RelayEnds, runVars, extVars
<1>6. ASSUME \/ OwnerSend \/ Listen \/ DropOwner \/ CutIn \/ CutOut
             \/ (\E m \in Commands : Command(m)) \/ (\E w \in Waves : GiveUp(w))
      PROVE  UNCHANGED <<run, down>>
  BY <1>6
  DEF OwnerSend, Listen, DropOwner, CutIn, CutOut, Command, GiveUp, runVars, extVars
<1>7. CASE UNCHANGED vars
  BY <1>7, <1>1 DEF vars, runVars, extVars
<1> QED
  BY <1>2, <1>3, <1>4, <1>5, <1>6, <1>7 DEF Next, Runner, DownOK

LEMMA TypeStep == ASSUME TypeOK, DownOK, [Next]_vars PROVE TypeOK'
<1>1. CASE Runner \/ CreateTimesOut
  BY <1>1, StartType, ConnectType, CreateType, CreateTimesOutType, ReadyType,
     RunnerFatalType, TakeResetType, TakeCloseType, ClosingType, TakeOutType,
     PushType, PushFailsType, OwnerEndedType, ExtEndedType, TakeInType, DeliverType
  DEF Runner
<1>2. CASE Pump \/ Relay
  BY <1>2, PumpType, FirstType, RefusedType, ReflectType, ReflectFailsType,
     ForwardType, ForwardFailsType, RelayEndsType
  DEF Relay
<1>3. CASE \/ OwnerSend \/ Listen \/ DropOwner \/ FarSends \/ CutIn \/ CutOut
           \/ \E m \in Commands : Command(m)
           \/ \E w \in Waves : GiveUp(w) \/ FarAnswers(w)
  BY <1>3, OwnerSendType, ListenType, DropOwnerType, FarSendsType, CutInType,
     CutOutType, CommandType, GiveUpType, FarAnswersType
<1>4. CASE UNCHANGED vars
  BY <1>4, TypeParts, PartsType, Untouched DEF vars
<1> QED
  BY <1>1, <1>2, <1>3, <1>4 DEF Next

\* Types and capacities hold throughout, whatever is cut, reset or closed, and
\* the runner's hand is full exactly while it pushes.
THEOREM TypeTheorem == Spec => []TypeOK
<1>1. Init => TypeOK /\ DownOK
  <2>1. Init => DownOK
    BY DEF Init, DownOK
  <2> QED
    BY <2>1, InitType
<1>2. TypeOK /\ DownOK /\ [Next]_vars => TypeOK' /\ DownOK'
  BY TypeStep, DownStep
<1> QED
  BY <1>1, <1>2, PTL DEF Spec

-----------------------------------------------------------------------------
(* The owner's waves, from its channel through the runner's hand and up.   *)

IsWave(k)   == k \in 1 .. Len(toRunner) /\ toRunner[k].call = "Wave"
Increases(s) == \A i, j \in 1 .. Len(s) : i < j => s[i] < s[j]

\* The waves sent up, the one in the runner's hand and those in its channel are
\* numbered in this order, and none has a number not given out yet.
OrderInv ==
    /\ Increases(up)
    /\ \A i \in 1 .. Len(up) : up[i] <= out /\ (hand /= 0 => up[i] < hand)
    /\ hand <= out
    /\ \A k \in 1 .. Len(toRunner) : IsWave(k) =>
          /\ toRunner[k].of <= out /\ hand < toRunner[k].of
          /\ \A i \in 1 .. Len(up) : up[i] < toRunner[k].of
    /\ \A k, l \in 1 .. Len(toRunner) :
          IsWave(k) /\ IsWave(l) /\ k < l => toRunner[k].of < toRunner[l].of

\* The steps that move the owner's waves.
Moving == \/ RunnerFatal \/ TakeReset \/ TakeClose \/ TakeOut \/ Push \/ PushFails
          \/ OwnerSend \/ \E m \in Commands : Command(m)

LEMMA OtherSteps ==
    ASSUME [Next]_vars, ~Moving
    PROVE  UNCHANGED <<hand, toRunner, up, dropped, out>> /\ (run' = "gone" <=> run = "gone")
<1>1. CASE Start \/ Connect \/ Create \/ CreateTimesOut \/ Ready \/ Closing \/ OwnerEnded
           \/ ExtEnded \/ TakeIn \/ Deliver
  BY <1>1
  DEF Start, Connect, Create, CreateTimesOut, Ready, Closing, OwnerEnded, ExtEnded,
      TakeIn, Deliver, NaturalEnd, ownerVars, histVars
<1>2. CASE Pump \/ Relay
  BY <1>2
  DEF Pump, Relay, First, Refused, Reflect, ReflectFails, Forward, ForwardFails,
      RelayEnds, runVars, ownerVars, histVars
<1>3. CASE \/ Listen \/ DropOwner \/ FarSends \/ CutIn \/ CutOut
           \/ \E w \in Waves : GiveUp(w) \/ FarAnswers(w)
  BY <1>3
  DEF Listen, DropOwner, FarSends, CutIn, CutOut, GiveUp, FarAnswers, runVars,
      ownerVars, histVars
<1>4. CASE UNCHANGED vars
  BY <1>4 DEF vars, runVars, ownerVars, histVars
<1> QED
  BY <1>1, <1>2, <1>3, <1>4 DEF Next, Runner, Moving

\* Taking a call from the runner's channel moves the others one place up.
LEMMA TakeShifts ==
    ASSUME TypeOK, NEW m, Taking(m), toRunner' = Tail(toRunner)
    PROVE  /\ Len(toRunner) \in Nat \ {0} /\ Len(toRunner') = Len(toRunner) - 1
           /\ \A k \in 1 .. Len(toRunner') : /\ toRunner'[k] = toRunner[k + 1]
                                             /\ k + 1 \in 1 .. Len(toRunner)
           /\ Head(toRunner) = toRunner[1] /\ Head(toRunner).call = m
           /\ Head(toRunner) \in Calls
<1>1. toRunner \in Seq(Calls) /\ toRunner /= <<>>
  BY TypeParts DEF QueueOK, Taking
<1>2. Head(toRunner).call = m
  BY DEF Taking
<1> QED
  BY <1>1, <1>2

\* Posting a call to the runner leaves the others where they are.
LEMMA PostAppends ==
    ASSUME TypeOK, NEW c \in Calls, ToRunner(c)
    PROVE  /\ Len(toRunner) \in Nat /\ Len(toRunner') = Len(toRunner) + 1
           /\ toRunner'[Len(toRunner')] = c
           /\ \A k \in 1 .. Len(toRunner) : toRunner'[k] = toRunner[k]
  BY TypeParts DEF QueueOK, ToRunner

LEMMA NumberTypes ==
    ASSUME TypeOK
    PROVE  /\ out \in Nat /\ hand \in Nat /\ Len(up) \in Nat /\ Len(toRunner) \in Nat
           /\ \A i \in 1 .. Len(up) : up[i] \in Nat
           /\ \A k \in 1 .. Len(toRunner) : IsWave(k) => toRunner[k].of \in Waves
           /\ \A k \in 1 .. Len(toRunner) : toRunner[k] \in Calls
           /\ \A w \in Waves : w \in Nat /\ w > 0
<1>1. \A w \in Waves : w \in Nat /\ w > 0
  BY CapTypes DEF Waves
<1>2. /\ toRunner \in Seq(Calls) /\ up \in Seq(Waves) /\ out \in Nat
      /\ hand \in Waves \union {0}
  BY TypeParts DEF QueueOK, HistOK, OwnerOK, RunOK
<1>3. \A k \in 1 .. Len(toRunner) : toRunner[k] \in Calls
  BY <1>2
<1>4. \A i \in 1 .. Len(up) : up[i] \in Waves
  BY <1>2
<1>5. Len(up) \in Nat /\ Len(toRunner) \in Nat
  BY <1>2
<1> QED
  BY <1>1, <1>2, CallTypes DEF IsWave

LEMMA OrderStep == ASSUME TypeOK, TypeOK', OrderInv, [Next]_vars PROVE OrderInv'
<1> USE NumberTypes
<1>1. CASE ~Moving
  BY <1>1, OtherSteps DEF OrderInv, IsWave
<1>2. CASE RunnerFatal
  <2>1. toRunner' = <<>> /\ UNCHANGED <<hand, up, out>> /\ Len(<<>>) = 0
    BY <1>2 DEF RunnerFatal, ownerVars, histVars
  <2> QED
    BY <2>1 DEF OrderInv
<1>3. CASE TakeReset \/ TakeClose
  <2>1. PICK m : Taking(m) /\ toRunner' = Tail(toRunner)
    BY <1>3 DEF TakeReset, TakeClose
  <2>2. UNCHANGED <<hand, up, out>>
    BY <1>3 DEF TakeReset, TakeClose, ownerVars, histVars
  <2>3. \A k \in 1 .. Len(toRunner') : toRunner'[k] = toRunner[k + 1] /\ k + 1 \in 1 .. Len(toRunner)
    BY <2>1, TakeShifts
  <2>4. \A k \in 1 .. Len(toRunner') : IsWave(k)' => IsWave(k + 1)
    BY <2>3 DEF IsWave
  <2>5. ASSUME NEW k \in 1 .. Len(toRunner'), IsWave(k)'
        PROVE  /\ toRunner'[k].of <= out /\ hand < toRunner'[k].of
               /\ \A i \in 1 .. Len(up) : up[i] < toRunner'[k].of
    BY <2>3, <2>4, <2>5 DEF OrderInv
  <2>6. ASSUME NEW k \in 1 .. Len(toRunner'), NEW l \in 1 .. Len(toRunner'),
               IsWave(k)', IsWave(l)', k < l
        PROVE  toRunner'[k].of < toRunner'[l].of
    <3>1. k + 1 < l + 1
      BY <2>6
    <3> QED
      BY <2>3, <2>4, <2>6, <3>1 DEF OrderInv
  <2> QED
    BY <2>2, <2>5, <2>6 DEF OrderInv
<1>4. CASE TakeOut
  <2>1. Taking("Wave") /\ toRunner' = Tail(toRunner) /\ hand' = Head(toRunner).of
    BY <1>4 DEF TakeOut
  <2>2. UNCHANGED <<up, out>> /\ hand = 0
    BY <1>4, TypeParts DEF TakeOut, Taking, RunOK, ownerVars, histVars
  <2>3. /\ \A k \in 1 .. Len(toRunner') : toRunner'[k] = toRunner[k + 1] /\ k + 1 \in 1 .. Len(toRunner)
        /\ Head(toRunner) = toRunner[1] /\ Head(toRunner).call = "Wave" /\ 1 \in 1 .. Len(toRunner)
    BY <2>1, TakeShifts
  <2>4. \A k \in 1 .. Len(toRunner') : IsWave(k)' => IsWave(k + 1) /\ 1 < k + 1
    BY <2>3 DEF IsWave
  <2>5. IsWave(1)
    BY <2>3 DEF IsWave
  <2>6. hand' <= out /\ \A i \in 1 .. Len(up) : up[i] < hand'
    BY <2>1, <2>3, <2>5 DEF OrderInv
  <2>7. ASSUME NEW k \in 1 .. Len(toRunner'), IsWave(k)'
        PROVE  /\ toRunner'[k].of <= out /\ hand' < toRunner'[k].of
               /\ \A i \in 1 .. Len(up) : up[i] < toRunner'[k].of
    BY <2>1, <2>3, <2>4, <2>5, <2>7 DEF OrderInv
  <2>8. ASSUME NEW k \in 1 .. Len(toRunner'), NEW l \in 1 .. Len(toRunner'),
               IsWave(k)', IsWave(l)', k < l
        PROVE  toRunner'[k].of < toRunner'[l].of
    <3>1. k + 1 < l + 1
      BY <2>8
    <3> QED
      BY <2>3, <2>4, <2>8, <3>1 DEF OrderInv
  <2> QED
    BY <2>2, <2>6, <2>7, <2>8 DEF OrderInv
<1>5. CASE Push
  <2>1. up' = Append(up, hand) /\ hand' = 0 /\ UNCHANGED <<toRunner, out>> /\ hand \in Waves
    BY <1>5, TypeParts DEF Push, RunOK, ownerVars
  <2>2. /\ Len(up') = Len(up) + 1 /\ up'[Len(up) + 1] = hand
        /\ \A i \in 1 .. Len(up) : up'[i] = up[i]
    BY <2>1, TypeParts DEF HistOK
  <2>3. ASSUME NEW i \in 1 .. Len(up'), NEW j \in 1 .. Len(up'), i < j PROVE up'[i] < up'[j]
    <3>1. i \in 1 .. Len(up)
      BY <2>2, <2>3
    <3>2. CASE j \in 1 .. Len(up)
      BY <2>2, <2>3, <3>1, <3>2 DEF OrderInv, Increases
    <3>3. CASE j = Len(up) + 1
      BY <2>1, <3>1, <3>3 DEF OrderInv
    <3> QED
      BY <2>2, <3>2, <3>3
  <2>4. \A i \in 1 .. Len(up') : up'[i] <= out
    BY <2>2 DEF OrderInv
  <2>5. ASSUME NEW k \in 1 .. Len(toRunner), IsWave(k)
        PROVE  0 < toRunner[k].of /\ \A i \in 1 .. Len(up') : up'[i] < toRunner[k].of
    BY <2>2, <2>5 DEF OrderInv
  <2> QED
    BY <2>1, <2>3, <2>4, <2>5 DEF OrderInv, Increases, IsWave
<1>6. CASE PushFails
  <2>1. hand' = 0 /\ UNCHANGED <<toRunner, up, out>>
    BY <1>6 DEF PushFails, ownerVars
  <2> QED
    BY <2>1 DEF OrderInv, IsWave
<1>7. CASE OwnerSend
  <2>1. out' = out + 1 /\ ToRunner(WaveCall(out')) /\ UNCHANGED <<hand, up>>
    BY <1>7 DEF OwnerSend, runVars, histVars
  <2>2. WaveCall(out') \in Calls
    BY <1>7, CallTypes, CapTypes DEF OwnerSend, Waves
  <2>3. /\ Len(toRunner') = Len(toRunner) + 1 /\ toRunner'[Len(toRunner) + 1].of = out + 1
        /\ \A k \in 1 .. Len(toRunner) : toRunner'[k] = toRunner[k]
    BY <2>1, <2>2, PostAppends DEF WaveCall, Call
  <2>4. \A k \in 1 .. Len(toRunner) : IsWave(k)' <=> IsWave(k)
    BY <2>3 DEF IsWave
  <2>5. ASSUME NEW k \in 1 .. Len(toRunner'), IsWave(k)'
        PROVE  /\ toRunner'[k].of <= out' /\ hand < toRunner'[k].of
               /\ \A i \in 1 .. Len(up) : up[i] < toRunner'[k].of
    <3>1. CASE k \in 1 .. Len(toRunner)
      <4>1. IsWave(k) /\ toRunner'[k] = toRunner[k] /\ toRunner[k].of \in Nat
        BY <2>3, <2>4, <2>5, <3>1
      <4>2. /\ toRunner[k].of <= out /\ hand < toRunner[k].of
            /\ \A i \in 1 .. Len(up) : up[i] < toRunner[k].of
        BY <3>1, <4>1 DEF OrderInv
      <4> QED
        BY <2>1, <4>1, <4>2
    <3>2. CASE k = Len(toRunner) + 1
      BY <2>1, <2>3, <3>2 DEF OrderInv
    <3> QED
      BY <2>3, <3>1, <3>2
  <2>6. ASSUME NEW k \in 1 .. Len(toRunner'), NEW l \in 1 .. Len(toRunner'),
               IsWave(k)', IsWave(l)', k < l
        PROVE  toRunner'[k].of < toRunner'[l].of
    <3>1. k \in 1 .. Len(toRunner)
      BY <2>3, <2>6
    <3>2. CASE l \in 1 .. Len(toRunner)
      BY <2>3, <2>4, <2>6, <3>1, <3>2 DEF OrderInv
    <3>3. CASE l = Len(toRunner) + 1
      <4>1. IsWave(k) /\ toRunner'[k] = toRunner[k] /\ toRunner[k].of \in Nat
        BY <2>3, <2>4, <2>6
      <4>2. toRunner[k].of <= out
        BY <3>1, <4>1 DEF OrderInv
      <4> QED
        BY <2>3, <3>3, <4>1, <4>2
    <3> QED
      BY <2>3, <3>2, <3>3
  <2>7. hand <= out' /\ \A i \in 1 .. Len(up) : up[i] <= out'
    BY <2>1 DEF OrderInv
  <2> QED
    BY <2>1, <2>5, <2>6 DEF OrderInv
<1>8. ASSUME NEW m \in Commands, Command(m) PROVE OrderInv'
  <2>1. ToRunner(Call(m, 0)) /\ UNCHANGED <<hand, up, out>> /\ Call(m, 0) \in Calls
    BY <1>8, CallTypes DEF Command, runVars, histVars
  <2>2. /\ Len(toRunner') = Len(toRunner) + 1 /\ toRunner'[Len(toRunner) + 1].call /= "Wave"
        /\ \A k \in 1 .. Len(toRunner) : toRunner'[k] = toRunner[k]
    BY <2>1, PostAppends DEF Call, Commands
  <2>3. \A k \in 1 .. Len(toRunner') : IsWave(k)' => k \in 1 .. Len(toRunner) /\ IsWave(k)
    BY <2>2 DEF IsWave
  <2> QED
    BY <2>1, <2>2, <2>3 DEF OrderInv
<1> QED
  BY <1>1, <1>2, <1>3, <1>4, <1>5, <1>6, <1>7, <1>8 DEF Moving

\* Through resets, cuts in either half and reconnections, what the owner sends
\* goes up in the order it was sent and never twice.
THEOREM OrderTheorem == Spec => []UpInOrder
<1>1. Init => OrderInv
  BY DEF Init, OrderInv, Increases
<1>2. TypeOK /\ TypeOK' /\ OrderInv /\ [Next]_vars => OrderInv'
  BY OrderStep
<1>3. TypeOK /\ OrderInv => UpInOrder
  <2> SUFFICES ASSUME TypeOK, OrderInv PROVE UpInOrder
    OBVIOUS
  <2>1. DOMAIN up = 1 .. Len(up)
    BY TypeParts DEF HistOK
  <2> QED
    BY DEF OrderInv, Increases, UpInOrder
<1> QED
  BY <1>1, <1>2, <1>3, TypeTheorem, PTL DEF Spec

-----------------------------------------------------------------------------
(* Accounting.                                                             *)

LEMMA InSeqAppend ==
    ASSUME NEW S, NEW s \in Seq(S), NEW x \in S
    PROVE  InSeq(Append(s, x)) = InSeq(s) \union {x}
<1> DEFINE t == Append(s, x)
<1>1. t \in Seq(S) /\ Len(t) = Len(s) + 1 /\ Len(s) \in Nat
  OBVIOUS
<1>2. t[Len(s) + 1] = x /\ \A i \in 1 .. Len(s) : t[i] = s[i]
  OBVIOUS
<1>3. DOMAIN t = 1 .. Len(s) + 1 /\ DOMAIN s = 1 .. Len(s)
  OBVIOUS
<1> HIDE DEF t
<1>4. InSeq(t) = InSeq(s) \union {x}
  BY <1>2, <1>3 DEF InSeq
<1> QED
  BY <1>4 DEF t

LEMMA InSeqTail ==
    ASSUME NEW S, NEW s \in Seq(S), s /= <<>>
    PROVE  InSeq(s) = {Head(s)} \union InSeq(Tail(s))
<1> DEFINE t == Tail(s)
<1>1. Len(s) \in Nat \ {0} /\ DOMAIN t = 1 .. Len(s) - 1 /\ DOMAIN s = 1 .. Len(s) /\ Head(s) = s[1]
  OBVIOUS
<1>2. \A i \in 1 .. Len(s) - 1 : t[i] = s[i + 1]
  OBVIOUS
<1> HIDE DEF t
<1>3. ASSUME NEW i \in 1 .. Len(s) PROVE s[i] \in {Head(s)} \union InSeq(t)
  <2>1. CASE i = 1
    BY <2>1, <1>1
  <2>2. CASE i /= 1
    <3>1. i - 1 \in 1 .. Len(s) - 1 /\ t[i - 1] = s[i]
      BY <1>1, <1>2, <2>2
    <3> QED
      BY <1>1, <3>1 DEF InSeq
  <2> QED
    BY <2>1, <2>2
<1>4. ASSUME NEW i \in 1 .. Len(s) - 1 PROVE t[i] \in InSeq(s)
  <2>1. i + 1 \in 1 .. Len(s) /\ t[i] = s[i + 1]
    BY <1>1, <1>2
  <2> QED
    BY <1>1, <2>1 DEF InSeq
<1>5. InSeq(s) = {Head(s)} \union InSeq(t)
  BY <1>1, <1>3, <1>4 DEF InSeq
<1> QED
  BY <1>5 DEF t

LEMMA AccountedStep == ASSUME TypeOK, UpAccounted, [Next]_vars PROVE UpAccounted'
<1>1. toRunner \in Seq(Calls) /\ up \in Seq(Waves)
  BY TypeParts DEF QueueOK, HistOK
<1>2. CASE ~Moving
  BY <1>2, OtherSteps DEF UpAccounted
<1>3. CASE RunnerFatal
  BY <1>3 DEF RunnerFatal, UpAccounted
<1>4. CASE TakeReset \/ TakeClose
  <2>1. PICK m \in Commands : Taking(m) /\ toRunner' = Tail(toRunner)
    BY <1>4 DEF TakeReset, TakeClose, Commands
  <2>2. UNCHANGED <<hand, up, dropped, out>> /\ run /= "gone"
    BY <1>4 DEF TakeReset, TakeClose, Taking, ownerVars, histVars
  <2>3. \A w \in 1 .. out : WaveCall(w) /= Head(toRunner)
    BY <2>1 DEF Taking, WaveCall, Call, Commands
  <2>4. \A w \in 1 .. out : WaveCall(w) \in InSeq(toRunner) => WaveCall(w) \in InSeq(toRunner')
    BY <1>1, <2>1, <2>3, InSeqTail DEF Taking
  <2> QED
    BY <2>2, <2>4 DEF UpAccounted
<1>5. CASE TakeOut
  <2>1. Taking("Wave") /\ toRunner' = Tail(toRunner) /\ hand' = Head(toRunner).of
    BY <1>5 DEF TakeOut
  <2>2. UNCHANGED <<up, dropped, out>> /\ run /= "gone" /\ hand = 0
    BY <1>5, TypeParts DEF TakeOut, Taking, RunOK, ownerVars, histVars
  <2>3. \A w \in 1 .. out : WaveCall(w) = Head(toRunner) => hand' = w
    BY <2>1 DEF WaveCall, Call
  <2>4. InSeq(toRunner) = {Head(toRunner)} \union InSeq(toRunner')
    BY <1>1, <2>1, InSeqTail DEF Taking
  <2>5. 0 \notin 1 .. out
    OBVIOUS
  <2> QED
    BY <2>2, <2>3, <2>4 DEF UpAccounted
<1>6. CASE Push
  <2>1. /\ up' = Append(up, hand) /\ hand \in Waves /\ run /= "gone"
        /\ UNCHANGED <<toRunner, dropped, out>>
    BY <1>6, TypeParts DEF Push, RunOK, ownerVars
  <2>2. InSeq(up') = InSeq(up) \union {hand}
    BY <1>1, <2>1, InSeqAppend
  <2> QED
    BY <2>1, <2>2 DEF UpAccounted
<1>7. CASE PushFails
  <2>1. /\ dropped' = dropped \union {hand} /\ run /= "gone" /\ UNCHANGED <<toRunner, up, out>>
    BY <1>7 DEF PushFails, ownerVars
  <2> QED
    BY <2>1 DEF UpAccounted
<1>8. CASE OwnerSend
  <2>1. /\ out' = out + 1 /\ toRunner' = Append(toRunner, WaveCall(out')) /\ run /= "gone"
        /\ UNCHANGED <<hand, up, dropped>>
    BY <1>8 DEF OwnerSend, ToRunner, runVars, histVars
  <2>2. WaveCall(out') \in Calls
    BY <1>8, TypeParts, CallTypes, CapTypes DEF OwnerSend, Waves, OwnerOK
  <2>3. InSeq(toRunner') = InSeq(toRunner) \union {WaveCall(out')}
    BY <1>1, <2>1, <2>2, InSeqAppend
  <2>4. \A w \in 1 .. out' : w \in 1 .. out \/ w = out'
    BY <2>1, TypeParts DEF OwnerOK
  <2> QED
    BY <2>1, <2>3, <2>4 DEF UpAccounted
<1>9. ASSUME NEW m \in Commands, Command(m) PROVE UpAccounted'
  <2>1. /\ toRunner' = Append(toRunner, Call(m, 0)) /\ run /= "gone"
        /\ UNCHANGED <<hand, up, dropped, out>>
    BY <1>9 DEF Command, ToRunner, runVars, histVars
  <2>2. InSeq(toRunner') = InSeq(toRunner) \union {Call(m, 0)}
    BY <1>1, <2>1, CallTypes, InSeqAppend
  <2> QED
    BY <2>1, <2>2 DEF UpAccounted
<1> QED
  BY <1>2, <1>3, <1>4, <1>5, <1>6, <1>7, <1>8, <1>9 DEF Moving

\* As long as the runner exists, every wave the owner sent is in its channel, in
\* its hand, sent up, or was in its hand when the link failed.
THEOREM AccountedTheorem == Spec => []UpAccounted
<1>1. Init => UpAccounted
  BY DEF Init, UpAccounted
<1>2. TypeOK /\ UpAccounted /\ [Next]_vars => UpAccounted'
  BY AccountedStep
<1> QED
  BY <1>1, <1>2, TypeTheorem, PTL DEF Spec

-----------------------------------------------------------------------------
(* The greeting and the last status.                                       *)

\* Before the greeting nothing has got past the relay, and it goes on to relay
\* only with one.
GreetInv ==
    /\ relay \in {"first", "Fatal", "Panic"} => heard = <<>> /\ settled = {}
    /\ relay = "loop" => greet /= 0
    /\ GreetedFirst

LEMMA GreetStep == ASSUME TypeOK, GreetInv, [Next]_vars PROVE GreetInv'
<1>1. CASE UNCHANGED <<relay, greet, heard, settled>>
  BY <1>1 DEF GreetInv, GreetedFirst
<1>2. CASE First
  <2>1. Head(toClient) \in DownWaves
    BY <1>2, TypeParts, TakeClient DEF First
  <2>2. Head(toClient).kind = "greet" => Head(toClient).of /= 0
    BY <2>1 DEF DownWaves
  <2> QED
    BY <1>2, <2>2 DEF First, FirstVerdict, GreetInv, GreetedFirst
<1>3. CASE Refused \/ Reflect \/ ReflectFails \/ Forward \/ ForwardFails \/ RelayEnds
  BY <1>3
  DEF Refused, Reflect, ReflectFails, Forward, ForwardFails, RelayEnds, Gone,
      GreetInv, GreetedFirst
<1>4. ASSUME Pump \/ Runner \/ CreateTimesOut PROVE UNCHANGED <<relay, greet, heard, settled>>
  BY <1>4
  DEF Pump, Runner, CreateTimesOut, Start, Connect, Create, Ready, RunnerFatal,
      TakeReset, TakeClose, Closing, TakeOut, Push, PushFails, OwnerEnded, ExtEnded,
      TakeIn, Deliver, relayVars
<1>5. ASSUME \/ OwnerSend \/ Listen \/ DropOwner \/ FarSends \/ CutIn \/ CutOut
             \/ (\E m \in Commands : Command(m))
             \/ (\E w \in Waves : GiveUp(w) \/ FarAnswers(w))
      PROVE  UNCHANGED <<relay, greet, heard, settled>>
  BY <1>5
  DEF OwnerSend, Listen, DropOwner, FarSends, CutIn, CutOut, Command, GiveUp,
      FarAnswers, relayVars
<1>6. CASE UNCHANGED vars
  BY <1>6, <1>1 DEF vars, relayVars
<1> QED
  BY <1>1, <1>2, <1>3, <1>4, <1>5, <1>6 DEF Next, Relay

\* Nothing gets past the relay of a client that was not greeted, whatever the
\* gate sends first and however often the runner reconnects.
THEOREM GreetedTheorem == Spec => []GreetedFirst
<1>1. Init => GreetInv
  BY DEF Init, GreetInv, GreetedFirst
<1>2. TypeOK /\ GreetInv /\ [Next]_vars => GreetInv'
  BY GreetStep
<1>3. GreetInv => GreetedFirst
  BY DEF GreetInv
<1> QED
  BY <1>1, <1>2, <1>3, TypeTheorem, PTL DEF Spec

\* The pump runs until it has shown a last status.
PumpInv == status \in LastStatuses => ~pump

\* Only the pump shows a status.
LEMMA OnlyPump == ASSUME [Next]_vars, ~Pump PROVE UNCHANGED <<pump, status>>
<1>1. CASE Runner \/ CreateTimesOut
  BY <1>1
  DEF Runner, CreateTimesOut, Start, Connect, Create, Ready, RunnerFatal, TakeReset,
      TakeClose, Closing, TakeOut, Push, PushFails, OwnerEnded, ExtEnded, TakeIn,
      Deliver, statusVars
<1>2. CASE Relay
  BY <1>2
  DEF Relay, First, Refused, Reflect, ReflectFails, Forward, ForwardFails,
      RelayEnds, statusVars
<1>3. CASE \/ OwnerSend \/ Listen \/ DropOwner \/ FarSends \/ CutIn \/ CutOut
           \/ (\E m \in Commands : Command(m))
           \/ (\E w \in Waves : GiveUp(w) \/ FarAnswers(w))
  BY <1>3
  DEF OwnerSend, Listen, DropOwner, FarSends, CutIn, CutOut, Command, GiveUp,
      FarAnswers, statusVars
<1>4. CASE UNCHANGED vars
  BY <1>4 DEF vars, statusVars
<1> QED
  BY <1>1, <1>2, <1>3, <1>4 DEF Next

\* Fatal and Closed are the last statuses an owner sees.
THEOREM LastStatusTheorem == Spec => LastStatusStays
<1>1. Init => PumpInv
  BY DEF Init, PumpInv, LastStatuses
<1>2. PumpInv /\ [Next]_vars => PumpInv'
  <2> SUFFICES ASSUME PumpInv, [Next]_vars PROVE PumpInv'
    OBVIOUS
  <2>1. CASE Pump
    BY <2>1 DEF Pump, PumpInv
  <2>2. CASE ~Pump
    BY <2>2, OnlyPump DEF PumpInv
  <2> QED
    BY <2>1, <2>2
<1>3. PumpInv /\ [Next]_vars => [(status \in {"Fatal", "Closed"}) => status' = status]_vars
  <2> SUFFICES ASSUME PumpInv, [Next]_vars, status \in {"Fatal", "Closed"}
               PROVE  status' = status
    OBVIOUS
  <2>1. ~Pump
    BY DEF Pump, PumpInv, LastStatuses
  <2> QED
    BY <2>1, OnlyPump
<1> QED
  BY <1>1, <1>2, <1>3, PTL DEF Spec, LastStatusStays

\* Once a last status was shown, a runner that is not using a link never starts
\* using one.
THEOREM NoNewLinkTheorem == Spec => NoNewLinkOnceOver
<1>1. [Next]_vars => [~pump /\ ~Relaying => ~Relaying']_vars
  <2> SUFFICES ASSUME [Next]_vars, ~pump, ~Relaying PROVE ~Relaying'
    OBVIOUS
  <2>1. CASE UNCHANGED run
    BY <2>1 DEF Relaying
  <2>2. CASE Runner \/ CreateTimesOut
    BY <2>2
    DEF Runner, CreateTimesOut, Start, Connect, Create, Ready, RunnerFatal,
        TakeReset, TakeClose, Closing, TakeOut, Push, PushFails, OwnerEnded,
        ExtEnded, TakeIn, Deliver, Taking, SendStatus, Relaying
  <2>3. ASSUME \/ Pump \/ Relay \/ OwnerSend \/ Listen \/ DropOwner \/ FarSends \/ CutIn \/ CutOut
               \/ (\E m \in Commands : Command(m))
               \/ (\E w \in Waves : GiveUp(w) \/ FarAnswers(w))
        PROVE  UNCHANGED run
    BY <2>3
    DEF Pump, Relay, First, Refused, Reflect, ReflectFails, Forward, ForwardFails,
        RelayEnds, OwnerSend, Listen, DropOwner, FarSends, CutIn, CutOut, Command,
        GiveUp, FarAnswers, runVars
  <2>4. CASE UNCHANGED vars
    BY <2>4, <2>1 DEF vars, runVars
  <2> QED
    BY <2>1, <2>2, <2>3, <2>4 DEF Next
<1> QED
  BY <1>1, PTL DEF Spec, NoNewLinkOnceOver

=============================================================================
