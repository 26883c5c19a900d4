------------------------- MODULE StarStartupProofs -------------------------
(***************************************************************************)
(* Theorems about StarStartup, for any number of drivers, whichever of     *)
(* them ask something of their star, and any number of failures.           *)
(***************************************************************************)
EXTENDS StarStartup, SequenceTheorems, TLAPS

LEMMA Numbers ==
    /\ Last \in Nat /\ Last >= 2 /\ MaxBreaks \in Nat /\ 1 \in Drivers /\ Last \in Drivers
    /\ Drivers = 1 .. Last /\ Init0 = 0 /\ Homed \subseteq Drivers
  BY StartupAssumption DEF Drivers, Init0

\* The channels are short: what they hold, and what comes of a put or a take.
LEMMA Queues ==
    ASSUME NEW a, NEW b
    PROVE  /\ Append(<<>>, a) = <<a>> /\ Append(<<a>>, b) = <<a, b>>
           /\ Head(<<a>>) = a /\ Tail(<<a>>) = <<>>
           /\ Head(<<a, b>>) = a /\ Tail(<<a, b>>) = <<b>>
           /\ Len(<<>>) = 0 /\ Len(<<a>>) = 1 /\ Len(<<a, b>>) = 2
           /\ <<a>> # <<>> /\ <<a, b>> # <<>> /\ <<a>> = <<b>> <=> a = b
           /\ \A c : <<a>> # <<b, c>>
<1>1. Len(<<>>) = 0 /\ Len(<<a>>) = 1 /\ Len(<<a, b>>) = 2
  OBVIOUS
<1>2. Append(<<>>, a) = <<a>> 
  <2>1. <<>> \in Seq({a}) /\ <<a>> \in Seq({a}) OBVIOUS
  <2>2. /\ Append(<<>>, a) \in Seq({a}) /\ Len(Append(<<>>, a)) = 1
        /\ Append(<<>>, a)[1] = a
    BY <2>1, <1>1, AppendProperties
  <2>3. \A i \in 1 .. 1 : <<a>>[i] = Append(<<>>, a)[i]
    BY <2>2
  <2> QED BY <2>1, <2>2, <2>3, <1>1, SeqEqual
<1>3. Append(<<a>>, b) = <<a, b>>
  <2>1. <<a>> \in Seq({a,b}) /\ <<a, b>> \in Seq({a, b}) OBVIOUS
  <2>2. /\ Append(<<a>>, b) \in Seq({a, b}) /\ Len(Append(<<a>>, b)) = 2
        /\ Append(<<a>>, b)[1] = a /\ Append(<<a>>, b)[2] = b
    BY <2>1, <1>1, AppendProperties
  <2>3. \A i \in 1 .. 2 : <<a, b>>[i] = Append(<<a>>, b)[i]
    BY <2>2
  <2> QED BY <2>1, <2>2, <2>3, <1>1, SeqEqual
<1>4. Head(<<a>>) = a /\ Head(<<a, b>>) = a
  OBVIOUS
<1>5. Tail(<<a>>) = <<>> 
  OBVIOUS
<1>6. Tail(<<a, b>>) = <<b>>
  OBVIOUS
<1>7. <<a>> # <<>> /\ <<a, b>> # <<>>
  OBVIOUS
<1>8. <<a>> = <<b>> <=> a = b
  OBVIOUS
<1>9. ASSUME NEW c PROVE <<a>> # <<b, c>>
  OBVIOUS
<1> QED BY <1>1, <1>2, <1>3, <1>4, <1>5, <1>6, <1>7, <1>8, <1>9

-----------------------------------------------------------------------------
(* The inductive invariant.                                                *)

\* The drivers are made one after another: all before `started` are Ready, all
\* after it are not there yet.
InOrder ==
    /\ \A k \in Drivers : k < started => phase[k] = "over" /\ driver[k] = "Ready"
    /\ \A k \in Drivers : k > started => phase[k] = "none" /\ driver[k] = "Unknown"

\* What the driver at hand shows at each point of its creation, and what is in the
\* channel of the task Drivers meanwhile.
AtHand ==
    started > 0 =>
       /\ phase[started] # "none"
       /\ phase[started] = "registering" =>
             calls = <<>> /\ listener.for = "none" /\ driver[started] = "Pending"
       /\ phase[started] = "creating" => calls = <<>> /\ driver[started] = "Pending"
       /\ phase[started] = "adding" =>
             calls = <<started>> /\ started > 1 /\ driver[started] = "Pending"
       /\ phase[started] = "initing" =>
             /\ driver[started] \in {"Pending", "Init"}
             /\ \/ calls = <<>>
                \/ calls = <<1>> /\ started = 1
       /\ phase[started] = "over" =>
             /\ driver[started] \in {"Ready", "Fatal"}
             /\ calls = <<started>> => started = 1

\* One Init0 at most, and nobody listens while it is on its way: it comes when the
\* driver at hand is Ready.
Token ==
    /\ \/ calls = <<>>
       \/ calls = <<Init0>>
       \/ calls = <<started>> /\ started > 0
       \/ calls = <<1, Init0>> /\ started = 1
    /\ calls = <<Init0>> \/ calls = <<1, Init0>> =>
          /\ listener.for = "none" /\ todo = <<>>
          /\ started > 0 => driver[started] = "Ready" /\ phase[started] = "over"
    /\ started = 0 => listener.for = "none" /\ drivers = "Pending"
    /\ todo = <<"Init">> => started = 0 /\ calls = <<>>
    /\ listener.for = "all" => started = Last /\ driver[Last] = "Ready" /\ calls = <<>>

\* DriverDriver is in the table before the second driver is made.
FirstKnown ==
    \/ 1 \in known
    \/ started = 0
    \/ /\ started = 1
       /\ \/ phase[1] \in {"registering", "creating"}
          \/ calls = <<1>>
          \/ calls = <<1, Init0>>
          \/ driver[1] = "Fatal"

\* How often the star is told to look for others.
Told == asks + Len(todo)

\* What is published follows what is heard, and what the star does follows what is
\* published.
StatusOK ==
    /\ drivers = "Ready" => listener.for = "all"
    /\ drivers = "Fatal" => started > 0 /\ driver[started] = "Fatal"
    /\ star = "Fatal" => drivers = "Fatal"
    /\ drivers # "Ready" =>
          /\ asks = 0 /\ loop = "free" /\ wrangling = "no"
          /\ todo = <<>> \/ todo = <<"Init">>
          /\ task.at # "ready" /\ task.previous # "Ready"
    /\ drivers = "Ready" =>
          /\ \/ todo = <<>>
             \/ todo = <<"StartWrangling">>
             \/ todo = <<"StartWrangling", "StartWrangling">>
          /\ Told <= 2
          /\ task.previous # "Ready" => Told <= 1
          /\ task.at = "act" => Told <= 1
          /\ task.at = "act" /\ task.previous # "Ready" => Told = 0
          /\ task.at = "ready" => Told > 0
    /\ loop # "free" \/ wrangling # "no" => asks > 0

IInv == TypeOK /\ InOrder /\ AtHand /\ Token /\ FirstKnown /\ StatusOK

-----------------------------------------------------------------------------
(* Preservation.                                                           *)

\* What the task Drivers can take out of its channel.
LEMMA Serve ==
    ASSUME IInv, NEW c, IsCall(c), Served
    PROVE  \/ calls = <<Init0>> /\ c = Init0 /\ calls' = <<>>
           \/ calls = <<started>> /\ started > 0 /\ c = started /\ calls' = <<>>
           \/ calls = <<1, Init0>> /\ started = 1 /\ c = 1 /\ calls' = <<Init0>>
<1> USE DEF IsCall, Served
<1>1. CASE calls = <<Init0>>
  BY <1>1, Queues
<1>2. CASE calls = <<started>> /\ started > 0
  BY <1>2, Queues
<1>3. CASE calls = <<1, Init0>> /\ started = 1
  BY <1>3, Queues
<1> QED BY <1>1, <1>2, <1>3 DEF IInv, Token

\* What the star's loop can take out of its channel.
LEMMA Todo ==
    ASSUME IInv, NEW c, IsTodo(c)
    PROVE  \/ c = "Init" /\ todo = <<"Init">> /\ Tail(todo) = <<>>
           \/ /\ c = "StartWrangling" /\ drivers = "Ready"
              /\ \/ todo = <<"StartWrangling">> /\ Tail(todo) = <<>>
                 \/ /\ todo = <<"StartWrangling", "StartWrangling">>
                    /\ Tail(todo) = <<"StartWrangling">>
<1> USE DEF IsTodo
<1>1. CASE todo = <<"Init">>
  BY <1>1, Queues
<1>2. CASE todo = <<"StartWrangling">>
  BY <1>2, Queues DEF IInv, StatusOK
<1>3. CASE todo = <<"StartWrangling", "StartWrangling">>
  BY <1>3, Queues DEF IInv, StatusOK
<1> QED BY <1>1, <1>2, <1>3 DEF IInv, StatusOK

\* What the channels of the task Drivers and of the star may hold.
LEMMA Held ==
    /\ <<>> \in Seq({Init0} \union Drivers) /\ <<Init0>> \in Seq({Init0} \union Drivers)
    /\ <<1, Init0>> \in Seq({Init0} \union Drivers)
    /\ \A k \in Drivers : <<k>> \in Seq({Init0} \union Drivers)
    /\ Append(<<1>>, Init0) = <<1, Init0>>
<1>1. Append(<<1>>, Init0) = <<1, Init0>>
  BY Queues
<1> QED BY <1>1, Numbers

LEMMA HeldByStar ==
    /\ <<>> \in Seq({"Init", "StartWrangling"})
    /\ <<"StartWrangling">> \in Seq({"Init", "StartWrangling"})
    /\ <<"StartWrangling", "StartWrangling">> \in Seq({"Init", "StartWrangling"})
    /\ Len(<<"StartWrangling">>) = 1 /\ Len(<<"StartWrangling", "StartWrangling">>) = 2
  BY Queues

\* What the listener is.
LEMMA ListenerType ==
    ASSUME NEW f \in {"none", "next", "all"}, NEW a \in {"read", "wait"}
    PROVE  [for |-> f, at |-> a] \in [for : {"none", "next", "all"}, at : {"read", "wait"}]
  OBVIOUS

\* The driver that is being made is the last one taken.
LEMMA TheOne ==
    ASSUME IInv, NEW k \in Drivers, phase[k] # "none", phase[k] # "over"
    PROVE  k = started /\ started > 0 /\ started \in Nat
<1>1. started \in Nat /\ k \in Nat /\ k > 0
  BY Numbers DEF IInv, TypeOK
<1>2. ~(k < started) /\ ~(k > started)
  BY DEF IInv, InOrder
<1> QED BY <1>1, <1>2

LEMMA NextFactoryKeeps ==
    ASSUME IInv, NextFactory
    PROVE  IInv'
<1> USE Numbers, Queues DEF IInv, NextFactory, Advance, vars, makeVars, hearVars, taskVars, loopVars
<1>0. calls = <<Init0>> /\ calls' = <<>> /\ started + 1 \in Drivers
  BY Serve DEF TypeOK
<1>1. TypeOK'
  <2>1. started' \in 0 .. Last
    BY <1>0 DEF TypeOK
  <2>2. /\ driver' \in [Drivers -> DriverStatuses]
        /\ phase' \in [Drivers -> {"none", "registering", "creating", "adding", "initing", "over"}]
    BY <1>0 DEF TypeOK, DriverStatuses
  <2>3. calls' \in Seq({Init0} \union Drivers)
    BY <1>0
  <2>4. /\ news' \in BOOLEAN /\ drvNews' \in BOOLEAN
        /\ known' \subseteq Drivers /\ drivers' \in DriverStatuses
        /\ listener' \in [for : {"none", "next", "all"}, at : {"read", "wait"}]
    BY DEF TypeOK
  <2>5. /\ task' \in [at : {"look", "act", "ready", "wait"}, previous : DriverStatuses]
        /\ todo' \in Seq({"Init", "StartWrangling"})
        /\ loop' \in {"free", "asking", "waiting"} /\ asks' \in 0 .. 2
        /\ wrangling' \in {"no", "trying", "done"}
        /\ star' \in {"Pending", "Init", "Ready", "Fatal"} /\ breaks' \in 0 .. MaxBreaks
    BY DEF TypeOK
  <2> HIDE Queues, Numbers DEF IInv, NextFactory, Advance, vars, makeVars, hearVars, taskVars, loopVars
  <2> QED BY <2>1, <2>2, <2>3, <2>4, <2>5 DEF TypeOK
<1>2. InOrder'
  BY <1>0 DEF TypeOK, InOrder, Token
<1>3. AtHand'
  BY <1>0 DEF TypeOK, AtHand, Token
<1>4. Token'
  BY <1>0 DEF Token
<1>5. FirstKnown'
  BY <1>0 DEF TypeOK, Token, FirstKnown
<1>6. StatusOK'
  BY <1>0 DEF Token, StatusOK
<1> QED BY <1>1, <1>2, <1>3, <1>4, <1>5, <1>6 DEF IInv

LEMMA NoFactoryKeeps ==
    ASSUME IInv, NoFactory
    PROVE  IInv'
<1> USE Numbers, Queues DEF IInv, NoFactory, Listen, vars, makeVars, hearVars, taskVars, loopVars
<1>0. calls = <<Init0>> /\ calls' = <<>>
  BY Serve DEF TypeOK
<1>1. TypeOK'
  BY <1>0 DEF TypeOK, DriverStatuses
<1>2. InOrder'
  BY DEF InOrder
<1>3. AtHand'
  BY <1>0 DEF AtHand
<1>4. Token'
  BY <1>0 DEF Token
<1>5. FirstKnown'
  BY DEF FirstKnown
<1>6. StatusOK'
  BY DEF StatusOK, Told
<1> QED BY <1>1, <1>2, <1>3, <1>4, <1>5, <1>6 DEF IInv

LEMMA RegisterKeeps ==
    ASSUME IInv, NEW k \in Drivers, Register(k)
    PROVE  IInv'
<1> USE Numbers, Queues DEF IInv, Register, Advance, Listen, vars, makeVars, hearVars, taskVars, loopVars
<1>1. TypeOK'
  BY DEF TypeOK, DriverStatuses
<1>2. InOrder'
  BY DEF InOrder
<1>3. AtHand'
  BY DEF TypeOK, InOrder, AtHand
<1>4. Token'
  BY DEF TypeOK, InOrder, Token
<1>5. FirstKnown'
  BY DEF FirstKnown
<1>6. StatusOK'
  BY DEF InOrder, AtHand, Token, StatusOK
<1> QED BY <1>1, <1>2, <1>3, <1>4, <1>5, <1>6 DEF IInv

LEMMA RegisterFailsKeeps ==
    ASSUME IInv, NEW k \in Drivers, RegisterFails(k)
    PROVE  IInv'
<1> USE Numbers, Queues DEF IInv, RegisterFails, Breaks, SendStatus, Advance, Listen, vars, makeVars, hearVars, taskVars, loopVars
<1>1. TypeOK'
  BY DEF TypeOK, DriverStatuses
<1>2. InOrder'
  BY DEF InOrder
<1>0. k = started /\ calls = <<>>
  BY TheOne DEF AtHand
<1>3. AtHand'
  BY <1>0 DEF TypeOK, AtHand
<1>4. Token'
  BY DEF TypeOK, InOrder, AtHand, Token
<1>5. FirstKnown'
  BY DEF TypeOK, FirstKnown
<1>6. StatusOK'
  BY DEF InOrder, AtHand, Token, StatusOK
<1> QED BY <1>1, <1>2, <1>3, <1>4, <1>5, <1>6 DEF IInv

LEMMA CreateKeeps ==
    ASSUME IInv, NEW k \in Drivers, Create(k)
    PROVE  IInv'
<1> USE Numbers, Queues DEF IInv, Create, Advance, vars, makeVars, hearVars, taskVars, loopVars
<1>0. calls = <<>> /\ calls' = <<k>> /\ k = started
  BY TheOne DEF AtHand
<1>1. TypeOK'
  BY <1>0 DEF TypeOK, DriverStatuses
<1>2. InOrder'
  BY DEF InOrder
<1>3. AtHand'
  BY <1>0 DEF TypeOK, AtHand
<1>4. Token'
  BY <1>0 DEF AtHand, Token
<1>5. FirstKnown'
  BY <1>0 DEF FirstKnown
<1>6. StatusOK'
  BY DEF StatusOK, Told
<1> QED BY <1>1, <1>2, <1>3, <1>4, <1>5, <1>6 DEF IInv

LEMMA AddDriverKeeps ==
    ASSUME IInv, NEW k \in Drivers, AddDriver(k)
    PROVE  IInv'
<1> USE Numbers, Queues DEF IInv, AddDriver, Advance, vars, makeVars, hearVars, taskVars, loopVars
<1>0. /\ k = started
      /\ \/ calls = <<started>> /\ calls' = <<>>
         \/ calls = <<1, Init0>> /\ started = 1 /\ calls' = <<Init0>>
  BY Serve
<1>1. TypeOK'
  <2>1. phase' \in [Drivers -> {"none", "registering", "creating", "adding", "initing", "over"}]
    BY DEF TypeOK
  <2>2. calls' \in Seq({Init0} \union Drivers)
    BY <1>0, Held
  <2>3. known' \subseteq Drivers
    BY DEF TypeOK
  <2> QED BY <2>1, <2>2, <2>3 DEF TypeOK
<1>2. InOrder'
  BY <1>0 DEF TypeOK, InOrder, AtHand
<1>3. AtHand'
  BY <1>0 DEF TypeOK, AtHand, Token, FirstKnown
<1>4. Token'
  BY <1>0 DEF Token
<1>5. FirstKnown'
  BY DEF FirstKnown
<1>6. StatusOK'
  BY DEF StatusOK, Told
<1> QED BY <1>1, <1>2, <1>3, <1>4, <1>5, <1>6 DEF IInv

LEMMA InitBeginsKeeps ==
    ASSUME IInv, NEW k \in Drivers, InitBegins(k)
    PROVE  IInv'
<1> USE Numbers, Queues DEF IInv, InitBegins, SendStatus, vars, makeVars, hearVars, taskVars, loopVars
<1>1. TypeOK'
  BY DEF TypeOK, DriverStatuses
<1>2. InOrder'
  BY DEF InOrder
<1>3. AtHand'
  BY DEF AtHand
<1>4. Token'
  BY DEF Token
<1>5. FirstKnown'
  BY DEF FirstKnown
<1>6. StatusOK'
  BY DEF StatusOK, Told
<1> QED BY <1>1, <1>2, <1>3, <1>4, <1>5, <1>6 DEF IInv

LEMMA InitEndsKeeps ==
    ASSUME IInv, NEW k \in Drivers, InitEnds(k)
    PROVE  IInv'
<1> USE Numbers, Queues DEF IInv, InitEnds, SendStatus, Advance, vars, makeVars, hearVars, taskVars, loopVars
<1>1. TypeOK'
  BY DEF TypeOK, DriverStatuses
<1>2. InOrder'
  BY DEF InOrder
<1>a. k = started /\ (calls = <<>> \/ started = 1)
  BY TheOne DEF AtHand
<1>b. <<>> # <<started>>
  BY Queues
<1>c. calls = <<started>> => started = 1
  BY <1>a, <1>b, Zenon
<1>0. k = started /\ started \in Nat /\ (calls = <<started>> => started = 1)
  BY <1>a, <1>c DEF TypeOK
<1>3. AtHand'
  BY <1>0 DEF TypeOK, AtHand
<1>4. Token'
  BY DEF Token
<1>5. FirstKnown'
  BY DEF AtHand, FirstKnown
<1>6. StatusOK'
  BY DEF AtHand, StatusOK, Told
<1> QED BY <1>1, <1>2, <1>3, <1>4, <1>5, <1>6 DEF IInv

LEMMA DriverFailsKeeps ==
    ASSUME IInv, NEW k \in Drivers, DriverFails(k)
    PROVE  IInv'
<1> USE Numbers, Queues DEF IInv, DriverFails, Breaks, SendStatus, Advance, vars, makeVars, hearVars, taskVars, loopVars
<1>a. k = started /\ (calls = <<>> \/ started = 1)
  BY TheOne DEF AtHand
<1>b. <<>> # <<started>>
  BY Queues
<1>c. calls = <<started>> => started = 1
  BY <1>a, <1>b, Zenon
<1>0. k = started /\ started \in Nat /\ (calls = <<started>> => started = 1)
  BY <1>a, <1>c DEF TypeOK
<1>1. TypeOK'
  BY <1>0 DEF TypeOK, DriverStatuses
<1>2. InOrder'
  BY DEF InOrder
<1>3. AtHand'
  BY <1>0 DEF TypeOK, AtHand
<1>4. Token'
  BY DEF AtHand, Token
<1>5. FirstKnown'
  BY DEF TypeOK, FirstKnown
<1>6. StatusOK'
  BY DEF StatusOK, Told
<1> QED BY <1>1, <1>2, <1>3, <1>4, <1>5, <1>6 DEF IInv

LEMMA HearReadyKeeps ==
    ASSUME IInv, HearReady
    PROVE  IInv'
<1> USE Numbers, Queues DEF IInv, HearReady, Silent, vars, makeVars, hearVars, taskVars, loopVars
<1>a. started > 0 /\ started \in Drivers
  BY DEF TypeOK, Token
<1>b. phase[started] = "over"
  BY <1>a DEF TypeOK, AtHand
<1>c. calls = <<>> \/ (calls = <<1>> /\ started = 1)
  BY <1>b DEF Token, AtHand
<1>e. calls = <<>> => calls' = <<Init0>>
  OBVIOUS
<1>f. calls = <<1>> => calls' = <<1, Init0>>
  BY Held
<1>d. todo = <<>>
  BY DEF Token, StatusOK
<1>0. /\ \/ calls = <<>> /\ calls' = <<Init0>>
         \/ calls = <<1>> /\ started = 1 /\ calls' = <<1, Init0>>
      /\ started > 0 /\ phase[started] = "over" /\ todo = <<>>
  BY <1>a, <1>b, <1>c, <1>d, <1>f
<1>1. TypeOK'
  BY <1>0 DEF TypeOK, DriverStatuses
<1>2. InOrder'
  BY DEF InOrder
<1>3. AtHand'
  BY <1>0 DEF AtHand
<1>4. Token'
  BY <1>0 DEF Token
<1>5. FirstKnown'
  BY <1>0 DEF FirstKnown
<1>6. StatusOK'
  BY DEF StatusOK
<1> QED BY <1>1, <1>2, <1>3, <1>4, <1>5, <1>6 DEF IInv

LEMMA HearFatalKeeps ==
    ASSUME IInv, HearFatal
    PROVE  IInv'
<1> USE Numbers, Queues DEF IInv, HearFatal, Silent, Publish, vars, makeVars, hearVars, taskVars, loopVars
<1>1. TypeOK'
  <2>1. listener' \in [for : {"none", "next", "all"}, at : {"read", "wait"}]
    BY ListenerType
  <2>2. drivers' \in DriverStatuses
    BY DEF TypeOK, DriverStatuses
  <2> QED BY <2>1, <2>2 DEF TypeOK
<1>2. InOrder'
  BY DEF InOrder
<1>3. AtHand'
  BY DEF AtHand
<1>4. Token'
  BY DEF Token
<1>5. FirstKnown'
  BY DEF FirstKnown
<1>6. StatusOK'
  BY DEF TypeOK, Token, StatusOK
<1> QED BY <1>1, <1>2, <1>3, <1>4, <1>5, <1>6 DEF IInv

LEMMA HearOtherKeeps ==
    ASSUME IInv, HearOther
    PROVE  IInv'
<1> USE Numbers, Queues DEF IInv, HearOther, Publish, vars, makeVars, hearVars, taskVars, loopVars
<1>0. listener' = [for |-> listener.for, at |-> "wait"] /\ listener.for \in {"none", "next", "all"}
  BY DEF TypeOK
<1>1. TypeOK'
  <2>1. listener' \in [for : {"none", "next", "all"}, at : {"read", "wait"}]
    BY <1>0, ListenerType
  <2>2. drivers' \in DriverStatuses
    BY DEF TypeOK, Token, DriverStatuses
  <2> QED BY <2>1, <2>2 DEF TypeOK
<1>2. InOrder'
  BY DEF InOrder
<1>3. AtHand'
  BY DEF AtHand
<1>4. Token'
  BY DEF Token
<1>5. FirstKnown'
  BY DEF FirstKnown
<1>6. StatusOK'
  BY <1>0 DEF Token, StatusOK, Told
<1> QED BY <1>1, <1>2, <1>3, <1>4, <1>5, <1>6 DEF IInv

LEMMA HearAgainKeeps ==
    ASSUME IInv, HearAgain
    PROVE  IInv'
<1> USE Numbers, Queues DEF IInv, HearAgain, Listen, vars, makeVars, hearVars, taskVars, loopVars
<1>0. listener' = [for |-> listener.for, at |-> "read"] /\ listener.for \in {"none", "next", "all"}
  BY DEF TypeOK
<1>1. TypeOK'
  <2>1. listener' \in [for : {"none", "next", "all"}, at : {"read", "wait"}]
    BY <1>0, ListenerType
  <2> QED BY <2>1 DEF TypeOK
<1>2. InOrder'
  BY DEF InOrder
<1>3. AtHand'
  BY DEF AtHand
<1>4. Token'
  BY DEF Token
<1>5. FirstKnown'
  BY DEF FirstKnown
<1>6. StatusOK'
  BY DEF StatusOK, Told
<1> QED BY <1>1, <1>2, <1>3, <1>4, <1>5, <1>6 DEF IInv

LEMMA LookKeeps ==
    ASSUME IInv, Look
    PROVE  IInv'
<1> USE Numbers, Queues DEF IInv, Look, vars, makeVars, hearVars, taskVars, loopVars
<1>1. TypeOK'
  BY DEF TypeOK, DriverStatuses
<1>2. InOrder'
  BY DEF InOrder
<1>3. AtHand'
  BY DEF AtHand
<1>4. Token'
  BY DEF Token
<1>5. FirstKnown'
  BY DEF FirstKnown
<1>6. StatusOK'
  BY DEF StatusOK, Told
<1> QED BY <1>1, <1>2, <1>3, <1>4, <1>5, <1>6 DEF IInv

LEMMA ActKeeps ==
    ASSUME IInv, Act
    PROVE  IInv'
<1> USE Numbers, Queues DEF IInv, Act, vars, makeVars, hearVars, taskVars, loopVars
<1>1. TypeOK'
  BY DEF TypeOK, DriverStatuses, StatusOK
<1>2. InOrder'
  BY DEF InOrder
<1>3. AtHand'
  BY DEF AtHand
<1>4. Token'
  BY DEF Token
<1>5. FirstKnown'
  BY DEF FirstKnown
<1>6. StatusOK'
  BY DEF StatusOK
<1> QED BY <1>1, <1>2, <1>3, <1>4, <1>5, <1>6 DEF IInv

LEMMA ActReadyKeeps ==
    ASSUME IInv, ActReady
    PROVE  IInv'
<1> USE Numbers, Queues DEF IInv, ActReady, vars, makeVars, hearVars, taskVars, loopVars
<1>a. todo = <<>> \/ todo = <<"StartWrangling">>
  BY DEF TypeOK, StatusOK, Told
<1>0. \/ todo = <<>> /\ todo' = <<"StartWrangling">>
      \/ todo = <<"StartWrangling">> /\ todo' = <<"StartWrangling", "StartWrangling">>
  BY <1>a
<1>1. TypeOK'
  <2>1. todo' \in Seq({"Init", "StartWrangling"})
    BY <1>0, HeldByStar
  <2> QED BY <2>1 DEF TypeOK
<1>2. InOrder'
  BY DEF InOrder
<1>3. AtHand'
  BY DEF AtHand
<1>4. Token'
  BY <1>0 DEF Token, StatusOK
<1>5. FirstKnown'
  BY DEF FirstKnown
<1>6. StatusOK'
  <2>1. Told \in Nat /\ Told' = Told + 1 /\ Told <= 1
    BY <1>0 DEF TypeOK, StatusOK, Told
  <2> QED BY <1>0, <2>1 DEF StatusOK
<1> QED BY <1>1, <1>2, <1>3, <1>4, <1>5, <1>6 DEF IInv

LEMMA ShowReadyKeeps ==
    ASSUME IInv, ShowReady
    PROVE  IInv'
<1> USE Numbers, Queues DEF IInv, ShowReady, vars, makeVars, hearVars, taskVars, loopVars
<1>1. TypeOK'
  BY DEF TypeOK
<1>2. InOrder'
  BY DEF InOrder
<1>3. AtHand'
  BY DEF AtHand
<1>4. Token'
  BY DEF Token
<1>5. FirstKnown'
  BY DEF FirstKnown
<1>6. StatusOK'
  BY DEF StatusOK, Told
<1> QED BY <1>1, <1>2, <1>3, <1>4, <1>5, <1>6 DEF IInv

LEMMA LookAgainKeeps ==
    ASSUME IInv, LookAgain
    PROVE  IInv'
<1> USE Numbers, Queues DEF IInv, LookAgain, vars, makeVars, hearVars, taskVars, loopVars
<1>1. TypeOK'
  <2>1. task' \in [at : {"look", "act", "ready", "wait"}, previous : DriverStatuses]
    BY DEF TypeOK, DriverStatuses
  <2> QED BY <2>1 DEF TypeOK
<1>2. InOrder'
  BY DEF InOrder
<1>3. AtHand'
  BY DEF AtHand
<1>4. Token'
  BY DEF Token
<1>5. FirstKnown'
  BY DEF FirstKnown
<1>6. StatusOK'
  BY DEF StatusOK, Told
<1> QED BY <1>1, <1>2, <1>3, <1>4, <1>5, <1>6 DEF IInv

LEMMA CallKeeps ==
    ASSUME IInv, Call
    PROVE  IInv'
<1> USE Numbers, Queues DEF IInv, Call, vars, makeVars, hearVars, taskVars, loopVars
<1>1. TypeOK'
  BY DEF TypeOK, DriverStatuses
<1>2. InOrder'
  BY DEF InOrder
<1>3. AtHand'
  BY DEF AtHand
<1>4. Token'
  BY DEF Token
<1>5. FirstKnown'
  BY DEF FirstKnown
<1>6. StatusOK'
  BY DEF Token, StatusOK
<1> QED BY <1>1, <1>2, <1>3, <1>4, <1>5, <1>6 DEF IInv

LEMMA StarInitKeeps ==
    ASSUME IInv, StarInit
    PROVE  IInv'
<1> USE Numbers, Queues DEF IInv, StarInit, vars, makeVars, hearVars, taskVars, loopVars
<1>0. todo = <<"Init">> /\ todo' = <<>> /\ calls = <<>> /\ calls' = <<Init0>> /\ loop = "free"
  <2>1. todo = <<"Init">> /\ todo' = <<>> /\ loop = "free"
    BY Todo DEF IsTodo
  <2>2. calls = <<>>
    BY <2>1 DEF IsTodo, Token
  <2> QED BY <2>1, <2>2
<1>1. TypeOK'
  <2>1. todo' \in Seq({"Init", "StartWrangling"}) /\ calls' \in Seq({Init0} \union Drivers)
    <3> HIDE DEF IInv, StarInit, vars, makeVars, hearVars, taskVars, loopVars
    <3> QED BY <1>0
  <2> QED BY <2>1 DEF TypeOK
<1>2. InOrder'
  BY DEF InOrder
<1>3. AtHand'
  BY <1>0 DEF AtHand, Token
<1>4. Token'
  BY <1>0 DEF Token
<1>5. FirstKnown'
  BY <1>0 DEF FirstKnown
<1>6. StatusOK'
  BY <1>0 DEF StatusOK
<1> QED BY <1>1, <1>2, <1>3, <1>4, <1>5, <1>6 DEF IInv

LEMMA StartWranglingKeeps ==
    ASSUME IInv, StartWrangling
    PROVE  IInv'
<1> USE Numbers, Queues DEF IInv, StartWrangling, vars, makeVars, hearVars, taskVars, loopVars
<1>0. /\ drivers = "Ready" /\ loop = "free"
      /\ \/ todo = <<"StartWrangling">> /\ todo' = <<>>
         \/ /\ todo = <<"StartWrangling", "StartWrangling">>
            /\ todo' = <<"StartWrangling">>
  BY Todo DEF IsTodo
<1>a. Len(todo) >= 1 /\ Len(todo') = Len(todo) - 1 /\ Len(todo) \in Nat
  BY <1>0, HeldByStar, Queues
<1>b. Told' = Told /\ Told <= 2 /\ asks + 1 <= 2
  <2>1. asks \in Nat /\ asks' = asks + 1 /\ Len(todo) \in Nat
    BY <1>a DEF TypeOK
  <2>2. asks + Len(todo) <= 2
    BY <1>0 DEF Told, StatusOK
  <2>3. asks' + Len(todo') = asks + Len(todo) /\ asks + 1 <= 2
    <3> HIDE DEF IInv, StartWrangling, vars, makeVars, hearVars, taskVars, loopVars
    <3> HIDE Queues, Numbers
    <3> QED BY <1>a, <2>1, <2>2
  <2> QED BY <2>2, <2>3 DEF Told
<1>1. TypeOK'
  <2>1. todo' \in Seq({"Init", "StartWrangling"})
    BY <1>0, HeldByStar
  <2>2. asks' \in 0 .. 2
    BY <1>b DEF TypeOK, StatusOK
  <2> QED BY <2>1, <2>2 DEF TypeOK
<1>2. InOrder'
  BY DEF InOrder
<1>3. AtHand'
  BY DEF AtHand
<1>4. Token'
  BY <1>0 DEF Token
<1>5. FirstKnown'
  BY DEF FirstKnown
<1>6. StatusOK'
  BY <1>0, <1>b DEF TypeOK, StatusOK
<1> QED BY <1>1, <1>2, <1>3, <1>4, <1>5, <1>6 DEF IInv

LEMMA HeardKeeps ==
    ASSUME IInv, Heard
    PROVE  IInv'
<1> USE Numbers, Queues DEF IInv, Heard, vars, makeVars, hearVars, taskVars, loopVars
<1>1. TypeOK'
  BY DEF TypeOK, DriverStatuses
<1>2. InOrder'
  BY DEF InOrder
<1>3. AtHand'
  BY DEF AtHand
<1>4. Token'
  BY DEF Token
<1>5. FirstKnown'
  BY DEF FirstKnown
<1>6. StatusOK'
  BY DEF StatusOK, Told
<1> QED BY <1>1, <1>2, <1>3, <1>4, <1>5, <1>6 DEF IInv

LEMMA ReleaseKeeps ==
    ASSUME IInv, Release
    PROVE  IInv'
<1> USE Numbers, Queues DEF IInv, Release, vars, makeVars, hearVars, taskVars, loopVars
<1>1. TypeOK'
  BY DEF TypeOK, DriverStatuses
<1>2. InOrder'
  BY DEF InOrder
<1>3. AtHand'
  BY DEF AtHand
<1>4. Token'
  BY DEF Token
<1>5. FirstKnown'
  BY DEF FirstKnown
<1>6. StatusOK'
  BY DEF StatusOK, Told
<1> QED BY <1>1, <1>2, <1>3, <1>4, <1>5, <1>6 DEF IInv

LEMMA WrangleKeeps ==
    ASSUME IInv, Wrangle
    PROVE  IInv'
<1> USE Numbers, Queues DEF IInv, Wrangle, vars, makeVars, hearVars, taskVars, loopVars
<1>1. TypeOK'
  BY DEF TypeOK
<1>2. InOrder'
  BY DEF InOrder
<1>3. AtHand'
  BY DEF AtHand
<1>4. Token'
  BY DEF Token
<1>5. FirstKnown'
  BY DEF FirstKnown
<1>6. StatusOK'
  BY DEF StatusOK, Told
<1> QED BY <1>1, <1>2, <1>3, <1>4, <1>5, <1>6 DEF IInv

-----------------------------------------------------------------------------
(* Theorems.                                                               *)

LEMMA InitHolds == Init => IInv
<1> SUFFICES ASSUME Init PROVE IInv
  OBVIOUS
<1> USE Numbers DEF Init, Silent
<1>1. TypeOK
  <2>1. listener \in [for : {"none", "next", "all"}, at : {"read", "wait"}]
    BY ListenerType
  <2>2. calls \in Seq({Init0} \union Drivers) /\ todo \in Seq({"Init", "StartWrangling"})
    BY Held, HeldByStar
  <2>3. task \in [at : {"look", "act", "ready", "wait"}, previous : DriverStatuses]
    BY DEF DriverStatuses
  <2>4. driver \in [Drivers -> DriverStatuses] /\ drivers \in DriverStatuses
    BY DEF DriverStatuses
  <2>5. started \in 0 .. Last /\ asks \in 0 .. 2 /\ breaks \in 0 .. MaxBreaks
    OBVIOUS
  <2> QED BY <2>1, <2>2, <2>3, <2>4, <2>5 DEF TypeOK
<1>2. InOrder /\ AtHand /\ Token /\ FirstKnown
  BY DEF InOrder, AtHand, Token, FirstKnown
<1>3. StatusOK
  BY DEF StatusOK
<1> QED BY <1>1, <1>2, <1>3 DEF IInv

LEMMA StutterKeeps ==
    ASSUME IInv, UNCHANGED vars
    PROVE  IInv'
  BY DEF IInv, TypeOK, InOrder, AtHand, Token, FirstKnown, StatusOK, Told,
         vars, makeVars, hearVars, taskVars, loopVars

LEMMA StepKeeps == IInv /\ [Next]_vars => IInv'
<1> SUFFICES ASSUME IInv, [Next]_vars PROVE IInv'
  OBVIOUS
<1>1. CASE DriversTask
  BY <1>1, NextFactoryKeeps, NoFactoryKeeps, RegisterKeeps, AddDriverKeeps DEF DriversTask
<1>2. CASE Listener
  BY <1>2, HearReadyKeeps, HearFatalKeeps, HearOtherKeeps, HearAgainKeeps DEF Listener
<1>3. CASE StatusTask
  BY <1>3, LookKeeps, ActKeeps, ActReadyKeeps, ShowReadyKeeps, LookAgainKeeps DEF StatusTask
<1>4. CASE StarLoop
  BY <1>4, StarInitKeeps, StartWranglingKeeps DEF StarLoop
<1>5. CASE Machine
  BY <1>5, CallKeeps, HeardKeeps, ReleaseKeeps DEF Machine
<1>6. CASE Wrangle
  BY <1>6, WrangleKeeps
<1>7. ASSUME NEW k \in Drivers, DriverTask(k) \/ RegisterFails(k) \/ DriverFails(k)
      PROVE  IInv'
  BY <1>7, CreateKeeps, InitBeginsKeeps, InitEndsKeeps, RegisterFailsKeeps, DriverFailsKeeps
     DEF DriverTask
<1>8. CASE UNCHANGED vars
  BY <1>8, StutterKeeps
<1> QED BY <1>1, <1>2, <1>3, <1>4, <1>5, <1>6, <1>7, <1>8 DEF Next

LEMMA Inductive == Spec => []IInv
<1>1. Init => IInv
  BY InitHolds
<1>2. IInv /\ [Next]_vars => IInv'
  BY StepKeeps
<1> QED BY <1>1, <1>2, PTL DEF Spec

\* The variables keep their types: the star is told at most twice to look for
\* others, however often its status task sees that the drivers are Ready.
THEOREM TypeTheorem == Spec => []TypeOK
<1>1. IInv => TypeOK
  BY DEF IInv
<1> QED BY <1>1, Inductive, PTL

\* With any number of drivers, the task Drivers never waits for a guard that a
\* listener keeps, and never looks in vain for DriverDriver.
THEOREM DriversTheorem == Spec => []DriversNeverStuck
<1>1. IInv => DriversNeverStuck
  <2> SUFFICES ASSUME IInv, calls # <<>>
               PROVE  /\ Head(calls) = Init0 => listener.for = "none"
                      /\ Head(calls) > 1 => 1 \in known
    BY DEF DriversNeverStuck
  <2>1. CASE calls = <<Init0>>
    BY <2>1, Numbers, Queues DEF IInv, Token
  <2>2. CASE calls = <<started>> /\ started > 0
    <3>1. Head(calls) = started /\ started \in Nat
      BY <2>2, Queues DEF IInv, TypeOK
    <3> QED BY <2>2, <3>1, Numbers DEF IInv, FirstKnown
  <2>3. CASE calls = <<1, Init0>> /\ started = 1
    <3>1. Head(calls) = 1
      BY <2>3, Queues
    <3> QED BY <3>1, Numbers
  <2> QED BY <2>1, <2>2, <2>3 DEF IInv, Token
<1> QED BY <1>1, Inductive, PTL

-----------------------------------------------------------------------------
(* What the star promises is what it does.                                 *)

Failed == started > 0 /\ driver[started] = "Fatal"
Idle   == todo = <<>> /\ started = 0 /\ calls = <<>>

\* Wrangling is asked for only when all drivers are Ready.
LEMMA UpIsReady ==
    ASSUME IInv
    PROVE  /\ IsUp => drivers = "Ready"
           /\ drivers = "Ready" => /\ \A k \in Drivers : driver[k] = "Ready"
                                   /\ started = Last /\ star # "Fatal" /\ ~Failed
<1>1. IsUp => drivers = "Ready"
  BY Queues DEF IInv, StatusOK, IsUp
<1>2. ASSUME drivers = "Ready" PROVE started = Last /\ driver[Last] = "Ready"
  BY <1>2 DEF IInv, StatusOK, Token
<1>3. ASSUME drivers = "Ready", NEW k \in Drivers PROVE driver[k] = "Ready"
  <2>1. k = Last \/ k < Last
    BY Numbers
  <2> QED BY <1>2, <1>3, <2>1 DEF IInv, InOrder
<1>4. drivers = "Ready" => star # "Fatal" /\ ~Failed
  BY <1>2 DEF IInv, StatusOK, Failed
<1> QED BY <1>1, <1>2, <1>3, <1>4

\* Only the driver at hand can have failed: the life of the star, read in order.
LifeRead ==
    Life = IF IsUp THEN "up"
           ELSE IF star = "Fatal" THEN "told"
           ELSE IF Failed THEN "failed"
           ELSE IF todo = <<"Init">> THEN "called"
           ELSE IF Idle THEN "off" ELSE "starting"

LEMMA LifeIs == IInv => LifeRead
<1> SUFFICES ASSUME IInv PROVE LifeRead
  OBVIOUS
<1>1. IsUp => \A k \in Drivers : driver[k] = "Ready"
  BY UpIsReady
<1>2. (\E k \in Drivers : driver[k] = "Fatal") <=> Failed
  <2>1. ASSUME NEW k \in Drivers, driver[k] = "Fatal" PROVE Failed
    <3>1. ~(k < started) /\ ~(k > started)
      BY <2>1 DEF IInv, InOrder
    <3>2. k = started /\ started > 0
      BY <3>1, Numbers DEF IInv, TypeOK
    <3> QED BY <2>1, <3>2 DEF Failed
  <2>2. ASSUME Failed PROVE \E k \in Drivers : driver[k] = "Fatal"
    <3>1. started \in Drivers
      BY <2>2, Numbers DEF IInv, TypeOK, Failed
    <3> QED BY <2>2, <3>1 DEF Failed
  <2> QED BY <2>1, <2>2
<1>a. todo = <<"Init">> \/ Idle => started = 0 /\ drivers = "Pending"
  BY DEF IInv, Token, Idle
<1>b. star = "Fatal" \/ Failed => started # 0 /\ ~IsUp
  BY UpIsReady, Numbers DEF IInv, StatusOK, Failed, TypeOK
<1>c. IsUp => started # 0
  BY UpIsReady, Numbers
<1>d. todo = <<"Init">> => ~Idle
  BY Queues DEF Idle
<1>3. CASE IsUp
  BY <1>1, <1>2, <1>a, <1>b, <1>c, <1>3 DEF Life, LifeRead, Idle
<1>4. CASE ~IsUp /\ star = "Fatal"
  BY <1>2, <1>a, <1>b, <1>4 DEF Life, LifeRead, Idle
<1>5. CASE ~IsUp /\ star # "Fatal" /\ Failed
  BY <1>2, <1>a, <1>b, <1>5 DEF Life, LifeRead, Idle
<1>6. CASE ~IsUp /\ star # "Fatal" /\ ~Failed /\ todo = <<"Init">>
  BY <1>2, <1>6, <1>d DEF Life, LifeRead, Idle
<1>7. CASE ~IsUp /\ star # "Fatal" /\ ~Failed /\ todo # <<"Init">>
  BY <1>2, <1>7 DEF Life, LifeRead, Idle
<1> QED BY <1>3, <1>4, <1>5, <1>6, <1>7

LEMMA LifeIsNext == (IInv => LifeRead)'
  BY LifeIs, PTL

\* A step that leaves alone all that a star's life is read from.
LEMMA Unseen ==
    ASSUME IInv, IInv', IsUp' = IsUp, Failed' = Failed, Idle' = Idle,
           (todo' = <<"Init">>) = (todo = <<"Init">>),
           UNCHANGED <<asks, loop, wrangling, star, breaks>>
    PROVE  UNCHANGED Promised!lifeVars
<1>1. Life' = Life
  BY LifeIs, LifeIsNext DEF LifeRead
<1> QED BY <1>1 DEF Promised!lifeVars

LEMMA One ==
    ASSUME NEW x, NEW y
    PROVE  /\ [s \in {0} |-> x][0] = x
           /\ [[s \in {0} |-> x] EXCEPT ![0] = y] = [s \in {0} |-> y]
  OBVIOUS

Mapped == Promised!LifeNext \/ UNCHANGED Promised!lifeVars

LEMMA Quiet ==
    ASSUME IInv, IInv',
           \/ NextFactory \/ NoFactory \/ \E k \in Drivers : Register(k) \/ AddDriver(k)
           \/ \E k \in Drivers : Create(k) \/ InitBegins(k) \/ InitEnds(k)
           \/ Listener \/ Look \/ LookAgain
    PROVE  UNCHANGED Promised!lifeVars
<1> USE DEF vars, makeVars, hearVars, taskVars, loopVars
<1>1. UNCHANGED <<todo, asks, loop, wrangling, star, breaks>>
  BY DEF NextFactory, NoFactory, Register, AddDriver, Create, InitBegins, InitEnds,
         Listener, HearReady, HearFatal, HearOther, HearAgain, Look, LookAgain
<1>2. IsUp' = IsUp
  <2>1. CASE Look \/ LookAgain
    <3>1. task.at # "ready" /\ task'.at # "ready"
      BY <2>1 DEF Look, LookAgain, IInv, TypeOK
    <3> QED BY <1>1, <3>1 DEF IsUp
  <2>2. CASE ~(Look \/ LookAgain)
    <3>1. UNCHANGED task
      BY <2>2 DEF NextFactory, NoFactory, Register, AddDriver, Create, InitBegins, InitEnds,
                  Listener, HearReady, HearFatal, HearOther, HearAgain
    <3> QED BY <1>1, <3>1 DEF IsUp
  <2> QED BY <2>1, <2>2
<1>3. Failed' = Failed /\ Idle' = Idle
  <2>1. CASE NextFactory
    <3>1. calls = <<Init0>> /\ calls' = <<>> /\ started \in Nat /\ started' = started + 1
      BY <2>1, Serve, Numbers DEF NextFactory, IInv, TypeOK
    <3>2. ~Idle /\ ~Idle'
      BY <3>1, Queues DEF Idle
    <3>3. ~Failed
      BY <3>1 DEF IInv, Token, Failed
    <3>4. driver'[started'] = "Pending"
      <4>1. started + 1 \in Drivers
        BY <2>1, <3>1, Numbers DEF NextFactory
      <4>2. driver' = [driver EXCEPT ![started + 1] = "Pending"] /\ DOMAIN driver = Drivers
        BY <2>1 DEF NextFactory, IInv, TypeOK
      <4>3. driver'[started + 1] = "Pending"
        BY <4>1, <4>2
      <4> QED BY <3>1, <4>3
    <3> QED BY <3>2, <3>3, <3>4 DEF Failed, Idle
  <2>2. CASE NoFactory
    <3>1. started > 0 /\ UNCHANGED <<started, driver>>
      BY <2>2, Numbers DEF NoFactory
    <3> QED BY <3>1, Numbers DEF Failed, Idle
  <2>3. ASSUME NEW k \in Drivers, Register(k) \/ AddDriver(k) \/ Create(k)
        PROVE  Failed' = Failed /\ Idle' = Idle
    <3>1. UNCHANGED <<started, driver>>
      BY <2>3 DEF Register, AddDriver, Create
    <3>2. started > 0
      BY <2>3, TheOne, Serve, Numbers DEF Register, AddDriver, Create
    <3> QED BY <3>1, <3>2, Numbers DEF Failed, Idle
  <2>4. ASSUME NEW k \in Drivers, InitBegins(k) \/ InitEnds(k)
        PROVE  Failed' = Failed /\ Idle' = Idle
    <3>1. k = started /\ started > 0 /\ UNCHANGED started /\ started \in Nat
      BY <2>4, TheOne DEF InitBegins, InitEnds
    <3>2. driver[k] # "Fatal"
      BY <2>4, <3>1 DEF InitBegins, InitEnds, IInv, AtHand
    <3>3. driver'[k] # "Fatal"
      BY <2>4, <3>1 DEF InitBegins, InitEnds, SendStatus, IInv, TypeOK
    <3> QED BY <3>1, <3>2, <3>3 DEF Failed, Idle
  <2>5. CASE Listener
    <3>1. UNCHANGED <<started, driver>>
      BY <2>5 DEF Listener, HearReady, HearFatal, HearOther, HearAgain
    <3>2. started # 0
      BY <2>5 DEF Listener, HearReady, HearFatal, HearOther, HearAgain, IInv, Token
    <3> QED BY <3>1, <3>2 DEF Failed, Idle
  <2>6. CASE Look \/ LookAgain
    BY <2>6 DEF Look, LookAgain, Failed, Idle
  <2> QED BY <2>1, <2>2, <2>3, <2>4, <2>5, <2>6
<1> QED BY <1>1, <1>2, <1>3, Unseen

LEMMA FailsMapped ==
    ASSUME IInv, IInv', NEW k \in Drivers, RegisterFails(k) \/ DriverFails(k)
    PROVE  Mapped
<1> USE DEF vars, makeVars, hearVars, taskVars, loopVars
<1>1. k = started /\ started > 0 /\ started \in Nat
  BY TheOne DEF RegisterFails, DriverFails
<1>2. /\ UNCHANGED <<todo, started, asks, loop, wrangling, star, task>>
      /\ driver' = [driver EXCEPT ![k] = "Fatal"]
      /\ breaks < MaxBreaks /\ breaks' = breaks + 1
  BY DEF RegisterFails, DriverFails, SendStatus, Breaks
<1>3. driver[started] # "Ready" /\ driver[started] # "Fatal"
  BY <1>1 DEF RegisterFails, DriverFails, IInv, AtHand
<1>4. ~IsUp /\ star # "Fatal" /\ ~Failed
  BY <1>1, <1>3, UpIsReady DEF IInv, StatusOK, Failed
<1>5. ~IsUp'
  BY <1>2, <1>4 DEF IsUp
<1>6. Failed'
  BY <1>1, <1>2 DEF Failed, IInv, TypeOK
<1>7. Life = "starting"
  BY <1>1, <1>4, LifeIs DEF LifeRead, Idle, IInv, Token
<1>8. Life' = "failed"
  BY <1>2, <1>4, <1>5, <1>6, LifeIsNext DEF LifeRead
<1>9. Promised!DriverFails(0)
  BY <1>2, <1>7, <1>8, One DEF Promised!DriverFails, Promised!Breaks, Promised!Now
<1> QED BY <1>9 DEF Mapped, Promised!LifeNext

LEMMA CallMapped ==
    ASSUME IInv, IInv', Call
    PROVE  Mapped
<1> USE DEF Call, vars, makeVars, hearVars, taskVars, loopVars
<1>1. drivers = "Pending" /\ drivers' = "Pending" /\ ~Failed /\ ~Failed'
  BY DEF IInv, Token, Failed
<1>2. ~IsUp /\ ~IsUp' /\ star # "Fatal" /\ star' # "Fatal"
  BY <1>1, UpIsReady, Queues DEF IsUp, IInv, StatusOK
<1>3. Life = "off"
  BY <1>1, <1>2, LifeIs, Queues DEF LifeRead, Idle
<1>4. Life' = "called"
  BY <1>1, <1>2, LifeIsNext DEF LifeRead
<1>5. Promised!Call(0)
  BY <1>3, <1>4, One DEF Promised!Call, Promised!Now
<1> QED BY <1>5 DEF Mapped, Promised!LifeNext

LEMMA StarInitMapped ==
    ASSUME IInv, IInv', StarInit
    PROVE  Mapped
<1> USE DEF vars, makeVars, hearVars, taskVars, loopVars
<1>1. /\ todo = <<"Init">> /\ todo' = <<>> /\ calls = <<>> /\ calls' = <<Init0>>
      /\ loop = "free" /\ started = 0
  BY Todo, Queues DEF StarInit, IsTodo, IInv, Token
<1>2. UNCHANGED <<drivers, started, asks, loop, wrangling, star, breaks, task, driver>>
  BY DEF StarInit
<1>3. drivers = "Pending" /\ ~Failed /\ ~Failed'
  BY <1>1, <1>2 DEF IInv, Token, Failed
<1>4. ~IsUp /\ ~IsUp' /\ star # "Fatal" /\ star' # "Fatal"
  BY <1>1, <1>2, <1>3, UpIsReady, Queues DEF IsUp, IInv, StatusOK
<1>5. Life = "called"
  BY <1>1, <1>3, <1>4, LifeIs DEF LifeRead
<1>6. Life' = "starting"
  BY <1>1, <1>2, <1>3, <1>4, LifeIsNext, Queues DEF LifeRead, Idle
<1>7. Promised!Begin(0)
  BY <1>1, <1>2, <1>5, <1>6, One DEF Promised!Begin, Promised!Now
<1> QED BY <1>7 DEF Mapped, Promised!LifeNext

LEMMA ActMapped ==
    ASSUME IInv, IInv', Act
    PROVE  Mapped
<1> USE DEF vars, makeVars, hearVars, taskVars, loopVars
<1>1. /\ UNCHANGED <<todo, calls, started, driver, drivers, asks, loop, wrangling, breaks>>
      /\ drivers # "Ready" /\ star' = IF drivers = "Unknown" THEN "Pending" ELSE drivers
  BY DEF Act
<1>2. Failed' = Failed /\ Idle' = Idle /\ ~IsUp
  BY <1>1, UpIsReady DEF Failed, Idle
<1>3. ~IsUp'
  BY <1>1, <1>2 DEF Act, IsUp
<1>4. CASE drivers = "Fatal" /\ star # "Fatal"
  <2>1. Failed /\ star' = "Fatal"
    BY <1>1, <1>4 DEF IInv, StatusOK, Failed
  <2>2. Life = "failed" /\ Life' = "told"
    BY <1>2, <1>3, <1>4, <2>1, LifeIs, LifeIsNext DEF LifeRead
  <2>3. Promised!ShowFatal(0)
    BY <1>1, <2>1, <2>2, One DEF Promised!ShowFatal, Promised!Now, Promised!Show
  <2> QED BY <2>3 DEF Mapped, Promised!LifeNext
<1>5. CASE drivers = "Fatal" /\ star = "Fatal"
  <2>1. Life' = Life /\ star' = star
    BY <1>1, <1>2, <1>3, <1>5, LifeIs, LifeIsNext DEF LifeRead
  <2> QED BY <1>1, <2>1 DEF Mapped, Promised!lifeVars
<1>6. CASE drivers # "Fatal"
  <2>1. star # "Fatal" /\ star' \in {"Pending", "Init"}
    BY <1>1, <1>6 DEF IInv, StatusOK, TypeOK, DriverStatuses
  <2>2. Life' = Life /\ Life \in {"failed", "called", "off", "starting"}
    BY <1>1, <1>2, <1>3, <2>1, LifeIs, LifeIsNext DEF LifeRead
  <2>3. Life \in {"called", "off"} => started = 0
    BY <1>2, <2>1, LifeIs DEF LifeRead, Idle, IInv, Token
  <2>4. Life \in {"called", "off"} => star' = "Pending"
    BY <1>1, <2>3 DEF IInv, Token
  <2>5. CASE star' = star
    BY <1>1, <2>2, <2>5 DEF Mapped, Promised!lifeVars
  <2>6. CASE star' # star
    <3>1. Promised!ShowBusy(0)
      BY <1>1, <2>1, <2>2, <2>4, <2>6, One DEF Promised!ShowBusy, Promised!Show, Promised!Busy
    <3> QED BY <3>1 DEF Mapped, Promised!LifeNext
  <2> QED BY <2>5, <2>6
<1> QED BY <1>4, <1>5, <1>6

\* While drivers are Ready the star is up as soon as it was asked to look for others.
LEMMA LifeWhenReady ==
    ASSUME IInv, drivers = "Ready"
    PROVE  Life = IF IsUp THEN "up" ELSE "starting"
<1>1. started # 0 /\ star # "Fatal" /\ ~Failed
  BY UpIsReady, Numbers
<1>2. todo # <<"Init">> /\ ~Idle
  BY <1>1 DEF IInv, Token, Idle
<1> QED BY <1>1, <1>2, LifeIs DEF LifeRead

LEMMA LifeWhenReadyNext ==
    ASSUME IInv', drivers' = "Ready", IsUp'
    PROVE  Life' = "up"
  BY LifeIsNext DEF LifeRead

\* A star that is told once more to look for others, or has been, is up.
LEMMA ToldIsUp ==
    ASSUME IInv, drivers = "Ready"
    PROVE  IsUp <=> task.at = "ready" \/ asks > 0 \/ todo # <<>>
  BY Queues DEF IInv, StatusOK, IsUp

LEMMA ActReadyMapped ==
    ASSUME IInv, IInv', ActReady
    PROVE  Mapped
<1> USE DEF vars, makeVars, hearVars, taskVars, loopVars
<1>1. /\ UNCHANGED <<drivers, asks, loop, wrangling, star, breaks>>
      /\ drivers = "Ready"
  BY DEF ActReady
<1>2. IsUp'
  BY DEF ActReady, IInv, TypeOK, IsUp
<1>3. Life' = "up" /\ Life \in {"up", "starting"}
  BY <1>1, <1>2, LifeWhenReady, LifeWhenReadyNext
<1>4. CASE Life = "up"
  BY <1>1, <1>3, <1>4 DEF Mapped, Promised!lifeVars
<1>5. CASE Life = "starting"
  <2>1. Promised!Up(0)
    BY <1>1, <1>3, <1>5, One DEF Promised!Up, Promised!Now
  <2> QED BY <2>1 DEF Mapped, Promised!LifeNext
<1> QED BY <1>3, <1>4, <1>5

LEMMA ShowReadyMapped ==
    ASSUME IInv, IInv', ShowReady
    PROVE  Mapped
<1> USE DEF vars, makeVars, hearVars, taskVars, loopVars
<1>1. /\ UNCHANGED <<drivers, todo, asks, loop, wrangling, breaks>> /\ star' = "Ready"
      /\ task.at = "ready"
  BY DEF ShowReady
<1>2. drivers = "Ready" /\ IsUp /\ Told > 0
  BY <1>1 DEF IInv, StatusOK, IsUp
<1>3. asks > 0 \/ todo # <<>>
  BY <1>2, Queues DEF Told, IInv, TypeOK
<1>4. IsUp'
  BY <1>1, <1>2, <1>3, Queues DEF IInv, StatusOK, IsUp
<1>5. Life = "up" /\ Life' = "up"
  BY <1>1, <1>2, <1>4, LifeWhenReady, LifeWhenReadyNext
<1>6. CASE star = "Ready"
  BY <1>1, <1>5, <1>6 DEF Mapped, Promised!lifeVars
<1>7. CASE star # "Ready"
  <2>1. Promised!ShowReady(0)
    BY <1>1, <1>5, <1>7, One DEF Promised!ShowReady, Promised!Show
  <2> QED BY <2>1 DEF Mapped, Promised!LifeNext
<1> QED BY <1>6, <1>7

LEMMA StartWranglingMapped ==
    ASSUME IInv, IInv', StartWrangling
    PROVE  Mapped
<1> USE DEF vars, makeVars, hearVars, taskVars, loopVars
<1>1. /\ UNCHANGED <<drivers, wrangling, star, breaks>>
      /\ loop = "free" /\ loop' = "asking" /\ asks' = asks + 1 /\ asks \in Nat
  BY DEF StartWrangling, IsTodo, IInv, TypeOK
<1>2. drivers = "Ready" /\ IsUp
  BY Todo, Queues DEF StartWrangling, IsTodo, IsUp
<1>3. asks' \in 0 .. 2
  BY DEF IInv, TypeOK
<1>4. asks < 2
  BY <1>1, <1>3
<1>5. IsUp'
  BY <1>1 DEF IsUp
<1>6. Life = "up" /\ Life' = "up"
  BY <1>1, <1>2, <1>5, LifeWhenReady, LifeWhenReadyNext
<1>7. Promised!StartWrangling(0)
  BY <1>1, <1>4, <1>6, One DEF Promised!StartWrangling
<1> QED BY <1>7 DEF Mapped, Promised!LifeNext

LEMMA LoopMapped ==
    ASSUME IInv, IInv', Heard \/ Release \/ Wrangle
    PROVE  Mapped
<1> USE DEF vars, makeVars, hearVars, taskVars, loopVars
<1>1. UNCHANGED <<drivers, todo, asks, breaks, task>>
  BY DEF Heard, Release, Wrangle
<1>2. asks > 0
  BY DEF Heard, Release, Wrangle, IInv, StatusOK
<1>3. IsUp /\ IsUp' /\ drivers = "Ready"
  BY <1>1, <1>2, UpIsReady DEF IsUp
<1>4. Life = "up" /\ Life' = "up"
  BY <1>1, <1>3, LifeWhenReady, LifeWhenReadyNext
<1>5. CASE Heard
  <2>1. Promised!Heard(0)
    BY <1>1, <1>4, <1>5, One DEF Heard, Promised!Heard
  <2> QED BY <2>1 DEF Mapped, Promised!LifeNext
<1>6. CASE Release
  <2>1. Promised!Release(0)
    BY <1>1, <1>4, <1>6, One DEF Release, Promised!Release
  <2> QED BY <2>1 DEF Mapped, Promised!LifeNext
<1>7. CASE Wrangle
  <2>1. Promised!Wrangle(0)
    BY <1>1, <1>4, <1>7, One DEF Wrangle, Promised!Wrangle, Promised!Show
  <2> QED BY <2>1 DEF Mapped, Promised!LifeNext
<1> QED BY <1>5, <1>6, <1>7

LEMMA InitMapped == Init => Promised!LifeInit
<1> SUFFICES ASSUME Init PROVE Promised!LifeInit
  OBVIOUS
<1>1. IInv
  BY InitHolds
<1>2. ~IsUp /\ star # "Fatal" /\ ~Failed /\ todo # <<"Init">> /\ Idle
  BY Queues DEF Init, IsUp, Failed, Idle
<1>3. Life = "off"
  BY <1>1, <1>2, LifeIs DEF LifeRead
<1> QED BY <1>3 DEF Init, Promised!LifeInit

LEMMA StepMapped ==
    ASSUME IInv, IInv', [Next]_vars
    PROVE  Mapped
<1>1. CASE \/ DriversTask \/ Listener \/ Look \/ LookAgain
           \/ \E k \in Drivers : DriverTask(k)
  BY <1>1, Quiet DEF DriversTask, DriverTask, Mapped
<1>2. ASSUME NEW k \in Drivers, RegisterFails(k) \/ DriverFails(k)
      PROVE  Mapped
  BY <1>2, FailsMapped
<1>3. CASE Act \/ ActReady \/ ShowReady
  BY <1>3, ActMapped, ActReadyMapped, ShowReadyMapped
<1>4. CASE StarLoop \/ Machine \/ Wrangle
  BY <1>4, StarInitMapped, StartWranglingMapped, CallMapped, LoopMapped DEF StarLoop, Machine
<1>5. CASE UNCHANGED vars
  <2>1. UNCHANGED <<asks, loop, wrangling, star, breaks>> /\ Life' = Life
    BY <1>5 DEF vars, makeVars, hearVars, taskVars, loopVars, Life, IsUp
  <2> QED BY <2>1 DEF Mapped, Promised!lifeVars
<1> QED BY <1>1, <1>2, <1>3, <1>4, <1>5 DEF Next, StatusTask

\* A star keeps to what its machine is built on, with any number of drivers: it is
\* up only when EVERY driver is Ready, whoever listens to the last one's watch only,
\* and it looks for other stars at most twice (driver/mod.rs status_listen,
\* star.rs start_wrangling).
THEOREM ImplementsLifeTheorem == Spec => ImplementsLife
<1>1. IInv /\ IInv' /\ [Next]_vars => [Promised!LifeNext]_(Promised!lifeVars)
  BY StepMapped DEF Mapped
<1> QED BY <1>1, InitMapped, Inductive, PTL DEF Spec, ImplementsLife, Promised!LifeSpec

=============================================================================
