-------------------------- MODULE InterchangeProofs --------------------------
(***************************************************************************)
(* Theorems about Interchange, for every set of connections and surfaces,  *)
(* every capacity and either gate.                                         *)
(***************************************************************************)
EXTENDS Interchange, TLAPS

-----------------------------------------------------------------------------
(* Names of hyperways and calls.                                           *)

LEMMA Names ==
    /\ Home \in Hyperways /\ NoHyperway \notin Hyperways
    /\ \A s \in Surfaces : Standing(s) \in Hyperways /\ s /= "home"
    /\ \A c \in Conns : Added(c) \in Hyperways /\ SurfaceOf[c] \in Surfaces
    /\ Nobody \notin Conns
    /\ \A s \in Surfaces : Standing(s) /= Home
    /\ \A c \in Conns : Added(c) /= Home
<1>1. \A s \in Surfaces : s /= "home" /\ s /= "none"
  BY InterchangeAssumption
<1>2. NoHyperway \notin Hyperways
  BY <1>1 DEF NoHyperway, Hyperways, Home, Standing, Added
<1>3. Nobody \notin Conns /\ \A c \in Conns : SurfaceOf[c] \in Surfaces
  BY InterchangeAssumption DEF Nobody
<1>4. /\ \A s \in Surfaces : Standing(s) /= Home
      /\ \A c \in Conns : Added(c) /= Home
  BY <1>1 DEF Home, Standing, Added
<1> QED
  BY <1>1, <1>2, <1>3, <1>4 DEF Hyperways

LEMMA CapTypes ==
    /\ CallCap \in Nat \ {0} /\ MailCap \in Nat \ {0} /\ QueueCap \in Nat
    /\ MaxWaves \in Nat /\ MaxUp \in Nat
  BY InterchangeAssumption

LEMMA CallNames ==
    /\ \A c \in Conns : {Internal(c), Remove(c), Mount(c)} \subseteq CallTypes
    /\ \A w \in Waves : WaveCall(w) \in CallTypes
    /\ \A m \in CallTypes : /\ m.call \in {"Internal", "Remove", "Mount", "Wave"}
                            /\ m.call /= "Wave" => m.conn \in Conns
                            /\ m.call = "Internal" => m = Internal(m.conn)
                            /\ m.call = "Remove" => m = Remove(m.conn)
                            /\ m.call = "Mount" => m = Mount(m.conn)
                            /\ m.call = "Wave" => m.wave \in Waves
<1> USE DEF CallTypes, Internal, Remove, Mount, WaveCall
<1>1. \A c \in Conns : {Internal(c), Remove(c), Mount(c)} \subseteq CallTypes
  OBVIOUS
<1>2. \A w \in Waves : WaveCall(w) \in CallTypes
  OBVIOUS
<1>3. ASSUME NEW m \in [call : {"Internal", "Remove", "Mount"}, conn : Conns, wave : {Greeting}]
      PROVE  /\ m.call \in {"Internal", "Remove", "Mount"} /\ m.conn \in Conns
             /\ m = [call |-> m.call, conn |-> m.conn, wave |-> Greeting]
  OBVIOUS
<1>4. ASSUME NEW m \in [call : {"Wave"}, conn : {Nobody}, wave : Waves]
      PROVE  m.call = "Wave" /\ m.wave \in Waves
  OBVIOUS
<1> QED
  BY <1>1, <1>2, <1>3, <1>4

\* Two calls are equal when they are of one kind and for one connection.
LEMMA CallsDiffer ==
    \A c, d :
       /\ (Mount(c) = Mount(d) \/ Internal(c) = Internal(d) \/ Remove(c) = Remove(d)) => c = d
       /\ Mount(c) /= Internal(d) /\ Mount(c) /= Remove(d) /\ Internal(c) /= Remove(d)
       /\ Mount(c).call = "Mount" /\ Mount(c).conn = c
       /\ Internal(c).call = "Internal" /\ Internal(c).conn = c
       /\ Remove(c).call = "Remove" /\ Remove(c).conn = c
       /\ \A w : WaveCall(w).call = "Wave" /\ WaveCall(w).wave = w
  BY DEF Internal, Remove, Mount, WaveCall

LEMMA WaveNames ==
    /\ Greeting \notin Waves
    /\ \A w \in Waves : w.to \in Surfaces \union {"home"}
    /\ \A n \in 1 .. MaxWaves, s \in Surfaces : [kind |-> "down", no |-> n, to |-> s] \in Waves
    /\ \A n \in 1 .. MaxUp : [kind |-> "up", no |-> n, to |-> "home"] \in Waves
  BY DEF Greeting, Waves, DownWaves, UpWaves

\* What is posted to a lane tells itself apart.
LEMMA PostNames ==
    /\ Waves \subseteq Posts /\ ResetExt \in Posts /\ ResetExt \notin Waves
    /\ ResetExt.kind /= "ext" /\ \A w \in Waves : w.kind /= "ext"
    /\ \A c \in Conns : ExtPost(c) \in Posts /\ ExtPost(c) \notin Waves /\ ExtPost(c) /= ResetExt
    /\ \A m \in Posts : m.kind = "ext" => m.no \in Conns /\ m = ExtPost(m.no)
    /\ \A c, d : ExtPost(c) = ExtPost(d) => c = d
<1>1. /\ Waves \subseteq Posts /\ ResetExt \in Posts /\ \A c \in Conns : ExtPost(c) \in Posts
  BY DEF Posts
<1>2. \A c : ExtPost(c).kind = "ext" /\ ExtPost(c).no = c
  BY DEF ExtPost
<1>3. ResetExt.kind = "reset"
  BY DEF ResetExt
<1>4. \A w \in Waves : w.kind \in {"up", "down"}
  BY DEF Waves, UpWaves, DownWaves
<1>5. ASSUME NEW m \in Posts, m.kind = "ext" PROVE m.no \in Conns /\ m = ExtPost(m.no)
  BY <1>2, <1>3, <1>4, <1>5 DEF Posts
<1> QED
  BY <1>1, <1>2, <1>3, <1>4, <1>5

-----------------------------------------------------------------------------
(* Queues.                                                                 *)

\* In the queue q, some a comes before some b.
Before(q, a, b) == \E i, j \in DOMAIN q : i < j /\ q[i] = a /\ q[j] = b

LEMMA OneAlone ==
    ASSUME NEW x, NEW q, q = <<x>>
    PROVE  InSeq(q) = {x} /\ \A a, b : ~Before(q, a, b)
  BY DEF InSeq, Before

LEMMA Appends ==
    ASSUME NEW S, NEW q \in Seq(S), NEW x \in S
    PROVE  /\ Append(q, x) \in Seq(S) /\ Len(q) \in Nat /\ Len(Append(q, x)) = Len(q) + 1
           /\ InSeq(Append(q, x)) = InSeq(q) \union {x}
           /\ \A a, b : Before(Append(q, x), a, b)
                        => Before(q, a, b) \/ (b = x /\ a \in InSeq(q))
<1> DEFINE t == Append(q, x)
<1>1. t \in Seq(S) /\ Len(t) = Len(q) + 1 /\ Len(q) \in Nat
  OBVIOUS
<1>2. t[Len(q) + 1] = x /\ \A i \in 1 .. Len(q) : t[i] = q[i]
  OBVIOUS
<1>3. DOMAIN t = 1 .. Len(q) + 1 /\ DOMAIN q = 1 .. Len(q)
  OBVIOUS
<1> HIDE DEF t
<1>4. InSeq(t) = InSeq(q) \union {x}
  BY <1>1, <1>2, <1>3 DEF InSeq
<1>5. ASSUME NEW a, NEW b, Before(t, a, b)
      PROVE  Before(q, a, b) \/ (b = x /\ a \in InSeq(q))
  <2>1. PICK i \in 1 .. Len(q) + 1, j \in 1 .. Len(q) + 1 : i < j /\ t[i] = a /\ t[j] = b
    BY <1>3, <1>5 DEF Before
  <2>2. i \in 1 .. Len(q) /\ q[i] = a
    BY <1>1, <1>2, <2>1
  <2>3. CASE j = Len(q) + 1
    BY <1>2, <1>3, <2>1, <2>2, <2>3 DEF InSeq
  <2>4. CASE j \in 1 .. Len(q)
    BY <1>2, <1>3, <2>1, <2>2, <2>4 DEF Before
  <2> QED
    BY <1>1, <2>1, <2>3, <2>4
<1> QED
  BY <1>1, <1>4, <1>5 DEF t

LEMMA Takes ==
    ASSUME NEW S, NEW q \in Seq(S), q /= <<>>
    PROVE  /\ Head(q) \in S /\ Tail(q) \in Seq(S)
           /\ Len(q) \in Nat \ {0} /\ Len(Tail(q)) = Len(q) - 1
           /\ InSeq(q) = {Head(q)} \union InSeq(Tail(q))
           /\ \A a, b : Before(Tail(q), a, b) => Before(q, a, b)
           /\ \A b : b \in InSeq(Tail(q)) => Before(q, Head(q), b)
<1> DEFINE t == Tail(q)
           h == Head(q)
<1>1. /\ h \in S /\ t \in Seq(S) /\ Len(q) \in Nat \ {0} /\ Len(t) = Len(q) - 1
      /\ DOMAIN t = 1 .. Len(q) - 1 /\ DOMAIN q = 1 .. Len(q) /\ h = q[1]
  OBVIOUS
<1>2. \A i \in 1 .. Len(q) - 1 : t[i] = q[i + 1]
  OBVIOUS
<1> HIDE DEF t, h
<1>3. ASSUME NEW i \in 1 .. Len(q) PROVE q[i] \in {h} \union InSeq(t)
  <2>1. CASE i = 1
    BY <2>1, <1>1
  <2>2. CASE i /= 1
    <3>1. i - 1 \in 1 .. Len(q) - 1 /\ t[i - 1] = q[i]
      BY <1>1, <1>2, <2>2
    <3> QED
      BY <1>1, <3>1 DEF InSeq
  <2> QED
    BY <2>1, <2>2
<1>4. ASSUME NEW i \in 1 .. Len(q) - 1
      PROVE  i + 1 \in 1 .. Len(q) /\ t[i] = q[i + 1] /\ 1 < i + 1 /\ 1 \in 1 .. Len(q)
  BY <1>1, <1>2
<1>5. InSeq(q) = {h} \union InSeq(t)
  <2>1. InSeq(q) = {q[i] : i \in 1 .. Len(q)} /\ InSeq(t) = {t[i] : i \in 1 .. Len(q) - 1}
    BY <1>1 DEF InSeq
  <2>2. InSeq(q) \subseteq {h} \union InSeq(t)
    BY <1>3, <2>1
  <2>3. h \in InSeq(q)
    BY <1>1, <2>1
  <2>4. InSeq(t) \subseteq InSeq(q)
    BY <1>4, <2>1
  <2> QED
    BY <2>2, <2>3, <2>4
<1>6. ASSUME NEW a, NEW b, Before(t, a, b) PROVE Before(q, a, b)
  <2>1. PICK i \in 1 .. Len(q) - 1, j \in 1 .. Len(q) - 1 : i < j /\ t[i] = a /\ t[j] = b
    BY <1>1, <1>6 DEF Before
  <2>2. i + 1 < j + 1 /\ q[i + 1] = a /\ q[j + 1] = b
    BY <1>4, <2>1
  <2> QED
    BY <1>1, <1>4, <2>2 DEF Before
<1>7. ASSUME NEW b, b \in InSeq(t) PROVE Before(q, h, b)
  <2>1. PICK i \in 1 .. Len(q) - 1 : t[i] = b
    BY <1>1, <1>7 DEF InSeq
  <2> QED
    BY <1>1, <1>4, <2>1 DEF Before
<1> QED
  BY <1>1, <1>5, <1>6, <1>7 DEF t, h

-----------------------------------------------------------------------------
(* Typing, one group of variables at a time: TypeOK is their conjunction.  *)

CallsOK == calls \in Seq(CallTypes) /\ Len(calls) <= CallCap
TableOK == /\ gate \in {"Interchange", "Mount"}
           /\ table \in [Surfaces \union {"home"} -> Hyperways \union {NoHyperway}]
           /\ \A s \in Surfaces : table[s] /= Home
TaskOK  == /\ task \in {"recv", "route", "mount"}
           /\ current \in CallTypes \union {WaveCall(Greeting)}
           /\ task = "route" => current.wave \in Waves /\ Target /= NoHyperway
           /\ task = "mount" => /\ current.call = "Mount" /\ conn[current.conn] = "waiting"
                                /\ table[SurfaceOf[current.conn]] /= NoHyperway
LanesOK == inbound \in [Hyperways -> Seq(Waves)]
OutOK   == /\ mail \in [Hyperways -> Seq(Posts)] /\ queue \in [Hyperways -> Seq(Waves)]
           /\ \A h \in Hyperways : Len(mail[h]) <= MailCap /\ Len(queue[h]) <= QueueCap + 1
           /\ InSeq(mail[Home]) \subseteq Waves /\ queue[Home] = <<>>
           /\ requeueing \subseteq {h \in Hyperways \ {Home} : Busy(h)} /\ requeued \subseteq Waves
           /\ ear \in [Hyperways -> Conns \union {Nobody}]
ConnOK  == /\ conn \in [Conns -> {"idle", "added", "waiting", "live", "failed", "dropped",
                                  "removed"}]
           /\ bound \in [Conns -> Hyperways \union {NoHyperway}]
HeardOK == heard \in [Conns -> Seq(Waves \union {Greeting})]
HomeOK  == home \in Seq(Waves)
CountOK == downs \in 0 .. MaxWaves /\ ups \in 0 .. MaxUp /\ downs + ups <= MaxWaves

LEMMA TypeParts ==
    TypeOK <=> /\ CallsOK /\ TableOK /\ TaskOK /\ LanesOK /\ OutOK /\ ConnOK /\ HeardOK
               /\ HomeOK /\ CountOK
  BY DEF TypeOK, CallsOK, TableOK, TaskOK, LanesOK, OutOK, ConnOK, HeardOK, HomeOK, CountOK

LEMMA PartsType ==
    /\ CallsOK' /\ TableOK' /\ TaskOK' /\ LanesOK' /\ OutOK' /\ ConnOK' /\ HeardOK'
    /\ HomeOK' /\ CountOK'
    => TypeOK'
  BY DEF TypeOK, CallsOK, TableOK, TaskOK, LanesOK, OutOK, ConnOK, HeardOK, HomeOK, CountOK

\* A group keeps its types when none of its variables changes.
LEMMA Untouched ==
    /\ CallsOK /\ UNCHANGED calls => CallsOK'
    /\ TableOK /\ UNCHANGED <<gate, table>> => TableOK'
    /\ TaskOK /\ UNCHANGED <<taskVars, conn>> => TaskOK'
    /\ LanesOK /\ UNCHANGED inbound => LanesOK'
    /\ OutOK /\ UNCHANGED outVars => OutOK'
    /\ ConnOK /\ UNCHANGED <<conn, bound>> => ConnOK'
    /\ HeardOK /\ UNCHANGED heard => HeardOK'
    /\ HomeOK /\ UNCHANGED home => HomeOK'
    /\ CountOK /\ UNCHANGED countVars => CountOK'
<1>1. OutOK /\ UNCHANGED outVars => OutOK'
  BY DEF OutOK, outVars, InSeq, Busy
<1> QED
  BY <1>1
  DEF CallsOK, TableOK, TaskOK, Target, LanesOK, ConnOK, HeardOK, HomeOK, CountOK, taskVars,
      countVars

\* Who has or had an endpoint, and nobody else, was given a hyperway, and a connection that
\* waits to be mounted is asked for once.
Mounting(c) == task = "mount" /\ current.conn = c
InCalls(m)  == m \in InSeq(calls)

BoundOK(c) == IF conn[c] \in {"live", "dropped", "removed"} THEN bound[c] \in Hyperways
                                                          ELSE bound[c] = NoHyperway
MountOK(c) == /\ InCalls(Mount(c)) => conn[c] = "waiting" /\ ~Mounting(c)
              /\ ~Before(calls, Mount(c), Mount(c))

TypeInv == TypeOK /\ \A c \in Conns : BoundOK(c) /\ MountOK(c)

LEMMA CalledTypes ==
    ASSUME CallsOK, NEW m \in CallTypes, Called(m)
    PROVE  /\ CallsOK' /\ InSeq(calls') = InSeq(calls) \union {m}
           /\ \A a, b : Before(calls', a, b)
                        => Before(calls, a, b) \/ (b = m /\ a \in InSeq(calls))
<1>1. /\ calls' \in Seq(CallTypes) /\ Len(calls) \in Nat /\ Len(calls') = Len(calls) + 1
      /\ InSeq(calls') = InSeq(calls) \union {m}
      /\ \A a, b : Before(calls', a, b)
                   => Before(calls, a, b) \/ (b = m /\ a \in InSeq(calls))
  BY Appends DEF CallsOK, Called
<1>2. Len(calls') <= CallCap
  BY CapTypes DEF Called
<1> QED
  BY <1>1, <1>2 DEF CallsOK

LEMMA TakingTypes ==
    ASSUME CallsOK, NEW kind, Taking(kind)
    PROVE  /\ CallsOK' /\ Head(calls) \in CallTypes /\ Head(calls).call = kind
           /\ task = "recv"
           /\ InSeq(calls) = {Head(calls)} \union InSeq(calls')
           /\ \A a, b : Before(calls', a, b) => Before(calls, a, b)
           /\ \A b : b \in InSeq(calls') => Before(calls, Head(calls), b)
<1>1. /\ Head(calls) \in CallTypes /\ calls' \in Seq(CallTypes)
      /\ Len(calls) \in Nat \ {0} /\ Len(calls') = Len(calls) - 1
      /\ InSeq(calls) = {Head(calls)} \union InSeq(calls')
      /\ \A a, b : Before(calls', a, b) => Before(calls, a, b)
      /\ \A b : b \in InSeq(calls') => Before(calls, Head(calls), b)
  BY Takes DEF CallsOK, Taking
<1>2. Len(calls') <= CallCap
  BY <1>1, CapTypes DEF CallsOK
<1> QED
  BY <1>1, <1>2 DEF CallsOK, Taking

\* The state of a connection that is not waiting changes.
LEMMA ConnMoves ==
    ASSUME TypeOK, NEW c \in Conns, conn[c] /= "waiting",
           NEW to \in {"added", "waiting", "dropped", "removed"},
           conn' = [conn EXCEPT ![c] = to], UNCHANGED <<taskVars, bound>>
    PROVE  ConnOK' /\ TaskOK'
<1>1. ConnOK'
  BY TypeParts DEF ConnOK
<1>2. conn'[current.conn] = conn[current.conn] \/ task /= "mount"
  BY TypeParts DEF ConnOK, TaskOK
<1> QED
  BY <1>1, TypeParts DEF TaskOK, Target, taskVars

\* A lane changes.
LEMMA InboundTypes ==
    ASSUME LanesOK, NEW h \in Hyperways, NEW q \in Seq(Waves),
           inbound' = [inbound EXCEPT ![h] = q]
    PROVE  LanesOK'
  BY DEF LanesOK

\* Only the lane of h changes: its mailbox becomes m, its queue q, its listener e.
LaneIs(h, m, q, e) ==
    /\ mail' \in [Hyperways -> Seq(Posts)] /\ mail'[h] = m
    /\ queue' \in [Hyperways -> Seq(Waves)] /\ queue'[h] = q
    /\ ear' \in [Hyperways -> Conns \union {Nobody}] /\ ear'[h] = e
    /\ \A k \in Hyperways \ {h} : /\ mail'[k] = mail[k] /\ queue'[k] = queue[k]
                                  /\ ear'[k] = ear[k]

LEMMA LaneIsIt ==
    ASSUME OutOK, NEW h \in Hyperways, NEW m \in Seq(Posts), NEW q \in Seq(Waves),
           NEW e \in Conns \union {Nobody},
           mail' = [mail EXCEPT ![h] = m] \/ (m = mail[h] /\ mail' = mail),
           queue' = [queue EXCEPT ![h] = q] \/ (q = queue[h] /\ queue' = queue),
           ear' = [ear EXCEPT ![h] = e] \/ (e = ear[h] /\ ear' = ear)
    PROVE  LaneIs(h, m, q, e)
<1>1. /\ mail' \in [Hyperways -> Seq(Posts)] /\ mail'[h] = m
      /\ \A k \in Hyperways \ {h} : mail'[k] = mail[k]
  BY DEF OutOK
<1>2. /\ queue' \in [Hyperways -> Seq(Waves)] /\ queue'[h] = q
      /\ \A k \in Hyperways \ {h} : queue'[k] = queue[k]
  BY DEF OutOK
<1>3. /\ ear' \in [Hyperways -> Conns \union {Nobody}] /\ ear'[h] = e
      /\ \A k \in Hyperways \ {h} : ear'[k] = ear[k]
  BY DEF OutOK
<1> QED
  BY <1>1, <1>2, <1>3 DEF LaneIs

LEMMA OutTypes ==
    ASSUME OutOK, NEW h \in Hyperways, NEW m, NEW q, NEW e, LaneIs(h, m, q, e),
           Len(m) <= MailCap, Len(q) <= QueueCap + 1, h = Home => InSeq(m) \subseteq Waves /\ q = <<>>,
           requeueing' \subseteq requeueing \union {h},
           h \in requeueing' => h /= Home /\ q /= <<>> /\ e /= Nobody,
           requeued' \subseteq Waves
    PROVE  OutOK'
<1>1. \A k \in Hyperways : Len(mail'[k]) <= MailCap /\ Len(queue'[k]) <= QueueCap + 1
  BY DEF OutOK, LaneIs
<1>2. InSeq(mail'[Home]) \subseteq Waves /\ queue'[Home] = <<>>
  <2>1. CASE h = Home
    BY <2>1 DEF LaneIs
  <2>2. CASE h /= Home
    BY <2>2, Names DEF LaneIs, OutOK
  <2> QED
    BY <2>1, <2>2
<1>3. ASSUME NEW k \in requeueing'
      PROVE  k \in Hyperways \ {Home} /\ queue'[k] /= <<>> /\ ear'[k] /= Nobody
  BY <1>3 DEF LaneIs, OutOK, Busy
<1> QED
  BY <1>1, <1>2, <1>3 DEF OutOK, LaneIs, Busy, InSeq

LEMMA TargetTypes == ASSUME TypeOK, task = "route" PROVE current.wave \in Waves /\ Target \in Hyperways
<1>1. current.wave \in Waves /\ Target /= NoHyperway
  BY TypeParts DEF TaskOK
<1>2. current.wave.to \in Surfaces \union {"home"}
  BY <1>1, WaveNames
<1> QED
  BY <1>1, <1>2, TypeParts DEF TableOK, Target

-----------------------------------------------------------------------------
(* Each step keeps the types.                                              *)

LEMMA MountKept ==
    ASSUME NEW c \in Conns, MountOK(c),
           Mount(c) \in InSeq(calls') => InCalls(Mount(c)),
           Before(calls', Mount(c), Mount(c)) => Before(calls, Mount(c), Mount(c)),
           conn[c] = "waiting" => conn'[c] = "waiting",
           Mounting(c)' => Mounting(c)
    PROVE  MountOK(c)'
  BY DEF MountOK, InCalls, Mounting

\* The gates, whose calls are no mounts (but AskMount's).
LEMMA GateTypes ==
    ASSUME TypeInv, NEW c \in Conns, conn[c] /= "waiting",
           NEW to \in {"added", "dropped", "removed"},
           IF to = "added" THEN conn[c] = "idle" ELSE conn[c] \in {"live", "dropped"},
           conn' = [conn EXCEPT ![c] = to], UNCHANGED <<taskVars, bound>>,
           \A d \in Conns :
              /\ Mount(d) \in InSeq(calls') => InCalls(Mount(d))
              /\ Before(calls', Mount(d), Mount(d)) => Before(calls, Mount(d), Mount(d))
    PROVE  ConnOK' /\ TaskOK' /\ \A d \in Conns : BoundOK(d)' /\ MountOK(d)'
<1>1. ConnOK' /\ TaskOK'
  BY ConnMoves DEF TypeInv
<1> SUFFICES ASSUME NEW d \in Conns PROVE BoundOK(d)' /\ MountOK(d)'
  BY <1>1
<1>2. BoundOK(d)'
  BY DEF TypeInv, BoundOK
<1>3. MountOK(d)'
  <2>1. MountOK(d) /\ (Mounting(d)' => Mounting(d))
    BY DEF TypeInv, Mounting, taskVars
  <2>2. conn[d] = "waiting" => conn'[d] = "waiting"
    BY TypeParts DEF TypeInv, ConnOK
  <2> QED
    BY <2>1, <2>2, MountKept
<1> QED
  BY <1>2, <1>3

\* Steps that touch neither connections nor mounts.
LEMMA OtherTypes ==
    ASSUME TypeInv, UNCHANGED <<conn, bound>>,
           task' /= "mount" \/ UNCHANGED <<task, current>>,
           \A d \in Conns :
              /\ Mount(d) \in InSeq(calls') => InCalls(Mount(d))
              /\ Before(calls', Mount(d), Mount(d)) => Before(calls, Mount(d), Mount(d))
    PROVE  ConnOK' /\ \A d \in Conns : BoundOK(d)' /\ MountOK(d)'
<1>1. ConnOK'
  BY TypeParts, Untouched DEF TypeInv
<1> SUFFICES ASSUME NEW d \in Conns PROVE BoundOK(d)' /\ MountOK(d)'
  BY <1>1
<1>2. MountOK(d) /\ (Mounting(d)' => Mounting(d))
  BY DEF TypeInv, Mounting
<1> QED
  BY <1>2, MountKept DEF TypeInv, BoundOK

LEMMA EnterType == ASSUME TypeInv, NEW c \in Conns, Enter(c) PROVE TypeInv'
<1>1. CallsOK' /\ \A d \in Conns :
         /\ Mount(d) \in InSeq(calls') => InCalls(Mount(d))
         /\ Before(calls', Mount(d), Mount(d)) => Before(calls, Mount(d), Mount(d))
  BY CalledTypes, CallNames, CallsDiffer, TypeParts DEF TypeInv, Enter, InCalls
<1>2. ConnOK' /\ TaskOK' /\ \A d \in Conns : BoundOK(d)' /\ MountOK(d)'
  BY <1>1, GateTypes DEF Enter
<1> QED
  BY <1>1, <1>2, TypeParts, PartsType, Untouched
  DEF TypeInv, Enter, taskVars, laneVars

LEMMA DropType == ASSUME TypeInv, NEW c \in Conns, Drop(c) PROVE TypeInv'
<1>1. ConnOK' /\ TaskOK' /\ \A d \in Conns : BoundOK(d)' /\ MountOK(d)'
  BY GateTypes DEF Drop, InCalls
<1> QED
  BY <1>1, TypeParts, PartsType, Untouched DEF TypeInv, Drop, taskVars, laneVars

LEMMA AskRemoveType == ASSUME TypeInv, NEW c \in Conns, AskRemove(c) PROVE TypeInv'
<1>1. CallsOK' /\ \A d \in Conns :
         /\ Mount(d) \in InSeq(calls') => InCalls(Mount(d))
         /\ Before(calls', Mount(d), Mount(d)) => Before(calls, Mount(d), Mount(d))
  BY CalledTypes, CallNames, CallsDiffer, TypeParts DEF TypeInv, AskRemove, InCalls
<1>2. ConnOK' /\ TaskOK' /\ \A d \in Conns : BoundOK(d)' /\ MountOK(d)'
  BY <1>1, GateTypes DEF AskRemove
<1> QED
  BY <1>1, <1>2, TypeParts, PartsType, Untouched
  DEF TypeInv, AskRemove, taskVars, laneVars

\* A mount is asked for by a connection that has none on its way.
LEMMA AskMountType == ASSUME TypeInv, NEW c \in Conns, AskMount(c) PROVE TypeInv'
<1>1. conn[c] \notin {"waiting", "live", "dropped", "removed"}
  BY DEF AskMount
<1>2. /\ CallsOK' /\ InSeq(calls') = InSeq(calls) \union {Mount(c)}
      /\ \A a, b : Before(calls', a, b)
                   => Before(calls, a, b) \/ (b = Mount(c) /\ a \in InSeq(calls))
  BY CalledTypes, CallNames, TypeParts DEF TypeInv, AskMount
<1>3. ConnOK' /\ TaskOK'
  BY ConnMoves DEF TypeInv, AskMount
<1>4. \A d \in Conns : BoundOK(d)'
  BY DEF TypeInv, BoundOK, AskMount
<1>5. ASSUME NEW d \in Conns PROVE MountOK(d)'
  <2>1. CASE d /= c
    <3>1. conn[d] = "waiting" => conn'[d] = "waiting"
      BY DEF AskMount
    <3>2. /\ Mount(d) \in InSeq(calls') => InCalls(Mount(d))
          /\ Before(calls', Mount(d), Mount(d)) => Before(calls, Mount(d), Mount(d))
      BY <1>2, <2>1, CallsDiffer DEF InCalls
    <3> QED
      BY <3>2, MountKept DEF TypeInv, Mounting, AskMount, taskVars
  <2>2. CASE d = c
    <3>1. ~InCalls(Mount(c)) /\ ~Before(calls, Mount(c), Mount(c))
      BY <1>1 DEF TypeInv, MountOK
    <3>2. ~Mounting(c)'
      BY TypeParts DEF TypeInv, TaskOK, Mounting, AskMount, taskVars
    <3>3. conn'[c] = "waiting"
      BY TypeParts DEF TypeInv, ConnOK, AskMount
    <3> QED
      BY <1>2, <2>2, <3>1, <3>2, <3>3 DEF MountOK, InCalls
  <2> QED
    BY <2>1, <2>2
<1> QED
  BY <1>2, <1>3, <1>4, <1>5, TypeParts, PartsType, Untouched
  DEF TypeInv, AskMount, taskVars, laneVars

LEMMA SendDownType == ASSUME TypeInv, NEW s \in Surfaces, SendDown(s) PROVE TypeInv'
<1>1. downs' \in 1 .. MaxWaves /\ CountOK'
  BY TypeParts, CapTypes DEF TypeInv, CountOK, SendDown
<1>2. LanesOK'
  <2>1. [kind |-> "down", no |-> downs', to |-> s] \in Waves
    BY <1>1, WaveNames
  <2> DEFINE q == Append(inbound[Home], [kind |-> "down", no |-> downs', to |-> s])
  <2>2. q \in Seq(Waves) /\ Home \in Hyperways
    BY <2>1, Names, TypeParts DEF TypeInv, LanesOK
  <2> QED
    BY <2>2, InboundTypes, TypeParts DEF TypeInv, SendDown
<1>3. ConnOK' /\ \A d \in Conns : BoundOK(d)' /\ MountOK(d)'
  BY OtherTypes DEF SendDown, connVars, taskVars, InCalls
<1> QED
  BY <1>1, <1>2, <1>3, TypeParts, PartsType, Untouched
  DEF TypeInv, SendDown, connVars, taskVars

LEMMA SendUpType == ASSUME TypeInv, NEW c \in Conns, SendUp(c) PROVE TypeInv'
<1>1. ups' \in 1 .. MaxUp /\ CountOK'
  BY TypeParts, CapTypes DEF TypeInv, CountOK, SendUp
<1>2. LanesOK'
  <2>1. [kind |-> "up", no |-> ups', to |-> "home"] \in Waves
    BY <1>1, WaveNames
  <2>2. bound[c] \in Hyperways
    BY DEF TypeInv, BoundOK, SendUp
  <2> DEFINE q == Append(inbound[bound[c]], [kind |-> "up", no |-> ups', to |-> "home"])
  <2>3. q \in Seq(Waves)
    BY <2>1, <2>2, TypeParts DEF TypeInv, LanesOK
  <2> QED
    BY <2>2, <2>3, InboundTypes, TypeParts DEF TypeInv, SendUp
<1>3. ConnOK' /\ \A d \in Conns : BoundOK(d)' /\ MountOK(d)'
  BY OtherTypes DEF SendUp, connVars, taskVars, InCalls
<1> QED
  BY <1>1, <1>2, <1>3, TypeParts, PartsType, Untouched
  DEF TypeInv, SendUp, connVars, taskVars

LEMMA InboundHead ==
    ASSUME LanesOK, NEW h \in Hyperways, inbound[h] /= <<>>
    PROVE  Head(inbound[h]) \in Waves /\ Tail(inbound[h]) \in Seq(Waves)
  BY Takes DEF LanesOK

LEMMA ForwardType == ASSUME TypeInv, NEW h \in Hyperways, Forward(h) PROVE TypeInv'
<1>1. Head(inbound[h]) \in Waves /\ Tail(inbound[h]) \in Seq(Waves)
  BY InboundHead, TypeParts DEF TypeInv, Forward
<1>2. LanesOK'
  BY <1>1, InboundTypes, TypeParts DEF TypeInv, Forward
<1>3. CallsOK' /\ \A d \in Conns :
         /\ Mount(d) \in InSeq(calls') => InCalls(Mount(d))
         /\ Before(calls', Mount(d), Mount(d)) => Before(calls, Mount(d), Mount(d))
  <2>1. \A d : Mount(d) /= WaveCall(Head(inbound[h]))
    BY CallsDiffer
  <2> QED
    BY <1>1, <2>1, CalledTypes, CallNames, TypeParts DEF TypeInv, Forward, InCalls
<1>4. ConnOK' /\ \A d \in Conns : BoundOK(d)' /\ MountOK(d)'
  BY <1>3, OtherTypes DEF Forward, connVars, taskVars
<1> QED
  BY <1>2, <1>3, <1>4, TypeParts, PartsType, Untouched
  DEF TypeInv, Forward, connVars, taskVars

LEMMA ForwardTimeoutType == ASSUME TypeInv, NEW h \in Hyperways, ForwardTimeout(h) PROVE TypeInv'
<1>1. Head(inbound[h]) \in Waves /\ Tail(inbound[h]) \in Seq(Waves)
  BY InboundHead, TypeParts DEF TypeInv, ForwardTimeout
<1>2. LanesOK'
  BY <1>1, InboundTypes, TypeParts DEF TypeInv, ForwardTimeout
<1>3. ConnOK' /\ \A d \in Conns : BoundOK(d)' /\ MountOK(d)'
  BY OtherTypes DEF ForwardTimeout, connVars, taskVars, InCalls
<1> QED
  BY <1>2, <1>3, TypeParts, PartsType, Untouched
  DEF TypeInv, ForwardTimeout, connVars, taskVars

\* What the task takes is no longer on its way.
LEMMA TakenMounts ==
    ASSUME TypeInv, NEW kind, Taking(kind)
    PROVE  \A d \in Conns :
              /\ Mount(d) \in InSeq(calls') => InCalls(Mount(d))
              /\ Before(calls', Mount(d), Mount(d)) => Before(calls, Mount(d), Mount(d))
  BY TakingTypes, TypeParts DEF TypeInv, InCalls

LEMMA TakeInternalType == ASSUME TypeInv, TakeInternal PROVE TypeInv'
<1> DEFINE c == Head(calls).conn
<1>1. CallsOK' /\ c \in Conns /\ task = "recv"
  BY TakingTypes, CallNames, TypeParts DEF TypeInv, TakeInternal
<1>2. TableOK' /\ TaskOK'
  <2>1. SurfaceOf[c] \in Surfaces /\ Added(c) \in Hyperways /\ Added(c) /= Home
    BY <1>1, Names
  <2>2. table' = [table EXCEPT ![SurfaceOf[c]] = Added(c)] /\ UNCHANGED <<gate, task, current>>
    BY DEF TakeInternal
  <2> HIDE DEF c
  <2>3. TableOK'
    BY <2>1, <2>2, TypeParts DEF TypeInv, TableOK
  <2> QED
    BY <1>1, <2>2, <2>3, TypeParts DEF TypeInv, TaskOK
<1>3. ConnOK' /\ \A d \in Conns : BoundOK(d)' /\ MountOK(d)'
  BY TakenMounts, OtherTypes DEF TakeInternal, connVars
<1> QED
  BY <1>1, <1>2, <1>3, TypeParts, PartsType, Untouched
  DEF TypeInv, TakeInternal, connVars, laneVars

LEMMA TakeRemoveType == ASSUME TypeInv, TakeRemove PROVE TypeInv'
<1> DEFINE c == Head(calls).conn
<1>1. CallsOK' /\ c \in Conns /\ task = "recv"
  BY TakingTypes, CallNames, TypeParts DEF TypeInv, TakeRemove
<1>2. TableOK' /\ TaskOK'
  <2>1. SurfaceOf[c] \in Surfaces /\ NoHyperway /= Home
    BY <1>1, Names
  <2>2. table' = [table EXCEPT ![SurfaceOf[c]] = NoHyperway] /\ UNCHANGED <<gate, task, current>>
    BY DEF TakeRemove
  <2> HIDE DEF c
  <2>3. TableOK'
    BY <2>1, <2>2, TypeParts DEF TypeInv, TableOK
  <2> QED
    BY <1>1, <2>2, <2>3, TypeParts DEF TypeInv, TaskOK
<1>3. ConnOK' /\ \A d \in Conns : BoundOK(d)' /\ MountOK(d)'
  BY TakenMounts, OtherTypes DEF TakeRemove, connVars
<1> QED
  BY <1>1, <1>2, <1>3, TypeParts, PartsType, Untouched
  DEF TypeInv, TakeRemove, connVars, laneVars

LEMMA TakeWaveType == ASSUME TypeInv, TakeWave PROVE TypeInv'
<1> DEFINE w == Head(calls).wave
<1>1. CallsOK' /\ Head(calls) \in CallTypes /\ w \in Waves
  BY TakingTypes, CallNames, TypeParts DEF TypeInv, TakeWave
<1>2. TaskOK' /\ task' /= "mount"
  <2>1. CASE table[w.to] = NoHyperway
    <3>1. task = "recv" /\ UNCHANGED <<task, current, table, conn>>
      BY <2>1 DEF TakeWave, Taking, connVars
    <3> QED
      BY <1>1, <3>1, TypeParts DEF TypeInv, TakeWave, TaskOK
  <2>2. CASE table[w.to] /= NoHyperway
    BY <1>1, <2>2, TypeParts DEF TypeInv, TakeWave, TaskOK, Target
  <2> QED
    BY <2>1, <2>2
<1>3. ConnOK' /\ \A d \in Conns : BoundOK(d)' /\ MountOK(d)'
  BY TakenMounts, OtherTypes DEF TakeWave, connVars
<1> QED
  BY <1>1, <1>2, <1>3, TypeParts, PartsType, Untouched
  DEF TypeInv, TakeWave, connVars, laneVars

\* A mount that is taken was the only one of its connection.
LEMMA TakeMountType == ASSUME TypeInv, TakeMount PROVE TypeInv'
<1> DEFINE c == Head(calls).conn
<1>1. CallsOK' /\ c \in Conns /\ Head(calls) = Mount(c) /\ task = "recv"
  BY TakingTypes, CallNames, TypeParts DEF TypeInv, TakeMount
<1>2. InCalls(Mount(c)) /\ Mount(c) \notin InSeq(calls')
  <2>1. ~Before(calls, Mount(c), Mount(c))
    BY <1>1 DEF TypeInv, MountOK
  <2> QED
    BY <1>1, <2>1, TakingTypes, TypeParts DEF TypeInv, InCalls, TakeMount
<1>3. conn[c] = "waiting" /\ ~Before(calls', Mount(c), Mount(c))
  BY <1>1, <1>2, TakenMounts DEF TypeInv, MountOK, TakeMount
<1>4. CASE table[SurfaceOf[c]] = NoHyperway
  <2>1. conn' = [conn EXCEPT ![c] = "failed"] /\ UNCHANGED <<task, current>>
    BY <1>4 DEF TakeMount
  <2>2. ConnOK' /\ TaskOK' /\ \A d \in Conns : BoundOK(d)'
    <3>1. ConnOK' /\ TaskOK'
      BY <1>1, <2>1, TypeParts DEF TypeInv, ConnOK, TaskOK, TakeMount
    <3>2. ASSUME NEW d \in Conns PROVE BoundOK(d)'
      <4>1. bound'[d] = bound[d] /\ BoundOK(d)
        BY DEF TypeInv, TakeMount
      <4>2. IF d = c THEN conn[d] = "waiting" /\ conn'[d] = "failed" ELSE conn'[d] = conn[d]
        BY <1>3, <2>1, TypeParts DEF TypeInv, ConnOK
      <4> QED
        BY <4>1, <4>2 DEF BoundOK
    <3> QED
      BY <3>1, <3>2
  <2>3. ASSUME NEW d \in Conns PROVE MountOK(d)'
    <3>1. ~Mounting(d)' /\ (d /= c => conn'[d] = conn[d])
      BY <1>1, <2>1 DEF Mounting
    <3> QED
      BY <1>2, <3>1, TakenMounts DEF TypeInv, MountOK, InCalls, TakeMount
  <2> QED
    BY <1>1, <2>2, <2>3, TypeParts, PartsType, Untouched
    DEF TypeInv, TakeMount, laneVars
<1>5. CASE table[SurfaceOf[c]] /= NoHyperway
  <2>1. task' = "mount" /\ current' = Mount(c) /\ UNCHANGED <<conn, bound, table>>
    BY <1>1, <1>5 DEF TakeMount
  <2>2. current'.conn = c /\ current'.call = "Mount" /\ current' \in CallTypes
    BY <1>1, <2>1, CallsDiffer, CallNames
  <2>3. ConnOK' /\ TaskOK' /\ \A d \in Conns : BoundOK(d)'
    BY <1>3, <1>5, <2>1, <2>2, TypeParts DEF TypeInv, ConnOK, TaskOK, BoundOK
  <2>4. ASSUME NEW d \in Conns PROVE MountOK(d)'
    <3>1. Mounting(d)' <=> d = c
      BY <2>1, <2>2 DEF Mounting
    <3> QED
      BY <1>2, <2>1, <3>1, TakenMounts DEF TypeInv, MountOK, InCalls, TakeMount
  <2> QED
    BY <1>1, <2>3, <2>4, TypeParts, PartsType, Untouched
    DEF TypeInv, TakeMount, laneVars
<1> QED
  BY <1>4, <1>5

LEMMA InSeqTypes == ASSUME NEW S, NEW q \in Seq(S) PROVE InSeq(q) \subseteq S
  BY DEF InSeq

LEMMA OutParts ==
    ASSUME OutOK, NEW h \in Hyperways
    PROVE  /\ mail[h] \in Seq(Posts) /\ queue[h] \in Seq(Waves) /\ ear[h] \in Conns \union {Nobody}
           /\ Len(mail[h]) \in Nat /\ Len(mail[h]) <= MailCap
           /\ Len(queue[h]) \in Nat /\ Len(queue[h]) <= QueueCap + 1
           /\ h = Home => InSeq(mail[h]) \subseteq Waves /\ queue[h] = <<>>
           /\ h \in requeueing => h /= Home /\ queue[h] /= <<>> /\ ear[h] /= Nobody
  BY DEF OutOK, Busy

\* What each step does to a lane.
LEMMA PostedLane ==
    ASSUME OutOK, NEW h \in Hyperways, NEW m \in Posts, Posted(h, m), UNCHANGED <<queue, ear>>
    PROVE  /\ LaneIs(h, Append(mail[h], m), queue[h], ear[h])
           /\ Len(Append(mail[h], m)) <= MailCap
           /\ InSeq(Append(mail[h], m)) = InSeq(mail[h]) \union {m}
<1> DEFINE t == Append(mail[h], m)
<1>1. /\ mail[h] \in Seq(Posts) /\ queue[h] \in Seq(Waves) /\ ear[h] \in Conns \union {Nobody}
      /\ Len(mail[h]) \in Nat /\ Len(mail[h]) < MailCap /\ mail' = [mail EXCEPT ![h] = t]
  BY OutParts DEF Posted, HasRoom
<1>2. t \in Seq(Posts) /\ Len(t) = Len(mail[h]) + 1 /\ InSeq(t) = InSeq(mail[h]) \union {m}
  BY <1>1, Appends
<1> HIDE DEF t
<1>3. LaneIs(h, t, queue[h], ear[h])
  BY <1>1, <1>2, LaneIsIt
<1> QED
  BY <1>1, <1>2, <1>3, CapTypes DEF t

LEMMA RouteLane ==
    ASSUME TypeOK, Route
    PROVE  \E w \in Waves, h \in Hyperways :
              /\ w = current.wave /\ h = Target
              /\ LaneIs(h, Append(mail[h], w), queue[h], ear[h])
              /\ Len(Append(mail[h], w)) <= MailCap
              /\ InSeq(Append(mail[h], w)) = InSeq(mail[h]) \union {w}
<1>1. PICK w \in Waves, h \in Hyperways : w = current.wave /\ h = Target
  BY TargetTypes DEF Route
<1>2. w \in Posts /\ Posted(h, w) /\ UNCHANGED <<queue, ear>>
  BY <1>1, PostNames DEF Route
<1> QED
  BY <1>1, <1>2, PostedLane, TypeParts

LEMMA MountedLane ==
    ASSUME TypeOK, Mounted
    PROVE  \E c \in Conns, h \in Hyperways \ {Home} :
              /\ c = current.conn /\ h = table[SurfaceOf[c]]
              /\ LaneIs(h, Append(mail[h], ExtPost(c)), queue[h], ear[h])
              /\ Len(Append(mail[h], ExtPost(c))) <= MailCap
              /\ InSeq(Append(mail[h], ExtPost(c))) = InSeq(mail[h]) \union {ExtPost(c)}
              /\ heard'[c] = <<Greeting>> /\ \A d \in Conns \ {c} : heard'[d] = heard[d]
<1>1. current \in CallTypes
  BY TypeParts, CallsDiffer DEF TaskOK, Mounted
<1>2. PICK c \in Conns : c = current.conn
  BY <1>1, CallNames, TypeParts DEF TaskOK, Mounted
<1>3. PICK h \in Hyperways \ {Home} : h = table[SurfaceOf[c]]
  BY <1>2, Names, TypeParts DEF TaskOK, TableOK, Mounted
<1>4. PICK m \in Posts : m = ExtPost(c)
  BY PostNames
<1>5. Posted(h, m) /\ UNCHANGED <<queue, ear>> /\ heard' = [heard EXCEPT ![c] = <<Greeting>>]
  BY <1>2, <1>3, <1>4 DEF Mounted
<1>6. heard'[c] = <<Greeting>> /\ \A d \in Conns \ {c} : heard'[d] = heard[d]
  BY <1>5, TypeParts DEF HeardOK
<1>7. /\ LaneIs(h, Append(mail[h], m), queue[h], ear[h])
      /\ Len(Append(mail[h], m)) <= MailCap
      /\ InSeq(Append(mail[h], m)) = InSeq(mail[h]) \union {m}
  BY <1>5, PostedLane, TypeParts
<1> QED
  BY <1>2, <1>3, <1>4, <1>6, <1>7

LEMMA TakesLane ==
    ASSUME OutOK, NEW h \in Hyperways, LaneTakes(h), NEW q \in Seq(Waves),
           NEW e \in Conns \union {Nobody},
           queue' = [queue EXCEPT ![h] = q] \/ (q = queue[h] /\ queue' = queue),
           ear' = [ear EXCEPT ![h] = e] \/ (e = ear[h] /\ ear' = ear)
    PROVE  /\ LaneIs(h, Tail(mail[h]), q, e)
           /\ Len(Tail(mail[h])) <= MailCap
           /\ Head(mail[h]) \in Posts /\ InSeq(mail[h]) = {Head(mail[h])} \union InSeq(Tail(mail[h]))
           /\ h /= Home /\ h \notin requeueing
<1> DEFINE t == Tail(mail[h])
<1>1. /\ mail[h] \in Seq(Posts) /\ mail[h] /= <<>> /\ Len(mail[h]) <= MailCap
      /\ mail' = [mail EXCEPT ![h] = t] /\ h /= Home /\ ~Busy(h)
  BY OutParts DEF LaneTakes
<1>2. /\ Head(mail[h]) \in Posts /\ t \in Seq(Posts) /\ Len(mail[h]) \in Nat \ {0}
      /\ Len(t) = Len(mail[h]) - 1 /\ InSeq(mail[h]) = {Head(mail[h])} \union InSeq(t)
  BY <1>1, Takes
<1>3. h \notin requeueing
  BY <1>1 DEF OutOK
<1> HIDE DEF t
<1>4. LaneIs(h, t, q, e)
  BY <1>1, <1>2, LaneIsIt
<1> QED
  BY <1>1, <1>2, <1>3, <1>4, CapTypes DEF t

\* Trimmed drops at most the oldest wave, and leaves room for one.
LEMMA TrimTypes ==
    ASSUME NEW q \in Seq(Waves), Len(q) <= QueueCap + 1
    PROVE  /\ Trimmed(q) \in Seq(Waves) /\ Len(Trimmed(q)) \in Nat /\ Len(Trimmed(q)) <= QueueCap
           /\ Trimmed(q) = q \/ (q /= <<>> /\ Trimmed(q) = Tail(q))
           /\ InSeq(Trimmed(q)) \subseteq InSeq(q)
<1>1. Len(q) \in Nat
  OBVIOUS
<1>2. CASE Len(q) > QueueCap
  <2>1. q /= <<>> /\ Trimmed(q) = Tail(q)
    BY <1>2, CapTypes DEF Trimmed
  <2>2. /\ Tail(q) \in Seq(Waves) /\ Len(Tail(q)) = Len(q) - 1 /\ Len(q) \in Nat \ {0}
        /\ InSeq(Tail(q)) \subseteq InSeq(q)
    BY <2>1, Takes
  <2>3. Len(Tail(q)) \in Nat /\ Len(Tail(q)) <= QueueCap
    BY <2>2, CapTypes
  <2> QED
    BY <2>1, <2>2, <2>3
<1>3. CASE ~(Len(q) > QueueCap)
  BY <1>1, <1>3, CapTypes DEF Trimmed
<1> QED
  BY <1>2, <1>3

LEMMA LaneTakesWaveLane ==
    ASSUME OutOK, NEW h \in Hyperways, LaneTakesWave(h)
    PROVE  \E w \in Waves, q \in Seq(Waves) :
              /\ w = Head(mail[h]) /\ q = Append(Trimmed(queue[h]), w)
              /\ LaneIs(h, Tail(mail[h]), q, ear[h])
              /\ Len(Tail(mail[h])) <= MailCap /\ Len(q) <= QueueCap + 1
              /\ InSeq(mail[h]) = {w} \union InSeq(Tail(mail[h]))
              /\ InSeq(q) \subseteq InSeq(queue[h]) \union {w}
              /\ h /= Home /\ h \notin requeueing /\ mail[h] /= <<>>
<1>1. PICK w \in Waves : w = Head(mail[h])
  BY DEF LaneTakesWave
<1>2. /\ Trimmed(queue[h]) \in Seq(Waves) /\ Len(Trimmed(queue[h])) \in Nat
      /\ Len(Trimmed(queue[h])) <= QueueCap /\ InSeq(Trimmed(queue[h])) \subseteq InSeq(queue[h])
  BY OutParts, TrimTypes
<1>3. PICK q : q = Append(Trimmed(queue[h]), w)
  OBVIOUS
<1>4. /\ q \in Seq(Waves) /\ Len(q) = Len(Trimmed(queue[h])) + 1
      /\ InSeq(q) \subseteq InSeq(queue[h]) \union {w}
  BY <1>2, <1>3, Appends
<1>5. Len(q) <= QueueCap + 1
  BY <1>2, <1>4, CapTypes
<1>6. LaneTakes(h) /\ mail[h] /= <<>> /\ queue' = [queue EXCEPT ![h] = q] /\ ear' = ear
  BY <1>1, <1>3 DEF LaneTakesWave, LaneTakes
<1>7. ear[h] \in Conns \union {Nobody}
  BY OutParts
<1> QED
  BY <1>1, <1>3, <1>4, <1>5, <1>6, <1>7, TakesLane

LEMMA LaneTakesExtLane ==
    ASSUME OutOK, NEW h \in Hyperways, LaneTakesExt(h)
    PROVE  \E c \in Conns :
              /\ ExtPost(c) = Head(mail[h])
              /\ LaneIs(h, Tail(mail[h]), queue[h], c)
              /\ Len(Tail(mail[h])) <= MailCap
              /\ InSeq(mail[h]) = {ExtPost(c)} \union InSeq(Tail(mail[h]))
              /\ h /= Home /\ h \notin requeueing
<1>1. LaneTakes(h) /\ queue' = queue /\ mail[h] \in Seq(Posts) /\ mail[h] /= <<>>
  BY OutParts DEF LaneTakesExt, LaneTakes
<1>2. Head(mail[h]) \in Posts /\ Head(mail[h]).kind = "ext"
  BY <1>1, Takes DEF LaneTakesExt
<1>3. PICK c \in Conns : c = Head(mail[h]).no /\ ExtPost(c) = Head(mail[h])
  BY <1>2, PostNames
<1>4. ear' = [ear EXCEPT ![h] = c]
  BY <1>3 DEF LaneTakesExt
<1>5. queue[h] \in Seq(Waves)
  BY OutParts
<1> QED
  BY <1>1, <1>3, <1>4, <1>5, TakesLane

LEMMA LaneTakesResetLane ==
    ASSUME OutOK, NEW h \in Hyperways, LaneTakesReset(h)
    PROVE  /\ ResetExt = Head(mail[h])
           /\ LaneIs(h, Tail(mail[h]), queue[h], Nobody)
           /\ Len(Tail(mail[h])) <= MailCap
           /\ InSeq(mail[h]) = {ResetExt} \union InSeq(Tail(mail[h]))
           /\ h /= Home /\ h \notin requeueing
<1>1. /\ LaneTakes(h) /\ queue' = queue /\ ear' = [ear EXCEPT ![h] = Nobody]
      /\ ResetExt = Head(mail[h]) /\ queue[h] \in Seq(Waves)
  BY OutParts DEF LaneTakesReset
<1> QED
  BY <1>1, TakesLane

\* Its queue gives its oldest wave.
LEMMA QueueHead ==
    ASSUME OutOK, NEW h \in Hyperways, queue[h] /= <<>>
    PROVE  /\ Head(queue[h]) \in Waves /\ Tail(queue[h]) \in Seq(Waves)
           /\ Len(Tail(queue[h])) <= QueueCap + 1
           /\ InSeq(queue[h]) = {Head(queue[h])} \union InSeq(Tail(queue[h]))
<1>1. /\ Head(queue[h]) \in Waves /\ Tail(queue[h]) \in Seq(Waves)
      /\ Len(queue[h]) \in Nat \ {0} /\ Len(Tail(queue[h])) = Len(queue[h]) - 1
      /\ InSeq(queue[h]) = {Head(queue[h])} \union InSeq(Tail(queue[h]))
  BY OutParts, Takes
<1> QED
  BY <1>1, OutParts, CapTypes

LEMMA HandOverLane ==
    ASSUME TypeOK, NEW h \in Hyperways, HandOver(h)
    PROVE  \E c \in Conns, w \in Waves :
              /\ c = ear[h] /\ w = Head(queue[h]) /\ queue[h] /= <<>>
              /\ LaneIs(h, mail[h], Tail(queue[h]), c)
              /\ heard[c] \in Seq(Waves \union {Greeting}) /\ heard'[c] = Append(heard[c], w)
              /\ \A d \in Conns \ {c} : heard'[d] = heard[d]
              /\ UNCHANGED <<mail, ear>>
<1>1. OutOK /\ queue[h] /= <<>> /\ ear[h] \in Conns
  BY OutParts, TypeParts DEF HandOver, Busy
<1>2. PICK c \in Conns, w \in Waves : c = ear[h] /\ w = Head(queue[h])
  BY <1>1, QueueHead
<1>3. /\ heard[c] \in Seq(Waves \union {Greeting}) /\ heard'[c] = Append(heard[c], w)
      /\ \A d \in Conns \ {c} : heard'[d] = heard[d]
  BY <1>2, TypeParts DEF HeardOK, HandOver
<1>4. queue' = [queue EXCEPT ![h] = Tail(queue[h])] /\ UNCHANGED <<mail, ear>>
  BY DEF HandOver
<1>5. Tail(queue[h]) \in Seq(Waves) /\ mail[h] \in Seq(Posts)
  BY <1>1, QueueHead, OutParts
<1>6. LaneIs(h, mail[h], Tail(queue[h]), c)
  BY <1>1, <1>2, <1>4, <1>5, LaneIsIt
<1> QED
  BY <1>1, <1>2, <1>3, <1>4, <1>6

LEMMA HandOverFailsLane ==
    ASSUME OutOK, NEW h \in Hyperways, HandOverFails(h)
    PROVE  /\ LaneIs(h, Append(mail[h], ResetExt), queue[h], ear[h])
           /\ Len(Append(mail[h], ResetExt)) <= MailCap
           /\ InSeq(Append(mail[h], ResetExt)) = InSeq(mail[h]) \union {ResetExt}
<1>1. Posted(h, ResetExt) /\ UNCHANGED <<queue, ear>>
  BY DEF HandOverFails
<1> QED
  BY <1>1, PostNames, PostedLane

\* A requeued wave goes to the end of the mailbox, or nowhere.
LEMMA RequeueLane ==
    ASSUME OutOK, NEW h \in Hyperways, Requeue(h)
    PROVE  \E w \in Waves, m \in Seq(Posts) :
              /\ w = Head(queue[h]) /\ queue[h] /= <<>>
              /\ LaneIs(h, m, Tail(queue[h]), ear[h])
              /\ Len(m) <= MailCap /\ h /= Home
              /\ \/ /\ m = Append(mail[h], w) /\ InSeq(m) = InSeq(mail[h]) \union {w}
                    /\ requeued' = requeued \union {w}
                 \/ m = mail[h] /\ requeued' = requeued
<1>1. queue[h] /= <<>> /\ h /= Home
  BY DEF OutOK, Busy, Requeue
<1>2. PICK w \in Waves : w = Head(queue[h])
  BY <1>1, QueueHead
<1>3. /\ mail[h] \in Seq(Posts) /\ Len(mail[h]) \in Nat /\ Len(mail[h]) <= MailCap
      /\ Tail(queue[h]) \in Seq(Waves) /\ ear[h] \in Conns \union {Nobody}
      /\ queue' = [queue EXCEPT ![h] = Tail(queue[h])] /\ ear' = ear
  BY <1>1, OutParts, QueueHead DEF Requeue
<1>4. CASE HasRoom(h)
  <2>1. PICK m : m = Append(mail[h], w)
    OBVIOUS
  <2>2. mail' = [mail EXCEPT ![h] = m] /\ requeued' = requeued \union {w}
    BY <1>2, <1>4, <2>1 DEF Requeue, Posted
  <2>3. m \in Seq(Posts) /\ Len(m) = Len(mail[h]) + 1 /\ InSeq(m) = InSeq(mail[h]) \union {w}
    BY <1>3, <2>1, PostNames, Appends
  <2>4. Len(m) <= MailCap
    BY <1>3, <1>4, <2>3, CapTypes DEF HasRoom
  <2>5. LaneIs(h, m, Tail(queue[h]), ear[h])
    BY <1>3, <2>2, <2>3, LaneIsIt
  <2> QED
    BY <1>1, <1>2, <2>1, <2>2, <2>3, <2>4, <2>5
<1>5. CASE ~HasRoom(h)
  <2>1. mail' = mail /\ requeued' = requeued
    BY <1>5 DEF Requeue, Posted
  <2>2. LaneIs(h, mail[h], Tail(queue[h]), ear[h])
    BY <1>3, <2>1, LaneIsIt
  <2> QED
    BY <1>1, <1>2, <1>3, <2>1, <2>2
<1> QED
  BY <1>4, <1>5

LEMMA HandOverHomeLane ==
    ASSUME TypeOK, HandOverHome
    PROVE  \E w \in Waves :
              /\ w = Head(mail[Home]) /\ mail[Home] /= <<>> /\ home' = Append(home, w)
              /\ LaneIs(Home, Tail(mail[Home]), queue[Home], ear[Home])
              /\ Len(Tail(mail[Home])) <= MailCap
              /\ InSeq(mail[Home]) = {w} \union InSeq(Tail(mail[Home]))
<1> DEFINE t == Tail(mail[Home])
<1>1. /\ mail[Home] \in Seq(Posts) /\ mail[Home] /= <<>> /\ Len(mail[Home]) <= MailCap
      /\ queue[Home] \in Seq(Waves) /\ ear[Home] \in Conns \union {Nobody}
      /\ InSeq(mail[Home]) \subseteq Waves
  BY Names, OutParts, TypeParts DEF HandOverHome
<1>2. /\ t \in Seq(Posts) /\ Len(mail[Home]) \in Nat \ {0}
      /\ Len(t) = Len(mail[Home]) - 1 /\ InSeq(mail[Home]) = {Head(mail[Home])} \union InSeq(t)
  BY <1>1, Takes
<1>3. mail' = [mail EXCEPT ![Home] = t] /\ UNCHANGED <<queue, ear>>
  BY DEF HandOverHome
<1> HIDE DEF t
<1>4. LaneIs(Home, t, queue[Home], ear[Home])
  BY <1>1, <1>2, <1>3, LaneIsIt, Names, TypeParts
<1>5. Head(mail[Home]) \in Waves
  BY <1>1, <1>2
<1> QED
  BY <1>1, <1>2, <1>4, <1>5, CapTypes DEF t, HandOverHome

\* Lanes move without the connections or the interchange's channel.
LEMMA LaneSteps ==
    ASSUME NEW h \in Hyperways, Lane(h) \/ HandOver(h)
    PROVE  UNCHANGED <<gate, calls, taskVars, inbound, conn, bound, countVars>>
<1>1. CASE HandOver(h)
  BY <1>1 DEF HandOver
<1>2. CASE LaneTakesWave(h)
  BY <1>2 DEF LaneTakesWave, connVars
<1>3. CASE LaneTakesExt(h)
  BY <1>3 DEF LaneTakesExt, connVars
<1>4. CASE LaneTakesReset(h)
  BY <1>4 DEF LaneTakesReset, connVars
<1>5. CASE HandOverFails(h)
  BY <1>5 DEF HandOverFails, connVars
<1>6. CASE Requeue(h)
  BY <1>6 DEF Requeue, connVars
<1> QED
  BY <1>1, <1>2, <1>3, <1>4, <1>5, <1>6 DEF Lane

LEMMA LaneStepTypes ==
    ASSUME TypeInv, OutOK', UNCHANGED <<gate, calls, taskVars, inbound, conn, bound, countVars>>,
           HeardOK', HomeOK'
    PROVE  TypeInv'
<1>1. ConnOK' /\ \A d \in Conns : BoundOK(d)' /\ MountOK(d)'
  BY OtherTypes DEF taskVars, InCalls
<1> QED
  BY <1>1, TypeParts, PartsType, Untouched DEF TypeInv, taskVars

LEMMA RouteType == ASSUME TypeInv, Route PROVE TypeInv'
<1>1. OutOK'
  <2>1. PICK w \in Waves, h \in Hyperways :
              /\ LaneIs(h, Append(mail[h], w), queue[h], ear[h])
              /\ Len(Append(mail[h], w)) <= MailCap
              /\ InSeq(Append(mail[h], w)) = InSeq(mail[h]) \union {w}
    BY RouteLane DEF TypeInv
  <2>2. UNCHANGED <<requeueing, requeued>> /\ OutOK
    BY TypeParts DEF Route, TypeInv
  <2>3. /\ Len(queue[h]) <= QueueCap + 1 /\ (h = Home => InSeq(mail[h]) \subseteq Waves /\ queue[h] = <<>>)
        /\ h \in requeueing => h /= Home /\ queue[h] /= <<>> /\ ear[h] /= Nobody
        /\ requeued \subseteq Waves
    BY <2>2, OutParts DEF OutOK
  <2> QED
    BY <2>1, <2>2, <2>3, OutTypes
<1>2. task' = "recv" /\ TaskOK'
  BY TypeParts DEF TypeInv, TaskOK, Route
<1>3. ConnOK' /\ \A d \in Conns : BoundOK(d)' /\ MountOK(d)'
  BY OtherTypes DEF Route, connVars, InCalls
<1> QED
  BY <1>1, <1>2, <1>3, TypeParts, PartsType, Untouched DEF TypeInv, Route, connVars

LEMMA RouteTimeoutType == ASSUME TypeInv, RouteTimeout PROVE TypeInv'
<1>1. task' = "recv" /\ TaskOK'
  BY TypeParts DEF TypeInv, TaskOK, RouteTimeout
<1>2. ConnOK' /\ \A d \in Conns : BoundOK(d)' /\ MountOK(d)'
  BY OtherTypes DEF RouteTimeout, connVars, InCalls
<1> QED
  BY <1>1, <1>2, TypeParts, PartsType, Untouched DEF TypeInv, RouteTimeout, connVars, laneVars

LEMMA MountedType == ASSUME TypeInv, Mounted PROVE TypeInv'
<1>1. PICK c \in Conns, h \in Hyperways \ {Home} :
              /\ c = current.conn /\ h = table[SurfaceOf[c]]
              /\ LaneIs(h, Append(mail[h], ExtPost(c)), queue[h], ear[h])
              /\ Len(Append(mail[h], ExtPost(c))) <= MailCap
              /\ heard'[c] = <<Greeting>> /\ \A d \in Conns \ {c} : heard'[d] = heard[d]
  BY MountedLane DEF TypeInv
<1>2. OutOK'
  <2>1. UNCHANGED <<requeueing, requeued>> /\ OutOK
    BY TypeParts DEF Mounted, TypeInv
  <2>2. /\ Len(queue[h]) <= QueueCap + 1
        /\ h \in requeueing => h /= Home /\ queue[h] /= <<>> /\ ear[h] /= Nobody
        /\ requeued \subseteq Waves
    BY <2>1, OutParts DEF OutOK
  <2> QED
    BY <1>1, <2>1, <2>2, OutTypes
<1>3. Mounting(c) /\ ~InCalls(Mount(c)) /\ ~Before(calls, Mount(c), Mount(c))
  BY <1>1 DEF TypeInv, MountOK, Mounting, Mounted
<1>4. task' = "recv" /\ TaskOK'
  BY TypeParts DEF TypeInv, TaskOK, Mounted
<1>5. ConnOK' /\ \A d \in Conns : BoundOK(d)'
  <2>1. conn' = [conn EXCEPT ![c] = "live"] /\ bound' = [bound EXCEPT ![c] = h]
    BY <1>1 DEF Mounted
  <2>2. ConnOK'
    BY <2>1, TypeParts DEF TypeInv, ConnOK
  <2>3. ASSUME NEW d \in Conns PROVE BoundOK(d)'
    <3>1. IF d = c THEN conn'[d] = "live" /\ bound'[d] = h
                   ELSE conn'[d] = conn[d] /\ bound'[d] = bound[d]
      BY <2>1, TypeParts DEF TypeInv, ConnOK
    <3> QED
      BY <3>1 DEF TypeInv, BoundOK
  <2> QED
    BY <2>2, <2>3
<1>6. HeardOK'
  BY <1>1, TypeParts DEF TypeInv, HeardOK, Mounted
<1>7. ASSUME NEW d \in Conns PROVE MountOK(d)'
  <2>1. d /= c => conn'[d] = conn[d]
    BY <1>1 DEF Mounted
  <2>2. ~Mounting(d)' /\ calls' = calls
    BY <1>4 DEF Mounting, Mounted
  <2> QED
    BY <1>3, <2>1, <2>2 DEF TypeInv, MountOK, InCalls
<1> QED
  BY <1>2, <1>4, <1>5, <1>6, <1>7, TypeParts, PartsType, Untouched DEF TypeInv, Mounted

LEMMA LaneTakesWaveType ==
    ASSUME TypeInv, NEW h \in Hyperways, LaneTakesWave(h) PROVE TypeInv'
<1>1. OutOK /\ UNCHANGED <<requeueing, requeued>> /\ requeued \subseteq Waves
  BY TypeParts DEF TypeInv, LaneTakesWave, OutOK
<1>2. PICK w \in Waves, q \in Seq(Waves) :
              /\ LaneIs(h, Tail(mail[h]), q, ear[h])
              /\ Len(Tail(mail[h])) <= MailCap /\ Len(q) <= QueueCap + 1
              /\ h /= Home /\ h \notin requeueing
  BY <1>1, LaneTakesWaveLane
<1>3. OutOK'
  BY <1>1, <1>2, OutTypes
<1>4. HeardOK' /\ HomeOK'
  BY TypeParts, Untouched DEF TypeInv, LaneTakesWave, connVars
<1> QED
  BY <1>3, <1>4, LaneStepTypes DEF LaneTakesWave, connVars

LEMMA LaneTakesExtType ==
    ASSUME TypeInv, NEW h \in Hyperways, LaneTakesExt(h) PROVE TypeInv'
<1>1. OutOK /\ UNCHANGED <<requeueing, requeued>> /\ requeued \subseteq Waves
  BY TypeParts DEF TypeInv, LaneTakesExt, OutOK
<1>2. PICK c \in Conns :
              /\ LaneIs(h, Tail(mail[h]), queue[h], c)
              /\ Len(Tail(mail[h])) <= MailCap
              /\ h /= Home /\ h \notin requeueing
  BY <1>1, LaneTakesExtLane
<1>3. OutOK'
  BY <1>1, <1>2, OutParts, OutTypes
<1>4. HeardOK' /\ HomeOK'
  BY TypeParts, Untouched DEF TypeInv, LaneTakesExt, connVars
<1> QED
  BY <1>3, <1>4, LaneStepTypes DEF LaneTakesExt, connVars

LEMMA LaneTakesResetType ==
    ASSUME TypeInv, NEW h \in Hyperways, LaneTakesReset(h) PROVE TypeInv'
<1>1. OutOK /\ UNCHANGED <<requeueing, requeued>> /\ requeued \subseteq Waves
  BY TypeParts DEF TypeInv, LaneTakesReset, OutOK
<1>2. /\ LaneIs(h, Tail(mail[h]), queue[h], Nobody)
      /\ Len(Tail(mail[h])) <= MailCap
      /\ h /= Home /\ h \notin requeueing
  BY <1>1, LaneTakesResetLane
<1>3. OutOK'
  BY <1>1, <1>2, OutParts, OutTypes
<1>4. HeardOK' /\ HomeOK'
  BY TypeParts, Untouched DEF TypeInv, LaneTakesReset, connVars
<1> QED
  BY <1>3, <1>4, LaneStepTypes DEF LaneTakesReset, connVars

LEMMA HandOverType == ASSUME TypeInv, NEW h \in Hyperways, HandOver(h) PROVE TypeInv'
<1>1. /\ OutOK /\ UNCHANGED <<requeueing, requeued>> /\ requeued \subseteq Waves
      /\ h \notin requeueing /\ queue[h] /= <<>>
  BY TypeParts DEF TypeInv, HandOver, OutOK, Busy
<1>2. PICK c \in Conns, w \in Waves :
              /\ LaneIs(h, mail[h], Tail(queue[h]), c)
              /\ heard[c] \in Seq(Waves \union {Greeting}) /\ heard'[c] = Append(heard[c], w)
              /\ heard' = [heard EXCEPT ![c] = Append(@, w)]
  <2>1. PICK c \in Conns, w \in Waves :
              /\ c = ear[h] /\ w = Head(queue[h])
              /\ LaneIs(h, mail[h], Tail(queue[h]), c)
              /\ heard[c] \in Seq(Waves \union {Greeting}) /\ heard'[c] = Append(heard[c], w)
    BY HandOverLane DEF TypeInv
  <2> QED
    BY <2>1 DEF HandOver
<1>3. OutOK'
  <2>1. Len(Tail(queue[h])) <= QueueCap + 1
    BY <1>1, QueueHead
  <2> QED
    BY <1>1, <1>2, <2>1, OutParts, OutTypes
<1>4. HeardOK'
  <2>1. Append(heard[c], w) \in Seq(Waves \union {Greeting})
    BY <1>2
  <2> QED
    BY <1>2, <2>1, TypeParts DEF TypeInv, HeardOK
<1>5. HomeOK'
  BY TypeParts, Untouched DEF TypeInv, HandOver
<1> QED
  BY <1>3, <1>4, <1>5, LaneStepTypes DEF HandOver

LEMMA HandOverFailsType ==
    ASSUME TypeInv, NEW h \in Hyperways, HandOverFails(h) PROVE TypeInv'
<1>1. /\ OutOK /\ UNCHANGED requeued /\ requeued \subseteq Waves
      /\ requeueing' = requeueing \union {h} /\ queue[h] /= <<>> /\ ear[h] /= Nobody
  BY TypeParts DEF TypeInv, HandOverFails, OutOK, Busy
<1>2. h /= Home
  BY <1>1, OutParts
<1>3. /\ LaneIs(h, Append(mail[h], ResetExt), queue[h], ear[h])
      /\ Len(Append(mail[h], ResetExt)) <= MailCap
  BY <1>1, HandOverFailsLane
<1>4. OutOK'
  BY <1>1, <1>2, <1>3, OutParts, OutTypes
<1>5. HeardOK' /\ HomeOK'
  BY TypeParts, Untouched DEF TypeInv, HandOverFails, connVars
<1> QED
  BY <1>4, <1>5, LaneStepTypes DEF HandOverFails, connVars

LEMMA RequeueType == ASSUME TypeInv, NEW h \in Hyperways, Requeue(h) PROVE TypeInv'
<1>1. /\ OutOK /\ requeued \subseteq Waves /\ requeueing' = requeueing \ {h}
  BY TypeParts DEF TypeInv, Requeue, OutOK
<1>2. PICK w \in Waves, m \in Seq(Posts) :
              /\ queue[h] /= <<>> /\ LaneIs(h, m, Tail(queue[h]), ear[h])
              /\ Len(m) <= MailCap /\ h /= Home
              /\ requeued' = requeued \union {w} \/ requeued' = requeued
  BY <1>1, RequeueLane
<1>3. Len(Tail(queue[h])) <= QueueCap + 1 /\ h \notin requeueing' /\ requeued' \subseteq Waves
  BY <1>1, <1>2, QueueHead
<1>4. OutOK'
  BY <1>1, <1>2, <1>3, OutTypes
<1>5. HeardOK' /\ HomeOK'
  BY TypeParts, Untouched DEF TypeInv, Requeue, connVars
<1> QED
  BY <1>4, <1>5, LaneStepTypes DEF Requeue, connVars

LEMMA HandOverHomeType == ASSUME TypeInv, HandOverHome PROVE TypeInv'
<1>1. OutOK /\ UNCHANGED <<requeueing, requeued>> /\ requeued \subseteq Waves /\ Home \in Hyperways
  BY Names, TypeParts DEF TypeInv, HandOverHome, OutOK
<1>2. PICK w \in Waves :
              /\ home' = Append(home, w)
              /\ LaneIs(Home, Tail(mail[Home]), queue[Home], ear[Home])
              /\ Len(Tail(mail[Home])) <= MailCap
              /\ InSeq(mail[Home]) = {w} \union InSeq(Tail(mail[Home]))
  BY HandOverHomeLane DEF TypeInv
<1>3. /\ Len(queue[Home]) <= QueueCap + 1 /\ InSeq(mail[Home]) \subseteq Waves
      /\ Home \notin requeueing /\ queue[Home] = <<>>
  BY <1>1, OutParts
<1>4. OutOK'
  BY <1>1, <1>2, <1>3, OutTypes
<1>5. HomeOK' /\ HeardOK'
  BY <1>2, TypeParts, Untouched DEF TypeInv, HomeOK, HandOverHome, connVars
<1> QED
  BY <1>4, <1>5, LaneStepTypes DEF HandOverHome, connVars

LEMMA InitType == ASSUME Init PROVE TypeInv
<1>1. CallsOK /\ HomeOK /\ CountOK
  BY CapTypes DEF Init, CallsOK, HomeOK, CountOK
<1>2. TableOK /\ TaskOK
  <2>1. /\ table \in [Surfaces \union {"home"} -> Hyperways \union {NoHyperway}]
        /\ \A s \in Surfaces : table[s] \in {Standing(s), NoHyperway}
    BY Names DEF Init
  <2>2. TableOK
    BY <2>1, Names DEF Init, TableOK
  <2> QED
    BY <2>2 DEF Init, TaskOK
<1>3. LanesOK /\ OutOK
  <2>1. <<>> \in Seq(Waves) /\ <<>> \in Seq(Posts) /\ Len(<<>>) = 0 /\ InSeq(<<>>) = {}
    BY DEF InSeq
  <2> QED
    BY <2>1, CapTypes, Names DEF Init, LanesOK, OutOK
<1>4. ConnOK /\ HeardOK
  BY DEF Init, ConnOK, HeardOK
<1>5. ASSUME NEW c \in Conns PROVE BoundOK(c) /\ MountOK(c)
  BY DEF Init, BoundOK, MountOK, InCalls, InSeq, Before
<1> QED
  BY <1>1, <1>2, <1>3, <1>4, <1>5, TypeParts DEF TypeInv

LEMMA StepType == ASSUME TypeInv, [Next]_vars PROVE TypeInv'
<1>1. CASE UNCHANGED vars
  <2>1. ConnOK' /\ \A d \in Conns : BoundOK(d)' /\ MountOK(d)'
    BY <1>1, OtherTypes DEF vars, connVars, taskVars, InCalls
  <2> QED
    BY <1>1, <2>1, TypeParts, PartsType, Untouched
    DEF TypeInv, vars, taskVars, laneVars, connVars
<1>2. CASE Task
  BY <1>2, TakeInternalType, TakeRemoveType, TakeWaveType, TakeMountType, RouteType,
     MountedType
  DEF Task
<1>3. CASE RouteTimeout \/ HandOverHome
  BY <1>3, RouteTimeoutType, HandOverHomeType
<1>4. ASSUME NEW c \in Conns,
             Enter(c) \/ AskMount(c) \/ Drop(c) \/ AskRemove(c) \/ SendUp(c)
      PROVE  TypeInv'
  BY <1>4, EnterType, AskMountType, DropType, AskRemoveType, SendUpType
<1>5. ASSUME NEW s \in Surfaces, SendDown(s) PROVE TypeInv'
  BY <1>5, SendDownType
<1>6. ASSUME NEW h \in Hyperways, Forward(h) \/ ForwardTimeout(h) PROVE TypeInv'
  BY <1>6, ForwardType, ForwardTimeoutType
<1>7. ASSUME NEW h \in Hyperways, Lane(h) \/ HandOver(h) PROVE TypeInv'
  BY <1>7, LaneTakesWaveType, LaneTakesExtType, LaneTakesResetType, HandOverFailsType,
     RequeueType, HandOverType
  DEF Lane
<1> QED
  BY <1>1, <1>2, <1>3, <1>4, <1>5, <1>6, <1>7 DEF Next

LEMMA TypeInvTheorem == Spec => []TypeInv
  BY InitType, StepType, PTL DEF Spec

\* Types and capacities hold throughout, and while the task waits in a wave or a
\* mount the hyperway it waits for is in the table.
THEOREM TypeTheorem == Spec => []TypeOK
<1>1. TypeInv => TypeOK
  BY DEF TypeInv
<1> QED
  BY <1>1, TypeInvTheorem, PTL
-----------------------------------------------------------------------------
(* Routes.                                                                 *)

Routed(c) == table[SurfaceOf[c]] /= NoHyperway
Undone(c) == \E d \in Conns : SurfaceOf[d] = SurfaceOf[c] /\ conn[d] = "removed"

\* Once a connection has knocked, its hyperway is on its way to the table or its
\* surface is routed, unless a removal has named the surface; and its add is
\* taken before its mount.
AddOK(c) == /\ conn[c] /= "idle" => InCalls(Internal(c)) \/ Routed(c) \/ Undone(c)
            /\ InCalls(Internal(c)) => conn[c] \in {"added", "waiting"} /\ ~Mounting(c)
            /\ ~Before(calls, Mount(c), Internal(c))

\* Only endpoints that were dropped are removed, and only removals fail mounts.
RemoveOK(c) == /\ InCalls(Remove(c)) => conn[c] = "removed"
               /\ conn[c] = "failed" => Undone(c)

\* Behind a MountInterchangeGate the hyperways stand.
StandingOK == gate = "Mount" => \A c \in Conns : /\ Routed(c)
                                                 /\ ~InCalls(Internal(c)) /\ ~InCalls(Remove(c))

RouteInv == StandingOK /\ \A c \in Conns : AddOK(c) /\ RemoveOK(c)

\* What is the same for a connection a step is not about.
Same(d) == /\ conn'[d] = conn[d]
           /\ Internal(d) \in InSeq(calls') <=> InCalls(Internal(d))
           /\ Remove(d) \in InSeq(calls') => InCalls(Remove(d))
           /\ Before(calls', Mount(d), Internal(d)) => Before(calls, Mount(d), Internal(d))
           /\ Mounting(d)' => Mounting(d)

RemovedStay == \A e \in Conns : conn[e] = "removed" => conn'[e] = "removed"

LEMMA UndoneKept == ASSUME RemovedStay, NEW d, Undone(d) PROVE Undone(d)'
  BY DEF RemovedStay, Undone

LEMMA SameKept ==
    ASSUME NEW d \in Conns, AddOK(d), RemoveOK(d), Same(d), RemovedStay,
           Routed(d) => Routed(d)' \/ Undone(d)'
    PROVE  AddOK(d)' /\ RemoveOK(d)'
<1>1. Undone(d) => Undone(d)'
  BY UndoneKept
<1> QED
  BY <1>1 DEF AddOK, RemoveOK, Same, InCalls

\* Steps that leave the gate, the table, the connections and their calls alone.
LEMMA OtherRoutes ==
    ASSUME RouteInv, UNCHANGED <<gate, table, conn>>,
           task' /= "mount" \/ UNCHANGED <<task, current>>,
           \A d \in Conns :
              /\ Internal(d) \in InSeq(calls') <=> InCalls(Internal(d))
              /\ Remove(d) \in InSeq(calls') => InCalls(Remove(d))
              /\ Before(calls', Mount(d), Internal(d)) => Before(calls, Mount(d), Internal(d))
    PROVE  RouteInv'
<1>1. \A d \in Conns : Same(d) /\ RemovedStay /\ (Routed(d) <=> Routed(d)')
  BY DEF Same, RemovedStay, Routed, Mounting
<1>2. \A d \in Conns : AddOK(d)' /\ RemoveOK(d)'
  BY <1>1, SameKept DEF RouteInv
<1>3. StandingOK'
  BY <1>1 DEF RouteInv, StandingOK, InCalls
<1> QED
  BY <1>2, <1>3 DEF RouteInv

LEMMA EnterRoutes == ASSUME TypeInv, RouteInv, NEW c \in Conns, Enter(c) PROVE RouteInv'
<1>1. /\ InSeq(calls') = InSeq(calls) \union {Internal(c)}
      /\ \A a, b : Before(calls', a, b)
                   => Before(calls, a, b) \/ (b = Internal(c) /\ a \in InSeq(calls))
  BY CalledTypes, CallNames, TypeParts DEF TypeInv, Enter
<1>2. /\ RemovedStay /\ conn'[c] = "added" /\ UNCHANGED <<gate, table, task, current>>
      /\ \A d \in Conns : d /= c => conn'[d] = conn[d]
  BY TypeParts DEF TypeInv, ConnOK, Enter, RemovedStay, taskVars
<1>3. ASSUME NEW d \in Conns, d /= c PROVE AddOK(d)' /\ RemoveOK(d)'
  <2>1. Same(d)
    BY <1>1, <1>2, <1>3, CallsDiffer DEF Same, InCalls, Mounting
  <2> QED
    BY <1>2, <2>1, SameKept DEF RouteInv, Routed
<1>4. AddOK(c)' /\ RemoveOK(c)'
  <2>1. ~InCalls(Mount(c)) /\ ~InCalls(Remove(c)) /\ ~Mounting(c)
    BY TypeParts DEF TypeInv, MountOK, RouteInv, RemoveOK, TaskOK, Mounting, Enter
  <2>2. ~Before(calls', Mount(c), Internal(c))
    BY <1>1, <2>1 DEF RouteInv, AddOK, InCalls
  <2>3. Internal(c) \in InSeq(calls') /\ Remove(c) \notin InSeq(calls')
    BY <1>1, <2>1, CallsDiffer DEF InCalls
  <2> QED
    BY <1>2, <2>1, <2>2, <2>3 DEF AddOK, RemoveOK, InCalls, Mounting
<1> QED
  BY <1>3, <1>4 DEF RouteInv, StandingOK, Enter

LEMMA AskMountRoutes == ASSUME TypeInv, RouteInv, NEW c \in Conns, AskMount(c) PROVE RouteInv'
<1>1. /\ InSeq(calls') = InSeq(calls) \union {Mount(c)}
      /\ \A a, b : Before(calls', a, b)
                   => Before(calls, a, b) \/ (b = Mount(c) /\ a \in InSeq(calls))
  BY CalledTypes, CallNames, TypeParts DEF TypeInv, AskMount
<1>2. /\ RemovedStay /\ conn'[c] = "waiting" /\ UNCHANGED <<gate, table, task, current>>
      /\ \A d \in Conns : d /= c => conn'[d] = conn[d]
  BY TypeParts DEF TypeInv, ConnOK, AskMount, RemovedStay, taskVars
<1>3. ASSUME NEW d \in Conns
      PROVE  /\ Internal(d) \in InSeq(calls') <=> InCalls(Internal(d))
             /\ Remove(d) \in InSeq(calls') <=> InCalls(Remove(d))
             /\ Before(calls', Mount(d), Internal(d)) => Before(calls, Mount(d), Internal(d))
             /\ (Mounting(d)' <=> Mounting(d)) /\ (Routed(d)' <=> Routed(d))
  BY <1>1, <1>2, CallsDiffer DEF InCalls, Mounting, Routed
<1>4. ASSUME NEW d \in Conns, d /= c PROVE AddOK(d)' /\ RemoveOK(d)'
  BY <1>2, <1>3, <1>4, SameKept DEF RouteInv, Same
<1>5. AddOK(c)' /\ RemoveOK(c)'
  <2>1. conn[c] = "idle" => Routed(c) /\ ~InCalls(Internal(c))
    BY TypeParts DEF TypeInv, TableOK, RouteInv, StandingOK, AskMount
  <2>2. InCalls(Internal(c)) \/ Routed(c) \/ Undone(c)
    BY <2>1 DEF RouteInv, AddOK
  <2>3. Undone(c) => Undone(c)'
    BY <1>2, UndoneKept
  <2>4. ~InCalls(Remove(c))
    BY DEF RouteInv, RemoveOK, AskMount
  <2> QED
    BY <1>2, <1>3, <2>2, <2>3, <2>4 DEF RouteInv, AddOK, RemoveOK, InCalls
<1>6. StandingOK'
  BY <1>2, <1>3 DEF RouteInv, StandingOK, InCalls
<1> QED
  BY <1>4, <1>5, <1>6 DEF RouteInv

\* An endpoint that is dropped was mounted after its hyperway was added.
LEMMA DropRoutes == ASSUME TypeInv, RouteInv, NEW c \in Conns, Drop(c) PROVE RouteInv'
<1>1. /\ RemovedStay /\ conn'[c] = "dropped" /\ conn[c] = "live"
      /\ UNCHANGED <<gate, table, calls, task, current>>
      /\ \A d \in Conns : d /= c => conn'[d] = conn[d]
  BY TypeParts DEF TypeInv, ConnOK, Drop, RemovedStay, taskVars
<1>2. ASSUME NEW d \in Conns, d /= c PROVE AddOK(d)' /\ RemoveOK(d)'
  BY <1>1, <1>2, SameKept DEF RouteInv, Same, InCalls, Mounting, Routed
<1>3. AddOK(c)' /\ RemoveOK(c)'
  BY <1>1, UndoneKept DEF RouteInv, AddOK, RemoveOK, InCalls, Routed
<1> QED
  BY <1>1, <1>2, <1>3 DEF RouteInv, StandingOK, InCalls, Routed

LEMMA AskRemoveRoutes == ASSUME TypeInv, RouteInv, NEW c \in Conns, AskRemove(c) PROVE RouteInv'
<1>1. /\ InSeq(calls') = InSeq(calls) \union {Remove(c)}
      /\ \A a, b : Before(calls', a, b)
                   => Before(calls, a, b) \/ (b = Remove(c) /\ a \in InSeq(calls))
  BY CalledTypes, CallNames, TypeParts DEF TypeInv, AskRemove
<1>2. /\ RemovedStay /\ conn'[c] = "removed" /\ conn[c] = "dropped"
      /\ UNCHANGED <<gate, table, task, current>>
      /\ \A d \in Conns : d /= c => conn'[d] = conn[d]
  BY TypeParts DEF TypeInv, ConnOK, AskRemove, RemovedStay, taskVars
<1>3. ASSUME NEW d \in Conns
      PROVE  /\ Internal(d) \in InSeq(calls') <=> InCalls(Internal(d))
             /\ Before(calls', Mount(d), Internal(d)) => Before(calls, Mount(d), Internal(d))
             /\ d /= c => (Remove(d) \in InSeq(calls') <=> InCalls(Remove(d)))
  BY <1>1, CallsDiffer DEF InCalls
<1>4. ASSUME NEW d \in Conns, d /= c PROVE AddOK(d)' /\ RemoveOK(d)'
  BY <1>2, <1>3, <1>4, SameKept DEF RouteInv, Same, Mounting, Routed
<1>5. AddOK(c)' /\ RemoveOK(c)'
  <2>1. Undone(c)'
    BY <1>2 DEF Undone
  <2> QED
    BY <1>2, <1>3, <2>1 DEF RouteInv, AddOK, RemoveOK, InCalls
<1> QED
  BY <1>4, <1>5 DEF RouteInv, StandingOK, AskRemove

LEMMA ForwardRoutes == ASSUME TypeInv, RouteInv, NEW h \in Hyperways, Forward(h) PROVE RouteInv'
<1> DEFINE w == Head(inbound[h])
<1>1. w \in Waves
  BY InboundHead, TypeParts DEF TypeInv, Forward
<1>2. /\ InSeq(calls') = InSeq(calls) \union {WaveCall(w)}
      /\ \A a, b : Before(calls', a, b)
                   => Before(calls, a, b) \/ (b = WaveCall(w) /\ a \in InSeq(calls))
  BY <1>1, CalledTypes, CallNames, TypeParts DEF TypeInv, Forward
<1>3. \A d : Internal(d) /= WaveCall(w) /\ Remove(d) /= WaveCall(w)
  BY CallsDiffer
<1> QED
  BY <1>2, <1>3, OtherRoutes DEF Forward, taskVars, connVars, InCalls

\* What a call of another kind leaves behind it.
LEMMA TakenRoutes ==
    ASSUME TypeInv, NEW kind, Taking(kind)
    PROVE  \A d \in Conns :
              /\ Internal(d) \in InSeq(calls') => InCalls(Internal(d))
              /\ kind /= "Internal" /\ InCalls(Internal(d)) => Internal(d) \in InSeq(calls')
              /\ Remove(d) \in InSeq(calls') => InCalls(Remove(d))
              /\ Before(calls', Mount(d), Internal(d)) => Before(calls, Mount(d), Internal(d))
  BY TakingTypes, CallsDiffer, TypeParts DEF TypeInv, InCalls

LEMMA TakeWaveRoutes == ASSUME TypeInv, RouteInv, TakeWave PROVE RouteInv'
<1>1. task' /= "mount" /\ UNCHANGED <<gate, table, conn>>
  BY DEF TakeWave, Taking, connVars
<1> QED
  BY <1>1, TakenRoutes, OtherRoutes DEF TakeWave

\* The hyperway that is added routes its surface.
LEMMA TakeInternalRoutes == ASSUME TypeInv, RouteInv, TakeInternal PROVE RouteInv'
<1>1. PICK c \in Conns : Head(calls) = Internal(c)
  BY TakingTypes, CallNames, TypeParts DEF TypeInv, TakeInternal
<1>2. InSeq(calls) = {Internal(c)} \union InSeq(calls')
  BY <1>1, TakingTypes, TypeParts DEF TypeInv, TakeInternal
<1>3. gate /= "Mount"
  BY <1>2 DEF RouteInv, StandingOK, InCalls
<1>4. \A d \in Conns : (Routed(d) => Routed(d)') /\ Routed(c)'
  <2>1. table' = [table EXCEPT ![SurfaceOf[c]] = Added(c)]
    BY <1>1, CallsDiffer DEF TakeInternal
  <2> QED
    BY <2>1, Names, TypeParts DEF TypeInv, TableOK, Routed
<1>5. \A d \in Conns : d /= c => (InCalls(Internal(d)) => Internal(d) \in InSeq(calls'))
  BY <1>2, CallsDiffer DEF InCalls
<1>6. ASSUME NEW d \in Conns PROVE AddOK(d)' /\ RemoveOK(d)'
  <2>1. RemovedStay /\ conn' = conn /\ UNCHANGED <<task, current>>
    BY DEF TakeInternal, connVars, RemovedStay
  <2>2. Undone(d) => Undone(d)'
    BY <2>1, UndoneKept
  <2> QED
    BY <1>4, <1>5, <2>1, <2>2, TakenRoutes
    DEF RouteInv, AddOK, RemoveOK, InCalls, Mounting, TakeInternal
<1> QED
  BY <1>3, <1>6 DEF RouteInv, StandingOK, TakeInternal

\* What is not routed any more, a removal has named.
LEMMA TakeRemoveRoutes == ASSUME TypeInv, RouteInv, TakeRemove PROVE RouteInv'
<1>1. PICK c \in Conns : Head(calls) = Remove(c) /\ InCalls(Remove(c))
  BY TakingTypes, CallNames, TypeParts DEF TypeInv, TakeRemove, InCalls
<1>2. gate /= "Mount" /\ conn[c] = "removed"
  BY <1>1 DEF RouteInv, StandingOK, RemoveOK
<1>3. ASSUME NEW d \in Conns PROVE AddOK(d)' /\ RemoveOK(d)'
  <2>1. RemovedStay /\ conn' = conn /\ UNCHANGED <<task, current>>
    BY DEF TakeRemove, connVars, RemovedStay
  <2>2. Routed(d) => Routed(d)' \/ Undone(d)'
    <3>1. CASE SurfaceOf[d] = SurfaceOf[c]
      BY <1>2, <2>1, <3>1 DEF Undone
    <3>2. CASE SurfaceOf[d] /= SurfaceOf[c]
      <4>1. table' = [table EXCEPT ![SurfaceOf[c]] = NoHyperway]
        BY <1>1, CallsDiffer DEF TakeRemove
      <4> QED
        BY <3>2, <4>1 DEF Routed
    <3> QED
      BY <3>1, <3>2
  <2>3. Same(d)
    BY <2>1, TakenRoutes DEF TakeRemove, Same, Mounting
  <2> QED
    BY <2>1, <2>2, <2>3, SameKept DEF RouteInv
<1> QED
  BY <1>2, <1>3 DEF RouteInv, StandingOK, TakeRemove

\* The add of a connection whose mount is taken was taken before.
LEMMA TakeMountRoutes == ASSUME TypeInv, RouteInv, TakeMount PROVE RouteInv'
<1>1. PICK c \in Conns : Head(calls) = Mount(c) /\ InCalls(Mount(c)) /\ task = "recv"
  BY TakingTypes, CallNames, TypeParts DEF TypeInv, TakeMount, InCalls
<1>1a. Head(calls).conn = c
  BY <1>1, CallsDiffer
<1>2. ~InCalls(Internal(c)) /\ Internal(c) \notin InSeq(calls')
  <2>1. Internal(c) \notin InSeq(calls')
    BY <1>1, TakingTypes, TypeParts DEF TypeInv, TakeMount, RouteInv, AddOK
  <2> QED
    BY <2>1, TakenRoutes DEF TakeMount
<1>3. conn[c] = "waiting"
  BY <1>1 DEF TypeInv, MountOK
<1>4. RemovedStay /\ UNCHANGED <<gate, table>> /\ \A d \in Conns : d /= c => conn'[d] = conn[d]
  BY <1>1a, <1>3, TypeParts DEF TypeInv, ConnOK, TakeMount, RemovedStay
<1>5. \A d \in Conns : Mounting(d)' => d = c
  BY <1>1, CallsDiffer DEF TakeMount, Mounting
<1>6. ASSUME NEW d \in Conns, d /= c PROVE AddOK(d)' /\ RemoveOK(d)'
  <2>1. Same(d)
    BY <1>4, <1>5, <1>6, TakenRoutes DEF TakeMount, Same
  <2> QED
    BY <1>4, <2>1, SameKept DEF RouteInv, Routed
<1>7. AddOK(c)' /\ RemoveOK(c)'
  <2>1. Undone(c) => Undone(c)'
    BY <1>4, UndoneKept
  <2>2. Routed(c) \/ Undone(c)
    BY <1>2, <1>3 DEF RouteInv, AddOK
  <2>3. ~InCalls(Remove(c)) /\ ~Before(calls, Mount(c), Internal(c))
    BY <1>3 DEF RouteInv, AddOK, RemoveOK
  <2>4. conn'[c] = "waiting" \/ (conn'[c] = "failed" /\ ~Routed(c))
    BY <1>3, TypeParts DEF TypeInv, ConnOK, TakeMount, Routed
  <2> QED
    BY <1>2, <2>1, <2>2, <2>3, <2>4, TakenRoutes
    DEF AddOK, RemoveOK, InCalls, Routed, TakeMount
<1>8. StandingOK'
  BY TakenRoutes DEF RouteInv, StandingOK, InCalls, Routed, TakeMount
<1> QED
  BY <1>6, <1>7, <1>8 DEF RouteInv

LEMMA MountedRoutes == ASSUME TypeInv, RouteInv, Mounted PROVE RouteInv'
<1>1. PICK c \in Conns : c = current.conn /\ Mounting(c) /\ conn[c] = "waiting"
  <2>1. current \in CallTypes
    BY TypeParts, CallsDiffer DEF TypeInv, TaskOK, Mounted
  <2> QED
    BY <2>1, CallNames, TypeParts DEF TypeInv, TaskOK, Mounted, Mounting
<1>2. /\ RemovedStay /\ conn'[c] = "live" /\ UNCHANGED <<gate, table, calls>>
      /\ \A d \in Conns : d /= c => conn'[d] = conn[d]
  BY <1>1, TypeParts DEF TypeInv, ConnOK, Mounted, RemovedStay
<1>3. \A d \in Conns : ~Mounting(d)'
  BY DEF Mounting, Mounted
<1>4. ASSUME NEW d \in Conns, d /= c PROVE AddOK(d)' /\ RemoveOK(d)'
  BY <1>2, <1>3, <1>4, SameKept DEF RouteInv, Same, InCalls, Routed
<1>5. AddOK(c)' /\ RemoveOK(c)'
  BY <1>1, <1>2, UndoneKept DEF RouteInv, AddOK, RemoveOK, InCalls, Routed
<1> QED
  BY <1>2, <1>4, <1>5 DEF RouteInv, StandingOK, InCalls, Routed

LEMMA StepRoutes == ASSUME TypeInv, RouteInv, [Next]_vars PROVE RouteInv'
<1>1. CASE UNCHANGED vars
  BY <1>1, OtherRoutes DEF vars, taskVars, connVars, InCalls
<1>2. CASE Route \/ RouteTimeout
  BY <1>2, OtherRoutes DEF Route, RouteTimeout, connVars, InCalls
<1>3. CASE TakeInternal \/ TakeRemove \/ TakeWave \/ TakeMount \/ Mounted
  BY <1>3, TakeInternalRoutes, TakeRemoveRoutes, TakeWaveRoutes, TakeMountRoutes,
     MountedRoutes
<1>4. CASE HandOverHome
  BY <1>4, OtherRoutes DEF HandOverHome, taskVars, connVars, InCalls
<1>5. ASSUME NEW c \in Conns, Enter(c) \/ AskMount(c) \/ Drop(c) \/ AskRemove(c) PROVE RouteInv'
  BY <1>5, EnterRoutes, AskMountRoutes, DropRoutes, AskRemoveRoutes
<1>6. ASSUME NEW c \in Conns, SendUp(c) PROVE RouteInv'
  BY <1>6, OtherRoutes DEF SendUp, taskVars, connVars, InCalls
<1>7. ASSUME NEW s \in Surfaces, SendDown(s) PROVE RouteInv'
  BY <1>7, OtherRoutes DEF SendDown, taskVars, connVars, InCalls
<1>8. ASSUME NEW h \in Hyperways, Forward(h) \/ ForwardTimeout(h) PROVE RouteInv'
  <2>1. CASE Forward(h)
    BY <2>1, ForwardRoutes
  <2>2. CASE ForwardTimeout(h)
    BY <2>2, OtherRoutes DEF ForwardTimeout, taskVars, connVars, InCalls
  <2> QED
    BY <1>8, <2>1, <2>2
<1>9. ASSUME NEW h \in Hyperways, Lane(h) \/ HandOver(h) PROVE RouteInv'
  <2>1. UNCHANGED <<gate, calls, taskVars, inbound, conn, bound, countVars>>
    BY <1>9, LaneSteps
  <2> QED
    BY <2>1, OtherRoutes DEF taskVars, InCalls
<1> QED
  BY <1>1, <1>2, <1>3, <1>4, <1>5, <1>6, <1>7, <1>8, <1>9 DEF Next, Task

LEMMA RouteTheorem == Spec => []RouteInv
<1>1. Init => RouteInv
  BY Names
  DEF Init, RouteInv, StandingOK, AddOK, RemoveOK, Routed, InCalls, InSeq, Before
<1> QED
  BY <1>1, StepRoutes, TypeInvTheorem, PTL DEF Spec

\* A connection that is up is routed, however adds, mounts and removals of its
\* rivals mix in the interchange's channel, unless a rival was dropped.
THEOREM LiveTheorem == Spec => []LiveIsRouted
<1>1. TypeInv /\ RouteInv => LiveIsRouted
  BY DEF RouteInv, AddOK, LiveIsRouted, Routed, Undone, Rivals
<1> QED
  BY <1>1, RouteTheorem, TypeInvTheorem, PTL

\* A mount fails only where the removal of a rival came between it and its add;
\* behind a MountInterchangeGate it never fails.
THEOREM MountTheorem == Spec => []MountFindsHyperway
<1>1. RouteInv => MountFindsHyperway
  BY DEF RouteInv, RemoveOK, MountFindsHyperway, Undone, Rivals
<1> QED
  BY <1>1, RouteTheorem, PTL

-----------------------------------------------------------------------------
(* What is heard.  Every wave is in one place.                             *)

\* A queue that holds no wave twice; listeners and resets are no waves.
Once(q) == \A a \in Waves \union {Greeting} : ~Before(q, a, a)

\* The places a wave can be in; Wait are the waves in the interchange's channel.
Wait == {w \in Waves : WaveCall(w) \in InSeq(calls)}
Now  == IF task = "route" THEN {current.wave} ELSE {}
Places == {"calls", "now", "home"} \X {0} \union {"in", "mail", "queue"} \X Hyperways
          \union {"heard"} \X Conns
In(p) == CASE p[1] = "calls" -> Wait
           [] p[1] = "now"   -> Now
           [] p[1] = "home"  -> InSeq(home)
           [] p[1] = "in"    -> InSeq(inbound[p[2]])
           [] p[1] = "mail"  -> InSeq(mail[p[2]]) \intersect Waves
           [] p[1] = "queue" -> InSeq(queue[p[2]])
           [] p[1] = "heard" -> InSeq(heard[p[2]]) \ {Greeting}

Sent(w) == w \in Waves /\ w.no <= IF w.kind = "down" THEN downs ELSE ups

PlaceInv ==
    /\ \A p, q \in Places : p /= q => In(p) \intersect In(q) = {}
    /\ \A p \in Places : \A w \in In(p) : Sent(w)

OnceInv ==
    /\ \A w \in Waves : ~Before(calls, WaveCall(w), WaveCall(w))
    /\ Once(home) /\ \A c \in Conns : Once(heard[c])
    /\ \A h \in Hyperways : Once(inbound[h]) /\ Once(mail[h]) /\ Once(queue[h])

LEMMA BeforeIsIn == \A q, a, b : Before(q, a, b) => a \in InSeq(q) /\ b \in InSeq(q)
  BY DEF Before, InSeq

LEMMA PostOnce ==
    ASSUME NEW S, NEW q \in Seq(S), NEW x \in S, Once(q),
           x \notin InSeq(q) \/ x \notin Waves \union {Greeting}
    PROVE  Once(Append(q, x))
  BY Appends, BeforeIsIn DEF Once

LEMMA TakeOnce ==
    ASSUME NEW S, NEW q \in Seq(S), q /= <<>>, Once(q)
    PROVE  /\ Once(Tail(q)) /\ Head(q) \in InSeq(q)
           /\ InSeq(Tail(q)) \subseteq InSeq(q)
           /\ Head(q) \in Waves => InSeq(Tail(q)) = InSeq(q) \ {Head(q)}
<1>1. /\ InSeq(q) = {Head(q)} \union InSeq(Tail(q))
      /\ \A a, b : Before(Tail(q), a, b) => Before(q, a, b)
      /\ \A b : b \in InSeq(Tail(q)) => Before(q, Head(q), b)
  BY Takes
<1>2. Head(q) \in Waves => Head(q) \notin InSeq(Tail(q))
  BY <1>1 DEF Once
<1> QED
  BY <1>1, <1>2 DEF Once

\* Every place, by its name, before and after a step.
LEMMA PlaceNames ==
    ASSUME NEW p \in Places
    PROVE  \/ p \in {<<"calls", 0>>, <<"now", 0>>, <<"home", 0>>}
           \/ \E h \in Hyperways : p = <<"in", h>> \/ p = <<"mail", h>> \/ p = <<"queue", h>>
           \/ \E c \in Conns : p = <<"heard", c>>
<1>1. \/ p \in {"calls", "now", "home"} \X {0}
      \/ p \in {"in", "mail", "queue"} \X Hyperways
      \/ p \in {"heard"} \X Conns
  BY DEF Places
<1> QED
  BY <1>1

LEMMA PlacesAre ==
    /\ <<"calls", 0>> \in Places /\ <<"now", 0>> \in Places /\ <<"home", 0>> \in Places
    /\ \A h \in Hyperways : /\ <<"in", h>> \in Places /\ <<"mail", h>> \in Places
                           /\ <<"queue", h>> \in Places
    /\ \A c \in Conns : <<"heard", c>> \in Places
  BY DEF Places

LEMMA InAre ==
    /\ In(<<"calls", 0>>) = Wait /\ In(<<"calls", 0>>)' = Wait'
    /\ In(<<"now", 0>>) = Now /\ In(<<"now", 0>>)' = Now'
    /\ In(<<"home", 0>>) = InSeq(home) /\ In(<<"home", 0>>)' = InSeq(home')
    /\ \A h \in Hyperways :
          /\ In(<<"in", h>>) = InSeq(inbound[h]) /\ In(<<"in", h>>)' = InSeq(inbound'[h])
          /\ In(<<"mail", h>>) = InSeq(mail[h]) \intersect Waves
          /\ In(<<"mail", h>>)' = InSeq(mail'[h]) \intersect Waves
          /\ In(<<"queue", h>>) = InSeq(queue[h]) /\ In(<<"queue", h>>)' = InSeq(queue'[h])
    /\ \A c \in Conns : /\ In(<<"heard", c>>) = InSeq(heard[c]) \ {Greeting}
                        /\ In(<<"heard", c>>)' = InSeq(heard'[c]) \ {Greeting}
  BY DEF In, InSeq

\* A place that a step does not touch keeps what is in it.
LEMMA InKept ==
    ASSUME NEW p \in Places,
           p = <<"calls", 0>> => Wait' \subseteq Wait,
           p = <<"now", 0>> => Now' \subseteq Now,
           p = <<"home", 0>> => home' = home,
           \A h \in Hyperways : /\ p = <<"in", h>> => inbound'[h] = inbound[h]
                                /\ p = <<"mail", h>> => mail'[h] = mail[h]
                                /\ p = <<"queue", h>> => queue'[h] = queue[h],
           \A c \in Conns : p = <<"heard", c>> => heard'[c] = heard[c]
    PROVE  In(p)' \subseteq In(p)
<1>1. CASE p \in {<<"calls", 0>>, <<"now", 0>>, <<"home", 0>>}
  BY <1>1, InAre
<1>2. ASSUME NEW h \in Hyperways, p = <<"in", h>> PROVE In(p)' \subseteq In(p)
  BY <1>2, InAre
<1>3. ASSUME NEW h \in Hyperways, p = <<"mail", h>> \/ p = <<"queue", h>>
      PROVE  In(p)' \subseteq In(p)
  BY <1>3, InAre
<1>4. ASSUME NEW c \in Conns, p = <<"heard", c>> PROVE In(p)' \subseteq In(p)
  BY <1>4, InAre
<1> QED
  BY <1>1, <1>2, <1>3, <1>4, PlaceNames

\* A lane's step touches the places of that lane.
LEMMA LaneInKept ==
    ASSUME NEW h \in Hyperways, NEW m, NEW q, NEW e, LaneIs(h, m, q, e), NEW p \in Places,
           p = <<"calls", 0>> => Wait' \subseteq Wait,
           p = <<"now", 0>> => Now' \subseteq Now,
           p = <<"home", 0>> => home' = home, inbound' = inbound,
           \A c \in Conns : p = <<"heard", c>> => heard'[c] = heard[c],
           p = <<"mail", h>> => InSeq(m) \intersect Waves \subseteq InSeq(mail[h]),
           p = <<"queue", h>> => InSeq(q) \subseteq InSeq(queue[h])
    PROVE  In(p)' \subseteq In(p)
<1>1. CASE p = <<"mail", h>>
  BY <1>1, InAre DEF LaneIs
<1>2. CASE p = <<"queue", h>>
  BY <1>2, InAre DEF LaneIs
<1>3. CASE p /= <<"mail", h>> /\ p /= <<"queue", h>>
  <2>1. \A k \in Hyperways : (p = <<"mail", k>> \/ p = <<"queue", k>>) => k \in Hyperways \ {h}
    BY <1>3
  <2>2. \A k \in Hyperways :
           /\ p = <<"in", k>> => inbound'[k] = inbound[k]
           /\ p = <<"mail", k>> => mail'[k] = mail[k]
           /\ p = <<"queue", k>> => queue'[k] = queue[k]
    BY <2>1 DEF LaneIs
  <2> QED
    BY <2>2, InKept
<1> QED
  BY <1>1, <1>2, <1>3

\* Waves leave their places and go nowhere.
LEMMA Shrunk ==
    ASSUME PlaceInv, \A w : Sent(w) => Sent(w)', \A p \in Places : In(p)' \subseteq In(p)
    PROVE  PlaceInv'
<1>1. ASSUME NEW p \in Places, NEW q \in Places, p /= q PROVE In(p)' \intersect In(q)' = {}
  BY <1>1 DEF PlaceInv
<1>2. ASSUME NEW p \in Places, NEW w \in In(p)' PROVE Sent(w)'
  BY <1>2 DEF PlaceInv
<1> QED
  BY <1>1, <1>2 DEF PlaceInv

\* Waves go from one place to another.
LEMMA MovedFromTo ==
    ASSUME PlaceInv, \A w : Sent(w) => Sent(w)',
           NEW from \in Places, NEW to \in Places, from /= to, NEW W \in SUBSET In(from),
           \A p \in Places : /\ p /= to => In(p)' \subseteq In(p)
                             /\ p = from => In(p)' \subseteq In(p) \ W
                             /\ p = to => In(p)' \subseteq In(p) \union W
    PROVE  PlaceInv'
<1>1. \A p \in Places : p /= from => In(p) \intersect W = {}
  BY DEF PlaceInv
<1>2. \A p \in Places : p /= to => In(p)' \subseteq In(p) \ W
  BY <1>1
<1>3. ASSUME NEW p \in Places, NEW q \in Places, p /= q PROVE In(p)' \intersect In(q)' = {}
  <2>1. In(p) \intersect In(q) = {}
    BY <1>3 DEF PlaceInv
  <2>2. CASE p /= to /\ q /= to
    BY <1>2, <2>1, <2>2
  <2>3. CASE p = to /\ q /= to
    BY <1>2, <2>1, <2>3
  <2>4. CASE q = to /\ p /= to
    BY <1>2, <2>1, <2>4
  <2> QED
    BY <1>3, <2>2, <2>3, <2>4
<1>4. ASSUME NEW p \in Places, NEW w \in In(p)' PROVE Sent(w)'
  <2>1. Sent(w)
    BY <1>4 DEF PlaceInv
  <2> QED
    BY <2>1
<1> QED
  BY <1>3, <1>4 DEF PlaceInv

\* A wave that was not sent before appears in one place.
LEMMA Entered ==
    ASSUME PlaceInv, \A w : Sent(w) => Sent(w)', NEW x, ~Sent(x), Sent(x)',
           NEW to \in Places,
           \A p \in Places : /\ p /= to => In(p)' \subseteq In(p)
                             /\ p = to => In(p)' \subseteq In(p) \union {x}
    PROVE  PlaceInv'
<1>1. \A p \in Places : x \notin In(p)
  BY DEF PlaceInv
<1>2. ASSUME NEW p \in Places, NEW q \in Places, p /= q PROVE In(p)' \intersect In(q)' = {}
  <2>1. In(p) \intersect In(q) = {}
    BY <1>2 DEF PlaceInv
  <2> QED
    BY <1>1, <1>2, <2>1
<1>3. ASSUME NEW p \in Places, NEW w \in In(p)' PROVE Sent(w)'
  <2>1. Sent(w) \/ w = x
    BY <1>3 DEF PlaceInv
  <2> QED
    BY <2>1
<1> QED
  BY <1>2, <1>3 DEF PlaceInv

LEMMA SentKept == ASSUME UNCHANGED <<downs, ups>> PROVE \A w : Sent(w) => Sent(w)'
  BY DEF Sent

\* Calls that come and go.
LEMMA WaitPosted ==
    ASSUME TypeInv, OnceInv, NEW m \in CallTypes, Called(m)
    PROVE  /\ m.call /= "Wave" => Wait' = Wait
           /\ \A w \in Waves : m = WaveCall(w) => Wait' = Wait \union {w}
           /\ m.call /= "Wave" \/ m.wave \notin Wait
              => \A w \in Waves : ~Before(calls', WaveCall(w), WaveCall(w))
<1>1. /\ InSeq(calls') = InSeq(calls) \union {m}
      /\ \A a, b : Before(calls', a, b)
                   => Before(calls, a, b) \/ (b = m /\ a \in InSeq(calls))
  BY CalledTypes, TypeParts DEF TypeInv
<1>2. \A v, w \in Waves : WaveCall(v) = WaveCall(w) => v = w
  BY DEF WaveCall
<1>3. \A w \in Waves : WaveCall(w).call = "Wave" /\ WaveCall(w).wave = w
  BY DEF WaveCall
<1>4. Wait' = {w \in Waves : w \in Wait \/ m = WaveCall(w)}
  BY <1>1 DEF Wait, WaveCall
<1>5. Wait \subseteq Waves
  BY DEF Wait
<1>6. m.call /= "Wave" => Wait' = Wait
  BY <1>3, <1>4, <1>5
<1>7. \A w \in Waves : m = WaveCall(w) => Wait' = Wait \union {w}
  BY <1>2, <1>4, <1>5
<1>8. ASSUME m.call /= "Wave" \/ m.wave \notin Wait, NEW w \in Waves,
             Before(calls', WaveCall(w), WaveCall(w))
      PROVE  FALSE
  <2>1. WaveCall(w) = m /\ WaveCall(w) \in InSeq(calls)
    BY <1>1, <1>8 DEF OnceInv
  <2> QED
    BY <1>3, <1>8, <2>1 DEF Wait
<1> QED
  BY <1>6, <1>7, <1>8

LEMMA WaitTaken ==
    ASSUME TypeInv, OnceInv, NEW kind, Taking(kind)
    PROVE  /\ Wait' \subseteq Wait
           /\ kind = "Wave" => /\ Head(calls).wave \in Wait
                               /\ Wait' \subseteq Wait \ {Head(calls).wave}
           /\ \A w \in Waves : ~Before(calls', WaveCall(w), WaveCall(w))
<1>1. /\ Head(calls) \in CallTypes /\ Head(calls).call = kind
      /\ InSeq(calls) = {Head(calls)} \union InSeq(calls')
      /\ \A a, b : Before(calls', a, b) => Before(calls, a, b)
      /\ \A b : b \in InSeq(calls') => Before(calls, Head(calls), b)
  BY TakingTypes, TypeParts DEF TypeInv
<1>2. Wait' = {w \in Waves : WaveCall(w) \in InSeq(calls')}
  BY DEF Wait, WaveCall, InSeq
<1>3. kind = "Wave" => Head(calls) = WaveCall(Head(calls).wave) /\ Head(calls).wave \in Waves
  BY <1>1 DEF CallTypes, WaveCall
<1>4. Wait' \subseteq Wait
  BY <1>1, <1>2 DEF Wait
<1>5. \A w \in Waves : ~Before(calls', WaveCall(w), WaveCall(w))
  BY <1>1 DEF OnceInv
<1>6. ASSUME kind = "Wave"
      PROVE  Head(calls).wave \in Wait /\ Head(calls).wave \notin Wait'
  <2> DEFINE w == Head(calls).wave
  <2>1. w \in Waves /\ Head(calls) = WaveCall(w)
    BY <1>3, <1>6
  <2> HIDE DEF w
  <2>2. w \in Wait
    BY <1>1, <2>1 DEF Wait
  <2>3. WaveCall(w) \notin InSeq(calls')
    BY <1>1, <2>1 DEF OnceInv
  <2>4. w \notin Wait'
    BY <1>2, <2>3
  <2> QED
    BY <2>2, <2>4 DEF w
<1> QED
  BY <1>4, <1>5, <1>6

LEMMA LaneTypes ==
    ASSUME TypeInv, NEW h \in Hyperways
    PROVE  inbound[h] \in Seq(Waves) /\ mail[h] \in Seq(Posts) /\ queue[h] \in Seq(Waves)
  BY TypeParts DEF TypeInv, LanesOK, OutOK

OnceLanes == \A k \in Hyperways : Once(inbound[k]) /\ Once(mail[k]) /\ Once(queue[k])
OnceHeard == \A c \in Conns : Once(heard[c])

\* What OnceInv says of the lanes, when one of them changes.
LEMMA OnceInbound ==
    ASSUME TypeInv, OnceInv, NEW h \in Hyperways, NEW q, Once(q),
           inbound' = [inbound EXCEPT ![h] = q], UNCHANGED <<mail, queue>>
    PROVE  OnceLanes'
<1>1. \A k \in Hyperways : inbound'[k] = inbound[k] \/ inbound'[k] = q
  BY TypeParts DEF TypeInv, LanesOK
<1>2. \A k \in Hyperways : Once(inbound[k]) /\ Once(mail[k]) /\ Once(queue[k])
  BY DEF OnceInv
<1>3. \A k \in Hyperways : Once(inbound'[k])
  BY <1>1, <1>2
<1> QED
  BY <1>2, <1>3 DEF OnceLanes, Once, Before

LEMMA OnceOutbound ==
    ASSUME OnceInv, NEW h \in Hyperways, NEW m, NEW q, NEW e, LaneIs(h, m, q, e),
           Once(m), Once(q), UNCHANGED inbound
    PROVE  OnceLanes'
<1>1. \A k \in Hyperways : Once(inbound[k]) /\ Once(mail[k]) /\ Once(queue[k])
  BY DEF OnceInv
<1>2. \A k \in Hyperways : Once(inbound'[k]) /\ Once(mail'[k]) /\ Once(queue'[k])
  BY <1>1 DEF LaneIs
<1> QED
  BY <1>2 DEF OnceLanes, Once, Before

LEMMA OnceParts ==
    ASSUME \A w \in Waves : ~Before(calls', WaveCall(w), WaveCall(w)), Once(home'),
           OnceLanes', OnceHeard'
    PROVE  OnceInv'
  BY DEF OnceInv, OnceLanes, OnceHeard, Once, Before, WaveCall

LEMMA OnceUntouched ==
    ASSUME OnceInv
    PROVE  /\ UNCHANGED calls => \A w \in Waves : ~Before(calls', WaveCall(w), WaveCall(w))
           /\ UNCHANGED home => Once(home')
           /\ UNCHANGED <<inbound, mail, queue>> => OnceLanes'
           /\ UNCHANGED heard => OnceHeard'
<1>1. OnceLanes /\ OnceHeard
  BY DEF OnceInv, OnceLanes, OnceHeard
<1>2. /\ UNCHANGED <<inbound, mail, queue>> => OnceLanes'
      /\ UNCHANGED heard => OnceHeard'
  BY <1>1 DEF OnceLanes, OnceHeard, Once, Before
<1> QED
  BY <1>2 DEF OnceInv

LEMMA GatePlaces ==
    ASSUME TypeInv, PlaceInv, OnceInv, NEW m \in CallTypes, m.call /= "Wave", Called(m),
           UNCHANGED <<task, current, inbound, mail, queue, heard, home, downs, ups>>
    PROVE  PlaceInv' /\ OnceInv'
<1>1. Wait' = Wait /\ \A w \in Waves : ~Before(calls', WaveCall(w), WaveCall(w))
  BY WaitPosted
<1>2. Now' = Now
  BY DEF Now
<1>3. \A p \in Places : In(p)' \subseteq In(p)
  BY <1>1, <1>2, InKept
<1>4. PlaceInv'
  BY <1>3, SentKept, Shrunk
<1> QED
  BY <1>1, <1>4, OnceParts, OnceUntouched

LEMMA TakenPlaces ==
    ASSUME TypeInv, PlaceInv, OnceInv, NEW kind, Taking(kind), Now' \subseteq Now,
           UNCHANGED <<inbound, mail, queue, heard, home, downs, ups>>
    PROVE  PlaceInv' /\ OnceInv'
<1>1. Wait' \subseteq Wait /\ \A w \in Waves : ~Before(calls', WaveCall(w), WaveCall(w))
  BY WaitTaken
<1>3. \A p \in Places : In(p)' \subseteq In(p)
  BY <1>1, InKept
<1>4. PlaceInv'
  BY <1>3, SentKept, Shrunk
<1> QED
  BY <1>1, <1>4, OnceParts, OnceUntouched

LEMMA TakeWavePlaces == ASSUME TypeInv, PlaceInv, OnceInv, TakeWave PROVE PlaceInv' /\ OnceInv'
<1> DEFINE w == Head(calls).wave
<1>1. Taking("Wave") /\ UNCHANGED <<inbound, mail, queue, heard, home, downs, ups>>
  BY DEF TakeWave, connVars, laneVars, outVars, countVars
<1>2. CASE table[w.to] = NoHyperway
  <2>1. Now' = Now
    BY <1>2 DEF TakeWave, Now
  <2> QED
    BY <1>1, <2>1, TakenPlaces
<1>3. CASE table[w.to] /= NoHyperway
  <2>1. Now' = {w} /\ Now = {}
    BY <1>3 DEF TakeWave, Now, Taking
  <2> HIDE DEF w
  <2>2. /\ w \in Wait /\ Wait' \subseteq Wait \ {w}
        /\ \A v \in Waves : ~Before(calls', WaveCall(v), WaveCall(v))
    BY <1>1, WaitTaken DEF w
  <2> DEFINE from == <<"calls", 0>>
             to == <<"now", 0>>
  <2>3. from \in Places /\ to \in Places /\ from /= to /\ {w} \in SUBSET In(from)
    BY <2>2, PlacesAre, InAre
  <2>4. In(from)' \subseteq In(from) \ {w} /\ In(to)' \subseteq In(to) \union {w}
    BY <2>1, <2>2, InAre
  <2> HIDE DEF to, from
  <2>5. ASSUME NEW p \in Places, p /= to PROVE In(p)' \subseteq In(p)
    <3>1. p /= <<"now", 0>>
      BY <2>5 DEF to
    <3> QED
      BY <1>1, <2>2, <3>1, InKept
  <2>6. PlaceInv'
    BY <1>1, <2>3, <2>4, <2>5, SentKept, MovedFromTo
  <2> QED
    BY <1>1, <2>2, <2>6, OnceParts, OnceUntouched
<1> QED
  BY <1>2, <1>3

LEMMA SendPlaces ==
    ASSUME TypeInv, PlaceInv, OnceInv, NEW h \in Hyperways, NEW x \in Waves,
           ~Sent(x), Sent(x)', \A w : Sent(w) => Sent(w)',
           inbound' = [inbound EXCEPT ![h] = Append(@, x)],
           UNCHANGED <<calls, task, current, mail, queue, heard, home>>
    PROVE  PlaceInv' /\ OnceInv'
<1> DEFINE to == <<"in", h>>
<1>1. inbound[h] \in Seq(Waves)
  BY LaneTypes
<1>2. inbound'[h] = Append(inbound[h], x) /\ \A k \in Hyperways \ {h} : inbound'[k] = inbound[k]
  BY TypeParts DEF TypeInv, LanesOK
<1>3. to \in Places /\ In(to) = InSeq(inbound[h]) /\ In(to)' = InSeq(inbound'[h])
  BY PlacesAre, InAre
<1>4. x \notin In(to)
  BY <1>3 DEF PlaceInv
<1>5. In(to)' \subseteq In(to) \union {x}
  BY <1>1, <1>2, <1>3, Appends
<1>6. Once(Append(inbound[h], x))
  BY <1>1, <1>3, <1>4, PostOnce DEF OnceInv
<1>7. Wait' = Wait /\ Now' = Now
  BY DEF Wait, Now
<1>8. ASSUME NEW p \in Places, p /= to PROVE In(p)' \subseteq In(p)
  BY <1>2, <1>7, <1>8, InKept
<1> HIDE DEF to
<1>9. PlaceInv'
  BY <1>3, <1>5, <1>8, Entered
<1> QED
  BY <1>6, <1>9, OnceInbound, OnceParts, OnceUntouched

LEMMA SendDownPlaces ==
    ASSUME TypeInv, PlaceInv, OnceInv, NEW s \in Surfaces, SendDown(s) PROVE PlaceInv' /\ OnceInv'
<1>1. downs \in 0 .. MaxWaves /\ downs' = downs + 1 /\ ups' = ups /\ downs' \in 1 .. MaxWaves
  BY TypeParts, CapTypes DEF TypeInv, CountOK, SendDown
<1>2. PICK x \in Waves : x = [kind |-> "down", no |-> downs', to |-> s]
  BY <1>1, WaveNames
<1>3. x.kind = "down" /\ x.no = downs'
  BY <1>2
<1>4. inbound' = [inbound EXCEPT ![Home] = Append(@, x)]
  BY <1>2 DEF SendDown
<1>5. UNCHANGED <<calls, task, current, mail, queue, heard, home>>
  BY DEF SendDown, taskVars, connVars, outVars
<1>6. ~Sent(x)
  BY <1>1, <1>3 DEF Sent
<1>7. Sent(x)'
  BY <1>1, <1>2, <1>3 DEF Sent
<1>8. ASSUME NEW w, Sent(w) PROVE Sent(w)'
  <2>1. w \in Waves /\ w.no \in Nat
    BY <1>8 DEF Sent, Waves, DownWaves, UpWaves
  <2> QED
    BY <1>1, <1>8, <2>1 DEF Sent
<1> QED
  BY <1>2, <1>4, <1>5, <1>6, <1>7, <1>8, Names, SendPlaces

LEMMA SendUpPlaces ==
    ASSUME TypeInv, PlaceInv, OnceInv, NEW c \in Conns, SendUp(c) PROVE PlaceInv' /\ OnceInv'
<1>1. ups \in 0 .. MaxUp /\ ups' = ups + 1 /\ downs' = downs /\ ups' \in 1 .. MaxUp
  BY TypeParts, CapTypes DEF TypeInv, CountOK, SendUp
<1>2. PICK x \in Waves : x = [kind |-> "up", no |-> ups', to |-> "home"]
  BY <1>1, WaveNames
<1>3. x.kind = "up" /\ x.no = ups'
  BY <1>2
<1>4. inbound' = [inbound EXCEPT ![bound[c]] = Append(@, x)] /\ bound[c] \in Hyperways
  BY <1>2 DEF SendUp, TypeInv, BoundOK
<1>5. UNCHANGED <<calls, task, current, mail, queue, heard, home>>
  BY DEF SendUp, taskVars, connVars, outVars
<1>6. ~Sent(x)
  BY <1>1, <1>3 DEF Sent
<1>7. Sent(x)'
  BY <1>1, <1>2, <1>3 DEF Sent
<1>8. ASSUME NEW w, Sent(w) PROVE Sent(w)'
  <2>1. w \in Waves /\ w.no \in Nat
    BY <1>8 DEF Sent, Waves, DownWaves, UpWaves
  <2> QED
    BY <1>1, <1>8, <2>1 DEF Sent
<1> QED
  BY <1>2, <1>4, <1>5, <1>6, <1>7, <1>8, SendPlaces

LEMMA ForwardPlaces ==
    ASSUME TypeInv, PlaceInv, OnceInv, NEW h \in Hyperways, Forward(h) PROVE PlaceInv' /\ OnceInv'
<1> DEFINE w == Head(inbound[h])
           from == <<"in", h>>
           to == <<"calls", 0>>
<1>1. inbound[h] \in Seq(Waves) /\ inbound[h] /= <<>> /\ Once(inbound[h])
  BY LaneTypes DEF Forward, OnceInv
<1>2. w \in Waves /\ Called(WaveCall(w)) /\ WaveCall(w) \in CallTypes /\ WaveCall(w).wave = w
  BY <1>1, Takes, CallNames, CallsDiffer DEF Forward
<1>3. /\ w \in InSeq(inbound[h]) /\ Once(Tail(inbound[h]))
      /\ InSeq(Tail(inbound[h])) = InSeq(inbound[h]) \ {w}
  BY <1>1, TakeOnce
<1>4. /\ inbound'[h] = Tail(inbound[h]) /\ \A k \in Hyperways \ {h} : inbound'[k] = inbound[k]
      /\ inbound' = [inbound EXCEPT ![h] = Tail(inbound[h])]
      /\ UNCHANGED <<task, current, mail, queue, heard, home, downs, ups>>
  BY TypeParts DEF TypeInv, LanesOK, Forward, taskVars, connVars, outVars, countVars
<1> HIDE DEF w
<1>5. /\ from \in Places /\ to \in Places /\ from /= to
      /\ In(from) = InSeq(inbound[h]) /\ In(from)' = InSeq(inbound'[h])
      /\ In(to) = Wait /\ In(to)' = Wait'
  BY PlacesAre, InAre
<1>6. w \notin Wait
  BY <1>3, <1>5 DEF PlaceInv
<1>7. /\ Wait' = Wait \union {w}
      /\ \A v \in Waves : ~Before(calls', WaveCall(v), WaveCall(v))
  BY <1>2, <1>6, WaitPosted
<1>8. Now' = Now
  BY <1>4 DEF Now
<1>9. In(from)' \subseteq In(from) \ {w} /\ In(to)' \subseteq In(to) \union {w} /\ {w} \in SUBSET In(from)
  BY <1>3, <1>4, <1>5, <1>7
<1>10. ASSUME NEW p \in Places, p /= to PROVE In(p)' \subseteq In(p)
  <2>1. CASE p = from
    BY <1>9, <2>1
  <2>2. CASE p /= from
    BY <1>4, <1>8, <1>10, <2>2, InKept
  <2> QED
    BY <2>1, <2>2
<1> HIDE DEF from, to
<1>11. PlaceInv'
  BY <1>4, <1>5, <1>9, <1>10, SentKept, MovedFromTo
<1> QED
  BY <1>3, <1>4, <1>7, <1>11, OnceInbound, OnceParts, OnceUntouched

LEMMA ForwardTimeoutPlaces ==
    ASSUME TypeInv, PlaceInv, OnceInv, NEW h \in Hyperways, ForwardTimeout(h)
    PROVE  PlaceInv' /\ OnceInv'
<1>1. inbound[h] \in Seq(Waves) /\ inbound[h] /= <<>> /\ Once(inbound[h])
  BY LaneTypes DEF ForwardTimeout, OnceInv
<1>2. /\ Once(Tail(inbound[h]))
      /\ InSeq(Tail(inbound[h])) \subseteq InSeq(inbound[h])
  BY <1>1, TakeOnce
<1>3. /\ inbound'[h] = Tail(inbound[h]) /\ \A k \in Hyperways \ {h} : inbound'[k] = inbound[k]
      /\ inbound' = [inbound EXCEPT ![h] = Tail(inbound[h])]
      /\ UNCHANGED <<calls, task, current, mail, queue, heard, home, downs, ups>>
  BY TypeParts DEF TypeInv, LanesOK, ForwardTimeout, taskVars, connVars, outVars, countVars
<1>4. Now' = Now /\ Wait' = Wait
  BY <1>3 DEF Now, Wait
<1>5. ASSUME NEW p \in Places PROVE In(p)' \subseteq In(p)
  <2>1. CASE p = <<"in", h>>
    <3>1. In(<<"in", h>>) = InSeq(inbound[h]) /\ In(<<"in", h>>)' = InSeq(inbound'[h])
      BY InAre
    <3>2. InSeq(inbound'[h]) \subseteq InSeq(inbound[h])
      BY <1>2, <1>3
    <3> QED
      BY <2>1, <3>1, <3>2
  <2>2. CASE p /= <<"in", h>>
    BY <1>3, <1>4, <2>2, InKept
  <2> QED
    BY <2>1, <2>2
<1>6. PlaceInv'
  BY <1>3, <1>5, SentKept, Shrunk
<1> QED
  BY <1>2, <1>3, <1>6, OnceInbound, OnceParts, OnceUntouched

\* A wave goes from the task, or from the queue, to the end of a mailbox it is
\* not in.
LEMMA RoutePlaces == ASSUME TypeInv, PlaceInv, OnceInv, Route PROVE PlaceInv' /\ OnceInv'
<1>1. PICK w \in Waves, h \in Hyperways :
              /\ w = current.wave /\ h = Target
              /\ LaneIs(h, Append(mail[h], w), queue[h], ear[h])
              /\ InSeq(Append(mail[h], w)) = InSeq(mail[h]) \union {w}
  BY RouteLane DEF TypeInv
<1> DEFINE m == Append(mail[h], w)
           from == <<"now", 0>>
           to == <<"mail", h>>
<1>2. mail[h] \in Seq(Posts) /\ Once(mail[h]) /\ Once(queue[h]) /\ w \in Posts
  BY LaneTypes, PostNames DEF OnceInv
<1>3. Now = {w} /\ Now' = {} /\ Wait' = Wait
  BY <1>1 DEF Route, Now, Wait
<1>4. UNCHANGED <<calls, inbound, heard, home, downs, ups>>
  BY DEF Route, connVars, countVars
<1>5. /\ from \in Places /\ to \in Places /\ from /= to
      /\ In(from) = Now /\ In(from)' = Now'
      /\ In(to) = InSeq(mail[h]) \intersect Waves /\ In(to)' = InSeq(mail'[h]) \intersect Waves
  BY PlacesAre, InAre
<1>6. w \notin InSeq(mail[h])
  BY <1>3, <1>5 DEF PlaceInv
<1>7. Once(m)
  BY <1>2, <1>6, PostOnce
<1>8. mail'[h] = m /\ InSeq(m) = InSeq(mail[h]) \union {w}
  BY <1>1 DEF LaneIs
<1> HIDE DEF m, from, to
<1>9. In(from)' \subseteq In(from) \ {w} /\ In(to)' \subseteq In(to) \union {w} /\ {w} \in SUBSET In(from)
  BY <1>3, <1>5, <1>8
<1>10. LaneIs(h, m, queue[h], ear[h])
  BY <1>1 DEF m
<1>11. ASSUME NEW p \in Places, p /= to PROVE In(p)' \subseteq In(p)
  BY <1>3, <1>4, <1>10, <1>11, LaneInKept DEF from, to
<1>12. PlaceInv'
  BY <1>4, <1>5, <1>9, <1>11, SentKept, MovedFromTo, ZenonT(30)
<1>13. OnceLanes'
  BY <1>2, <1>4, <1>7, <1>10, OnceOutbound
<1> QED
  BY <1>4, <1>12, <1>13, OnceParts, OnceUntouched

LEMMA RouteTimeoutPlaces == ASSUME TypeInv, PlaceInv, OnceInv, RouteTimeout PROVE PlaceInv' /\ OnceInv'
<1>1. /\ Now' = {} /\ Wait' = Wait
      /\ UNCHANGED <<calls, inbound, mail, queue, heard, home, downs, ups>>
  BY DEF RouteTimeout, Now, Wait, laneVars, outVars, connVars, countVars
<1>2. \A p \in Places : In(p)' \subseteq In(p)
  BY <1>1, InKept
<1>3. PlaceInv'
  BY <1>1, <1>2, SentKept, Shrunk
<1> QED
  BY <1>1, <1>3, OnceParts, OnceUntouched

LEMMA MountedPlaces == ASSUME TypeInv, PlaceInv, OnceInv, Mounted PROVE PlaceInv' /\ OnceInv'
<1>1. PICK c \in Conns, h \in Hyperways \ {Home} :
              /\ LaneIs(h, Append(mail[h], ExtPost(c)), queue[h], ear[h])
              /\ InSeq(Append(mail[h], ExtPost(c))) = InSeq(mail[h]) \union {ExtPost(c)}
              /\ heard'[c] = <<Greeting>> /\ \A d \in Conns \ {c} : heard'[d] = heard[d]
  BY MountedLane DEF TypeInv
<1>2. PICK x \in Posts \ Waves : x = ExtPost(c) /\ x /= Greeting
  BY PostNames DEF ExtPost, Greeting
<1> DEFINE m == Append(mail[h], x)
<1>3. LaneIs(h, m, queue[h], ear[h]) /\ InSeq(m) = InSeq(mail[h]) \union {x}
  BY <1>1, <1>2
<1>4. mail[h] \in Seq(Posts) /\ Once(mail[h]) /\ Once(queue[h])
  BY LaneTypes DEF OnceInv
<1>5. Once(m)
  BY <1>2, <1>4, PostOnce
<1> HIDE DEF m
<1>6. Now' = {} /\ Wait' = Wait /\ UNCHANGED <<calls, inbound, home, downs, ups>>
  BY DEF Mounted, Now, Wait, countVars
<1>7. InSeq(heard'[c]) = {Greeting} /\ Once(heard'[c])
  BY <1>1 DEF InSeq, Once, Before
<1>8. ASSUME NEW p \in Places PROVE In(p)' \subseteq In(p)
  <2>1. CASE p = <<"heard", c>>
    BY <1>7, <2>1, InAre
  <2>2. CASE p /= <<"heard", c>>
    <3>1. \A d \in Conns : p = <<"heard", d>> => heard'[d] = heard[d]
      BY <1>1, <2>2
    <3>2. InSeq(m) \intersect Waves \subseteq InSeq(mail[h])
      BY <1>2, <1>3
    <3> QED
      BY <1>3, <1>6, <3>1, <3>2, LaneInKept
  <2> QED
    BY <2>1, <2>2
<1>9. PlaceInv'
  BY <1>6, <1>8, SentKept, Shrunk
<1>10. OnceHeard'
  <2>1. \A d \in Conns : Once(heard'[d])
    BY <1>1, <1>7 DEF OnceInv
  <2> QED
    BY <2>1 DEF OnceHeard, Once, Before
<1>11. OnceLanes'
  BY <1>3, <1>4, <1>5, <1>6, OnceOutbound
<1> QED
  BY <1>6, <1>9, <1>10, <1>11, OnceParts, OnceUntouched

\* The lanes' own steps leave the interchange's task and its channel alone.
LEMMA LaneWaits ==
    ASSUME UNCHANGED <<calls, task, current>> PROVE Now' = Now /\ Wait' = Wait
  BY DEF Now, Wait

LEMMA LaneSame ==
    ASSUME NEW h \in Hyperways, Lane(h) \/ HandOver(h)
    PROVE  /\ Now' = Now /\ Wait' = Wait
           /\ UNCHANGED <<calls, task, current, table, inbound, bound, home, downs, ups>>
<1>1. UNCHANGED <<calls, task, current, table, inbound, bound, downs, ups>>
  BY LaneSteps DEF taskVars, countVars
<1>2. home' = home
  BY DEF Lane, LaneTakesWave, LaneTakesExt, LaneTakesReset, HandOverFails, Requeue, HandOver
<1> QED
  BY <1>1, <1>2, LaneWaits

LEMMA LaneHeard ==
    ASSUME NEW h \in Hyperways, Lane(h) PROVE heard' = heard
  BY DEF Lane, LaneTakesWave, LaneTakesExt, LaneTakesReset, HandOverFails, Requeue, connVars

LEMMA LaneTakesWavePlaces ==
    ASSUME TypeInv, PlaceInv, OnceInv, NEW h \in Hyperways, LaneTakesWave(h)
    PROVE  PlaceInv' /\ OnceInv'
<1>1. PICK w \in Waves, q \in Seq(Waves) :
              /\ w = Head(mail[h]) /\ q = Append(Trimmed(queue[h]), w)
              /\ LaneIs(h, Tail(mail[h]), q, ear[h])
              /\ InSeq(q) \subseteq InSeq(queue[h]) \union {w}
              /\ mail[h] /= <<>>
  BY LaneTakesWaveLane, TypeParts DEF TypeInv
<1> DEFINE m == Tail(mail[h])
           from == <<"mail", h>>
           to == <<"queue", h>>
<1>2. mail[h] \in Seq(Posts) /\ Once(mail[h]) /\ queue[h] \in Seq(Waves) /\ Once(queue[h])
  BY LaneTypes DEF OnceInv
<1>3. /\ w \in InSeq(mail[h]) /\ Once(m)
      /\ InSeq(m) = InSeq(mail[h]) \ {w}
  BY <1>1, <1>2, TakeOnce
<1>4. /\ UNCHANGED <<calls, inbound, heard, home, downs, ups>> /\ Now' = Now /\ Wait' = Wait
  BY LaneSame, LaneHeard DEF Lane
<1>5. /\ from \in Places /\ to \in Places /\ from /= to
      /\ In(from) = InSeq(mail[h]) \intersect Waves /\ In(from)' = InSeq(mail'[h]) \intersect Waves
      /\ In(to) = InSeq(queue[h]) /\ In(to)' = InSeq(queue'[h])
  BY PlacesAre, InAre
<1>6. w \notin InSeq(queue[h])
  BY <1>3, <1>5 DEF PlaceInv
<1>7. Once(q)
  <2>1. /\ Trimmed(queue[h]) \in Seq(Waves)
        /\ Trimmed(queue[h]) = queue[h] \/ (queue[h] /= <<>> /\ Trimmed(queue[h]) = Tail(queue[h]))
    BY TrimTypes, OutParts, TypeParts DEF TypeInv
  <2>2. Once(Trimmed(queue[h])) /\ InSeq(Trimmed(queue[h])) \subseteq InSeq(queue[h])
    BY <1>2, <2>1, TakeOnce
  <2> QED
    BY <1>1, <1>6, <2>1, <2>2, PostOnce
<1>8. LaneIs(h, m, q, ear[h]) /\ mail'[h] = m /\ queue'[h] = q
  BY <1>1 DEF LaneIs
<1> HIDE DEF m, from, to
<1>9. In(from)' \subseteq In(from) \ {w} /\ In(to)' \subseteq In(to) \union {w} /\ {w} \in SUBSET In(from)
  BY <1>1, <1>3, <1>5, <1>8
<1>10. ASSUME NEW p \in Places, p /= to PROVE In(p)' \subseteq In(p)
  BY <1>3, <1>4, <1>8, <1>10, LaneInKept DEF from, to
<1>11. PlaceInv'
  BY <1>4, <1>5, <1>9, <1>10, SentKept, MovedFromTo, ZenonT(30)
<1>12. OnceLanes'
  BY <1>3, <1>4, <1>7, <1>8, OnceOutbound
<1> QED
  BY <1>4, <1>11, <1>12, OnceParts, OnceUntouched

LEMMA LaneTakesPlaces ==
    ASSUME TypeInv, PlaceInv, OnceInv, NEW h \in Hyperways, LaneTakesExt(h) \/ LaneTakesReset(h)
    PROVE  PlaceInv' /\ OnceInv'
<1> DEFINE m == Tail(mail[h])
<1>1. PICK e : LaneIs(h, m, queue[h], e)
  BY LaneTakesExtLane, LaneTakesResetLane, TypeParts DEF TypeInv
<1>2. mail[h] \in Seq(Posts) /\ mail[h] /= <<>> /\ Once(mail[h]) /\ Once(queue[h])
  BY LaneTypes DEF OnceInv, LaneTakesExt, LaneTakesReset, LaneTakes
<1>3. Once(m) /\ InSeq(m) \subseteq InSeq(mail[h])
  BY <1>2, TakeOnce
<1>4. /\ UNCHANGED <<calls, inbound, heard, home, downs, ups>> /\ Now' = Now /\ Wait' = Wait
  BY LaneSame, LaneHeard DEF Lane
<1> HIDE DEF m
<1>5. ASSUME NEW p \in Places PROVE In(p)' \subseteq In(p)
  BY <1>1, <1>3, <1>4, LaneInKept
<1>6. PlaceInv'
  BY <1>4, <1>5, SentKept, Shrunk
<1>7. OnceLanes'
  BY <1>1, <1>2, <1>3, <1>4, OnceOutbound
<1> QED
  BY <1>4, <1>6, <1>7, OnceParts, OnceUntouched

LEMMA HandOverFailsPlaces ==
    ASSUME TypeInv, PlaceInv, OnceInv, NEW h \in Hyperways, HandOverFails(h)
    PROVE  PlaceInv' /\ OnceInv'
<1>1. PICK x \in Posts \ Waves : x = ResetExt /\ x /= Greeting
  BY PostNames DEF ResetExt, Greeting
<1> DEFINE m == Append(mail[h], x)
<1>2. LaneIs(h, m, queue[h], ear[h]) /\ InSeq(m) = InSeq(mail[h]) \union {x}
  BY <1>1, HandOverFailsLane, TypeParts DEF TypeInv
<1>3. mail[h] \in Seq(Posts) /\ Once(mail[h]) /\ Once(queue[h])
  BY LaneTypes DEF OnceInv
<1>4. Once(m)
  BY <1>1, <1>3, PostOnce
<1> HIDE DEF m
<1>5. /\ UNCHANGED <<calls, inbound, heard, home, downs, ups>> /\ Now' = Now /\ Wait' = Wait
  BY LaneSame, LaneHeard DEF Lane
<1>6. ASSUME NEW p \in Places PROVE In(p)' \subseteq In(p)
  <2>1. InSeq(m) \intersect Waves \subseteq InSeq(mail[h])
    BY <1>1, <1>2
  <2> QED
    BY <1>2, <1>5, <2>1, LaneInKept
<1>7. PlaceInv'
  BY <1>5, <1>6, SentKept, Shrunk
<1>8. OnceLanes'
  BY <1>2, <1>3, <1>4, <1>5, OnceOutbound
<1> QED
  BY <1>5, <1>7, <1>8, OnceParts, OnceUntouched

LEMMA RequeuePlaces ==
    ASSUME TypeInv, PlaceInv, OnceInv, NEW h \in Hyperways, Requeue(h)
    PROVE  PlaceInv' /\ OnceInv'
<1>1. PICK w \in Waves, m \in Seq(Posts) :
              /\ w = Head(queue[h]) /\ queue[h] /= <<>>
              /\ LaneIs(h, m, Tail(queue[h]), ear[h])
              /\ \/ m = Append(mail[h], w) /\ InSeq(m) = InSeq(mail[h]) \union {w}
                 \/ m = mail[h]
  BY RequeueLane, TypeParts DEF TypeInv
<1> DEFINE q == Tail(queue[h])
           from == <<"queue", h>>
           to == <<"mail", h>>
<1>2. mail[h] \in Seq(Posts) /\ Once(mail[h]) /\ queue[h] \in Seq(Waves) /\ Once(queue[h])
  BY LaneTypes DEF OnceInv
<1>3. /\ w \in InSeq(queue[h]) /\ Once(q)
      /\ InSeq(q) = InSeq(queue[h]) \ {w}
  BY <1>1, <1>2, TakeOnce
<1>4. /\ UNCHANGED <<calls, inbound, heard, home, downs, ups>> /\ Now' = Now /\ Wait' = Wait
  BY LaneSame, LaneHeard DEF Lane
<1>5. /\ from \in Places /\ to \in Places /\ from /= to
      /\ In(to) = InSeq(mail[h]) \intersect Waves /\ In(to)' = InSeq(mail'[h]) \intersect Waves
      /\ In(from) = InSeq(queue[h]) /\ In(from)' = InSeq(queue'[h])
  BY PlacesAre, InAre
<1>6. w \notin InSeq(mail[h])
  BY <1>3, <1>5 DEF PlaceInv
<1>7. Once(m) /\ InSeq(m) \subseteq InSeq(mail[h]) \union {w}
  <2>1. w \in Posts
    BY PostNames
  <2>2. Once(Append(mail[h], w))
    BY <1>2, <1>6, <2>1, PostOnce
  <2> QED
    BY <1>1, <1>2, <2>2
<1>8. LaneIs(h, m, q, ear[h]) /\ mail'[h] = m /\ queue'[h] = q
  BY <1>1 DEF LaneIs
<1> HIDE DEF q, from, to
<1>9. In(from)' \subseteq In(from) \ {w} /\ In(to)' \subseteq In(to) \union {w} /\ {w} \in SUBSET In(from)
  BY <1>3, <1>5, <1>7, <1>8
<1>10. ASSUME NEW p \in Places, p /= to PROVE In(p)' \subseteq In(p)
  BY <1>3, <1>4, <1>8, <1>10, LaneInKept DEF from, to
<1>11. PlaceInv'
  BY <1>4, <1>5, <1>9, <1>10, SentKept, MovedFromTo, ZenonT(30)
<1>12. OnceLanes'
  BY <1>3, <1>4, <1>7, <1>8, OnceOutbound
<1> QED
  BY <1>4, <1>11, <1>12, OnceParts, OnceUntouched

LEMMA HandOverPlaces ==
    ASSUME TypeInv, PlaceInv, OnceInv, NEW h \in Hyperways, HandOver(h) PROVE PlaceInv' /\ OnceInv'
<1>1. PICK c \in Conns, w \in Waves :
              /\ c = ear[h] /\ w = Head(queue[h]) /\ queue[h] /= <<>>
              /\ LaneIs(h, mail[h], Tail(queue[h]), c)
              /\ heard[c] \in Seq(Waves \union {Greeting}) /\ heard'[c] = Append(heard[c], w)
              /\ \A d \in Conns \ {c} : heard'[d] = heard[d]
  BY HandOverLane DEF TypeInv
<1> DEFINE q == Tail(queue[h])
           from == <<"queue", h>>
           to == <<"heard", c>>
<1>2. /\ queue[h] \in Seq(Waves) /\ Once(queue[h]) /\ Once(mail[h])
      /\ \A d \in Conns : Once(heard[d])
  BY LaneTypes DEF OnceInv
<1>3. /\ w \in InSeq(queue[h]) /\ Once(q)
      /\ InSeq(q) = InSeq(queue[h]) \ {w}
  BY <1>1, <1>2, TakeOnce
<1>4. /\ UNCHANGED <<calls, inbound, home, downs, ups>> /\ Now' = Now /\ Wait' = Wait
  BY LaneSame
<1>5. /\ from \in Places /\ to \in Places /\ from /= to
      /\ In(from) = InSeq(queue[h]) /\ In(from)' = InSeq(queue'[h])
      /\ In(to) = InSeq(heard[c]) \ {Greeting} /\ In(to)' = InSeq(heard'[c]) \ {Greeting}
  BY PlacesAre, InAre
<1>6. w \notin InSeq(heard[c])
  BY <1>3, <1>5, WaveNames DEF PlaceInv
<1>7. Once(heard'[c]) /\ InSeq(heard'[c]) = InSeq(heard[c]) \union {w}
  <2>1. w \in Waves \union {Greeting} /\ Once(heard[c])
    BY <1>2
  <2> QED
    BY <1>1, <1>6, <2>1, PostOnce, Appends
<1>8. LaneIs(h, mail[h], q, c) /\ queue'[h] = q
  BY <1>1 DEF LaneIs
<1> HIDE DEF q, from, to
<1>9. In(from)' \subseteq In(from) \ {w} /\ In(to)' \subseteq In(to) \union {w} /\ {w} \in SUBSET In(from)
  BY <1>3, <1>5, <1>7, <1>8
<1>10. ASSUME NEW p \in Places, p /= to PROVE In(p)' \subseteq In(p)
  <2>1. \A d \in Conns : p = <<"heard", d>> => heard'[d] = heard[d]
    BY <1>1, <1>10 DEF to
  <2> QED
    BY <1>3, <1>4, <1>8, <2>1, LaneInKept DEF from, to
<1>11. PlaceInv'
  BY <1>4, <1>5, <1>9, <1>10, SentKept, MovedFromTo, ZenonT(30)
<1>12. OnceLanes'
  BY <1>2, <1>3, <1>4, <1>8, OnceOutbound
<1>13. OnceHeard'
  <2>1. \A d \in Conns : Once(heard'[d])
    BY <1>1, <1>2, <1>7
  <2> QED
    BY <2>1 DEF OnceHeard, Once, Before
<1> QED
  BY <1>4, <1>11, <1>12, <1>13, OnceParts, OnceUntouched

LEMMA HandOverHomePlaces ==
    ASSUME TypeInv, PlaceInv, OnceInv, HandOverHome PROVE PlaceInv' /\ OnceInv'
<1>1. PICK w \in Waves :
              /\ w = Head(mail[Home]) /\ mail[Home] /= <<>> /\ home' = Append(home, w)
              /\ LaneIs(Home, Tail(mail[Home]), queue[Home], ear[Home])
  BY HandOverHomeLane DEF TypeInv
<1> DEFINE m == Tail(mail[Home])
           from == <<"mail", Home>>
           to == <<"home", 0>>
<1>2. /\ mail[Home] \in Seq(Posts) /\ Once(mail[Home]) /\ Once(queue[Home]) /\ Home \in Hyperways
      /\ home \in Seq(Waves) /\ Once(home)
  BY Names, LaneTypes, TypeParts DEF OnceInv, TypeInv, HomeOK
<1>3. /\ w \in InSeq(mail[Home]) /\ Once(m)
      /\ InSeq(m) = InSeq(mail[Home]) \ {w}
  BY <1>1, <1>2, TakeOnce
<1>4. UNCHANGED <<calls, task, current, inbound, heard, downs, ups>>
  BY DEF HandOverHome, taskVars, countVars, connVars
<1>5. Now' = Now /\ Wait' = Wait
  BY <1>4, LaneWaits
<1>6. /\ from \in Places /\ to \in Places /\ from /= to
      /\ In(from) = InSeq(mail[Home]) \intersect Waves
      /\ In(from)' = InSeq(mail'[Home]) \intersect Waves
      /\ In(to) = InSeq(home) /\ In(to)' = InSeq(home')
  BY <1>2, PlacesAre, InAre
<1>7. w \notin InSeq(home)
  BY <1>3, <1>6 DEF PlaceInv
<1>8. Once(home') /\ InSeq(home') = InSeq(home) \union {w}
  BY <1>1, <1>2, <1>7, PostOnce, Appends
<1>9. LaneIs(Home, m, queue[Home], ear[Home]) /\ mail'[Home] = m
  BY <1>1 DEF LaneIs
<1> HIDE DEF m, from, to
<1>10. In(from)' \subseteq In(from) \ {w} /\ In(to)' \subseteq In(to) \union {w} /\ {w} \in SUBSET In(from)
  BY <1>3, <1>6, <1>8, <1>9
<1>11. ASSUME NEW p \in Places, p /= to PROVE In(p)' \subseteq In(p)
  BY <1>2, <1>3, <1>4, <1>5, <1>9, <1>11, LaneInKept DEF from, to
<1>12. PlaceInv'
  BY <1>4, <1>6, <1>10, <1>11, SentKept, MovedFromTo, ZenonT(30)
<1>13. OnceLanes'
  BY <1>2, <1>3, <1>4, <1>9, OnceOutbound
<1> QED
  BY <1>4, <1>8, <1>12, <1>13, OnceParts, OnceUntouched

LEMMA StepPlaces ==
    ASSUME TypeInv, PlaceInv, OnceInv, [Next]_vars PROVE PlaceInv' /\ OnceInv'
<1>1. ASSUME NEW c \in Conns, Enter(c) \/ AskMount(c) \/ AskRemove(c)
      PROVE  PlaceInv' /\ OnceInv'
  <2>1. PICK m \in {Internal(c), Mount(c), Remove(c)} : Called(m)
    BY <1>1 DEF Enter, AskMount, AskRemove
  <2>2. m \in CallTypes /\ m.call /= "Wave"
    BY CallNames, CallsDiffer
  <2>3. UNCHANGED <<task, current, inbound, mail, queue, heard, home, downs, ups>>
    BY <1>1 DEF Enter, AskMount, AskRemove, taskVars, laneVars, outVars, countVars
  <2> QED
    BY <2>1, <2>2, <2>3, GatePlaces
<1>2. ASSUME UNCHANGED <<calls, task, current, inbound, mail, queue, heard, home, downs, ups>>
      PROVE  PlaceInv' /\ OnceInv'
  <2>1. Now' = Now /\ Wait' = Wait
    BY <1>2 DEF Now, Wait
  <2>2. \A p \in Places : In(p)' \subseteq In(p)
    BY <1>2, <2>1, InKept
  <2> QED
    BY <1>2, <2>2, SentKept, Shrunk, OnceParts, OnceUntouched
<1>3. ASSUME NEW c \in Conns, Drop(c) PROVE PlaceInv' /\ OnceInv'
  BY <1>2, <1>3 DEF Drop, taskVars, laneVars, outVars, countVars
<1>4. CASE UNCHANGED vars
  BY <1>2, <1>4 DEF vars, taskVars, laneVars, outVars, connVars, countVars
<1>5. CASE TakeInternal \/ TakeRemove
  <2>1. /\ Taking("Internal") \/ Taking("Remove")
        /\ UNCHANGED <<task, current, inbound, mail, queue, heard, home, downs, ups>>
    BY <1>5 DEF TakeInternal, TakeRemove, laneVars, outVars, connVars, countVars
  <2>2. Now' = Now
    BY <2>1 DEF Now
  <2> QED
    BY <2>1, <2>2, TakenPlaces
<1>6. CASE TakeMount
  <2>1. Taking("Mount") /\ UNCHANGED <<inbound, mail, queue, heard, home, downs, ups>>
    BY <1>6 DEF TakeMount, laneVars, outVars, countVars
  <2>2. Now' \subseteq Now
    BY <1>6 DEF TakeMount, Now
  <2> QED
    BY <2>1, <2>2, TakenPlaces
<1>7. ASSUME NEW h \in Hyperways, Lane(h) \/ HandOver(h) PROVE PlaceInv' /\ OnceInv'
  BY <1>7, LaneTakesWavePlaces, LaneTakesPlaces, HandOverFailsPlaces, RequeuePlaces,
     HandOverPlaces
  DEF Lane
<1> QED
  BY <1>1, <1>3, <1>4, <1>5, <1>6, <1>7, TakeWavePlaces, RoutePlaces, RouteTimeoutPlaces,
     MountedPlaces, HandOverHomePlaces, SendDownPlaces, SendUpPlaces,
     ForwardPlaces, ForwardTimeoutPlaces
  DEF Next, Task

LEMMA InitPlaces == ASSUME Init PROVE PlaceInv /\ OnceInv
<1>1. \A x : /\ x \notin InSeq(calls) /\ x \notin InSeq(home)
             /\ \A h \in Hyperways : /\ x \notin InSeq(inbound[h])
                                    /\ x \notin InSeq(mail[h]) /\ x \notin InSeq(queue[h])
             /\ \A c \in Conns : x \notin InSeq(heard[c])
  BY DEF Init, InSeq
<1>2. Now = {} /\ Wait = {}
  BY <1>1 DEF Init, Now, Wait
<1>3. ASSUME NEW p \in Places PROVE In(p) = {}
  <2>1. InSeq(home) = {} /\ \A h \in Hyperways : /\ InSeq(inbound[h]) = {}
                                               /\ InSeq(mail[h]) = {} /\ InSeq(queue[h]) = {}
    BY <1>1
  <2>2. \A c \in Conns : InSeq(heard[c]) = {}
    BY <1>1
  <2> QED
    BY <1>2, <2>1, <2>2, PlaceNames, InAre
<1>4. PlaceInv
  BY <1>3 DEF PlaceInv
<1>5. OnceInv
  BY <1>1, BeforeIsIn DEF OnceInv, Once
<1> QED
  BY <1>4, <1>5

-----------------------------------------------------------------------------
(* What waves a lane holds, and whom it hands them to.                     *)

\* The surface at the far end of a hyperway.
Far(h) == IF h.conn = Nobody THEN h.standing ELSE SurfaceOf[h.conn]

Down(w, s) == w \in DownWaves /\ w.to = s

RoutesKind == \A s \in Surfaces \union {"home"} : table[s] /= NoHyperway => Far(table[s]) = s
BoundKind  == \A c \in Conns : bound[c] /= NoHyperway => Far(bound[c]) = SurfaceOf[c]
InKind     == /\ InSeq(inbound[Home]) \subseteq DownWaves
              /\ \A h \in Hyperways \ {Home} : InSeq(inbound[h]) \subseteq UpWaves
OutKind    == \A h \in Hyperways \ {Home} :
                 /\ \A w \in InSeq(mail[h]) \intersect Waves : Down(w, Far(h))
                 /\ \A w \in InSeq(queue[h]) : Down(w, Far(h))
EarKind    == \A h \in Hyperways, c \in Conns :
                 ear[h] = c \/ ExtPost(c) \in InSeq(mail[h]) => bound[c] = h
HeardKind  == \A c \in Conns :
                 /\ \A w \in InSeq(heard[c]) : w = Greeting \/ Down(w, SurfaceOf[c])
                 /\ \A w : ~Before(heard[c], w, Greeting)

KindInv == RoutesKind /\ BoundKind /\ InKind /\ OutKind /\ EarKind /\ HeardKind

LEMMA FarNames ==
    /\ Far(Home) = "home" /\ \A s \in Surfaces : Far(Standing(s)) = s
    /\ \A c \in Conns : Far(Added(c)) = SurfaceOf[c]
    /\ \A h \in Hyperways : Far(h) = "home" => h = Home
<1>1. Far(Home) = "home" /\ \A s \in Surfaces : Far(Standing(s)) = s
  BY DEF Far, Home, Standing, Nobody
<1>2. ASSUME NEW c \in Conns PROVE Far(Added(c)) = SurfaceOf[c] /\ SurfaceOf[c] \in Surfaces
  BY Names DEF Far, Added
<1>3. \A s \in Surfaces : s /= "home"
  BY Names
<1>4. ASSUME NEW h \in Hyperways PROVE Far(h) = "home" => h = Home
  BY <1>1, <1>2, <1>3 DEF Hyperways
<1> QED
  BY <1>1, <1>2, <1>4

LEMMA KindUntouched ==
    ASSUME KindInv
    PROVE  /\ UNCHANGED table => RoutesKind'
           /\ UNCHANGED bound => BoundKind'
           /\ UNCHANGED inbound => InKind'
           /\ UNCHANGED <<mail, queue>> => OutKind'
           /\ UNCHANGED <<mail, ear, bound>> => EarKind'
           /\ UNCHANGED heard => HeardKind'
<1>1. UNCHANGED table => RoutesKind'
  BY DEF KindInv, RoutesKind, Far
<1>2. UNCHANGED bound => BoundKind'
  BY DEF KindInv, BoundKind, Far
<1>3. UNCHANGED inbound => InKind'
  BY DEF KindInv, InKind, InSeq
<1>4. UNCHANGED <<mail, queue>> => OutKind'
  BY DEF KindInv, OutKind, InSeq, Far, Down
<1>5. UNCHANGED <<mail, ear, bound>> => EarKind'
  BY DEF KindInv, EarKind, InSeq
<1>6. UNCHANGED heard => HeardKind'
  BY DEF KindInv, HeardKind, InSeq, Before, Down
<1> QED
  BY <1>1, <1>2, <1>3, <1>4, <1>5, <1>6

LEMMA TableKinds ==
    ASSUME TypeInv, KindInv, NEW c \in Conns, NEW h \in {Added(c), NoHyperway},
           table' = [table EXCEPT ![SurfaceOf[c]] = h],
           UNCHANGED <<bound, inbound, mail, queue, ear, heard>>
    PROVE  KindInv'
<1>1. ASSUME NEW s \in Surfaces \union {"home"}, table'[s] /= NoHyperway PROVE Far(table'[s]) = s
  <2>1. table'[s] = IF s = SurfaceOf[c] THEN h ELSE table[s]
    BY TypeParts DEF TypeInv, TableOK
  <2>2. CASE s = SurfaceOf[c]
    BY <1>1, <2>1, <2>2, FarNames
  <2>3. CASE s /= SurfaceOf[c]
    BY <1>1, <2>1, <2>3 DEF KindInv, RoutesKind
  <2> QED
    BY <2>2, <2>3
<1> QED
  BY <1>1, KindUntouched DEF KindInv, RoutesKind, Far

LEMMA TakeKinds == ASSUME TypeInv, KindInv, TakeInternal \/ TakeRemove PROVE KindInv'
<1> DEFINE c == Head(calls).conn
<1>1. c \in Conns
  BY TakingTypes, CallNames, TypeParts DEF TypeInv, TakeInternal, TakeRemove
<1>2. \/ table' = [table EXCEPT ![SurfaceOf[c]] = Added(c)]
      \/ table' = [table EXCEPT ![SurfaceOf[c]] = NoHyperway]
  BY DEF TakeInternal, TakeRemove
<1>3. UNCHANGED <<bound, inbound, mail, queue, ear, heard>>
  BY DEF TakeInternal, TakeRemove, laneVars, outVars, connVars
<1> HIDE DEF c
<1> QED
  BY <1>1, <1>2, <1>3, TableKinds

\* Waves enter or leave a lane.
LEMMA InboundKinds ==
    ASSUME TypeInv, KindInv, NEW h \in Hyperways, NEW q,
           \A w \in InSeq(q) : \/ w \in InSeq(inbound[h])
                               \/ w \in IF h = Home THEN DownWaves ELSE UpWaves,
           inbound' = [inbound EXCEPT ![h] = q], UNCHANGED <<table, bound, mail, queue, ear, heard>>
    PROVE  KindInv'
<1>1. \A k \in Hyperways : inbound'[k] = IF k = h THEN q ELSE inbound[k]
  BY TypeParts DEF TypeInv, LanesOK
<1>2. InSeq(q) \subseteq IF h = Home THEN DownWaves ELSE UpWaves
  BY DEF KindInv, InKind
<1>3. InKind'
  <2>1. ASSUME NEW k \in Hyperways
        PROVE  InSeq(inbound'[k]) \subseteq IF k = Home THEN DownWaves ELSE UpWaves
    <3>1. CASE k = h
      BY <1>1, <1>2, <3>1
    <3>2. CASE k /= h
      <4>1. inbound'[k] = inbound[k]
        BY <1>1, <3>2
      <4> QED
        BY <4>1 DEF KindInv, InKind
    <3> QED
      BY <3>1, <3>2
  <2>2. InSeq(inbound[Home])' \subseteq DownWaves
    BY <2>1, Names DEF InSeq
  <2>3. \A k \in Hyperways \ {Home} : InSeq(inbound[k])' \subseteq UpWaves
    BY <2>1 DEF InSeq
  <2> QED
    BY <2>2, <2>3 DEF InKind, InSeq
<1> QED
  BY <1>3, KindUntouched DEF KindInv

LEMMA SendDownKinds == ASSUME TypeInv, KindInv, NEW s \in Surfaces, SendDown(s) PROVE KindInv'
<1>1. downs' \in 1 .. MaxWaves
  BY TypeParts, CapTypes DEF TypeInv, CountOK, SendDown
<1>2. PICK x \in DownWaves : x = [kind |-> "down", no |-> downs', to |-> s]
  BY <1>1 DEF DownWaves
<1> DEFINE q == Append(inbound[Home], x)
<1>3. inbound' = [inbound EXCEPT ![Home] = q] /\ UNCHANGED <<table, bound, mail, queue, ear, heard>>
  BY <1>2 DEF SendDown, taskVars, connVars, outVars
<1>4. InSeq(q) = InSeq(inbound[Home]) \union {x}
  <2>1. inbound[Home] \in Seq(Waves) /\ x \in Waves
    BY Names, LaneTypes DEF Waves
  <2> QED
    BY <2>1, Appends
<1> HIDE DEF q
<1> QED
  BY <1>3, <1>4, Names, InboundKinds

LEMMA BoundFar ==
    ASSUME TypeInv, KindInv, NEW c \in Conns, conn[c] = "live"
    PROVE  bound[c] \in Hyperways \ {Home} /\ Far(bound[c]) = SurfaceOf[c]
<1>1. bound[c] \in Hyperways /\ bound[c] /= NoHyperway
  BY Names DEF TypeInv, BoundOK
<1>2. Far(bound[c]) = SurfaceOf[c] /\ SurfaceOf[c] /= "home"
  BY <1>1, Names DEF KindInv, BoundKind
<1> QED
  BY <1>1, <1>2, FarNames

LEMMA SendUpKinds == ASSUME TypeInv, KindInv, NEW c \in Conns, SendUp(c) PROVE KindInv'
<1>1. ups' \in 1 .. MaxUp
  BY TypeParts, CapTypes DEF TypeInv, CountOK, SendUp
<1>2. PICK x \in UpWaves : x = [kind |-> "up", no |-> ups', to |-> "home"]
  BY <1>1 DEF UpWaves
<1>3. PICK h \in Hyperways \ {Home} : h = bound[c]
  BY BoundFar DEF SendUp
<1> DEFINE q == Append(inbound[h], x)
<1>4. inbound' = [inbound EXCEPT ![h] = q] /\ UNCHANGED <<table, bound, mail, queue, ear, heard>>
  BY <1>2, <1>3 DEF SendUp, taskVars, connVars, outVars
<1>5. InSeq(q) = InSeq(inbound[h]) \union {x}
  BY LaneTypes, Appends DEF Waves
<1> HIDE DEF q
<1> QED
  BY <1>4, <1>5, Names, InboundKinds

LEMMA ForwardKinds ==
    ASSUME TypeInv, KindInv, NEW h \in Hyperways, Forward(h) \/ ForwardTimeout(h) PROVE KindInv'
<1> DEFINE q == Tail(inbound[h])
<1>1. inbound[h] /= <<>> /\ inbound[h] \in Seq(Waves)
  BY LaneTypes DEF Forward, ForwardTimeout
<1>2. InSeq(q) \subseteq InSeq(inbound[h])
  BY <1>1, Takes
<1>3. inbound' = [inbound EXCEPT ![h] = q] /\ UNCHANGED <<table, bound, mail, queue, ear, heard>>
  BY DEF Forward, ForwardTimeout, taskVars, connVars, outVars
<1> HIDE DEF q
<1> QED
  BY <1>2, <1>3, InboundKinds

\* A lane's step brings no wave and no listener it had not.
LEMMA OutboundKinds ==
    ASSUME TypeInv, KindInv, NEW h \in Hyperways, NEW m, NEW q, NEW e, LaneIs(h, m, q, e),
           \A w \in (InSeq(m) \intersect Waves) \union InSeq(q) :
              \/ w \in (InSeq(mail[h]) \intersect Waves) \union InSeq(queue[h])
              \/ h = Home \/ Down(w, Far(h))
    PROVE  OutKind'
<1>1. ASSUME NEW k \in Hyperways \ {Home},
             NEW w \in (InSeq(mail'[k]) \intersect Waves) \union InSeq(queue'[k])
      PROVE  Down(w, Far(k))
  <2>1. CASE k = h
    BY <1>1, <2>1 DEF KindInv, OutKind, LaneIs
  <2>2. CASE k /= h
    BY <1>1, <2>2 DEF KindInv, OutKind, LaneIs
  <2> QED
    BY <2>1, <2>2
<1> QED
  BY <1>1 DEF OutKind, Down, Far, InSeq

LEMMA EarKinds ==
    ASSUME TypeInv, KindInv, NEW h \in Hyperways, NEW m, NEW q, NEW e, LaneIs(h, m, q, e),
           UNCHANGED bound,
           e = ear[h] \/ e = Nobody \/ (e \in Conns /\ ExtPost(e) \in InSeq(mail[h])),
           \A c \in Conns : ExtPost(c) \in InSeq(m) => ExtPost(c) \in InSeq(mail[h])
    PROVE  EarKind'
<1>1. ASSUME NEW k \in Hyperways, NEW c \in Conns,
             ear'[k] = c \/ ExtPost(c) \in InSeq(mail'[k])
      PROVE  bound[c] = k
  <2>1. CASE k = h
    <3>1. ear[h] = c \/ ExtPost(c) \in InSeq(mail[h])
      BY <1>1, <2>1, Names DEF LaneIs
    <3> QED
      BY <2>1, <3>1 DEF KindInv, EarKind
  <2>2. CASE k /= h
    <3>1. ear[k] = c \/ ExtPost(c) \in InSeq(mail[k])
      BY <1>1, <2>2 DEF LaneIs
    <3> QED
      BY <3>1 DEF KindInv, EarKind
  <2> QED
    BY <2>1, <2>2
<1> QED
  BY <1>1 DEF EarKind, InSeq, ExtPost

LEMMA TargetFar ==
    ASSUME TypeInv, KindInv, task = "route"
    PROVE  /\ Target \in Hyperways
           /\ Target = Home \/ Down(current.wave, Far(Target))
<1>1. current.wave \in Waves /\ Target \in Hyperways
  BY TargetTypes DEF TypeInv
<1>2. Far(Target) = current.wave.to
  BY <1>1, WaveNames, Names DEF KindInv, RoutesKind, Target
<1>3. CASE current.wave \in UpWaves
  BY <1>1, <1>2, <1>3, FarNames DEF UpWaves
<1>4. CASE current.wave \in DownWaves
  BY <1>1, <1>2, <1>4 DEF Down
<1> QED
  BY <1>1, <1>3, <1>4 DEF Waves

LEMMA RouteKinds == ASSUME TypeInv, KindInv, Route PROVE KindInv'
<1>1. PICK w \in Waves, h \in Hyperways :
              /\ w = current.wave /\ h = Target
              /\ LaneIs(h, Append(mail[h], w), queue[h], ear[h])
              /\ InSeq(Append(mail[h], w)) = InSeq(mail[h]) \union {w}
  BY RouteLane DEF TypeInv
<1>2. h = Home \/ Down(w, Far(h))
  BY <1>1, TargetFar DEF Route
<1>3. UNCHANGED <<table, bound, inbound, heard>>
  BY DEF Route, connVars
<1> DEFINE m == Append(mail[h], w)
<1>4. LaneIs(h, m, queue[h], ear[h]) /\ InSeq(m) = InSeq(mail[h]) \union {w}
  BY <1>1
<1> HIDE DEF m
<1>5. OutKind'
  BY <1>2, <1>4, OutboundKinds
<1>6. \A c \in Conns : ExtPost(c) \in InSeq(m) => ExtPost(c) \in InSeq(mail[h])
  BY <1>4, PostNames
<1>7. EarKind'
  BY <1>3, <1>4, <1>6, EarKinds
<1> QED
  BY <1>3, <1>5, <1>7, KindUntouched DEF KindInv

\* The connection that is mounted had no hyperway before, and no lane knew it.
LEMMA MountedKinds == ASSUME TypeInv, KindInv, Mounted PROVE KindInv'
<1>1. PICK c \in Conns, h \in Hyperways \ {Home} :
              /\ c = current.conn /\ h = table[SurfaceOf[c]]
              /\ LaneIs(h, Append(mail[h], ExtPost(c)), queue[h], ear[h])
              /\ InSeq(Append(mail[h], ExtPost(c))) = InSeq(mail[h]) \union {ExtPost(c)}
              /\ heard'[c] = <<Greeting>> /\ \A d \in Conns \ {c} : heard'[d] = heard[d]
  BY MountedLane DEF TypeInv
<1> DEFINE m == Append(mail[h], ExtPost(c))
<1>2. LaneIs(h, m, queue[h], ear[h]) /\ InSeq(m) = InSeq(mail[h]) \union {ExtPost(c)}
  BY <1>1
<1> HIDE DEF m
<1>3. bound' = [bound EXCEPT ![c] = h] /\ UNCHANGED <<table, inbound>>
  BY <1>1 DEF Mounted
<1>4. Far(h) = SurfaceOf[c]
  BY <1>1, Names DEF KindInv, RoutesKind
<1>5. \A d \in Conns : bound'[d] = IF d = c THEN h ELSE bound[d]
  BY <1>3, TypeParts DEF TypeInv, ConnOK
<1>6. \A d \in Conns : bound'[d] /= NoHyperway => Far(bound'[d]) = SurfaceOf[d]
  BY <1>4, <1>5 DEF KindInv, BoundKind
<1>7. BoundKind'
  BY <1>6 DEF BoundKind, Far
<1>8. InSeq(heard'[c]) = {Greeting} /\ \A w : ~Before(heard'[c], w, Greeting)
  BY <1>1, OneAlone
<1>9. ASSUME NEW d \in Conns
      PROVE  /\ \A w \in InSeq(heard'[d]) : w = Greeting \/ Down(w, SurfaceOf[d])
             /\ \A w : ~Before(heard'[d], w, Greeting)
  <2>1. CASE d = c
    BY <1>8, <2>1
  <2>2. CASE d /= c
    BY <1>1, <2>2 DEF KindInv, HeardKind
  <2> QED
    BY <2>1, <2>2
<1>10. HeardKind'
  BY <1>9 DEF HeardKind, Before, InSeq, Down
<1>11. OutKind'
  <2>1. ExtPost(c) \notin Waves
    BY PostNames
  <2> QED
    BY <1>2, <2>1, OutboundKinds
<1>12. bound[c] = NoHyperway
  BY <1>1, TypeParts DEF TypeInv, TaskOK, BoundOK, Mounted
<1>13. ASSUME NEW k \in Hyperways, NEW d \in Conns,
              ear'[k] = d \/ ExtPost(d) \in InSeq(mail'[k])
       PROVE  bound'[d] = k
  <2>1. ear'[k] = ear[k]
    BY <1>2 DEF LaneIs
  <2>2. ear[k] = d \/ ExtPost(d) \in InSeq(mail[k]) \/ (k = h /\ d = c)
    <3>1. CASE k = h
      BY <1>2, <1>13, <2>1, <3>1, PostNames DEF LaneIs
    <3>2. CASE k /= h
      BY <1>2, <1>13, <2>1, <3>2 DEF LaneIs
    <3> QED
      BY <3>1, <3>2
  <2>3. CASE ear[k] = d \/ ExtPost(d) \in InSeq(mail[k])
    <3>1. bound[d] = k
      BY <2>3 DEF KindInv, EarKind
    <3>2. d /= c
      BY <1>12, <3>1, Names
    <3> QED
      BY <1>5, <3>1, <3>2
  <2> QED
    BY <1>5, <2>2, <2>3
<1>14. EarKind'
  BY <1>13 DEF EarKind, InSeq, ExtPost
<1> QED
  BY <1>3, <1>7, <1>10, <1>11, <1>14, KindUntouched DEF KindInv

LEMMA LaneKinds == ASSUME TypeInv, KindInv, NEW h \in Hyperways, Lane(h) PROVE KindInv'
<1>1. UNCHANGED <<table, bound, inbound, heard>> /\ OutOK
  BY LaneSame, LaneHeard, TypeParts DEF TypeInv
<1>2. ASSUME OutKind', EarKind' PROVE KindInv'
  BY <1>1, <1>2, KindUntouched DEF KindInv
<1>3. CASE LaneTakesWave(h)
  <2> DEFINE m == Tail(mail[h])
  <2>1. PICK w \in Waves, q \in Seq(Waves) :
              /\ LaneIs(h, m, q, ear[h])
              /\ InSeq(mail[h]) = {w} \union InSeq(m)
              /\ InSeq(q) \subseteq InSeq(queue[h]) \union {w}
    BY <1>1, <1>3, LaneTakesWaveLane
  <2> HIDE DEF m
  <2>2. OutKind'
    BY <2>1, OutboundKinds
  <2>3. EarKind'
    BY <1>1, <2>1, EarKinds
  <2> QED
    BY <1>2, <2>2, <2>3
<1>4. CASE LaneTakesExt(h)
  <2> DEFINE m == Tail(mail[h])
  <2>1. PICK c \in Conns :
              /\ LaneIs(h, m, queue[h], c)
              /\ InSeq(mail[h]) = {ExtPost(c)} \union InSeq(m)
    BY <1>1, <1>4, LaneTakesExtLane
  <2> HIDE DEF m
  <2>2. OutKind'
    BY <2>1, OutboundKinds
  <2>3. EarKind'
    BY <1>1, <2>1, EarKinds
  <2> QED
    BY <1>2, <2>2, <2>3
<1>5. CASE LaneTakesReset(h)
  <2>1. PICK m :
              /\ m = Tail(mail[h]) /\ LaneIs(h, m, queue[h], Nobody)
              /\ InSeq(mail[h]) = {ResetExt} \union InSeq(m)
    BY <1>1, <1>5, LaneTakesResetLane
  <2>2. OutKind'
    BY <2>1, OutboundKinds
  <2>3. EarKind'
    BY <1>1, <2>1, EarKinds
  <2> QED
    BY <1>2, <2>2, <2>3
<1>6. CASE HandOverFails(h)
  <2>1. PICK m :
              /\ m = Append(mail[h], ResetExt) /\ LaneIs(h, m, queue[h], ear[h])
              /\ InSeq(m) = InSeq(mail[h]) \union {ResetExt}
    BY <1>1, <1>6, HandOverFailsLane
  <2>2. OutKind'
    BY <2>1, PostNames, OutboundKinds
  <2>3. EarKind'
    BY <1>1, <2>1, PostNames, EarKinds
  <2> QED
    BY <1>2, <2>2, <2>3
<1>7. CASE Requeue(h)
  <2> DEFINE q == Tail(queue[h])
  <2>1. PICK w \in Waves, m \in Seq(Posts) :
              /\ w = Head(queue[h]) /\ queue[h] /= <<>>
              /\ LaneIs(h, m, q, ear[h])
              /\ InSeq(m) = InSeq(mail[h]) \union {w} \/ m = mail[h]
    BY <1>1, <1>7, RequeueLane
  <2>2. InSeq(queue[h]) = {w} \union InSeq(q)
    BY <1>1, <2>1, QueueHead
  <2> HIDE DEF q
  <2>3. OutKind'
    BY <2>1, <2>2, OutboundKinds
  <2>4. \A c \in Conns : ExtPost(c) \in InSeq(m) => ExtPost(c) \in InSeq(mail[h])
    BY <2>1, PostNames
  <2>5. EarKind'
    BY <1>1, <2>1, <2>4, EarKinds
  <2> QED
    BY <1>2, <2>3, <2>5
<1> QED
  BY <1>3, <1>4, <1>5, <1>6, <1>7 DEF Lane

LEMMA HandOverKinds == ASSUME TypeInv, KindInv, NEW h \in Hyperways, HandOver(h) PROVE KindInv'
<1>1. PICK c \in Conns, w \in Waves :
              /\ c = ear[h] /\ w = Head(queue[h]) /\ queue[h] /= <<>>
              /\ LaneIs(h, mail[h], Tail(queue[h]), c)
              /\ heard[c] \in Seq(Waves \union {Greeting}) /\ heard'[c] = Append(heard[c], w)
              /\ \A d \in Conns \ {c} : heard'[d] = heard[d]
  BY HandOverLane DEF TypeInv
<1>2. /\ UNCHANGED <<table, bound, inbound, mail, ear>>
      /\ h /= Home /\ InSeq(queue[h]) = {w} \union InSeq(Tail(queue[h]))
  <2>1. UNCHANGED <<table, bound, inbound, mail, ear>>
    BY LaneSame DEF HandOver
  <2>2. OutOK
    BY TypeParts DEF TypeInv
  <2> QED
    BY <1>1, <2>1, <2>2, OutParts, QueueHead
<1>3. bound[c] = h /\ Far(h) = SurfaceOf[c]
  <2>1. bound[c] = h
    BY <1>1 DEF KindInv, EarKind
  <2> QED
    BY <2>1, Names DEF KindInv, BoundKind
<1>4. OutKind'
  BY <1>1, <1>2, OutboundKinds
<1>5. Down(w, SurfaceOf[c]) /\ w /= Greeting
  BY <1>2, <1>3, WaveNames DEF KindInv, OutKind
<1>6. /\ InSeq(heard'[c]) = InSeq(heard[c]) \union {w}
      /\ \A a, b : Before(heard'[c], a, b) => Before(heard[c], a, b) \/ b = w
  BY <1>1, Appends
<1>7. ASSUME NEW d \in Conns
      PROVE  /\ \A v \in InSeq(heard'[d]) : v = Greeting \/ Down(v, SurfaceOf[d])
             /\ \A v : ~Before(heard'[d], v, Greeting)
  <2>1. CASE d = c
    BY <1>5, <1>6, <2>1 DEF KindInv, HeardKind
  <2>2. CASE d /= c
    BY <1>1, <2>2 DEF KindInv, HeardKind
  <2> QED
    BY <2>1, <2>2
<1>8. HeardKind'
  BY <1>7 DEF HeardKind, Before, InSeq, Down
<1> QED
  BY <1>2, <1>4, <1>8, KindUntouched DEF KindInv

LEMMA HandOverHomeKinds == ASSUME TypeInv, KindInv, HandOverHome PROVE KindInv'
<1> DEFINE m == Tail(mail[Home])
<1>1. PICK w \in Waves :
              /\ LaneIs(Home, m, queue[Home], ear[Home])
              /\ InSeq(mail[Home]) = {w} \union InSeq(m)
  BY HandOverHomeLane DEF TypeInv
<1> HIDE DEF m
<1>2. UNCHANGED <<table, bound, inbound, heard>> /\ Home \in Hyperways
  BY Names DEF HandOverHome, taskVars, connVars
<1>3. OutKind'
  BY <1>1, <1>2, OutboundKinds
<1>4. EarKind'
  BY <1>1, <1>2, EarKinds
<1> QED
  BY <1>2, <1>3, <1>4, KindUntouched DEF KindInv

LEMMA StepKinds == ASSUME TypeInv, OnceInv, KindInv, [Next]_vars PROVE KindInv'
<1>1. ASSUME UNCHANGED <<table, bound, inbound, mail, queue, ear, heard>> PROVE KindInv'
  BY <1>1, KindUntouched DEF KindInv
<1>2. ASSUME NEW c \in Conns, Enter(c) \/ AskMount(c) \/ Drop(c) \/ AskRemove(c) PROVE KindInv'
  BY <1>1, <1>2 DEF Enter, AskMount, Drop, AskRemove, taskVars, laneVars, outVars
<1>3. CASE TakeWave \/ TakeMount \/ RouteTimeout
  BY <1>1, <1>3 DEF TakeWave, TakeMount, RouteTimeout, laneVars, outVars, connVars
<1>4. CASE UNCHANGED vars
  BY <1>1, <1>4 DEF vars, taskVars, laneVars, outVars, connVars
<1>5. ASSUME NEW h \in Hyperways, Lane(h) \/ HandOver(h) PROVE KindInv'
  BY <1>5, LaneKinds, HandOverKinds
<1> QED
  BY <1>2, <1>3, <1>4, <1>5, TakeKinds, RouteKinds, MountedKinds, HandOverHomeKinds,
     SendDownKinds, SendUpKinds, ForwardKinds
  DEF Next, Task

LEMMA InitKinds == ASSUME Init PROVE KindInv
<1>1. ASSUME NEW s \in Surfaces \union {"home"}, table[s] /= NoHyperway PROVE Far(table[s]) = s
  BY <1>1, FarNames DEF Init
<1>2. BoundKind
  BY DEF Init, BoundKind
<1>3. \A x : /\ \A h \in Hyperways : /\ x \notin InSeq(inbound[h]) /\ x \notin InSeq(mail[h])
                                    /\ x \notin InSeq(queue[h]) /\ ear[h] = Nobody
             /\ \A c \in Conns : x \notin InSeq(heard[c])
  BY DEF Init, InSeq
<1>4. InKind
  BY <1>3, Names DEF InKind
<1>5. OutKind /\ HeardKind /\ EarKind
  BY <1>3, BeforeIsIn, Names DEF OutKind, HeardKind, EarKind
<1> QED
  BY <1>1, <1>2, <1>4, <1>5 DEF KindInv, RoutesKind

-----------------------------------------------------------------------------
(* The waves from Home pass one another nowhere but where a lane requeues  *)
(* one of them.                                                            *)

\* v was sent before w, if both come from Home and neither is in R.
Prec(R, v, w) ==
    v.kind = "down" /\ w.kind = "down" => v.no < w.no \/ v \in R \/ w \in R

Ahead(R, S, T) == \A v \in S, w \in T : Prec(R, v, w)
InLine(R, q)   == \A v, w \in InSeq(q) : Before(q, v, w) => Prec(R, v, w)

\* What has not reached a lane yet, and what a lane holds.
Later   == Now \union Wait \union InSeq(inbound[Home])
Held(h) == InSeq(mail[h]) \union InSeq(queue[h])

CallsLine == LET R == requeued IN
    /\ \A v, w \in Waves : Before(calls, WaveCall(v), WaveCall(w)) => Prec(R, v, w)
    /\ InLine(R, inbound[Home])
    /\ Ahead(R, Wait, InSeq(inbound[Home]))
    /\ Ahead(R, Now, Wait \union InSeq(inbound[Home]))
OutLine == LET R == requeued IN \A h \in Hyperways :
    /\ InLine(R, mail[h]) /\ InLine(R, queue[h])
    /\ Ahead(R, InSeq(queue[h]), InSeq(mail[h])) /\ Ahead(R, Held(h), Later)
HeardLine == LET R == requeued IN \A c \in Conns :
    /\ InLine(R, heard[c]) /\ Ahead(R, InSeq(heard[c]), Later)
    /\ bound[c] /= NoHyperway => Ahead(R, InSeq(heard[c]), Held(bound[c]))

LineInv == CallsLine /\ OutLine /\ HeardLine

LEMMA Kinds ==
    /\ Greeting.kind /= "down" /\ \A w \in UpWaves : w.kind /= "down"
    /\ \A w \in DownWaves : w.kind = "down" /\ w.no \in Nat
    /\ \A m \in Posts \ Waves : m.kind /= "down"
  BY DEF Greeting, UpWaves, DownWaves, Posts, ExtPost, ResetExt

\* Waves that leave, things that are no waves from Home, and exceptions disturb no order.
LEMMA AheadSubsets ==
    ASSUME NEW A, NEW B, NEW C, NEW D, NEW R, NEW Q, Ahead(R, A, B), R \subseteq Q,
           \A x \in C : x.kind = "down" => x \in A, \A x \in D : x.kind = "down" => x \in B
    PROVE  Ahead(Q, C, D)
  BY DEF Ahead, Prec

LEMMA InLineMore == ASSUME NEW R, NEW Q, NEW q, InLine(R, q), R \subseteq Q PROVE InLine(Q, q)
  BY DEF InLine, Prec

LEMMA AheadUnions ==
    ASSUME NEW R
    PROVE  /\ \A A, B, C : Ahead(R, A, B) /\ Ahead(R, A, C) <=> Ahead(R, A, B \union C)
           /\ \A A, B, C : Ahead(R, A, C) /\ Ahead(R, B, C) <=> Ahead(R, A \union B, C)
  BY DEF Ahead

LEMMA AheadNone ==
    ASSUME NEW R, NEW x, x.kind /= "down" \/ x \in R
    PROVE  \A A : Ahead(R, A, {x}) /\ Ahead(R, {x}, A)
  BY DEF Ahead, Prec

LEMMA PostLine ==
    ASSUME NEW S, NEW q \in Seq(S), NEW x \in S, NEW R, InLine(R, q), Ahead(R, InSeq(q), {x})
    PROVE  InLine(R, Append(q, x))
<1>1. /\ InSeq(Append(q, x)) = InSeq(q) \union {x}
      /\ \A a, b : Before(Append(q, x), a, b) => Before(q, a, b) \/ (b = x /\ a \in InSeq(q))
  BY Appends
<1> QED
  BY <1>1, BeforeIsIn DEF InLine, Ahead

LEMMA TakeLine ==
    ASSUME NEW S, NEW q \in Seq(S), q /= <<>>, NEW R, InLine(R, q)
    PROVE  /\ InLine(R, Tail(q)) /\ Ahead(R, {Head(q)}, InSeq(Tail(q)))
           /\ InSeq(Tail(q)) \subseteq InSeq(q) /\ Head(q) \in InSeq(q)
<1>1. /\ InSeq(q) = {Head(q)} \union InSeq(Tail(q))
      /\ \A a, b : Before(Tail(q), a, b) => Before(q, a, b)
      /\ \A b : b \in InSeq(Tail(q)) => Before(q, Head(q), b)
  BY Takes
<1>2. InLine(R, Tail(q))
  BY <1>1 DEF InLine
<1>3. \A b \in InSeq(Tail(q)) : Prec(R, Head(q), b)
  BY <1>1 DEF InLine
<1> QED
  BY <1>1, <1>2, <1>3 DEF Ahead

\* The invariant in the new state, from what the variables are there.
LEMMA CallsLinePrimed ==
    ASSUME NEW R, R = requeued', NEW J, J = InSeq(inbound'[Home]), InLine(R, inbound'[Home]),
           \A v, w \in Waves : Before(calls', WaveCall(v), WaveCall(w)) => Prec(R, v, w),
           Ahead(R, Wait', J), Ahead(R, Now', Wait' \union J)
    PROVE  CallsLine'
<1>1. InSeq(inbound[Home])' = J
  BY DEF InSeq
<1> QED
  BY <1>1 DEF CallsLine, Ahead, InLine, Prec, InSeq, Before, WaveCall

LaneLine(R, m, q, L) ==
    /\ InLine(R, m) /\ InLine(R, q)
    /\ Ahead(R, InSeq(q), InSeq(m)) /\ Ahead(R, InSeq(m) \union InSeq(q), L)

LEMMA OutLinePrimed ==
    ASSUME NEW R, R = requeued', NEW L, L = Later',
           \A h \in Hyperways : LaneLine(R, mail'[h], queue'[h], L)
    PROVE  OutLine'
<1>1. \A h \in Hyperways : Held(h)' = InSeq(mail'[h]) \union InSeq(queue'[h])
  BY DEF Held, InSeq
<1> QED
  BY <1>1 DEF OutLine, LaneLine, Ahead, InLine, Prec, InSeq, Before

HearLine(R, q, L, H) == InLine(R, q) /\ Ahead(R, InSeq(q), L) /\ Ahead(R, InSeq(q), H)

LEMMA HeardLinePrimed ==
    ASSUME NEW R, R = requeued', NEW L, L = Later',
           \A c \in Conns : HearLine(R, heard'[c], L,
               IF bound'[c] /= NoHyperway THEN InSeq(mail'[bound'[c]]) \union InSeq(queue'[bound'[c]])
                                          ELSE {})
    PROVE  HeardLine'
<1>1. ASSUME NEW c \in Conns
      PROVE  /\ InLine(R, heard'[c]) /\ Ahead(R, InSeq(heard'[c]), L)
             /\ bound'[c] /= NoHyperway
                => Ahead(R, InSeq(heard'[c]), InSeq(mail'[bound'[c]]) \union InSeq(queue'[bound'[c]]))
  BY DEF HearLine
<1>2. \A c \in Conns : Held(bound[c])' = InSeq(mail'[bound'[c]]) \union InSeq(queue'[bound'[c]])
  BY DEF Held, InSeq
<1> QED
  BY <1>1, <1>2 DEF HeardLine, Ahead, InLine, Prec, InSeq, Before

\* ... and in the old one.
LEMMA OutLineIs ==
    ASSUME LineInv, NEW h \in Hyperways
    PROVE  LaneLine(requeued, mail[h], queue[h], Later)
  BY DEF LineInv, OutLine, LaneLine, Held

LEMMA HeardLineIs ==
    ASSUME LineInv, NEW c \in Conns
    PROVE  HearLine(requeued, heard[c], Later, IF bound[c] /= NoHyperway THEN Held(bound[c]) ELSE {})
<1>1. Ahead(requeued, InSeq(heard[c]), {})
  BY DEF Ahead
<1> QED
  BY <1>1 DEF LineInv, HeardLine, HearLine

\* Nothing comes nearer: waves only leave.
LEMMA LineShrunk ==
    ASSUME LineInv, Wait' \subseteq Wait, Now' \subseteq Now, requeued \subseteq requeued',
           \A v, w \in Waves : Before(calls', WaveCall(v), WaveCall(w))
                               => Before(calls, WaveCall(v), WaveCall(w)),
           InSeq(inbound'[Home]) \subseteq InSeq(inbound[Home]),
           InLine(requeued, inbound'[Home])
    PROVE  CallsLine' /\ Later' \subseteq Later
<1>1. PICK R, Q, I, J : /\ R = requeued /\ Q = requeued' /\ I = InSeq(inbound[Home])
                        /\ J = InSeq(inbound'[Home])
  OBVIOUS
<1>2. Ahead(R, Wait, I) /\ Ahead(R, Now, Wait \union I)
  BY <1>1 DEF LineInv, CallsLine
<1>3. Ahead(Q, Wait', J) /\ Ahead(Q, Now', Wait' \union J) /\ InLine(Q, inbound'[Home])
  BY <1>1, <1>2, AheadSubsets, InLineMore
<1>4. \A v, w \in Waves : Before(calls', WaveCall(v), WaveCall(w)) => Prec(Q, v, w)
  BY <1>1 DEF LineInv, CallsLine, Prec
<1>5. CallsLine'
  BY <1>1, <1>3, <1>4, CallsLinePrimed
<1>6. Later' = Now' \union Wait' \union J
  BY <1>1 DEF Later, InSeq
<1> QED
  BY <1>1, <1>5, <1>6 DEF Later

\* Lanes and listeners whose future loses waves, or gains some that do not come from Home.
LEMMA LineUntouched ==
    ASSUME LineInv, Later' \subseteq Later \union UpWaves,
           UNCHANGED <<mail, queue, heard, bound, requeued>>
    PROVE  OutLine' /\ HeardLine'
<1>1. PICK R, L, M : R = requeued /\ R = requeued' /\ L = Later' /\ M = Later
  OBVIOUS
<1>2. \A x \in L : x.kind = "down" => x \in M
  BY <1>1, Kinds
<1>3. \A h \in Hyperways : LaneLine(R, mail[h], queue[h], L)
  BY <1>1, <1>2, OutLineIs, AheadSubsets DEF LaneLine
<1>4. ASSUME NEW c \in Conns
      PROVE  HearLine(R, heard[c], L, IF bound[c] /= NoHyperway THEN Held(bound[c]) ELSE {})
  <2> DEFINE H == IF bound[c] /= NoHyperway THEN Held(bound[c]) ELSE {}
  <2>1. HearLine(R, heard[c], M, H)
    BY <1>1, HeardLineIs
  <2> HIDE DEF H
  <2>2. HearLine(R, heard[c], L, H)
    BY <1>2, <2>1, AheadSubsets DEF HearLine
  <2> QED
    BY <2>2 DEF H
<1>5. OutLine'
  BY <1>1, <1>3, OutLinePrimed
<1>6. HeardLine'
  BY <1>1, <1>4, HeardLinePrimed DEF Held
<1> QED
  BY <1>5, <1>6

LEMMA GateLine ==
    ASSUME TypeInv, OnceInv, LineInv, NEW m \in CallTypes, m.call /= "Wave", Called(m),
           UNCHANGED <<task, current, inbound, mail, queue, requeued, heard, bound>>
    PROVE  LineInv'
<1>1. Wait' = Wait /\ Now' = Now
  BY WaitPosted DEF Now
<1>2. ASSUME NEW v \in Waves, NEW w \in Waves, Before(calls', WaveCall(v), WaveCall(w))
      PROVE  Before(calls, WaveCall(v), WaveCall(w))
  <2>1. WaveCall(w) /= m
    BY CallsDiffer
  <2> QED
    BY <1>2, <2>1, CalledTypes, TypeParts DEF TypeInv
<1>3. CallsLine' /\ Later' \subseteq Later
  BY <1>1, <1>2, LineShrunk DEF LineInv, CallsLine
<1> QED
  BY <1>3, LineUntouched DEF LineInv

LEMMA TakenLine ==
    ASSUME TypeInv, OnceInv, LineInv, NEW kind, Taking(kind), Now' \subseteq Now,
           UNCHANGED <<inbound, mail, queue, requeued, heard, bound>>
    PROVE  LineInv'
<1>1. Wait' \subseteq Wait
  BY WaitTaken
<1>2. \A a, b : Before(calls', a, b) => Before(calls, a, b)
  BY TakingTypes, TypeParts DEF TypeInv
<1>3. CallsLine' /\ Later' \subseteq Later
  BY <1>1, <1>2, LineShrunk DEF LineInv, CallsLine
<1> QED
  BY <1>3, LineUntouched DEF LineInv

LEMMA TakeWaveLine == ASSUME TypeInv, OnceInv, LineInv, TakeWave PROVE LineInv'
<1>1. Taking("Wave") /\ UNCHANGED <<inbound, mail, queue, requeued, heard, bound>>
  BY DEF TakeWave, connVars, laneVars, outVars
<1>2. CASE table[Head(calls).wave.to] = NoHyperway
  <2>1. Now' = Now
    BY <1>2 DEF TakeWave, Now
  <2> QED
    BY <1>1, <2>1, TakenLine
<1>3. CASE table[Head(calls).wave.to] /= NoHyperway
  <2>1. PICK w \in Waves : Head(calls) = WaveCall(w) /\ w = Head(calls).wave
    BY <1>1, TakingTypes, TypeParts DEF TypeInv, CallTypes, WaveCall
  <2>2. Now' = {w} /\ Now = {}
    BY <1>3, <2>1 DEF TakeWave, Now, Taking
  <2>3. w \in Wait /\ Wait' \subseteq Wait \ {w}
    BY <1>1, <2>1, WaitTaken
  <2>4. /\ \A a, b : Before(calls', a, b) => Before(calls, a, b)
        /\ \A b : b \in InSeq(calls') => Before(calls, WaveCall(w), b)
    BY <1>1, <2>1, TakingTypes, TypeParts DEF TypeInv
  <2>5. PICK R, I : /\ R = requeued /\ R = requeued' /\ I = InSeq(inbound[Home])
                    /\ I = InSeq(inbound'[Home])
    BY <1>1
  <2>6. ASSUME NEW v \in Wait' PROVE Prec(R, w, v)
    <3>1. v \in Waves /\ WaveCall(v) \in InSeq(calls')
      BY <2>6 DEF Wait, WaveCall, InSeq
    <3> QED
      BY <2>4, <2>5, <3>1 DEF LineInv, CallsLine
  <2>7. Ahead(R, Wait, I) /\ InLine(R, inbound[Home])
    BY <2>5 DEF LineInv, CallsLine
  <2>8. Ahead(R, {w}, Wait' \union I)
    BY <2>3, <2>6, <2>7 DEF Ahead
  <2>9. Ahead(R, Wait', I)
    BY <2>3, <2>7, AheadSubsets
  <2>10. \A x, y \in Waves : Before(calls', WaveCall(x), WaveCall(y)) => Prec(R, x, y)
    BY <2>4, <2>5 DEF LineInv, CallsLine
  <2>11. CallsLine'
    BY <1>1, <2>2, <2>5, <2>7, <2>8, <2>9, <2>10, CallsLinePrimed
  <2>12. Later' \subseteq Later
    <3>1. Later' = Now' \union Wait' \union I
      BY <2>5 DEF Later, InSeq
    <3> QED
      BY <2>2, <2>3, <2>5, <3>1 DEF Later
  <2> QED
    BY <1>1, <2>11, <2>12, LineUntouched DEF LineInv
<1> QED
  BY <1>2, <1>3

\* A wave that has yet to be sent comes after all that were.
LEMMA SendDownLine ==
    ASSUME TypeInv, PlaceInv, KindInv, LineInv, NEW s \in Surfaces, SendDown(s) PROVE LineInv'
<1>1. downs \in 0 .. MaxWaves /\ downs' = downs + 1 /\ downs' \in 1 .. MaxWaves
  BY TypeParts, CapTypes DEF TypeInv, CountOK, SendDown
<1>2. PICK x \in Waves : x = [kind |-> "down", no |-> downs', to |-> s]
  BY <1>1, WaveNames
<1>3. inbound[Home] \in Seq(Waves) /\ inbound'[Home] = Append(inbound[Home], x)
  BY <1>2, Names, LaneTypes, TypeParts DEF TypeInv, LanesOK, SendDown
<1>4. UNCHANGED <<calls, task, current, mail, queue, requeued, heard, bound>>
  BY DEF SendDown, taskVars, connVars, outVars
<1>5. PICK R, I, J : /\ R = requeued /\ R = requeued' /\ I = InSeq(inbound[Home])
                     /\ J = InSeq(inbound'[Home]) /\ J = I \union {x}
  BY <1>3, <1>4, Appends
<1>6. ASSUME NEW p \in Places, NEW w \in In(p) PROVE Prec(R, w, x)
  <2>1. Sent(w)
    BY <1>6 DEF PlaceInv
  <2> QED
    BY <1>1, <1>2, <2>1, Kinds DEF Sent, Prec, Waves
<1>7. Ahead(R, I, {x}) /\ Ahead(R, Wait, {x}) /\ Ahead(R, Now, {x})
  <2>1. \A p \in Places : Ahead(R, In(p), {x})
    BY <1>6 DEF Ahead
  <2>2. Ahead(R, In(<<"in", Home>>), {x}) /\ In(<<"in", Home>>) = InSeq(inbound[Home])
    BY <2>1, PlacesAre, InAre, Names
  <2>3. Ahead(R, In(<<"calls", 0>>), {x}) /\ Ahead(R, In(<<"now", 0>>), {x})
    BY <2>1, PlacesAre
  <2> QED
    BY <1>5, <2>2, <2>3, InAre
<1>8. ASSUME NEW h \in Hyperways PROVE Ahead(R, InSeq(mail[h]) \union InSeq(queue[h]), {x})
  <2>1. Ahead(R, (InSeq(mail[h]) \intersect Waves) \union InSeq(queue[h]), {x})
    <3>1. \A p \in Places : Ahead(R, In(p), {x})
      BY <1>6 DEF Ahead
    <3>2. Ahead(R, In(<<"mail", h>>), {x}) /\ Ahead(R, In(<<"queue", h>>), {x})
      BY <3>1, PlacesAre
    <3>3. Ahead(R, InSeq(mail[h]) \intersect Waves, {x}) /\ Ahead(R, InSeq(queue[h]), {x})
      BY <3>2, InAre
    <3> QED
      BY <3>3, AheadUnions
  <2>2. mail[h] \in Seq(Posts)
    BY LaneTypes
  <2>3. \A y \in InSeq(mail[h]) : y.kind = "down" => y \in Waves
    BY <2>2, InSeqTypes, Kinds
  <2> QED
    BY <2>1, <2>3, AheadSubsets
<1>9. ASSUME NEW c \in Conns PROVE Ahead(R, InSeq(heard[c]), {x})
  <2>1. Ahead(R, InSeq(heard[c]) \ {Greeting}, {x})
    <3>1. Ahead(R, In(<<"heard", c>>), {x})
      BY <1>6, PlacesAre DEF Ahead
    <3> QED
      BY <3>1, InAre
  <2> QED
    BY <2>1, Kinds, AheadSubsets
<1>10. Now' = Now /\ Wait' = Wait
  BY <1>4 DEF Now, Wait
<1>10a. Later' = Later \union {x}
  <2>1. Later' = Now' \union Wait' \union J
    BY <1>5 DEF Later, InSeq
  <2>2. Later = Now \union Wait \union I
    BY <1>5 DEF Later
  <2> QED
    BY <1>5, <1>10, <2>1, <2>2
<1>11. PICK L, M : M = Later /\ L = Later' /\ L = M \union {x}
  BY <1>10a
<1>12. InLine(R, inbound'[Home])
  <2>1. InLine(R, inbound[Home])
    BY <1>5 DEF LineInv, CallsLine
  <2> QED
    BY <1>3, <1>5, <1>7, <2>1, PostLine
<1>13. Ahead(R, Wait, J) /\ Ahead(R, Now, Wait \union J)
  <2>1. Ahead(R, Wait, I) /\ Ahead(R, Now, Wait \union I)
    BY <1>5 DEF LineInv, CallsLine
  <2> QED
    BY <1>5, <1>7, <2>1 DEF Ahead
<1>14. \A v, w \in Waves : Before(calls, WaveCall(v), WaveCall(w)) => Prec(R, v, w)
  BY <1>5 DEF LineInv, CallsLine
<1>15. CallsLine'
  BY <1>4, <1>5, <1>10, <1>12, <1>13, <1>14, CallsLinePrimed
<1>16. ASSUME NEW h \in Hyperways PROVE LaneLine(R, mail[h], queue[h], L)
  <2>1. LaneLine(R, mail[h], queue[h], M)
    BY <1>5, <1>11, OutLineIs
  <2> DEFINE K == InSeq(mail[h]) \union InSeq(queue[h])
  <2>2. Ahead(R, K, M)
    BY <2>1 DEF LaneLine
  <2>3. Ahead(R, K, {x})
    BY <1>8
  <2> HIDE DEF K
  <2>4. Ahead(R, K, L)
    BY <1>11, <2>2, <2>3, AheadUnions
  <2> QED
    BY <2>1, <2>4 DEF LaneLine, K
<1>17. OutLine'
  BY <1>4, <1>5, <1>11, <1>16, OutLinePrimed
<1>18. ASSUME NEW c \in Conns
       PROVE  HearLine(R, heard[c], L, IF bound[c] /= NoHyperway THEN Held(bound[c]) ELSE {})
  <2> DEFINE H == IF bound[c] /= NoHyperway THEN Held(bound[c]) ELSE {}
  <2>1. HearLine(R, heard[c], M, H)
    BY <1>5, <1>11, HeardLineIs
  <2> HIDE DEF H
  <2>2. HearLine(R, heard[c], L, H)
    BY <1>9, <1>11, <2>1, AheadUnions DEF HearLine
  <2> QED
    BY <2>2 DEF H
<1>19. HeardLine'
  BY <1>4, <1>5, <1>11, <1>18, HeardLinePrimed DEF Held
<1> QED
  BY <1>15, <1>17, <1>19 DEF LineInv

LEMMA SendUpLine ==
    ASSUME TypeInv, KindInv, LineInv, NEW c \in Conns, SendUp(c) PROVE LineInv'
<1>1. bound[c] \in Hyperways \ {Home}
  BY BoundFar DEF SendUp
<1>2. /\ inbound'[Home] = inbound[Home]
      /\ UNCHANGED <<calls, task, current, mail, queue, requeued, heard, bound>>
  BY <1>1, Names, TypeParts DEF TypeInv, LanesOK, SendUp, taskVars, connVars, outVars
<1>3. Now' = Now /\ Wait' = Wait
  BY <1>2 DEF Now, Wait
<1>4. CallsLine' /\ Later' \subseteq Later
  BY <1>2, <1>3, LineShrunk DEF LineInv, CallsLine
<1> QED
  BY <1>2, <1>4, LineUntouched DEF LineInv

LEMMA ForwardLine ==
    ASSUME TypeInv, PlaceInv, OnceInv, KindInv, LineInv, NEW h \in Hyperways, Forward(h) PROVE LineInv'
<1>1. inbound[h] \in Seq(Waves) /\ inbound[h] /= <<>>
  BY LaneTypes DEF Forward
<1>2. PICK w \in Waves : w = Head(inbound[h])
  BY <1>1, Takes
<1>3. Called(WaveCall(w)) /\ WaveCall(w) \in CallTypes /\ WaveCall(w).wave = w
  BY <1>2, CallNames, CallsDiffer DEF Forward
<1>4. w \in InSeq(inbound[h])
  BY <1>1, <1>2, Takes
<1>5. /\ inbound'[h] = Tail(inbound[h]) /\ \A k \in Hyperways \ {h} : inbound'[k] = inbound[k]
      /\ UNCHANGED <<task, current, mail, queue, requeued, heard, bound>>
  BY TypeParts DEF TypeInv, LanesOK, Forward, taskVars, connVars, outVars
<1>6. Wait' = Wait \union {w} /\ Now' = Now
  BY <1>3, <1>5, WaitPosted DEF Now
<1>6a. PICK R, I, J : /\ R = requeued /\ R = requeued' /\ I = InSeq(inbound[Home])
                      /\ J = InSeq(inbound'[Home])
  BY <1>5
<1>7. Ahead(R, Wait, I) /\ Ahead(R, Now, Wait \union I) /\ InLine(R, inbound[Home])
  BY <1>6a DEF LineInv, CallsLine
<1>8. /\ Ahead(R, Wait, {w}) /\ Ahead(R, Now, {w}) /\ Ahead(R, {w}, J) /\ J \subseteq I
      /\ InLine(R, inbound'[Home]) /\ (w \in I \/ w \in UpWaves)
  <2>1. CASE h = Home
    <3>1. /\ InLine(R, Tail(inbound[h])) /\ Ahead(R, {w}, InSeq(Tail(inbound[h])))
          /\ InSeq(Tail(inbound[h])) \subseteq InSeq(inbound[h])
      BY <1>1, <1>2, <1>7, <2>1, TakeLine
    <3>2. w \in I /\ InSeq(Tail(inbound[h])) = J /\ J \subseteq I
      BY <1>4, <1>5, <1>6a, <2>1, <3>1
    <3>3. Ahead(R, Wait, {w}) /\ Ahead(R, Now, {w})
      BY <1>7, <3>2 DEF Ahead
    <3> QED
      BY <1>5, <2>1, <3>1, <3>2, <3>3
  <2>2. CASE h /= Home
    <3>1. inbound'[Home] = inbound[Home]
      BY <1>5, <2>2, Names
    <3>2. w \in UpWaves
      BY <1>4, <2>2 DEF KindInv, InKind
    <3>3. \A S : Ahead(R, S, {w}) /\ Ahead(R, {w}, S)
      BY <3>2, Kinds, AheadNone
    <3> QED
      BY <1>6a, <1>7, <3>1, <3>2, <3>3
  <2> QED
    BY <2>1, <2>2
<1>9. Ahead(R, Wait \union {w}, J) /\ Ahead(R, Now, (Wait \union {w}) \union J)
  BY <1>7, <1>8 DEF Ahead
<1>10. ASSUME NEW x \in Waves, NEW y \in Waves, Before(calls', WaveCall(x), WaveCall(y))
       PROVE  Prec(R, x, y)
  <2>1. \/ Before(calls, WaveCall(x), WaveCall(y))
        \/ WaveCall(y) = WaveCall(w) /\ WaveCall(x) \in InSeq(calls)
    BY <1>3, <1>10, CalledTypes, TypeParts DEF TypeInv
  <2>2. CASE Before(calls, WaveCall(x), WaveCall(y))
    BY <1>6a, <2>2 DEF LineInv, CallsLine
  <2>3. CASE WaveCall(y) = WaveCall(w) /\ WaveCall(x) \in InSeq(calls)
    <3>1. y = w /\ x \in Wait
      BY <2>3, CallsDiffer DEF Wait
    <3> QED
      BY <1>8, <3>1 DEF Ahead
  <2> QED
    BY <2>1, <2>2, <2>3
<1>11. CallsLine'
  BY <1>6, <1>6a, <1>8, <1>9, <1>10, CallsLinePrimed
<1>12. Later' \subseteq Later \union UpWaves
  <2>1. Later' = Now' \union Wait' \union J
    BY <1>6a DEF Later, InSeq
  <2> QED
    BY <1>6, <1>6a, <1>8, <2>1 DEF Later
<1> QED
  BY <1>5, <1>11, <1>12, LineUntouched DEF LineInv

LEMMA ForwardTimeoutLine ==
    ASSUME TypeInv, LineInv, NEW h \in Hyperways, ForwardTimeout(h) PROVE LineInv'
<1>1. inbound[h] \in Seq(Waves) /\ inbound[h] /= <<>>
  BY LaneTypes DEF ForwardTimeout
<1>2. /\ inbound'[h] = Tail(inbound[h]) /\ \A k \in Hyperways \ {h} : inbound'[k] = inbound[k]
      /\ UNCHANGED <<calls, task, current, mail, queue, requeued, heard, bound>>
  BY TypeParts DEF TypeInv, LanesOK, ForwardTimeout, taskVars, connVars, outVars
<1>3. /\ InLine(requeued, inbound'[Home])
      /\ InSeq(inbound'[Home]) \subseteq InSeq(inbound[Home])
  <2>1. InLine(requeued, inbound[Home])
    BY DEF LineInv, CallsLine
  <2>2. CASE h = Home
    <3>1. /\ InLine(requeued, Tail(inbound[h]))
          /\ InSeq(Tail(inbound[h])) \subseteq InSeq(inbound[h])
      BY <1>1, <2>1, <2>2, TakeLine
    <3> QED
      BY <1>2, <2>2, <3>1
  <2>3. CASE h /= Home
    BY <1>2, <2>1, <2>3, Names
  <2> QED
    BY <2>2, <2>3
<1>4. Now' = Now /\ Wait' = Wait
  BY <1>2 DEF Now, Wait
<1>5. CallsLine' /\ Later' \subseteq Later
  BY <1>2, <1>3, <1>4, LineShrunk
<1> QED
  BY <1>2, <1>5, LineUntouched DEF LineInv

LEMMA RouteTimeoutLine == ASSUME LineInv, RouteTimeout PROVE LineInv'
<1>1. /\ Now' = {} /\ Wait' = Wait
      /\ UNCHANGED <<calls, inbound, mail, queue, requeued, heard, bound>>
  BY DEF RouteTimeout, Now, Wait, connVars, laneVars, outVars
<1>2. CallsLine' /\ Later' \subseteq Later
  BY <1>1, LineShrunk DEF LineInv, CallsLine
<1> QED
  BY <1>1, <1>2, LineUntouched DEF LineInv

\* One lane's step: what it holds stays in order, and what is new to it, N, is the
\* wave the task hands it.
LEMMA LaneStepLine ==
    ASSUME TypeInv, LineInv, NEW h \in Hyperways, NEW m, NEW q, NEW e, LaneIs(h, m, q, e),
           NEW R, R = requeued', requeued \subseteq R,
           NEW N, (N = {} /\ Now' = Now) \/ (N = Now /\ Now' = {}),
           \A x \in InSeq(m) \union InSeq(q) : x.kind = "down" => x \in Held(h) \union N,
           InLine(R, m), InLine(R, q), Ahead(R, InSeq(q), InSeq(m)),
           UNCHANGED <<calls, inbound>>
    PROVE  /\ CallsLine' /\ OutLine' /\ Later' \subseteq Later
           /\ \A k \in Hyperways : \A x \in InSeq(mail'[k]) \union InSeq(queue'[k]) :
                 x.kind = "down" => x \in Held(k) \union N
           /\ UNCHANGED <<heard, bound>> => HeardLine'
<1>1. Wait' = Wait /\ Now' \subseteq Now
  BY DEF Wait
<1>2. CallsLine' /\ Later' \subseteq Later
  BY <1>1, LineShrunk DEF LineInv, CallsLine
<1>3. PICK O, L, M, I : /\ O = requeued /\ L = Later' /\ M = Later /\ L \subseteq M
                        /\ I = InSeq(inbound[Home]) /\ I = InSeq(inbound'[Home])
  BY <1>2
<1>4. Ahead(O, N, L) /\ N \subseteq M
  <2>1. CASE N = {}
    BY <2>1 DEF Ahead
  <2>2. CASE N = Now /\ Now' = {}
    <3>1. Ahead(O, Now, Wait \union I)
      BY <1>3 DEF LineInv, CallsLine
    <3>2. L = Wait \union I
      BY <1>1, <1>3, <2>2 DEF Later, InSeq
    <3> QED
      BY <1>3, <2>2, <3>1, <3>2 DEF Later
  <2> QED
    BY <2>1, <2>2
<1>5. \A k \in Hyperways : \A x \in InSeq(mail'[k]) \union InSeq(queue'[k]) :
         x.kind = "down" => x \in Held(k) \union N
  BY DEF LaneIs, Held
<1>6. ASSUME NEW k \in Hyperways PROVE LaneLine(R, mail'[k], queue'[k], L)
  <2>1. LaneLine(O, mail[k], queue[k], M) /\ Held(k) = InSeq(mail[k]) \union InSeq(queue[k])
    BY <1>3, OutLineIs DEF Held
  <2>2. Ahead(O, Held(k) \union N, L)
    <3>1. Ahead(O, Held(k), M)
      BY <2>1 DEF LaneLine
    <3>2. Ahead(O, Held(k), L)
      BY <1>3, <3>1, AheadSubsets
    <3> QED
      BY <1>4, <3>2, AheadUnions
  <2>3. Ahead(R, InSeq(mail'[k]) \union InSeq(queue'[k]), L)
    BY <1>3, <1>5, <2>2, AheadSubsets
  <2>4. /\ InLine(R, mail'[k]) /\ InLine(R, queue'[k])
        /\ Ahead(R, InSeq(queue'[k]), InSeq(mail'[k]))
    <3>1. CASE k = h
      BY <3>1 DEF LaneIs
    <3>2. CASE k /= h
      <4>1. mail'[k] = mail[k] /\ queue'[k] = queue[k]
        BY <3>2 DEF LaneIs
      <4>2. /\ InLine(O, mail[k]) /\ InLine(O, queue[k])
            /\ Ahead(O, InSeq(queue[k]), InSeq(mail[k]))
        BY <2>1 DEF LaneLine
      <4> QED
        BY <1>3, <4>1, <4>2, InLineMore, AheadSubsets
    <3> QED
      BY <3>1, <3>2
  <2> QED
    BY <2>3, <2>4 DEF LaneLine
<1>7. OutLine'
  BY <1>3, <1>6, OutLinePrimed
<1>8. ASSUME UNCHANGED <<heard, bound>> PROVE HeardLine'
  <2>1. ASSUME NEW c \in Conns
        PROVE  HearLine(R, heard[c], L,
               IF bound[c] /= NoHyperway THEN InSeq(mail'[bound[c]]) \union InSeq(queue'[bound[c]])
                                         ELSE {})
    <3> DEFINE H == IF bound[c] /= NoHyperway THEN Held(bound[c]) ELSE {}
               G == IF bound[c] /= NoHyperway THEN InSeq(mail'[bound[c]]) \union InSeq(queue'[bound[c]])
                                              ELSE {}
    <3>1. HearLine(O, heard[c], M, H)
      BY <1>3, HeardLineIs
    <3>2. \A x \in G : x.kind = "down" => x \in H \union N
      BY <1>5, TypeParts DEF TypeInv, ConnOK
    <3> HIDE DEF G, H
    <3>3. /\ InLine(O, heard[c]) /\ Ahead(O, InSeq(heard[c]), M)
          /\ Ahead(O, InSeq(heard[c]), H)
      BY <3>1 DEF HearLine
    <3>4. Ahead(O, InSeq(heard[c]), N)
      BY <1>4, <3>3, AheadSubsets
    <3>5. Ahead(O, InSeq(heard[c]), H \union N)
      BY <3>3, <3>4, AheadUnions
    <3>6. InLine(R, heard[c]) /\ Ahead(R, InSeq(heard[c]), L) /\ Ahead(R, InSeq(heard[c]), G)
      BY <1>3, <3>2, <3>3, <3>5, InLineMore, AheadSubsets
    <3>7. HearLine(R, heard[c], L, G)
      BY <3>6 DEF HearLine
    <3> QED
      BY <3>7 DEF G
  <2> QED
    BY <1>3, <1>8, <2>1, HeardLinePrimed
<1> QED
  BY <1>2, <1>5, <1>7, <1>8

LEMMA RouteLine == ASSUME TypeInv, LineInv, Route PROVE LineInv'
<1>1. PICK w \in Waves, h \in Hyperways :
              /\ w = current.wave /\ h = Target
              /\ LaneIs(h, Append(mail[h], w), queue[h], ear[h])
              /\ InSeq(Append(mail[h], w)) = InSeq(mail[h]) \union {w}
  BY RouteLane DEF TypeInv
<1> DEFINE m == Append(mail[h], w)
<1>2. LaneIs(h, m, queue[h], ear[h]) /\ InSeq(m) = InSeq(mail[h]) \union {w}
  BY <1>1
<1>3. Now = {w} /\ Now' = {} /\ UNCHANGED <<calls, inbound, heard, bound>>
  BY <1>1 DEF Route, Now, connVars
<1>4. PICK R : R = requeued /\ R = requeued'
  BY DEF Route
<1>5. LaneLine(R, mail[h], queue[h], Later) /\ w \in Later
  BY <1>3, <1>4, OutLineIs DEF Later
<1>6. /\ InLine(R, mail[h]) /\ InLine(R, queue[h])
      /\ Ahead(R, InSeq(queue[h]), InSeq(mail[h]))
      /\ Ahead(R, InSeq(mail[h]), {w}) /\ Ahead(R, InSeq(queue[h]), {w})
  BY <1>5, AheadSubsets DEF LaneLine
<1>7. InLine(R, m)
  <2>1. mail[h] \in Seq(Posts) /\ w \in Posts
    BY LaneTypes, PostNames
  <2> QED
    BY <1>6, <2>1, PostLine
<1> HIDE DEF m
<1>8. Ahead(R, InSeq(queue[h]), InSeq(m))
  BY <1>2, <1>6, AheadUnions
<1>9. CallsLine' /\ OutLine' /\ HeardLine'
  BY <1>2, <1>3, <1>4, <1>6, <1>7, <1>8, LaneStepLine DEF Held
<1> QED
  BY <1>9 DEF LineInv

LEMMA MountedLine == ASSUME TypeInv, LineInv, Mounted PROVE LineInv'
<1>1. PICK c \in Conns, h \in Hyperways \ {Home} :
              /\ c = current.conn /\ h = table[SurfaceOf[c]]
              /\ LaneIs(h, Append(mail[h], ExtPost(c)), queue[h], ear[h])
              /\ InSeq(Append(mail[h], ExtPost(c))) = InSeq(mail[h]) \union {ExtPost(c)}
              /\ heard'[c] = <<Greeting>> /\ \A d \in Conns \ {c} : heard'[d] = heard[d]
  BY MountedLane DEF TypeInv
<1>2. PICK x \in Posts \ Waves : x = ExtPost(c)
  BY PostNames
<1> DEFINE m == Append(mail[h], x)
<1>3. LaneIs(h, m, queue[h], ear[h]) /\ InSeq(m) = InSeq(mail[h]) \union {x}
  BY <1>1, <1>2
<1>4. /\ Now' = Now /\ UNCHANGED <<calls, inbound>>
      /\ \A d \in Conns \ {c} : bound'[d] = bound[d] /\ bound[d] \in Hyperways \union {NoHyperway}
  <2>1. bound' = [bound EXCEPT ![c] = h]
    BY <1>1 DEF Mounted
  <2> QED
    BY <2>1, TypeParts DEF TypeInv, ConnOK, Mounted, Now
<1>5. PICK R, L, M : R = requeued /\ R = requeued' /\ L = Later' /\ M = Later
  BY DEF Mounted
<1>6. /\ InLine(R, mail[h]) /\ InLine(R, queue[h])
      /\ Ahead(R, InSeq(queue[h]), InSeq(mail[h]))
  BY <1>5, OutLineIs DEF LaneLine
<1>7. \A S : Ahead(R, S, {x}) /\ Ahead(R, {x}, S)
  BY Kinds, AheadNone
<1>8. InLine(R, m)
  <2>1. mail[h] \in Seq(Posts)
    BY LaneTypes
  <2> QED
    BY <1>6, <1>7, <2>1, PostLine
<1> HIDE DEF m
<1>9. Ahead(R, InSeq(queue[h]), InSeq(m))
  BY <1>3, <1>6, <1>7, AheadUnions
<1>10. \A y \in InSeq(m) \union InSeq(queue[h]) : y.kind = "down" => y \in Held(h) \union {}
  BY <1>3, Kinds DEF Held
<1>11. /\ CallsLine' /\ OutLine' /\ L \subseteq M
       /\ \A k \in Hyperways : \A y \in InSeq(mail'[k]) \union InSeq(queue'[k]) :
             y.kind = "down" => y \in Held(k) \union {}
  BY <1>3, <1>4, <1>5, <1>6, <1>8, <1>9, <1>10, LaneStepLine, ZenonT(30)
<1>12. InSeq(heard'[c]) = {Greeting} /\ InLine(R, heard'[c])
  BY <1>1, OneAlone DEF InLine
<1>13. \A S : Ahead(R, {Greeting}, S)
  BY Kinds, AheadNone
<1>14. ASSUME NEW d \in Conns
       PROVE  HearLine(R, heard'[d], L,
               IF bound'[d] /= NoHyperway THEN InSeq(mail'[bound'[d]]) \union InSeq(queue'[bound'[d]])
                                          ELSE {})
  <2> DEFINE G == IF bound'[d] /= NoHyperway THEN InSeq(mail'[bound'[d]]) \union InSeq(queue'[bound'[d]])
                                             ELSE {}
  <2>1. CASE d = c
    <3> HIDE DEF G
    <3>1. HearLine(R, heard'[d], L, G)
      BY <1>12, <1>13, <2>1 DEF HearLine
    <3> QED
      BY <3>1 DEF G
  <2>2. CASE d /= c
    <3> DEFINE H == IF bound[d] /= NoHyperway THEN Held(bound[d]) ELSE {}
    <3>1. heard'[d] = heard[d] /\ bound'[d] = bound[d] /\ bound[d] \in Hyperways \union {NoHyperway}
      BY <1>1, <1>4, <2>2
    <3>2. HearLine(R, heard[d], M, H)
      BY <1>5, HeardLineIs
    <3>3. \A y \in G : y.kind = "down" => y \in H
      BY <1>11, <3>1
    <3> HIDE DEF G, H
    <3>4. /\ InLine(R, heard[d]) /\ Ahead(R, InSeq(heard[d]), M)
          /\ Ahead(R, InSeq(heard[d]), H)
      BY <3>2 DEF HearLine
    <3>5. Ahead(R, InSeq(heard[d]), L) /\ Ahead(R, InSeq(heard[d]), G)
      BY <1>11, <3>3, <3>4, AheadSubsets
    <3>6. HearLine(R, heard'[d], L, G)
      BY <3>1, <3>4, <3>5 DEF HearLine
    <3> QED
      BY <3>6 DEF G
  <2> QED
    BY <2>1, <2>2
<1>15. HeardLine'
  BY <1>5, <1>14, HeardLinePrimed
<1> QED
  BY <1>11, <1>15 DEF LineInv


\* A lane at its own work gains no wave; what it requeues is in R.
LEMMA LaneMoveLine ==
    ASSUME TypeInv, LineInv, NEW h \in Hyperways, Lane(h) \/ HandOverHome,
           NEW m, NEW q, NEW e, LaneIs(h, m, q, e), NEW R, R = requeued', requeued \subseteq R,
           \A x \in InSeq(m) \union InSeq(q) : x.kind = "down" => x \in Held(h),
           InLine(R, m), InLine(R, q), Ahead(R, InSeq(q), InSeq(m))
    PROVE  LineInv'
<1>1. Now' = Now /\ UNCHANGED <<calls, inbound, heard, bound>>
  <2>1. CASE Lane(h)
    BY <2>1, LaneSame, LaneHeard
  <2>2. CASE HandOverHome
    BY <2>2 DEF HandOverHome, Now, taskVars, connVars
  <2> QED
    BY <2>1, <2>2
<1>2. PICK N : N = {}
  OBVIOUS
<1>3. \A x \in InSeq(m) \union InSeq(q) : x.kind = "down" => x \in Held(h) \union N
  OBVIOUS
<1>4. CallsLine' /\ OutLine' /\ HeardLine'
  BY <1>1, <1>2, <1>3, LaneStepLine
<1> QED
  BY <1>4 DEF LineInv

LEMMA LaneTakesWaveLine ==
    ASSUME TypeInv, LineInv, NEW h \in Hyperways, LaneTakesWave(h) PROVE LineInv'
<1>1. PICK w \in Waves, q \in Seq(Waves) :
              /\ w = Head(mail[h]) /\ q = Append(Trimmed(queue[h]), w)
              /\ LaneIs(h, Tail(mail[h]), q, ear[h])
              /\ InSeq(q) \subseteq InSeq(queue[h]) \union {w}
              /\ mail[h] /= <<>>
  BY LaneTakesWaveLane, TypeParts DEF TypeInv
<1>2. PICK m : m = Tail(mail[h])
  OBVIOUS
<1>3. PICK R : R = requeued /\ R = requeued'
  BY DEF LaneTakesWave
<1>4. /\ InLine(R, mail[h]) /\ InLine(R, queue[h])
      /\ Ahead(R, InSeq(queue[h]), InSeq(mail[h]))
  BY <1>3, OutLineIs DEF LaneLine
<1>5. mail[h] \in Seq(Posts) /\ queue[h] \in Seq(Waves) /\ Len(queue[h]) <= QueueCap + 1
  BY OutParts, TypeParts DEF TypeInv
<1>6. /\ InLine(R, m) /\ Ahead(R, {w}, InSeq(m)) /\ InSeq(m) \subseteq InSeq(mail[h])
      /\ w \in InSeq(mail[h])
  BY <1>1, <1>2, <1>4, <1>5, TakeLine
<1> DEFINE t == Trimmed(queue[h])
<1>7. t \in Seq(Waves) /\ InSeq(t) \subseteq InSeq(queue[h]) /\ InLine(R, t)
  <2>1. /\ t \in Seq(Waves) /\ InSeq(t) \subseteq InSeq(queue[h])
        /\ t = queue[h] \/ (queue[h] /= <<>> /\ t = Tail(queue[h]))
    BY <1>5, TrimTypes
  <2> QED
    BY <1>4, <1>5, <2>1, TakeLine
<1>8. q = Append(t, w)
  BY <1>1
<1> HIDE DEF t
<1>9. Ahead(R, InSeq(t), {w}) /\ Ahead(R, InSeq(queue[h]), InSeq(m))
  BY <1>4, <1>6, <1>7, AheadSubsets
<1>10. InLine(R, q)
  BY <1>7, <1>8, <1>9, PostLine
<1>11. Ahead(R, InSeq(q), InSeq(m))
  <2>1. Ahead(R, InSeq(queue[h]) \union {w}, InSeq(m))
    BY <1>6, <1>9, AheadUnions
  <2> QED
    BY <1>1, <2>1, AheadSubsets
<1>12. \A x \in InSeq(m) \union InSeq(q) : x \in Held(h)
  BY <1>1, <1>6 DEF Held
<1>13. LaneIs(h, m, q, ear[h]) /\ Lane(h)
  BY <1>1, <1>2 DEF Lane
<1> QED
  BY <1>3, <1>6, <1>10, <1>11, <1>12, <1>13, LaneMoveLine

LEMMA LaneTakesLine ==
    ASSUME TypeInv, LineInv, NEW h \in Hyperways, LaneTakesExt(h) \/ LaneTakesReset(h) PROVE LineInv'
<1>1. PICK m, e : m = Tail(mail[h]) /\ LaneIs(h, m, queue[h], e)
  BY LaneTakesExtLane, LaneTakesResetLane, TypeParts DEF TypeInv
<1>2. PICK R : R = requeued /\ R = requeued'
  BY DEF LaneTakesExt, LaneTakesReset
<1>3. /\ InLine(R, mail[h]) /\ InLine(R, queue[h])
      /\ Ahead(R, InSeq(queue[h]), InSeq(mail[h]))
  BY <1>2, OutLineIs DEF LaneLine
<1>4. mail[h] \in Seq(Posts) /\ mail[h] /= <<>>
  BY LaneTypes DEF LaneTakesExt, LaneTakesReset, LaneTakes
<1>5. InLine(R, m) /\ InSeq(m) \subseteq InSeq(mail[h])
  BY <1>1, <1>3, <1>4, TakeLine
<1>6. Ahead(R, InSeq(queue[h]), InSeq(m))
  BY <1>3, <1>5, AheadSubsets
<1>7. \A x \in InSeq(m) \union InSeq(queue[h]) : x \in Held(h)
  BY <1>5 DEF Held
<1> QED
  BY <1>1, <1>2, <1>3, <1>5, <1>6, <1>7, LaneMoveLine DEF Lane

LEMMA HandOverFailsLine ==
    ASSUME TypeInv, LineInv, NEW h \in Hyperways, HandOverFails(h) PROVE LineInv'
<1>1. PICK x \in Posts \ Waves : x = ResetExt
  BY PostNames
<1>2. PICK m : /\ m = Append(mail[h], x) /\ LaneIs(h, m, queue[h], ear[h])
               /\ InSeq(m) = InSeq(mail[h]) \union {x}
  BY <1>1, HandOverFailsLane, TypeParts DEF TypeInv
<1>3. PICK R : R = requeued /\ R = requeued'
  BY DEF HandOverFails
<1>4. /\ InLine(R, mail[h]) /\ InLine(R, queue[h])
      /\ Ahead(R, InSeq(queue[h]), InSeq(mail[h]))
  BY <1>3, OutLineIs DEF LaneLine
<1>5. x.kind /= "down" /\ \A S : Ahead(R, S, {x})
  BY <1>1, Kinds, AheadNone
<1>6. mail[h] \in Seq(Posts) /\ x \in Posts
  BY LaneTypes
<1>7. InLine(R, m)
  BY <1>2, <1>4, <1>5, <1>6, PostLine
<1>8. Ahead(R, InSeq(queue[h]), InSeq(m))
  BY <1>2, <1>4, <1>5, AheadUnions
<1>9. \A y \in InSeq(m) \union InSeq(queue[h]) : y.kind = "down" => y \in Held(h)
  BY <1>2, <1>5 DEF Held
<1> QED
  BY <1>2, <1>3, <1>4, <1>7, <1>8, <1>9, LaneMoveLine DEF Lane

\* The one place where waves pass one another.
LEMMA RequeueLine ==
    ASSUME TypeInv, LineInv, NEW h \in Hyperways, Requeue(h) PROVE LineInv'
<1>1. PICK w \in Waves, m \in Seq(Posts) :
              /\ w = Head(queue[h]) /\ queue[h] /= <<>>
              /\ LaneIs(h, m, Tail(queue[h]), ear[h])
              /\ \/ /\ m = Append(mail[h], w) /\ InSeq(m) = InSeq(mail[h]) \union {w}
                    /\ requeued' = requeued \union {w}
                 \/ m = mail[h] /\ requeued' = requeued
  BY RequeueLane, TypeParts DEF TypeInv
<1>2. PICK q, O, R : q = Tail(queue[h]) /\ O = requeued /\ R = requeued' /\ O \subseteq R
  BY <1>1
<1>3. /\ InLine(O, mail[h]) /\ InLine(O, queue[h])
      /\ Ahead(O, InSeq(queue[h]), InSeq(mail[h]))
  BY <1>2, OutLineIs DEF LaneLine
<1>4. /\ InLine(R, mail[h]) /\ InLine(R, queue[h])
      /\ Ahead(R, InSeq(queue[h]), InSeq(mail[h]))
  BY <1>2, <1>3, InLineMore, AheadSubsets
<1>5. mail[h] \in Seq(Posts) /\ queue[h] \in Seq(Waves) /\ w \in Posts
  BY LaneTypes, PostNames
<1>6. InLine(R, q) /\ InSeq(q) \subseteq InSeq(queue[h]) /\ w \in InSeq(queue[h])
  BY <1>1, <1>2, <1>4, <1>5, TakeLine
<1>7. Ahead(R, InSeq(q), InSeq(mail[h]))
  BY <1>4, <1>6, AheadSubsets
<1>8. InLine(R, m) /\ Ahead(R, InSeq(q), InSeq(m)) /\ InSeq(m) \subseteq InSeq(mail[h]) \union {w}
  <2>1. CASE /\ m = Append(mail[h], w) /\ InSeq(m) = InSeq(mail[h]) \union {w}
             /\ requeued' = requeued \union {w}
    <3>1. \A S : Ahead(R, S, {w})
      BY <1>2, <2>1, AheadNone
    <3>2. InLine(R, m)
      BY <1>4, <1>5, <2>1, <3>1, PostLine
    <3>3. Ahead(R, InSeq(q), InSeq(mail[h]) \union {w})
      BY <1>7, <3>1, AheadUnions
    <3>4. Ahead(R, InSeq(q), InSeq(m))
      BY <2>1, <3>3
    <3> QED
      BY <2>1, <3>2, <3>4
  <2>2. CASE m = mail[h]
    BY <1>4, <1>7, <2>2
  <2> QED
    BY <1>1, <2>1, <2>2
<1>9. \A x \in InSeq(m) \union InSeq(q) : x \in Held(h)
  BY <1>6, <1>8 DEF Held
<1>10. LaneIs(h, m, q, ear[h]) /\ Lane(h)
  BY <1>1, <1>2 DEF Lane
<1> QED
  BY <1>2, <1>6, <1>8, <1>9, <1>10, LaneMoveLine

LEMMA HandOverHomeLine == ASSUME TypeInv, LineInv, HandOverHome PROVE LineInv'
<1>1. PICK h \in Hyperways : h = Home
  BY Names
<1>2. PICK m : /\ m = Tail(mail[h]) /\ mail[h] /= <<>>
               /\ LaneIs(h, m, queue[h], ear[h])
  BY <1>1, HandOverHomeLane DEF TypeInv
<1>3. PICK R : R = requeued /\ R = requeued'
  BY DEF HandOverHome
<1>4. /\ InLine(R, mail[h]) /\ InLine(R, queue[h])
      /\ Ahead(R, InSeq(queue[h]), InSeq(mail[h]))
  BY <1>3, OutLineIs DEF LaneLine
<1>5. mail[h] \in Seq(Posts)
  BY LaneTypes
<1>6. InLine(R, m) /\ InSeq(m) \subseteq InSeq(mail[h])
  BY <1>2, <1>4, <1>5, TakeLine
<1>7. Ahead(R, InSeq(queue[h]), InSeq(m))
  BY <1>4, <1>6, AheadSubsets
<1>8. \A x \in InSeq(m) \union InSeq(queue[h]) : x \in Held(h)
  BY <1>6 DEF Held
<1> QED
  BY <1>2, <1>3, <1>4, <1>6, <1>7, <1>8, LaneMoveLine

\* What is handed over comes from the head of the queue of the listener's own lane.
LEMMA HandOverLine ==
    ASSUME TypeInv, KindInv, LineInv, NEW h \in Hyperways, HandOver(h) PROVE LineInv'
<1>1. PICK c \in Conns, w \in Waves :
              /\ c = ear[h] /\ w = Head(queue[h]) /\ queue[h] /= <<>>
              /\ LaneIs(h, mail[h], Tail(queue[h]), c)
              /\ heard[c] \in Seq(Waves \union {Greeting}) /\ heard'[c] = Append(heard[c], w)
              /\ \A d \in Conns \ {c} : heard'[d] = heard[d]
  BY HandOverLane DEF TypeInv
<1>2. bound[c] = h /\ h /= NoHyperway
  BY <1>1, Names DEF KindInv, EarKind
<1>3. PICK q, m, R, L, M : /\ q = Tail(queue[h]) /\ m = mail[h] /\ R = requeued /\ R = requeued'
                           /\ L = Later' /\ M = Later
  BY DEF HandOver
<1>4. Now' = Now /\ UNCHANGED <<calls, inbound, bound>>
  BY LaneSame
<1>5. /\ InLine(R, m) /\ InLine(R, queue[h]) /\ Ahead(R, InSeq(queue[h]), InSeq(m))
      /\ Ahead(R, InSeq(m) \union InSeq(queue[h]), M)
  BY <1>3, OutLineIs DEF LaneLine
<1>6. queue[h] \in Seq(Waves)
  BY LaneTypes
<1>7. /\ InLine(R, q) /\ Ahead(R, {w}, InSeq(q)) /\ InSeq(q) \subseteq InSeq(queue[h])
      /\ w \in InSeq(queue[h])
  BY <1>1, <1>3, <1>5, <1>6, TakeLine
<1>8. Ahead(R, InSeq(q), InSeq(m)) /\ Ahead(R, {w}, InSeq(m)) /\ Ahead(R, {w}, M)
  BY <1>5, <1>7, AheadSubsets
<1>9. LaneIs(h, m, q, c)
  BY <1>1, <1>3
<1>10. PICK N : N = {}
  OBVIOUS
<1>11. \A x \in InSeq(m) \union InSeq(q) : x.kind = "down" => x \in Held(h) \union N
  BY <1>3, <1>7 DEF Held
<1>12. /\ CallsLine' /\ OutLine' /\ L \subseteq M
       /\ \A k \in Hyperways : \A x \in InSeq(mail'[k]) \union InSeq(queue'[k]) :
             x.kind = "down" => x \in Held(k) \union N
  BY <1>3, <1>4, <1>5, <1>7, <1>8, <1>9, <1>10, <1>11, LaneStepLine
<1>13. mail'[h] = m /\ queue'[h] = q
  BY <1>9 DEF LaneIs
<1>14. PICK H : H = Held(h) /\ H = InSeq(m) \union InSeq(queue[h])
  BY <1>3 DEF Held
<1>15. InLine(R, heard[c]) /\ Ahead(R, InSeq(heard[c]), M) /\ Ahead(R, InSeq(heard[c]), H)
  <2>1. HearLine(R, heard[c], M, IF bound[c] /= NoHyperway THEN Held(bound[c]) ELSE {})
    BY <1>3, HeardLineIs
  <2>2. HearLine(R, heard[c], M, H)
    BY <1>2, <1>14, <2>1
  <2> QED
    BY <2>2 DEF HearLine
<1>16. InSeq(heard'[c]) = InSeq(heard[c]) \union {w}
  BY <1>1, Appends
<1>17. InLine(R, heard'[c])
  <2>1. Ahead(R, InSeq(heard[c]), {w})
    BY <1>7, <1>14, <1>15, AheadSubsets
  <2> QED
    BY <1>1, <1>15, <2>1, PostLine
<1>18. Ahead(R, InSeq(heard'[c]), M) /\ Ahead(R, InSeq(heard'[c]), InSeq(m) \union InSeq(q))
  <2>1. Ahead(R, InSeq(heard[c]), InSeq(m) \union InSeq(q))
    BY <1>7, <1>14, <1>15, AheadSubsets
  <2>2. Ahead(R, {w}, InSeq(m) \union InSeq(q))
    BY <1>7, <1>8, AheadUnions
  <2> QED
    BY <1>8, <1>15, <1>16, <2>1, <2>2, AheadUnions
<1>19. ASSUME NEW d \in Conns
       PROVE  HearLine(R, heard'[d], L,
               IF bound'[d] /= NoHyperway THEN InSeq(mail'[bound'[d]]) \union InSeq(queue'[bound'[d]])
                                          ELSE {})
  <2> DEFINE G == IF bound'[d] /= NoHyperway THEN InSeq(mail'[bound'[d]]) \union InSeq(queue'[bound'[d]])
                                             ELSE {}
  <2>1. CASE d = c
    <3>1. G = InSeq(m) \union InSeq(q)
      BY <1>2, <1>4, <1>13, <2>1
    <3> HIDE DEF G
    <3>2. Ahead(R, InSeq(heard'[d]), L) /\ Ahead(R, InSeq(heard'[d]), G)
      BY <1>12, <1>18, <2>1, <3>1, AheadSubsets
    <3>3. HearLine(R, heard'[d], L, G)
      BY <1>17, <2>1, <3>2 DEF HearLine
    <3> QED
      BY <3>3 DEF G
  <2>2. CASE d /= c
    <3> DEFINE K == IF bound[d] /= NoHyperway THEN Held(bound[d]) ELSE {}
    <3>1. heard'[d] = heard[d] /\ bound'[d] = bound[d] /\ bound[d] \in Hyperways \union {NoHyperway}
      BY <1>1, <1>4, <2>2, TypeParts DEF TypeInv, ConnOK
    <3>2. HearLine(R, heard[d], M, K)
      BY <1>3, HeardLineIs
    <3>3. \A y \in G : y.kind = "down" => y \in K
      BY <1>10, <1>12, <3>1
    <3> HIDE DEF G, K
    <3>4. /\ InLine(R, heard[d]) /\ Ahead(R, InSeq(heard[d]), M)
          /\ Ahead(R, InSeq(heard[d]), K)
      BY <3>2 DEF HearLine
    <3>5. Ahead(R, InSeq(heard[d]), L) /\ Ahead(R, InSeq(heard[d]), G)
      BY <1>12, <3>3, <3>4, AheadSubsets
    <3>6. HearLine(R, heard'[d], L, G)
      BY <3>1, <3>4, <3>5 DEF HearLine
    <3> QED
      BY <3>6 DEF G
  <2> QED
    BY <2>1, <2>2
<1>20. HeardLine'
  BY <1>3, <1>19, HeardLinePrimed
<1> QED
  BY <1>12, <1>20 DEF LineInv

LEMMA StepLine ==
    ASSUME TypeInv, PlaceInv, OnceInv, KindInv, LineInv, [Next]_vars PROVE LineInv'
<1>1. ASSUME NEW c \in Conns, Enter(c) \/ AskMount(c) \/ AskRemove(c) PROVE LineInv'
  <2>1. PICK x \in {Internal(c), Mount(c), Remove(c)} : Called(x)
    BY <1>1 DEF Enter, AskMount, AskRemove
  <2>2. x \in CallTypes /\ x.call /= "Wave"
    BY CallNames, CallsDiffer
  <2>3. UNCHANGED <<task, current, inbound, mail, queue, requeued, heard, bound>>
    BY <1>1 DEF Enter, AskMount, AskRemove, taskVars, laneVars, outVars
  <2> QED
    BY <2>1, <2>2, <2>3, GateLine
<1>2. ASSUME UNCHANGED <<calls, task, current, inbound, mail, queue, requeued, heard, bound>>
      PROVE  LineInv'
  <2>1. Now' = Now /\ Wait' = Wait
    BY <1>2 DEF Now, Wait
  <2>2. CallsLine' /\ Later' \subseteq Later
    BY <1>2, <2>1, LineShrunk DEF LineInv, CallsLine
  <2> QED
    BY <1>2, <2>2, LineUntouched DEF LineInv
<1>3. ASSUME NEW c \in Conns, Drop(c) PROVE LineInv'
  BY <1>2, <1>3 DEF Drop, taskVars, laneVars, outVars
<1>4. CASE UNCHANGED vars
  BY <1>2, <1>4 DEF vars, taskVars, laneVars, outVars, connVars
<1>5. CASE TakeInternal \/ TakeRemove
  <2>1. /\ Taking("Internal") \/ Taking("Remove")
        /\ UNCHANGED <<task, current, inbound, mail, queue, requeued, heard, bound>>
    BY <1>5 DEF TakeInternal, TakeRemove, laneVars, outVars, connVars
  <2>2. Now' = Now
    BY <2>1 DEF Now
  <2> QED
    BY <2>1, <2>2, TakenLine
<1>6. CASE TakeMount
  <2>1. Taking("Mount") /\ UNCHANGED <<inbound, mail, queue, requeued, heard, bound>>
    BY <1>6 DEF TakeMount, laneVars, outVars
  <2>2. Now' \subseteq Now
    BY <1>6 DEF TakeMount, Now
  <2> QED
    BY <2>1, <2>2, TakenLine
<1>7. ASSUME NEW h \in Hyperways, Lane(h) \/ HandOver(h) PROVE LineInv'
  BY <1>7, LaneTakesWaveLine, LaneTakesLine, HandOverFailsLine, RequeueLine, HandOverLine DEF Lane
<1> QED
  BY <1>1, <1>3, <1>4, <1>5, <1>6, <1>7, TakeWaveLine, RouteLine, RouteTimeoutLine, MountedLine,
     HandOverHomeLine, SendDownLine, SendUpLine, ForwardLine, ForwardTimeoutLine
  DEF Next, Task

LEMMA InitLine == ASSUME Init PROVE LineInv
<1>1. \A x : /\ x \notin InSeq(calls)
             /\ \A h \in Hyperways : x \notin InSeq(inbound[h]) /\ x \notin Held(h)
             /\ \A c \in Conns : x \notin InSeq(heard[c])
  BY DEF Init, InSeq, Held
<1>2. \A x : x \notin Now /\ x \notin Wait
  BY <1>1 DEF Init, Now, Wait
<1>3. \A h \in Hyperways : \A a, b : /\ ~Before(mail[h], a, b) /\ ~Before(queue[h], a, b)
                                     /\ ~Before(inbound[h], a, b) /\ ~Before(calls, a, b)
  BY DEF Init, Before
<1>4. \A c \in Conns : \A a, b : ~Before(heard[c], a, b)
  BY DEF Init, Before
<1>5. CallsLine
  BY <1>1, <1>2, <1>3, Names, BeforeIsIn DEF CallsLine, Ahead, InLine
<1>6. OutLine
  BY <1>1, <1>3 DEF OutLine, Ahead, InLine, Held
<1>7. HeardLine
  BY <1>1, <1>4 DEF HeardLine, Ahead, InLine
<1> QED
  BY <1>5, <1>6, <1>7 DEF LineInv

LEMMA HeardInvHolds == Spec => [](TypeInv /\ PlaceInv /\ OnceInv /\ KindInv /\ LineInv)
<1> DEFINE Inv == TypeInv /\ PlaceInv /\ OnceInv /\ KindInv /\ LineInv
<1>1. Init => Inv
  BY InitType, InitPlaces, InitKinds, InitLine
<1>2. Inv /\ [Next]_vars => Inv'
  BY StepType, StepPlaces, StepKinds, StepLine
<1> QED
  BY <1>1, <1>2, PTL DEF Spec

LEMMA HeardFollows ==
    ASSUME TypeInv, PlaceInv, OnceInv, KindInv, LineInv PROVE HeardInOrder
<1>1. ASSUME NEW c \in Conns, NEW i \in DOMAIN heard[c]
      PROVE  heard[c][i].to \in {SurfaceOf[c], "conn"}
  <2>1. heard[c][i] \in InSeq(heard[c])
    BY DEF InSeq
  <2>2. heard[c][i] = Greeting \/ Down(heard[c][i], SurfaceOf[c])
    BY <2>1 DEF KindInv, HeardKind
  <2> QED
    BY <2>2 DEF Greeting, Down
<1>2. ASSUME NEW c \in Conns, NEW i \in DOMAIN heard[c], NEW j \in DOMAIN heard[c], i < j
      PROVE  /\ heard[c][i] /= heard[c][j]
             /\ \/ heard[c][i].no < heard[c][j].no
                \/ heard[c][i] \in requeued \/ heard[c][j] \in requeued
  <2>1. PICK v, w : v = heard[c][i] /\ w = heard[c][j]
    OBVIOUS
  <2>2. v \in InSeq(heard[c]) /\ w \in InSeq(heard[c]) /\ Before(heard[c], v, w)
    BY <1>2, <2>1 DEF InSeq, Before
  <2>3. w \in DownWaves /\ (v = Greeting \/ v \in DownWaves)
    BY <2>2 DEF KindInv, HeardKind, Down
  <2>4. Prec(requeued, v, w)
    BY <2>2 DEF LineInv, HeardLine, InLine
  <2>5. v /= w
    <3>1. w \in Waves /\ ~Before(heard[c], w, w)
      BY <2>3 DEF OnceInv, Once, Waves
    <3> QED
      BY <2>2, <3>1
  <2>6. CASE v = Greeting
    <3>1. v.no = 0 /\ w.no \in 1 .. MaxWaves
      BY <2>3, <2>6 DEF Greeting, DownWaves
    <3> QED
      BY <2>1, <2>5, <3>1, CapTypes
  <2>7. CASE v \in DownWaves
    BY <2>1, <2>3, <2>4, <2>5, <2>7, Kinds DEF Prec
  <2> QED
    BY <2>3, <2>6, <2>7
<1>3. ASSUME NEW c \in Conns, NEW d \in Conns \ {c}
      PROVE  InSeq(heard[c]) \intersect InSeq(heard[d]) \subseteq {Greeting}
  <2>1. /\ <<"heard", c>> \in Places /\ <<"heard", d>> \in Places
        /\ <<"heard", c>> /= <<"heard", d>>
    BY PlacesAre
  <2>2. In(<<"heard", c>>) \intersect In(<<"heard", d>>) = {}
    BY <2>1 DEF PlaceInv
  <2> QED
    BY <2>2, InAre
<1>4. ASSUME NEW i \in DOMAIN home, NEW j \in DOMAIN home, home[i] = home[j] PROVE i = j
  <2>1. i \in Nat /\ j \in Nat /\ home[i] \in Waves
    BY TypeParts DEF TypeInv, HomeOK
  <2>2. ~Before(home, home[i], home[i])
    BY <2>1 DEF OnceInv, Once
  <2>3. ~(i < j) /\ ~(j < i)
    BY <1>4, <2>2 DEF Before
  <2> QED
    BY <2>1, <2>3
<1> QED
  BY <1>1, <1>2, <1>3, <1>4 DEF HeardInOrder

\* What a connection hears is for its surface, in the order Home sent it but for the
\* waves that were requeued, and no wave is heard twice, by one connection or by two,
\* nor by Home: each wave is in one place, and waves from Home pass one another
\* nowhere but where a lane puts the one it failed to hand over back into its mailbox.
THEOREM HeardTheorem == Spec => []HeardInOrder
<1>1. TypeInv /\ PlaceInv /\ OnceInv /\ KindInv /\ LineInv => HeardInOrder
  BY HeardFollows
<1> QED
  BY <1>1, HeardInvHolds, PTL

=============================================================================
