------------------------ MODULE MachineProofs ------------------------
(***************************************************************************)
(* Theorems about a machine: how its stars come up (MachineStartup), for   *)
(* any number of them, whichever fail and however often; and how           *)
(* transports and searches go between them (StarFabric), for stars linked  *)
(* in any way.                                                             *)
(***************************************************************************)
EXTENDS MachineStartup, StarFabric, FiniteSetTheorems, SequenceTheorems, WellFoundedInduction, TLAPS

LEMMA StarTypes ==
    /\ Stars \subseteq Nat /\ MaxBreaks \in Nat
    /\ Statuses = {"Pending", "Init", "Ready", "Panic", "Fatal"}
    /\ Busy = {"Pending", "Init"}
  BY StarLifeAssumption DEF Statuses, Busy

-----------------------------------------------------------------------------
(* Types.                                                                  *)

LEMMA InitTypes == Init => TypeOK
  BY StarTypes DEF Init, LifeInit, TypeOK, LifeTypeOK, Unread

\* What a star does to its own state keeps the types.
LEMMA LifeTypes ==
    ASSUME LifeTypeOK, NEW s \in Stars,
           \/ Begin(s) \/ ShowBusy(s) \/ Up(s) \/ ShowReady(s) \/ DriverFails(s) \/ ShowFatal(s)
           \/ StartWrangling(s) \/ Heard(s) \/ Release(s) \/ Wrangle(s) \/ Bridge(s)
           \/ HyperwayEnds(s)
    PROVE  LifeTypeOK'
<1> USE StarTypes DEF LifeTypeOK, Show, Now
<1>1. CASE Begin(s) \/ Up(s) \/ StartWrangling(s) \/ Heard(s) \/ Release(s) \/ Bridge(s)
  BY <1>1 DEF Begin, Up, StartWrangling, Heard, Release, Bridge
<1>2. CASE ShowBusy(s) \/ ShowReady(s) \/ ShowFatal(s) \/ Wrangle(s)
  BY <1>2 DEF ShowBusy, ShowReady, ShowFatal, Wrangle
<1>3. CASE DriverFails(s)
  BY <1>3 DEF DriverFails, Breaks
<1>4. CASE HyperwayEnds(s)
  BY <1>4 DEF HyperwayEnds, Breaks
<1> QED
  BY <1>1, <1>2, <1>3, <1>4

LEMMA BridgeFailsTypes ==
    ASSUME TypeOK, NEW s \in Stars, BridgeFails(s) PROVE TypeOK'
  BY StarTypes DEF BridgeFails, NoBridge, Show, Breaks, Seen, TypeOK, LifeTypeOK

LEMMA SeenTypes ==
    ASSUME TypeOK, LifeTypeOK', NEW s \in Stars, Seen(s) PROVE TypeOK'
  BY DEF TypeOK, Seen

LEMMA VerdictTypes == TypeOK => Verdict \in {"Init", "Ready", "Panic", "Fatal"}
  BY DEF TypeOK, Verdict

LEMMA MachineTypes ==
    ASSUME TypeOK, MachineLoop \/ MachineEnds \/ Aggregator PROVE TypeOK'
<1>1. CASE MachineLoop
  BY <1>1 DEF MachineLoop, Built, MachineInit, TypeOK, LifeTypeOK, lifeVars
<1>2. CASE MachineEnds
  <2>1. breaks' \in 0 .. MaxBreaks /\ machine' = "ended"
    BY <1>2, StarTypes DEF MachineEnds, TypeOK, LifeTypeOK
  <2> QED
    BY <1>2, <2>1 DEF MachineEnds, TypeOK, LifeTypeOK
<1>3. CASE Judge
  BY <1>3, VerdictTypes DEF Judge, Unread, TypeOK, LifeTypeOK, lifeVars
<1>4. ASSUME NEW s \in Stars, ReadStar(s) PROVE TypeOK'
  BY <1>4 DEF ReadStar, TypeOK, LifeTypeOK, lifeVars
<1>5. ASSUME NEW s \in Stars, ReadAgain(s) PROVE TypeOK'
  BY <1>5 DEF ReadAgain, TypeOK, LifeTypeOK, lifeVars
<1> QED
  BY <1>1, <1>2, <1>3, <1>4, <1>5 DEF Aggregator

LEMMA StepTypes == ASSUME TypeOK, [Next]_vars PROVE TypeOK'
<1>1. CASE UNCHANGED vars
  BY <1>1 DEF vars, lifeVars, machineVars, TypeOK, LifeTypeOK
<1>2. CASE MachineLoop \/ MachineEnds \/ Aggregator
  BY <1>2, MachineTypes
<1>3. ASSUME NEW s \in Stars, StatusTask(s) \/ StarLoop(s) \/ Other(s) \/ WrangleTask(s)
                              \/ OpenBridge(s)
      PROVE  TypeOK'
  <2>1. LifeTypeOK'
    BY <1>3, LifeTypes
    DEF StatusTask, StarLoop, Other, WrangleTask, OpenBridge, WaitReady, TypeOK
  <2>2. CASE Seen(s)
    BY <2>1, <2>2, SeenTypes
  <2>3. CASE UNCHANGED machineVars
    BY <2>1, <2>3 DEF machineVars, TypeOK
  <2> QED
    BY <1>3, <2>2, <2>3
    DEF StatusTask, StarLoop, Other, WrangleTask, OpenBridge, WaitReady
<1>4. ASSUME NEW s \in Stars, BridgeFails(s) PROVE TypeOK'
  BY <1>4, BridgeFailsTypes
<1> QED
  BY <1>1, <1>2, <1>3, <1>4 DEF Next

\* The types of a machine that comes up, and of the stars in it.
THEOREM TypeTheorem == Spec => []TypeOK
  BY InitTypes, StepTypes, PTL DEF Spec

-----------------------------------------------------------------------------
(* Who is Ready is up.                                                     *)

AllUp == \A s \in Stars : IsUp(s)

\* Whatever a status of Ready was made of, was made of drivers that are up; and
\* as long as the machine has not told the stars to start none of them has.
UpInv ==
    /\ machine \in {"building", "starting"} => \A s \in Stars : life[s] = "off"
    /\ \A s \in Stars : star[s] = "Ready" \/ view[s] = "Ready" \/ loop[s] /= "free"
                        \/ wrangling[s] /= "no" => IsUp(s)
    /\ status = "Ready" => AllUp
    /\ WranglingWaitsForAll

LEMMA InitUp == Init => UpInv
  BY DEF Init, LifeInit, UpInv, Unread, WranglingWaitsForAll

\* A star that is up stays up, unless the machine is only now told to start.
LEMMA UpStays ==
    ASSUME TypeOK, NEW s \in Stars,
           \/ Begin(s) \/ ShowBusy(s) \/ Up(s) \/ ShowReady(s) \/ DriverFails(s) \/ ShowFatal(s)
    PROVE  /\ \A t \in Stars : IsUp(t) => IsUp(t)'
           /\ \A t \in Stars : star'[t] = "Ready" => star[t] = "Ready" \/ IsUp(t)'
           /\ \A t \in Stars : life[t] = "off" => life'[t] = "off"
           /\ UNCHANGED <<loop, wrangling>>
  BY StarTypes
  DEF Begin, ShowBusy, Up, ShowReady, DriverFails, ShowFatal, IsUp, Show, Now, Breaks,
      TypeOK, LifeTypeOK

LEMMA LifeUp ==
    ASSUME TypeOK, UpInv, NEW s \in Stars, Seen(s),
           \/ Begin(s) \/ ShowBusy(s) \/ Up(s) \/ ShowReady(s) \/ DriverFails(s) \/ ShowFatal(s)
    PROVE  UpInv'
  BY UpStays DEF Seen, UpInv, AllUp, WranglingWaitsForAll

\* The star's own loop, and what it leaves behind.
LEMMA LoopUp ==
    ASSUME TypeOK, UpInv, NEW s \in Stars,
           (StartWrangling(s) /\ Seen(s)) \/ WaitReady(s) \/ WrangleTask(s)
    PROVE  UpInv'
<1> USE DEF TypeOK, LifeTypeOK, UpInv, AllUp, IsUp, WranglingWaitsForAll
<1>1. CASE StartWrangling(s) /\ Seen(s)
  BY <1>1 DEF StartWrangling, Seen
<1>2. CASE Heard(s) /\ UNCHANGED machineVars
  BY <1>2 DEF Heard, machineVars
<1>3. CASE Release(s) /\ UNCHANGED machineVars /\ (machine = "ended" \/ status = "Ready")
  BY <1>3 DEF Release, machineVars
<1>4. CASE WrangleTask(s)
  BY <1>4 DEF WrangleTask, Wrangle, Show, Seen
<1> QED
  BY <1>1, <1>2, <1>3, <1>4 DEF WaitReady

LEMMA OtherUp ==
    ASSUME TypeOK, UpInv, NEW s \in Stars,
           (HyperwayEnds(s) /\ Seen(s)) \/ OpenBridge(s) \/ BridgeFails(s)
    PROVE  UpInv'
<1> USE DEF TypeOK, LifeTypeOK, UpInv, AllUp, IsUp, WranglingWaitsForAll
<1>1. CASE HyperwayEnds(s) /\ Seen(s)
  BY <1>1 DEF HyperwayEnds, Seen, Show
<1>2. CASE OpenBridge(s)
  BY <1>2 DEF OpenBridge, Bridge, machineVars
<1>3. CASE BridgeFails(s)
  BY <1>3 DEF BridgeFails, NoBridge, Seen, Show
<1> QED
  BY <1>1, <1>2, <1>3

LEMMA MachineUp ==
    ASSUME TypeOK, UpInv, MachineLoop \/ MachineEnds PROVE UpInv'
<1> USE DEF TypeOK, LifeTypeOK, UpInv, AllUp, IsUp, WranglingWaitsForAll
<1>1. CASE Built
  BY <1>1 DEF Built, lifeVars
<1>2. CASE MachineInit
  BY <1>2 DEF MachineInit
<1>3. CASE MachineEnds
  BY <1>3 DEF MachineEnds
<1> QED
  BY <1>1, <1>2, <1>3 DEF MachineLoop

\* The aggregator's verdict is Ready only if it read Ready of every star, or had
\* said so before; what it read may be old, but nobody who was up is not.
LEMMA AggregatorUp ==
    ASSUME TypeOK, UpInv, Aggregator PROVE UpInv'
<1> USE DEF TypeOK, LifeTypeOK, UpInv, AllUp, IsUp, WranglingWaitsForAll
<1>1. CASE Judge
  <2>1. Verdict = "Ready" => AllUp
    BY DEF Verdict
  <2> QED
    BY <1>1, <2>1 DEF Judge, Unread, lifeVars
<1>2. ASSUME NEW s \in Stars, ReadStar(s) \/ ReadAgain(s) PROVE UpInv'
  BY <1>2 DEF ReadStar, ReadAgain, lifeVars
<1> QED
  BY <1>1, <1>2 DEF Aggregator

LEMMA StepUp == ASSUME TypeOK, UpInv, [Next]_vars PROVE UpInv'
<1>1. CASE UNCHANGED vars
  BY <1>1 DEF vars, lifeVars, machineVars, UpInv, AllUp, IsUp, WranglingWaitsForAll
<1>2. CASE MachineLoop \/ MachineEnds
  BY <1>2, MachineUp
<1>3. CASE Aggregator
  BY <1>3, AggregatorUp
<1>4. ASSUME NEW s \in Stars, \/ StatusTask(s) \/ StarLoop(s) \/ Other(s) \/ WrangleTask(s)
                              \/ OpenBridge(s) \/ BridgeFails(s)
      PROVE  UpInv'
  BY <1>4, LifeUp, LoopUp, OtherUp DEF StatusTask, StarLoop, Other
<1> QED
  BY <1>1, <1>2, <1>3, <1>4 DEF Next

LEMMA UpTheorem == Spec => []UpInv
  BY InitUp, StepUp, TypeTheorem, PTL DEF Spec

\* No star looks for others before the drivers of every star are Ready, although
\* the aggregator reads the stars one by one while they change.
THEOREM WranglingTheorem == Spec => []WranglingWaitsForAll
  BY UpTheorem, PTL DEF UpInv

-----------------------------------------------------------------------------
(* Nets and routes.                                                        *)

LEMMA NetFacts ==
    ASSUME net \in Nets
    PROVE  /\ IsFiniteSet(Members) /\ origin \in Members
           /\ net.attempts \in Nat /\ net.bounces \in Nat
           /\ MaxHops \in Nat /\ MaxHops >= 2
  BY FabricAssumption DEF Members, origin

LEMMA AdjacentFacts ==
    ASSUME net \in Nets, NEW s \in Members, NEW t \in Adjacents(s)
    PROVE  t \in Members /\ s \in Adjacents(t) /\ t # s
<1>1. t \in Members /\ {s, t} \in net.links
  BY DEF Adjacents
<1>2. Cardinality({s, t}) = 2
  BY <1>1, FabricAssumption DEF Members
<1>3. t # s
  <2>1. SUFFICES ASSUME t = s PROVE FALSE
    OBVIOUS
  <2>2. Cardinality({s, t}) = Cardinality({s}) /\ Cardinality({s}) = 1
    BY <2>1, FS_Singleton
  <2> QED
    BY <1>2, <2>2
<1>4. {t, s} = {s, t}
  OBVIOUS
<1> QED
  BY <1>1, <1>3, <1>4 DEF Adjacents

\* The next hop is one star or none.
LEMMA NextHopFacts ==
    ASSUME net \in Nets, NEW s \in Members, NEW to \in Members
    PROVE  /\ NextHop(s, to) \subseteq Members
           /\ \A g, h \in NextHop(s, to) : g = h
<1>1. Forwarders(s) \subseteq Members /\ IsFiniteSet(Forwarders(s))
  BY NetFacts, FS_Subset DEF Forwarders, Adjacents
<1>2. CASE to = s \/ to \in Adjacents(s)
  BY <1>2 DEF NextHop
<1>3. CASE ~(to = s \/ to \in Adjacents(s))
  <2>1. CASE Cardinality(Forwarders(s)) = 1
    <3>1. PICK h : Forwarders(s) = {h}
      BY <1>1, <2>1, FS_Singleton
    <3> QED
      BY <1>1, <1>3, <2>1, <3>1 DEF NextHop
  <2>2. CASE Cardinality(Forwarders(s)) # 1
    BY <1>3, <2>2 DEF NextHop
  <2> QED
    BY <2>1, <2>2
<1> QED
  BY <1>2, <1>3

IsTrail(p) ==
    /\ p \in Seq(Members) /\ Len(p) >= 1 /\ p[1] = origin
    /\ Simple(p)
    /\ \A i \in 2 .. Len(p) - 1 : IsForwarder(p[i])

IsRoute(p) == IsTrail(p) /\ Len(p) >= 2
IsFind(p)  == IsRoute(p) /\ CanBeWrangled(Last(p))

Extends(q, p) == Len(p) <= Len(q) /\ \A i \in 1 .. Len(p) : q[i] = p[i]
Finds(p)      == {q \in Seq(Members) : IsFind(q) /\ Extends(q, p)}

LEMMA SameGraph ==
    ASSUME net' = net
    PROVE  /\ Members' = Members /\ origin' = origin
           /\ \A s : /\ Adjacents(s)' = Adjacents(s) /\ Forwarders(s)' = Forwarders(s)
                     /\ IsForwarder(s)' = IsForwarder(s)
                     /\ CanBeWrangled(s)' = CanBeWrangled(s)
           /\ \A p : Rest(p)' = Rest(p)
<1>1. Members' = Members /\ origin' = origin
  BY DEF Members, origin
<1>2. \A s : Adjacents(s)' = Adjacents(s)
  BY <1>1 DEF Adjacents
<1>3. \A s : IsForwarder(s)' = IsForwarder(s) /\ CanBeWrangled(s)' = CanBeWrangled(s)
  BY DEF IsForwarder, CanBeWrangled
<1>4. \A s : Forwarders(s)' = Forwarders(s)
  BY <1>2, <1>3 DEF Forwarders
<1>5. \A p : Rest(p)' = Rest(p)
  BY <1>2 DEF Rest, Last
<1> QED
  BY <1>1, <1>2, <1>3, <1>4, <1>5

LEMMA SameRoutes ==
    ASSUME net' = net
    PROVE  \A p : /\ Simple(p)' = Simple(p)
                  /\ IsTrail(p)' = IsTrail(p) /\ IsRoute(p)' = IsRoute(p)
                  /\ IsFind(p)' = IsFind(p)
                  /\ Finds(p)' = Finds(p)
<1>1. \A p : Simple(p)' = Simple(p)
  BY SameGraph DEF Simple
<1>2. \A p : IsTrail(p)' = IsTrail(p)
  BY <1>1, SameGraph DEF IsTrail
<1>3. \A p : IsRoute(p)' = IsRoute(p)
  BY <1>2 DEF IsRoute
<1>4. \A p : IsFind(p)' = IsFind(p)
  BY <1>3, SameGraph DEF IsFind, Last
<1>5. \A p : Finds(p)' = Finds(p)
  BY <1>4, SameGraph DEF Finds, Extends
<1> QED
  BY <1>1, <1>2, <1>3, <1>4, <1>5

LEMMA LastFacts ==
    ASSUME NEW p \in Seq(Members), Len(p) >= 1
    PROVE  Last(p) = p[Len(p)] /\ Last(p) \in Members
  BY DEF Last

LEMMA FrontFacts ==
    ASSUME NEW p \in Seq(Members), Len(p) >= 1
    PROVE  /\ Front(p) \in Seq(Members) /\ Len(Front(p)) = Len(p) - 1
           /\ \A i \in 1 .. Len(p) - 1 : Front(p)[i] = p[i]
<1>1. Len(p) - 1 \in Nat /\ \A i \in 1 .. Len(p) - 1 : p[i] \in Members
  OBVIOUS
<1>2. /\ SubSeq(p, 1, Len(p) - 1) \in Seq(Members)
      /\ Len(SubSeq(p, 1, Len(p) - 1)) = IF 1 <= Len(p) - 1 THEN (Len(p) - 1) - 1 + 1 ELSE 0
      /\ \A i \in 1 .. (Len(p) - 1) - 1 + 1 : SubSeq(p, 1, Len(p) - 1)[i] = p[1 + i - 1]
  BY <1>1, SubSeqProperties
<1> DEFINE f == SubSeq(p, 1, Len(p) - 1)
<1>3. Front(p) = f
  BY DEF Front
<1> HIDE DEF f
<1>4. f \in Seq(Members) /\ Len(f) = Len(p) - 1
  <2>1. (IF 1 <= Len(p) - 1 THEN (Len(p) - 1) - 1 + 1 ELSE 0) = Len(p) - 1
    <3>1. \A n \in Nat : (IF 1 <= n THEN n - 1 + 1 ELSE 0) = n
      OBVIOUS
    <3> QED
      BY <1>1, <3>1
  <2>2. SubSeq(p, 1, Len(p) - 1) \in Seq(Members) /\ Len(SubSeq(p, 1, Len(p) - 1)) = Len(p) - 1
    BY <1>2, <2>1
  <2> QED
    BY <2>2 DEF f
<1>5. \A i \in 1 .. Len(p) - 1 : f[i] = p[i]
  <2> TAKE i \in 1 .. Len(p) - 1
  <2>1. i \in 1 .. (Len(p) - 1) - 1 + 1 /\ 1 + i - 1 = i
    BY <1>1
  <2> QED
    BY <1>2, <2>1 DEF f
<1> QED
  BY <1>3, <1>4, <1>5

\* A trail goes on to any adjacent star it has not been to, if it may leave its last.
LEMMA TrailAppend ==
    ASSUME NEW p, IsTrail(p), Len(p) >= 2 => IsForwarder(Last(p)), NEW r \in Rest(p)
    PROVE  /\ Append(p, r) \in Seq(Members) /\ IsRoute(Append(p, r))
           /\ Len(Append(p, r)) = Len(p) + 1
           /\ Last(Append(p, r)) = r /\ Front(Append(p, r)) = p
           /\ Asker(Append(p, r)) = Last(p)
           /\ \A i \in 1 .. Len(p) : Append(p, r)[i] = p[i]
<1>1. p \in Seq(Members) /\ r \in Members /\ Len(p) \in Nat /\ Len(p) >= 1
  BY DEF IsTrail, Rest, Adjacents
<1> DEFINE q == Append(p, r)
<1>2. q \in Seq(Members) /\ Len(q) = Len(p) + 1 /\ q[Len(p) + 1] = r
  BY <1>1
<1>3. \A i \in 1 .. Len(p) : q[i] = p[i]
  BY <1>1
<1>3a. DOMAIN q = 1 .. Len(q) /\ DOMAIN p = 1 .. Len(p)
  BY <1>1, <1>2
<1> HIDE DEF q
<1>4. r \in Adjacents(Last(p)) /\ \A i \in 1 .. Len(p) : p[i] # r
  BY <1>1 DEF Rest, ToSet
<1>5. Last(q) = r /\ Last(p) = p[Len(p)]
  BY <1>1, <1>2 DEF Last
<1>6. Simple(q)
  <2>1. \A i, j \in 1 .. Len(p) : p[i] = p[j] => i = j
    BY <1>3a DEF IsTrail, Simple
  <2>2. \A i, j \in DOMAIN q : q[i] = q[j] => i = j
    BY <1>1, <1>2, <1>3, <1>3a, <1>4, <2>1
  <2>3. \A i \in 1 .. Len(q) - 1 : q[i + 1] \in Adjacents(q[i])
    <3> TAKE i \in 1 .. Len(q) - 1
    <3>1. CASE i = Len(p)
      BY <1>1, <1>2, <1>3, <1>4, <1>5, <3>1
    <3>2. CASE i # Len(p)
      <4>1. i \in 1 .. Len(p) - 1 /\ i + 1 \in 1 .. Len(p)
        BY <1>1, <1>2, <3>2
      <4>2. p[i + 1] \in Adjacents(p[i])
        BY <4>1 DEF IsTrail, Simple
      <4> QED
        BY <1>1, <1>3, <4>1, <4>2
    <3> QED
      BY <3>1, <3>2
  <2> QED
    BY <2>2, <2>3 DEF Simple
<1>7. \A i \in 2 .. Len(q) - 1 : IsForwarder(q[i])
  <2> TAKE i \in 2 .. Len(q) - 1
  <2>1. i \in 2 .. Len(p) /\ q[i] = p[i]
    BY <1>1, <1>2, <1>3
  <2>2. CASE i = Len(p)
    BY <1>1, <1>5, <2>1, <2>2
  <2>3. CASE i # Len(p)
    BY <1>1, <2>1, <2>3 DEF IsTrail
  <2> QED
    BY <2>2, <2>3
<1>8. IsRoute(q)
  BY <1>1, <1>2, <1>3, <1>6, <1>7 DEF IsRoute, IsTrail
<1>9. Front(q) = p
  <2>1. /\ Front(q) \in Seq(Members) /\ Len(Front(q)) = Len(q) - 1
        /\ \A i \in 1 .. Len(q) - 1 : Front(q)[i] = q[i]
    <3>1. Len(q) >= 1
      BY <1>1, <1>2
    <3> QED
      BY <1>2, <3>1, FrontFacts
  <2>2. Len(q) - 1 = Len(p)
    BY <1>1, <1>2
  <2>3. Len(Front(q)) = Len(p) /\ \A i \in 1 .. Len(p) : Front(q)[i] = p[i]
    BY <1>3, <2>1, <2>2
  <2> QED
    BY <1>1, <2>1, <2>3, SeqEqual
<1>10. Asker(q) = Last(p)
  <2>1. Len(q) - 1 = Len(p)
    BY <1>1, <1>2
  <2> QED
    BY <1>1, <1>3, <1>5, <2>1 DEF Asker
<1> QED
  BY <1>1, <1>2, <1>3, <1>5, <1>8, <1>9, <1>10 DEF q

LEMMA TrailFront ==
    ASSUME NEW p, IsRoute(p)
    PROVE  /\ IsTrail(Front(p)) /\ (Len(Front(p)) >= 2 => IsForwarder(Last(Front(p))))
           /\ Last(p) \in Rest(Front(p)) /\ p = Append(Front(p), Last(p))
           /\ Len(Front(p)) = Len(p) - 1
           /\ Asker(p) = Last(Front(p))
<1>1. p \in Seq(Members) /\ Len(p) \in Nat /\ Len(p) >= 2 /\ DOMAIN p = 1 .. Len(p)
  BY DEF IsRoute, IsTrail
<1> DEFINE f == Front(p)
<1>2. f \in Seq(Members) /\ Len(f) = Len(p) - 1 /\ \A i \in 1 .. Len(p) - 1 : f[i] = p[i]
  <2>1. Len(p) >= 1
    BY <1>1
  <2> QED
    BY <1>1, <2>1, FrontFacts
<1>3. DOMAIN f = 1 .. Len(f)
  BY <1>2
<1> HIDE DEF f
<1>4. Simple(f)
  <2>1. \A i, j \in DOMAIN f : f[i] = f[j] => i = j
    BY <1>1, <1>2, <1>3 DEF IsRoute, IsTrail, Simple
  <2>2. \A i \in 1 .. Len(f) - 1 : f[i + 1] \in Adjacents(f[i])
    <3> TAKE i \in 1 .. Len(f) - 1
    <3>1. i \in 1 .. Len(p) - 1 /\ i + 1 \in 1 .. Len(p) - 1
      BY <1>1, <1>2
    <3>2. p[i + 1] \in Adjacents(p[i])
      BY <3>1 DEF IsRoute, IsTrail, Simple
    <3> QED
      BY <1>2, <3>1, <3>2
  <2> QED
    BY <2>1, <2>2 DEF Simple
<1>5. \A i \in 2 .. Len(f) : IsForwarder(f[i])
  <2> TAKE i \in 2 .. Len(f)
  <2>1. i \in 2 .. Len(p) - 1 /\ f[i] = p[i]
    BY <1>1, <1>2
  <2> QED
    BY <2>1 DEF IsRoute, IsTrail
<1>6. IsTrail(f)
  <2>1. f[1] = origin
    BY <1>1, <1>2 DEF IsRoute, IsTrail
  <2>2. \A i \in 2 .. Len(f) - 1 : IsForwarder(f[i])
    BY <1>1, <1>2, <1>5
  <2> QED
    BY <1>1, <1>2, <1>4, <2>1, <2>2 DEF IsTrail
<1>7. Last(f) = f[Len(f)] /\ Last(f) = p[Len(p) - 1] /\ Last(p) = p[Len(p)]
  BY <1>1, <1>2 DEF Last
<1>8. Len(f) >= 2 => IsForwarder(Last(f))
  BY <1>1, <1>2, <1>5, <1>7
<1>9. Last(p) \in Rest(f)
  <2>1. p[Len(p)] \in Adjacents(p[Len(p) - 1])
    <3>1. Len(p) - 1 \in 1 .. Len(p) - 1 /\ (Len(p) - 1) + 1 = Len(p)
      BY <1>1
    <3>2. p[(Len(p) - 1) + 1] \in Adjacents(p[Len(p) - 1])
      BY <3>1 DEF IsRoute, IsTrail, Simple
    <3> QED
      BY <3>1, <3>2
  <2>2. \A i \in DOMAIN f : f[i] # p[Len(p)]
    BY <1>1, <1>2, <1>3 DEF IsRoute, IsTrail, Simple
  <2> QED
    BY <1>7, <2>1, <2>2 DEF Rest, ToSet
<1>10. p = Append(f, Last(p))
  <2>1. Last(p) \in Members
    BY <1>1, <1>7
  <2> DEFINE q == Append(f, Last(p))
  <2>2. q \in Seq(Members) /\ Len(q) = Len(p) /\ q[Len(p)] = p[Len(p)]
    <3>1. Len(f) + 1 = Len(p)
      BY <1>1, <1>2
    <3>2. q \in Seq(Members) /\ Len(q) = Len(f) + 1 /\ q[Len(f) + 1] = Last(p)
      BY <1>2, <2>1
    <3> QED
      BY <1>7, <3>1, <3>2
  <2>3. \A i \in 1 .. Len(p) - 1 : q[i] = p[i]
    BY <1>1, <1>2, <2>1
  <2> HIDE DEF q
  <2>4. \A i \in 1 .. Len(p) : q[i] = p[i]
    BY <1>1, <2>2, <2>3
  <2>5. p = q
    BY <1>1, <2>2, <2>4
  <2> QED
    BY <2>5 DEF q
<1>11. Asker(p) = Last(f)
  BY <1>7 DEF Asker
<1> QED
  BY <1>1, <1>2, <1>6, <1>8, <1>9, <1>10, <1>11 DEF f

-----------------------------------------------------------------------------
(* Types.                                                                  *)

LoadSet    == [load : Loads, no : Nat, path : Seq(Members), found : SUBSET Seq(Members)]
Transports == [at : Members, to : Members, hops : 0 .. MaxHops, load : LoadSet]

Wandering(l) == l.load \in {"search", "echo"}

LoadOK(l) ==
    /\ l \in LoadSet
    /\ Wandering(l) => l.no \in 1 .. attempt /\ IsRoute(l.path)
    /\ ~Wandering(l) => l.no \in DOMAIN bounces /\ l.path = <<>>
    /\ \A q \in l.found : IsFind(q)

DestOK(t) ==
    /\ t.load.load = "search" => t.to = Last(t.load.path)
    /\ t.load.load = "echo" => t.to = Asker(t.load.path)

LaneOK(t) == t \in Transports /\ LoadOK(t.load) /\ DestOK(t)

\* The ripple x, and what it has: it asks on behalf of the last star of its path.
RippleOK(x, s) ==
    /\ x = Id(x.no, x.path) /\ x.no \in 1 .. attempt
    /\ IsTrail(x.path) /\ (Len(x.path) >= 2 => IsForwarder(Last(x.path)))
    /\ s = [left |-> s.left, got |-> s.got]
    /\ s.left \subseteq Rest(x.path)
    /\ \A q \in s.got : IsFind(q)

BounceSet == [from : Members, to : Members, st : {"sent", "answered", "gave up"}]

LanesOK   == \A t \in lanes : LaneOK(t)
LostOK    == \A l \in lost : LoadOK(l)
RipplesOK == \A x \in DOMAIN searches : RippleOK(x, searches[x])
FoundOK   == \A w \in wrangles : w.no \in 1 .. attempt /\ IsFind(w.path)
OriginOK  == attempt \in 0 .. net.attempts /\ asking \in {"sleeps", "waits", "stopped"}
BouncesOK == bounces \in Seq(BounceSet) /\ Len(bounces) <= net.bounces

TypeInv ==
    /\ net \in Nets /\ alive \subseteq Members /\ shown \in BOOLEAN
    /\ LanesOK /\ LostOK /\ RipplesOK /\ FoundOK /\ OriginOK /\ BouncesOK

LEMMA FindFacts == ASSUME NEW q, IsFind(q)
                   PROVE  q \in Seq(Members) /\ Simple(q) /\ Len(q) >= 2 /\ CanBeWrangled(Last(q))
  BY DEF IsFind, IsRoute, IsTrail

LEMMA TypeInvTypes == ASSUME TypeInv PROVE FabricTypeOK
<1>1. \A t \in lanes : t.at \in Members /\ t.to \in Members /\ t.hops \in 0 .. MaxHops
  BY DEF TypeInv, LanesOK, LaneOK, Transports
<1>2. \A l : LoadOK(l) => l.load \in Loads /\ Simple(l.path) /\ \A p \in l.found : Simple(p)
  <2> TAKE l
  <2>1. Simple(<<>>)
    BY DEF Simple
  <2>2. LoadOK(l) => l.load \in Loads
    BY DEF LoadOK, LoadSet
  <2>3. LoadOK(l) => Simple(l.path)
    BY <2>1 DEF LoadOK, IsRoute, IsTrail
  <2>4. LoadOK(l) => \A p \in l.found : Simple(p)
    BY FindFacts DEF LoadOK
  <2> QED
    BY <2>2, <2>3, <2>4
<1>3. \A l \in lost \union {t.load : t \in lanes} : LoadOK(l)
  BY DEF TypeInv, LostOK, LanesOK, LaneOK
<1>4. attempt \in 0 .. net.attempts /\ net.attempts \in Nat
  BY NetFacts DEF TypeInv, OriginOK
<1>5. \A x \in DOMAIN searches :
        /\ x.no \in 1 .. net.attempts /\ Simple(x.path)
        /\ searches[x].left \subseteq Adjacents(Last(x.path)) /\ \A p \in searches[x].got : Simple(p)
  <2> TAKE x \in DOMAIN searches
  <2>1. RippleOK(x, searches[x])
    BY DEF TypeInv, RipplesOK
  <2>2. x.no \in 1 .. net.attempts
    BY <1>4, <2>1 DEF RippleOK
  <2>3. Simple(x.path) /\ searches[x].left \subseteq Adjacents(Last(x.path))
    BY <2>1 DEF RippleOK, IsTrail, Rest
  <2>4. \A p \in searches[x].got : Simple(p)
    BY <2>1, FindFacts DEF RippleOK
  <2> QED
    BY <2>2, <2>3, <2>4
<1>6. \A w \in wrangles : w.no \in 1 .. attempt /\ Simple(w.path) /\ CanBeWrangled(Last(w.path))
  BY FindFacts DEF TypeInv, FoundOK
<1>7. /\ bounces \in Seq([from : Members, to : Members, st : {"sent", "answered", "gave up"}])
      /\ Len(bounces) <= net.bounces
  BY DEF TypeInv, BouncesOK, BounceSet
<1>8. /\ net \in Nets /\ alive \subseteq Members /\ shown \in BOOLEAN
      /\ asking \in {"sleeps", "waits", "stopped"}
  BY DEF TypeInv, OriginOK
<1>9. \A l \in lost \union {t.load : t \in lanes} :
        l.load \in Loads /\ Simple(l.path) /\ \A p \in l.found : Simple(p)
  BY <1>2, <1>3
<1> QED
  BY <1>1, <1>4, <1>5, <1>6, <1>7, <1>8, <1>9 DEF FabricTypeOK

LEMMA InitTypeInv == FabricInit => TypeInv
<1> SUFFICES ASSUME FabricInit PROVE TypeInv
  OBVIOUS
<1> USE DEF FabricInit
<1>1. LanesOK /\ LostOK /\ FoundOK
  BY DEF LanesOK, LostOK, FoundOK
<1>2. RipplesOK
  BY DEF RipplesOK
<1>3. OriginOK /\ BouncesOK
  BY NetFacts DEF OriginOK, BouncesOK
<1> QED
  BY <1>1, <1>2, <1>3 DEF TypeInv

-----------------------------------------------------------------------------

\* What is fine stays so when the net is the same, and no attempt or bounce is forgotten.
Later ==
    /\ net' = net
    /\ attempt' \in Nat /\ attempt <= attempt'
    /\ DOMAIN bounces \subseteq DOMAIN bounces'

LEMMA StaysOK ==
    ASSUME TypeInv, Later
    PROVE  /\ \A l : LoadOK(l) => LoadOK(l)'
           /\ \A t : LaneOK(t) => LaneOK(t)'
           /\ \A x, s : RippleOK(x, s) => RippleOK(x, s)'
           /\ \A q : IsFind(q) => IsFind(q)'
<1>1. net' = net /\ attempt' \in Nat /\ attempt <= attempt' /\ attempt \in Nat
  BY NetFacts DEF Later, TypeInv, OriginOK
<1>2. \A n \in 1 .. attempt : n \in 1 .. attempt'
  BY <1>1
<1>3. LoadSet' = LoadSet /\ Transports' = Transports
  BY <1>1, SameGraph DEF LoadSet, Transports
<1>4. \A l : LoadOK(l) => LoadOK(l)'
  BY <1>1, <1>2, <1>3, SameRoutes DEF LoadOK, Later, Wandering
<1>5. \A t : LaneOK(t) => LaneOK(t)'
  BY <1>3, <1>4 DEF LaneOK, DestOK, Last, Asker
<1>6. \A x, s : RippleOK(x, s) => RippleOK(x, s)'
  <2> TAKE x, s
  <2>1. Rest(x.path)' = Rest(x.path) /\ IsForwarder(Last(x.path))' = IsForwarder(Last(x.path))
    BY <1>1, SameGraph DEF Last
  <2>2. IsTrail(x.path)' = IsTrail(x.path) /\ \A q : IsFind(q)' = IsFind(q)
    BY <1>1, SameRoutes
  <2> QED
    BY <1>2, <2>1, <2>2 DEF RippleOK, Id
<1>7. \A q : IsFind(q) => IsFind(q)'
  BY <1>1, SameRoutes
<1> QED
  BY <1>4, <1>5, <1>6, <1>7

LEMMA LeaveFacts ==
    ASSUME NEW s, NEW ts, NEW rest, Leave(s, ts, rest)
    PROVE  /\ alive' \subseteq alive /\ rest \subseteq lanes'
           /\ \A u \in lanes' : \/ u \in rest
                                \/ \E t \in ts : \E h \in NextHop(s, t.to) : u = [t EXCEPT !.at = h]
           /\ \A l \in lost' : l \in lost \/ \E t \in ts : l = t.load
<1>1. lanes' = rest \union UNION {{[t EXCEPT !.at = h] : h \in NextHop(s, t.to)} : t \in ts}
  BY DEF Leave
<1>2. lost' = lost \union {t.load : t \in {u \in ts : NextHop(s, u.to) = {}}}
  BY DEF Leave
<1>3. alive' \subseteq alive
  BY DEF Leave
<1>4. rest \subseteq lanes'
  BY <1>1
<1>5. \A u \in lanes' : \/ u \in rest
                        \/ \E t \in ts : \E h \in NextHop(s, t.to) : u = [t EXCEPT !.at = h]
  BY <1>1
<1>6. \A l \in lost' : l \in lost \/ \E t \in ts : l = t.load
  BY <1>2
<1> QED
  BY <1>3, <1>4, <1>5, <1>6

LEMMA MovedOK ==
    ASSUME NEW t, LaneOK(t)', NEW h \in Members'
    PROVE  LaneOK([t EXCEPT !.at = h])'
<1> DEFINE u == [t EXCEPT !.at = h]
<1>1. t \in Transports'
  BY DEF LaneOK
<1>2. u \in Transports' /\ u.at = h /\ u.to = t.to /\ u.hops = t.hops /\ u.load = t.load
  BY <1>1 DEF Transports
<1> HIDE DEF u
<1>3. LaneOK(u)'
  BY <1>2 DEF LaneOK, DestOK
<1> QED
  BY <1>3 DEF u

\* What leaves a star is as fine as what was handed over.
LEMMA LeaveOK ==
    ASSUME TypeInv, Later, NEW s \in Members, NEW ts, NEW rest, Leave(s, ts, rest),
           \A t \in ts : LaneOK(t)', \A t \in rest : LaneOK(t)
    PROVE  LanesOK' /\ LostOK' /\ (alive \subseteq Members)'
<1>1. net \in Nets /\ net' \in Nets /\ Members' = Members
  BY SameGraph DEF TypeInv, Later
<1>2. ASSUME NEW u \in lanes' PROVE LaneOK(u)'
  <2>1. CASE u \in rest
    BY <2>1, StaysOK
  <2>2. CASE u \notin rest
    <3>0. PICK t \in ts : \E h \in NextHop(s, t.to) : u = [t EXCEPT !.at = h]
      BY <2>2, LeaveFacts
    <3>1. PICK h \in NextHop(s, t.to) : u = [t EXCEPT !.at = h]
      BY <3>0
    <3>2. LaneOK(t)' /\ t.to \in Members
      BY <1>1 DEF LaneOK, Transports
    <3>3. h \in Members'
      BY <1>1, <3>1, <3>2, NextHopFacts
    <3> QED
      BY <1>1, <3>1, <3>2, <3>3, MovedOK
  <2> QED
    BY <2>1, <2>2
<1>3. ASSUME NEW l \in lost' PROVE LoadOK(l)'
  <2>1. CASE l \in lost
    BY <2>1, StaysOK DEF TypeInv, LostOK
  <2>2. CASE l \notin lost
    <3>1. PICK t \in ts : l = t.load
      BY <2>2, LeaveFacts
    <3> QED
      BY <3>1 DEF LaneOK
  <2> QED
    BY <2>1, <2>2
<1>4. (alive \subseteq Members)'
  BY <1>1, LeaveFacts DEF TypeInv
<1> QED
  BY <1>2, <1>3, <1>4 DEF LanesOK, LostOK

LEMMA TransportFacts ==
    ASSUME NEW to \in Members, NEW l \in LoadSet, net \in Nets
    PROVE  /\ Transport(to, l) \in Transports
           /\ Transport(to, l).to = to /\ Transport(to, l).at = to
           /\ Transport(to, l).hops = 0 /\ Transport(to, l).load = l
<1>1. MaxHops \in Nat
  BY NetFacts
<1> QED
  BY <1>1 DEF Transport, Transports

LEMMA SearchesSent ==
    ASSUME TypeInv, Later, NEW n \in 1 .. attempt',
           NEW p, IsTrail(p), Len(p) >= 2 => IsForwarder(Last(p)), NEW r \in Rest(p)
    PROVE  LaneOK(Transport(r, Search(n, Append(p, r))))'
<1> DEFINE l == Search(n, Append(p, r))
           t == Transport(r, l)
<1>1. net \in Nets /\ net' = net /\ attempt' \in Nat
  BY DEF TypeInv, Later
<1>2. /\ Append(p, r) \in Seq(Members) /\ IsRoute(Append(p, r)) /\ Last(Append(p, r)) = r
  BY TrailAppend
<1>3. l \in LoadSet /\ l.load = "search" /\ l.no = n /\ l.path = Append(p, r) /\ l.found = {}
  BY <1>1, <1>2 DEF Search, LoadSet, Loads
<1>4. r \in Members
  BY DEF Rest, Adjacents
<1> HIDE DEF l
<1>5. t \in Transports /\ t.to = r /\ t.load = l
  BY <1>1, <1>3, <1>4, TransportFacts
<1> HIDE DEF t
<1>6. LoadOK(l)'
  <2>1. IsRoute(l.path)'
    BY <1>1, <1>2, <1>3, SameRoutes
  <2>2. (l \in LoadSet)'
    BY <1>1, <1>3, SameGraph DEF LoadSet
  <2> QED
    BY <1>3, <2>1, <2>2 DEF LoadOK, Wandering
<1>7. DestOK(t)'
  BY <1>2, <1>3, <1>5 DEF DestOK, Last
<1>8. (t \in Transports)'
  BY <1>1, <1>5, SameGraph DEF Transports, LoadSet
<1>9. LaneOK(t)'
  BY <1>5, <1>6, <1>7, <1>8 DEF LaneOK
<1> QED
  BY <1>9 DEF t, l

LEMMA OwnFacts ==
    ASSUME NEW p, IsRoute(p), NEW q \in Own(p) PROVE q = p /\ IsFind(q)
  BY DEF Own, IsFind

LEMMA EchoSent ==
    ASSUME TypeInv, Later, NEW n \in 1 .. attempt',
           NEW p, IsRoute(p), NEW found, \A q \in found : IsFind(q),
           NEW t, t = Transport(Asker(p), Echo(n, p, found \union Own(p)))
    PROVE  LaneOK(t)'
<1>0. PICK l : l = Echo(n, p, found \union Own(p))
  OBVIOUS
<1>1. net \in Nets /\ net' = net /\ attempt' \in Nat
  BY DEF TypeInv, Later
<1>2. \A q \in found \union Own(p) : IsFind(q)
  BY OwnFacts
<1>3. p \in Seq(Members) /\ Asker(p) \in Members
  <2>1. p \in Seq(Members) /\ Len(p) \in Nat /\ Len(p) - 1 \in 1 .. Len(p)
    BY DEF IsRoute, IsTrail
  <2> QED
    BY <2>1 DEF Asker
<1>4. found \union Own(p) \subseteq Seq(Members)
  BY <1>2, FindFacts
<1>5. /\ l \in LoadSet /\ l.load = "echo" /\ l.no = n /\ l.path = p
      /\ l.found = found \union Own(p)
  BY <1>0, <1>1, <1>3, <1>4 DEF Echo, LoadSet, Loads
<1>6. t \in Transports /\ t.to = Asker(p) /\ t.load = l
  BY <1>0, <1>1, <1>3, <1>5, TransportFacts
<1>7. LoadOK(l)'
  <2>1. IsRoute(l.path)' /\ \A q \in l.found : IsFind(q)'
    <3>1. IsRoute(l.path) /\ \A q \in l.found : IsFind(q)
      BY <1>2, <1>5
    <3> QED
      BY <1>1, <3>1, SameRoutes
  <2>2. (l \in LoadSet)'
    BY <1>1, <1>5, SameGraph DEF LoadSet
  <2> QED
    BY <1>5, <2>1, <2>2 DEF LoadOK, Wandering
<1>8. DestOK(t)'
  BY <1>5, <1>6 DEF DestOK, Asker
<1>9. (t \in Transports)'
  BY <1>1, <1>6, SameGraph DEF Transports, LoadSet
<1> QED
  BY <1>6, <1>7, <1>8, <1>9 DEF LaneOK

\* A ping or a pong.
LEMMA BounceSent ==
    ASSUME TypeInv, Later, NEW to \in Members, NEW i \in DOMAIN bounces', i \in Nat,
           NEW l \in {Ping(i), Pong(i)}
    PROVE  LaneOK(Transport(to, l))'
<1> DEFINE t == Transport(to, l)
<1>1. net \in Nets /\ net' = net
  BY DEF TypeInv, Later
<1>2. <<>> \in Seq(Members)
  OBVIOUS
<1>3. l \in LoadSet /\ l.load \in {"ping", "pong"} /\ l.no = i /\ l.path = <<>> /\ l.found = {}
  <2>1. CASE l = Ping(i)
    BY <1>2, <2>1 DEF Ping, LoadSet, Loads
  <2>2. CASE l = Pong(i)
    BY <1>2, <2>2 DEF Pong, LoadSet, Loads
  <2> QED
    BY <2>1, <2>2
<1>4. t \in Transports /\ t.to = to /\ t.load = l
  BY <1>1, <1>3, TransportFacts
<1> HIDE DEF t
<1>5. LoadOK(l)'
  <2>1. (l \in LoadSet)'
    BY <1>1, <1>3, SameGraph DEF LoadSet
  <2> QED
    BY <1>3, <2>1 DEF LoadOK, Wandering
<1>6. DestOK(t)' /\ (t \in Transports)'
  BY <1>1, <1>3, <1>4, SameGraph DEF DestOK, Transports, LoadSet
<1>7. LaneOK(t)'
  BY <1>4, <1>5, <1>6 DEF LaneOK
<1> QED
  BY <1>7 DEF t

LEMMA OpenOK ==
    ASSUME TypeInv, Later, NEW n \in 1 .. attempt',
           NEW p, IsTrail(p), Len(p) >= 2 => IsForwarder(Last(p)),
           NEW rest, \A t \in rest : LaneOK(t), Open(n, p, rest)
    PROVE  LanesOK' /\ LostOK' /\ (alive \subseteq Members)' /\ RipplesOK'
<1> DEFINE ts == {Transport(r, Search(n, Append(p, r))) : r \in Rest(p)}
<1>1. Last(p) \in Members
  BY LastFacts DEF IsTrail
<1>2. \A t \in ts : LaneOK(t)'
  BY SearchesSent
<1>3. Leave(Last(p), ts, rest)
  BY DEF Open
<1> HIDE DEF ts
<1>4. LanesOK' /\ LostOK' /\ (alive \subseteq Members)'
  BY <1>1, <1>2, <1>3, LeaveOK
<1>5. Opened(Id(n, p), Rest(p))
  BY DEF Open
<1>6. ASSUME NEW x \in DOMAIN searches' PROVE RippleOK(x, searches[x])'
  <2>1. CASE x \in DOMAIN searches
    <3>1. searches'[x] = searches[x]
      BY <1>5, <2>1 DEF Opened
    <3> QED
      <4>1. RippleOK(x, searches[x])
        BY <2>1 DEF TypeInv, RipplesOK
      <4>2. \A s : RippleOK(x, s) => RippleOK(x, s)'
        BY StaysOK
      <4> QED
        BY <3>1, <4>1, <4>2 DEF RippleOK
  <2>2. CASE x \notin DOMAIN searches
    <3>1. x = Id(n, p) /\ searches'[x] = [left |-> Rest(p), got |-> {}]
      BY <1>5, <2>2 DEF Opened
    <3>2. x.no = n /\ x.path = p
      BY <3>1 DEF Id
    <3>3. net' = net
      BY DEF Later
    <3>4. Rest(p)' = Rest(p) /\ IsForwarder(Last(p))' = IsForwarder(Last(p))
      BY <3>3, SameGraph DEF Last
    <3>5. IsTrail(p)' = IsTrail(p)
      BY <3>3, SameRoutes
    <3>6. RippleOK(x, [left |-> Rest(p), got |-> {}])'
      BY <3>1, <3>2, <3>4, <3>5 DEF RippleOK, Id
    <3> QED
      BY <3>1, <3>4, <3>6 DEF RippleOK
  <2> QED
    BY <2>1, <2>2
<1> QED
  BY <1>4, <1>6 DEF RipplesOK

LEMMA AnswerOK ==
    ASSUME TypeInv, Later, NEW n \in 1 .. attempt',
           NEW p, IsRoute(p), NEW found, \A q \in found : IsFind(q),
           NEW rest, \A t \in rest : LaneOK(t), Answer(n, p, found, rest)
    PROVE  LanesOK' /\ LostOK' /\ (alive \subseteq Members)'
<1> DEFINE ts == {Transport(Asker(p), Echo(n, p, found \union Own(p)))}
<1>1. Last(p) \in Members
  BY LastFacts DEF IsRoute, IsTrail
<1>2. \A t \in ts : LaneOK(t)'
  BY EchoSent
<1>3. Leave(Last(p), ts, rest)
  BY DEF Answer
<1> HIDE DEF ts
<1> QED
  BY <1>1, <1>2, <1>3, LeaveOK

LEMMA ClosedOK ==
    ASSUME TypeInv, Later, NEW x, Closed(x) PROVE RipplesOK'
<1>1. ASSUME NEW y \in DOMAIN searches' PROVE RippleOK(y, searches[y])'
  <2>1. y \in DOMAIN searches /\ searches'[y] = searches[y]
    BY DEF Closed
  <2> QED
    <3>1. RippleOK(y, searches[y])
      BY <2>1 DEF TypeInv, RipplesOK
    <3>2. \A s : RippleOK(y, s) => RippleOK(y, s)'
      BY StaysOK
    <3> QED
      BY <2>1, <3>1, <3>2 DEF RippleOK
<1> QED
  BY <1>1 DEF RipplesOK

LEMMA LongTrail == ASSUME NEW p, IsTrail(p), Len(p) # 1 PROVE IsRoute(p)
<1>1. Len(p) \in Nat /\ Len(p) >= 1
  BY DEF IsTrail
<1>2. \A n \in Nat : n >= 1 /\ n # 1 => n >= 2
  OBVIOUS
<1> QED
  BY <1>1, <1>2 DEF IsRoute

LEMMA CloseTypes ==
    ASSUME TypeInv, NEW x \in DOMAIN searches, NEW found, \A q \in found : IsFind(q),
           NEW rest, rest \subseteq lanes, Close(x, found, rest)
    PROVE  TypeInv'
<1>1. net' = net /\ attempt' = attempt /\ bounces' = bounces
  BY DEF Close
<1>2. Later
  BY <1>1, NetFacts DEF Later, TypeInv, OriginOK
<1>3. RippleOK(x, searches[x])
  BY DEF TypeInv, RipplesOK
<1>4. x.no \in 1 .. attempt /\ x.no \in 1 .. attempt' /\ IsTrail(x.path)
  BY <1>1, <1>3 DEF RippleOK
<1>5. \A t \in rest : LaneOK(t)
  BY DEF TypeInv, LanesOK
<1>6. RipplesOK'
  BY <1>2, ClosedOK DEF Close
<1>7. BouncesOK' /\ (net \in Nets)'
  BY <1>1, SameGraph DEF TypeInv, BouncesOK, BounceSet
<1>8. CASE Len(x.path) = 1
  <2>1. Finish(x.no, found) /\ lanes' = rest /\ alive' = alive /\ lost' = lost
    BY <1>8 DEF Close
  <2>2. LanesOK' /\ LostOK'
    BY <1>2, <1>5, <2>1, StaysOK DEF TypeInv, LanesOK, LostOK
  <2>3. FoundOK'
    <3>1. ASSUME NEW w \in wrangles' PROVE w.no \in 1 .. attempt' /\ IsFind(w.path)'
      <4>1. CASE w \in wrangles
        BY <1>1, <1>2, <4>1, StaysOK DEF TypeInv, FoundOK
      <4>2. CASE w \notin wrangles
        <5>1. PICK q \in found : w = Id(x.no, q)
          BY <2>1, <4>2 DEF Finish
        <5>2. w.no = x.no /\ w.path = q
          BY <5>1 DEF Id
        <5>3. IsFind(q)'
          BY <1>2, <5>1, StaysOK
        <5> QED
          BY <1>4, <5>2, <5>3
      <4> QED
        BY <4>1, <4>2
    <3> QED
      BY <3>1 DEF FoundOK
  <2>4. OriginOK'
    BY <1>1, <2>1 DEF TypeInv, OriginOK, Finish
  <2>5. (alive \subseteq Members)' /\ (shown \in BOOLEAN)'
    BY <1>1, <2>1, SameGraph DEF TypeInv, Finish
  <2> QED
    BY <1>6, <1>7, <2>2, <2>3, <2>4, <2>5 DEF TypeInv
<1>9. CASE Len(x.path) # 1
  <2>1. Answer(x.no, x.path, found, rest) /\ UNCHANGED <<wrangles, asking, shown>>
    BY <1>9 DEF Close
  <2>2. IsRoute(x.path)
    BY <1>4, <1>9, LongTrail
  <2>3. LanesOK' /\ LostOK' /\ (alive \subseteq Members)'
    BY <1>2, <1>4, <1>5, <2>1, <2>2, AnswerOK
  <2>4. FoundOK'
    BY <1>1, <1>2, <2>1, StaysOK DEF TypeInv, FoundOK
  <2>5. OriginOK' /\ (shown \in BOOLEAN)'
    BY <1>1, <2>1 DEF TypeInv, OriginOK
  <2> QED
    BY <1>6, <1>7, <2>3, <2>4, <2>5 DEF TypeInv
<1> QED
  BY <1>8, <1>9

LEMMA LaneFacts ==
    ASSUME TypeInv, NEW t \in lanes
    PROVE  /\ LaneOK(t) /\ t.at \in Members /\ t.to \in Members
           /\ t.hops \in Nat /\ t.hops <= MaxHops /\ MaxHops \in Nat /\ MaxHops >= 2
           /\ \A u \in lanes \ {t} : LaneOK(u)
<1>1. LaneOK(t) /\ \A u \in lanes \ {t} : LaneOK(u)
  BY DEF TypeInv, LanesOK
<1>2. t \in Transports
  BY <1>1 DEF LaneOK
<1>3. MaxHops \in Nat /\ MaxHops >= 2
  BY NetFacts DEF TypeInv
<1> QED
  BY <1>1, <1>2, <1>3 DEF Transports

LEMMA AttemptIsNat == ASSUME TypeInv PROVE attempt \in Nat
  BY NetFacts DEF TypeInv, OriginOK

LEMMA NothingForgotten ==
    ASSUME TypeInv, UNCHANGED <<net, attempt>>, DOMAIN bounces' = DOMAIN bounces PROVE Later
  BY AttemptIsNat DEF Later

\* The parts of TypeInv that an action does not touch.
LEMMA Untouched ==
    ASSUME TypeInv, Later
    PROVE  /\ (net \in Nets)'
           /\ UNCHANGED alive => (alive \subseteq Members)'
           /\ UNCHANGED lost => LostOK'
           /\ (lanes' \subseteq lanes) => LanesOK'
           /\ UNCHANGED searches => RipplesOK'
           /\ UNCHANGED <<wrangles>> => FoundOK'
           /\ UNCHANGED bounces => BouncesOK'
<1>1. net' = net /\ (net \in Nets)' /\ Members' = Members
  BY SameGraph DEF Later, TypeInv
<1>2. UNCHANGED alive => (alive \subseteq Members)'
  BY <1>1 DEF TypeInv
<1>3. UNCHANGED lost => LostOK'
  BY StaysOK DEF TypeInv, LostOK
<1>4. (lanes' \subseteq lanes) => LanesOK'
  BY StaysOK DEF TypeInv, LanesOK
<1>5. UNCHANGED searches => RipplesOK'
  <2>1. SUFFICES ASSUME UNCHANGED searches, NEW x \in DOMAIN searches
                 PROVE  RippleOK(x, searches[x])'
    BY DEF RipplesOK
  <2>2. RippleOK(x, searches[x])
    BY DEF TypeInv, RipplesOK
  <2>3. \A s : RippleOK(x, s) => RippleOK(x, s)'
    BY StaysOK
  <2> QED
    BY <2>1, <2>2, <2>3 DEF RippleOK
<1>6. UNCHANGED <<wrangles>> => FoundOK'
  <2>1. attempt \in Nat /\ attempt' \in Nat /\ attempt <= attempt'
    BY NetFacts DEF Later, TypeInv, OriginOK
  <2>2. \A n \in 1 .. attempt : n \in 1 .. attempt'
    BY <2>1
  <2> QED
    BY <2>2, StaysOK DEF TypeInv, FoundOK
<1>7. UNCHANGED bounces => BouncesOK'
  BY <1>1 DEF TypeInv, BouncesOK, BounceSet
<1> QED
  BY <1>1, <1>2, <1>3, <1>4, <1>5, <1>6, <1>7

LEMMA OriginStays ==
    ASSUME TypeInv, UNCHANGED <<net, attempt, asking>> PROVE OriginOK'
  BY DEF TypeInv, OriginOK

LEMMA DropTypes ==
    ASSUME TypeInv, NEW t \in lanes, lanes' = lanes \ {t}, lost' \in {lost, lost \union {t.load}},
           UNCHANGED <<net, alive, searches, attempt, asking, wrangles, bounces, shown>>
    PROVE  TypeInv'
<1>1. Later
  BY NothingForgotten
<1>2. LostOK'
  <2>1. LoadOK(t.load)
    BY LaneFacts DEF LaneOK
  <2> QED
    BY <1>1, <2>1, StaysOK DEF TypeInv, LostOK
<1>3. /\ (net \in Nets)' /\ (alive \subseteq Members)' /\ LanesOK' /\ RipplesOK' /\ FoundOK'
      /\ BouncesOK'
  BY <1>1, Untouched
<1>4. OriginOK' /\ (shown \in BOOLEAN)'
  BY OriginStays DEF TypeInv
<1> QED
  BY <1>2, <1>3, <1>4 DEF TypeInv

\* Transports leave a star that keeps to itself otherwise.
LEMMA LeaveTypes ==
    ASSUME TypeInv, Later, NEW s \in Members, NEW ts, NEW rest, Leave(s, ts, rest), rest \subseteq lanes,
           \A t \in ts : LaneOK(t)', BouncesOK',
           UNCHANGED <<searches, attempt, asking, wrangles, shown>>
    PROVE  TypeInv'
<1>1. \A t \in rest : LaneOK(t)
  BY DEF TypeInv, LanesOK
<1>2. LanesOK' /\ LostOK' /\ (alive \subseteq Members)'
  BY <1>1, LeaveOK
<1>3. (net \in Nets)' /\ RipplesOK' /\ FoundOK'
  BY Untouched
<1>4. OriginOK' /\ (shown \in BOOLEAN)'
  BY OriginStays DEF TypeInv, Later
<1> QED
  BY <1>2, <1>3, <1>4 DEF TypeInv

LEMMA ForwardTypes == ASSUME TypeInv, NEW t, Forward(t) PROVE TypeInv'
<1>1. t \in lanes /\ Later
  BY NothingForgotten DEF Forward
<1>2. CASE t.hops < MaxHops /\ IsForwarder(t.at)
  <2>1. PICK u : u = [t EXCEPT !.hops = @ + 1]
    OBVIOUS
  <2>2. LaneOK(t)
    BY <1>1, LaneFacts
  <2>3. u \in Transports /\ u.load = t.load /\ u.to = t.to
    <3>1. t.hops + 1 \in 0 .. MaxHops
      BY <1>1, <1>2, LaneFacts
    <3> QED
      BY <2>1, <2>2, <3>1 DEF LaneOK, Transports
  <2>4. LaneOK(u)
    BY <2>2, <2>3 DEF LaneOK, DestOK
  <2>5. LaneOK(u)'
    BY <1>1, <2>4, StaysOK
  <2>6. Leave(t.at, {u}, lanes \ {t})
    BY <1>2, <2>1 DEF Forward
  <2>7. BouncesOK'
    BY <1>1, Untouched DEF Forward
  <2> QED
    BY <1>1, <2>5, <2>6, <2>7, LaneFacts, LeaveTypes DEF Forward
<1>3. CASE ~(t.hops < MaxHops /\ IsForwarder(t.at))
  BY <1>1, <1>3, DropTypes DEF Forward
<1> QED
  BY <1>2, <1>3

LEMMA TooLateTypes == ASSUME TypeInv, NEW t, TooLate(t) PROVE TypeInv'
  BY DropTypes DEF TooLate

\* A transport with a search or an echo.
LEMMA WanderingFacts ==
    ASSUME TypeInv, NEW t \in lanes, Wandering(t.load)
    PROVE  /\ t.load.no \in 1 .. attempt /\ attempt \in Nat
           /\ IsRoute(t.load.path) /\ t.load.path \in Seq(Members)
           /\ \A q \in t.load.found : IsFind(q)
           /\ t.load.load = "search" => t.to = Last(t.load.path)
           /\ t.load.load = "echo" => t.to = Asker(t.load.path)
<1>1. LaneOK(t)
  BY LaneFacts
<1>2. attempt \in Nat
  BY NetFacts DEF TypeInv, OriginOK
<1> QED
  BY <1>1, <1>2 DEF LaneOK, LoadOK, DestOK, IsRoute, IsTrail

LEMMA HandleSearchTypes == ASSUME TypeInv, NEW t, HandleSearch(t) PROVE TypeInv'
<1>1. t \in lanes /\ t.load.load = "search" /\ Later
  BY NothingForgotten DEF HandleSearch, Arrives
<1>2. PICK n, p : n = t.load.no /\ p = t.load.path
  OBVIOUS
<1>3. n \in 1 .. attempt /\ n \in 1 .. attempt' /\ IsRoute(p) /\ t.to = Last(p)
  BY <1>1, <1>2, WanderingFacts DEF Wandering, HandleSearch
<1>4. \A u \in lanes \ {t} : LaneOK(u)
  BY <1>1, LaneFacts
<1>5. (net \in Nets)' /\ FoundOK' /\ BouncesOK'
  BY <1>1, Untouched DEF HandleSearch
<1>6. OriginOK' /\ (shown \in BOOLEAN)'
  BY OriginStays DEF TypeInv, HandleSearch
<1>7. CASE IsForwarder(t.to) /\ Rest(p) # {}
  <2>1. Open(n, p, lanes \ {t})
    BY <1>2, <1>7 DEF HandleSearch
  <2>2. LanesOK' /\ LostOK' /\ (alive \subseteq Members)' /\ RipplesOK'
    BY <1>1, <1>3, <1>4, <1>7, <2>1, OpenOK DEF IsRoute
  <2> QED
    BY <1>5, <1>6, <2>2 DEF TypeInv
<1>8. CASE ~(IsForwarder(t.to) /\ Rest(p) # {})
  <2>1. Answer(n, p, {}, lanes \ {t}) /\ UNCHANGED searches
    BY <1>2, <1>8 DEF HandleSearch
  <2>2. LanesOK' /\ LostOK' /\ (alive \subseteq Members)'
    BY <1>1, <1>3, <1>4, <2>1, AnswerOK
  <2>3. RipplesOK'
    BY <1>1, <2>1, Untouched
  <2> QED
    BY <1>5, <1>6, <2>2, <2>3 DEF TypeInv
<1> QED
  BY <1>7, <1>8

LEMMA HandleEchoTypes == ASSUME TypeInv, NEW t, HandleEcho(t) PROVE TypeInv'
<1>1. t \in lanes /\ t.load.load = "echo"
  BY DEF HandleEcho, Arrives
<1>2. PICK x : x = Id(t.load.no, Front(t.load.path))
  OBVIOUS
<1>3. CASE x \notin DOMAIN searches
  BY <1>1, <1>2, <1>3, DropTypes DEF HandleEcho
<1>4. CASE x \in DOMAIN searches
  <2>1. PICK left, got : /\ left = searches[x].left \ {Last(t.load.path)}
                         /\ got = searches[x].got \union t.load.found
    OBVIOUS
  <2>2. RippleOK(x, searches[x])
    BY <1>4 DEF TypeInv, RipplesOK
  <2>3. \A q \in got : IsFind(q)
    <3>1. \A q \in t.load.found : IsFind(q)
      BY <1>1, WanderingFacts DEF Wandering
    <3> QED
      BY <2>1, <2>2, <3>1 DEF RippleOK
  <2>4. CASE left = {}
    <3>1. Close(x, got, lanes \ {t})
      BY <1>2, <1>4, <2>1, <2>4 DEF HandleEcho
    <3> QED
      BY <1>4, <2>3, <3>1, CloseTypes
  <2>5. CASE left # {}
    <3>1. /\ searches' = [searches EXCEPT ![x] = [left |-> left, got |-> got]]
          /\ lanes' = lanes \ {t}
          /\ UNCHANGED <<net, alive, lost, attempt, asking, wrangles, bounces, shown>>
      BY <1>2, <1>4, <2>1, <2>5 DEF HandleEcho
    <3>2. Later
      BY <3>1, NothingForgotten
    <3>3. ASSUME NEW y \in DOMAIN searches' PROVE RippleOK(y, searches[y])'
      <4>1. \A s : RippleOK(y, s) => RippleOK(y, s)'
        BY <3>2, StaysOK
      <4>2. y \in DOMAIN searches
        BY <3>1
      <4>3. PICK s : s = IF y = x THEN [left |-> left, got |-> got] ELSE searches[y]
        OBVIOUS
      <4>4. searches'[y] = s
        BY <1>4, <3>1, <4>2, <4>3
      <4>5. RippleOK(y, s)
        <5>1. CASE y = x
          BY <2>1, <2>2, <2>3, <4>3, <5>1 DEF RippleOK
        <5>2. CASE y # x
          BY <4>2, <4>3, <5>2 DEF TypeInv, RipplesOK
        <5> QED
          BY <5>1, <5>2
      <4> QED
        BY <4>1, <4>4, <4>5 DEF RippleOK
    <3>4. RipplesOK'
      BY <3>3 DEF RipplesOK
    <3>5. /\ (net \in Nets)' /\ (alive \subseteq Members)' /\ LanesOK' /\ LostOK' /\ FoundOK'
          /\ BouncesOK'
      BY <3>1, <3>2, Untouched
    <3>6. OriginOK' /\ (shown \in BOOLEAN)'
      BY <3>1, OriginStays DEF TypeInv
    <3> QED
      BY <3>4, <3>5, <3>6 DEF TypeInv
  <2> QED
    BY <2>4, <2>5
<1> QED
  BY <1>3, <1>4

LEMMA OriginTrail == ASSUME net \in Nets PROVE IsTrail(<<origin>>) /\ Len(<<origin>>) = 1
<1>1. PICK p : p = <<origin>>
  OBVIOUS
<1>2. p \in Seq(Members) /\ Len(p) = 1 /\ p[1] = origin /\ DOMAIN p = {1}
  BY <1>1, NetFacts
<1> QED
  BY <1>1, <1>2 DEF IsTrail, Simple

LEMMA AttemptTypes == ASSUME TypeInv, Attempt PROVE TypeInv'
<1>1. /\ net' = net /\ attempt' = attempt + 1 /\ attempt \in Nat /\ attempt < net.attempts
      /\ net.attempts \in Nat /\ bounces' = bounces /\ wrangles' = wrangles
  BY NetFacts DEF TypeInv, OriginOK, Attempt
<1>2. Later
  BY <1>1 DEF Later
<1>3. (net \in Nets)' /\ FoundOK' /\ BouncesOK'
  BY <1>1, <1>2, Untouched
<1>4. attempt' \in 0 .. net.attempts /\ attempt' \in 1 .. attempt'
  BY <1>1
<1>5. CASE Rest(<<origin>>) = {}
  <2>1. asking' = "stopped" /\ shown' = TRUE /\ UNCHANGED <<alive, lanes, lost, searches>>
    BY <1>5 DEF Attempt
  <2>2. (alive \subseteq Members)' /\ LanesOK' /\ LostOK' /\ RipplesOK'
    BY <1>2, <2>1, Untouched
  <2> QED
    BY <1>1, <1>3, <1>4, <2>1, <2>2 DEF TypeInv, OriginOK
<1>6. CASE Rest(<<origin>>) # {}
  <2>1. asking' = "waits" /\ Open(attempt + 1, <<origin>>, lanes) /\ UNCHANGED shown
    BY <1>6 DEF Attempt
  <2>2. PICK p : p = <<origin>>
    OBVIOUS
  <2>3. IsTrail(p) /\ Len(p) = 1
    BY <2>2, OriginTrail DEF TypeInv
  <2>4. \A t \in lanes : LaneOK(t)
    BY DEF TypeInv, LanesOK
  <2>5. attempt + 1 \in 1 .. attempt'
    BY <1>1
  <2>6. Open(attempt + 1, p, lanes) /\ (Len(p) >= 2 => IsForwarder(Last(p)))
    BY <2>1, <2>2, <2>3
  <2>7. LanesOK' /\ LostOK' /\ (alive \subseteq Members)' /\ RipplesOK'
    BY <1>2, <2>3, <2>4, <2>5, <2>6, OpenOK
  <2> QED
    BY <1>1, <1>3, <1>4, <2>1, <2>7 DEF TypeInv, OriginOK
<1> QED
  BY <1>5, <1>6

LEMMA RippleTimeoutTypes ==
    ASSUME TypeInv, NEW x \in DOMAIN searches, RippleTimeout(x) PROVE TypeInv'
  BY CloseTypes DEF RippleTimeout

LEMMA GiveUpTypes == ASSUME TypeInv, GiveUp PROVE TypeInv'
<1>1. Later
  BY NothingForgotten DEF GiveUp
<1>2. /\ (net \in Nets)' /\ (alive \subseteq Members)' /\ LanesOK' /\ LostOK' /\ FoundOK'
      /\ RipplesOK' /\ BouncesOK'
  BY <1>1, Untouched DEF GiveUp
<1> QED
  BY <1>2 DEF TypeInv, GiveUp, OriginOK

LEMMA BounceTypes ==
    ASSUME TypeInv, NEW s \in Members, NEW to \in Members, Bounce(s, to) PROVE TypeInv'
<1>1. PICK b, i : b = [from |-> s, to |-> to, st |-> "sent"] /\ i = Len(bounces) + 1
  OBVIOUS
<1>2. /\ bounces \in Seq(BounceSet) /\ b \in BounceSet /\ Len(bounces) \in Nat
      /\ Len(bounces) < net.bounces /\ net.bounces \in Nat
      /\ bounces' = Append(bounces, b) /\ net' = net /\ attempt' = attempt /\ attempt \in Nat
  <2>1. bounces \in Seq(BounceSet) /\ Len(bounces) \in Nat
    BY DEF TypeInv, BouncesOK
  <2>2. b \in BounceSet
    BY <1>1 DEF BounceSet
  <2>3. net \in Nets /\ attempt \in 0 .. net.attempts
    BY DEF TypeInv, OriginOK
  <2>4. net.bounces \in Nat /\ attempt \in Nat
    BY <2>3, NetFacts
  <2> QED
    BY <1>1, <2>1, <2>2, <2>4 DEF Bounce
<1>3. /\ bounces' \in Seq(BounceSet) /\ Len(bounces') = Len(bounces) + 1
  BY <1>2, AppendProperties
<1>4. DOMAIN bounces = 1 .. Len(bounces) /\ DOMAIN bounces' = 1 .. Len(bounces) + 1
  BY <1>2, <1>3
<1>5. Later /\ i \in DOMAIN bounces' /\ i \in Nat
  BY <1>1, <1>2, <1>4 DEF Later
<1>6. BouncesOK'
  <2>1. BounceSet' = BounceSet
    BY <1>2, SameGraph DEF BounceSet
  <2>2. Len(bounces') <= net'.bounces
    BY <1>2, <1>3
  <2> QED
    BY <1>3, <2>1, <2>2 DEF BouncesOK
<1>7. PICK t : t = Transport(to, Ping(i))
  OBVIOUS
<1>8. LaneOK(t)'
  BY <1>5, <1>7, BounceSent
<1>9. Leave(s, {t}, lanes)
  BY <1>1, <1>7 DEF Bounce
<1> QED
  BY <1>5, <1>6, <1>8, <1>9, LeaveTypes DEF Bounce

LEMMA PingFacts ==
    ASSUME TypeInv, NEW t \in lanes, t.load.load \in {"ping", "pong"}
    PROVE  /\ t.load.no \in DOMAIN bounces /\ t.load.no \in Nat
           /\ bounces[t.load.no].from \in Members
<1>1. t.load.no \in DOMAIN bounces
  BY LaneFacts DEF LaneOK, LoadOK, Wandering
<1>2. bounces \in Seq(BounceSet)
  BY DEF TypeInv, BouncesOK
<1>3. DOMAIN bounces = 1 .. Len(bounces) /\ Len(bounces) \in Nat
  BY <1>2, LenProperties
<1>4. bounces[t.load.no] \in BounceSet
  BY <1>1, <1>2, <1>3, ElementOfSeq
<1>5. bounces[t.load.no].from \in Members
  BY <1>4 DEF BounceSet
<1> QED
  BY <1>1, <1>3, <1>5

LEMMA HandlePingTypes == ASSUME TypeInv, NEW t, HandlePing(t) PROVE TypeInv'
<1>1. t \in lanes /\ t.load.load = "ping" /\ bounces' = bounces /\ Later
  BY NothingForgotten DEF HandlePing, Arrives
<1>2. PICK i, to : i = t.load.no /\ to = bounces[i].from
  OBVIOUS
<1>3. i \in DOMAIN bounces' /\ i \in Nat /\ to \in Members
  BY <1>1, <1>2, PingFacts
<1>5. PICK u : u = Transport(to, Pong(i))
  OBVIOUS
<1>6. LaneOK(u)'
  BY <1>1, <1>3, <1>5, BounceSent
<1>7. Leave(t.to, {u}, lanes \ {t})
  BY <1>2, <1>5 DEF HandlePing
<1>8. BouncesOK'
  BY <1>1, <1>3, Untouched
<1> QED
  BY <1>1, <1>6, <1>7, <1>8, LaneFacts, LeaveTypes DEF HandlePing

LEMMA EndsTypes ==
    ASSUME TypeInv, NEW i \in DOMAIN bounces, NEW v \in {"answered", "gave up"}, Ends(i, v),
           net' = net, attempt' = attempt
    PROVE  BouncesOK' /\ Later
<1>1. bounces \in Seq(BounceSet) /\ DOMAIN bounces = 1 .. Len(bounces) /\ Len(bounces) \in Nat
  <2>1. bounces \in Seq(BounceSet)
    BY DEF TypeInv, BouncesOK
  <2> QED
    BY <2>1, LenProperties
<1>2. bounces' \in Seq(BounceSet) /\ Len(bounces') = Len(bounces) /\ DOMAIN bounces' = DOMAIN bounces
  <2>1. CASE bounces[i].st = "sent"
    <3>1. PICK b : b = [bounces[i] EXCEPT !.st = v]
      OBVIOUS
    <3>2. bounces[i] \in BounceSet
      BY <1>1, ElementOfSeq
    <3>3. b \in BounceSet
      BY <3>1, <3>2 DEF BounceSet
    <3>4. bounces' = [bounces EXCEPT ![i] = b]
      BY <2>1, <3>1 DEF Ends
    <3> QED
      BY <1>1, <3>3, <3>4, ExceptSeq
  <2>2. CASE bounces[i].st # "sent"
    <3>1. bounces' = bounces
      BY <2>2 DEF Ends
    <3> QED
      BY <1>1, <3>1
  <2> QED
    BY <2>1, <2>2
<1>3. BouncesOK'
  <2>1. BounceSet' = BounceSet
    BY SameGraph DEF BounceSet
  <2>2. Len(bounces) <= net.bounces
    BY DEF TypeInv, BouncesOK
  <2> QED
    BY <1>2, <2>1, <2>2 DEF BouncesOK
<1>4. Later
  BY <1>2, NothingForgotten
<1> QED
  BY <1>3, <1>4

LEMMA BounceEndTypes ==
    ASSUME TypeInv, NEW i \in DOMAIN bounces, NEW st \in {"answered", "gave up"}, Ends(i, st),
           lanes' \subseteq lanes,
           UNCHANGED <<net, alive, lost, searches, attempt, asking, wrangles, shown>>
    PROVE  TypeInv'
<1>1. BouncesOK' /\ Later
  BY EndsTypes
<1>2. /\ (net \in Nets)' /\ (alive \subseteq Members)' /\ LanesOK' /\ LostOK' /\ FoundOK'
      /\ RipplesOK'
  BY <1>1, Untouched
<1>3. OriginOK' /\ (shown \in BOOLEAN)'
  BY OriginStays DEF TypeInv
<1> QED
  BY <1>1, <1>2, <1>3 DEF TypeInv

LEMMA HandlePongTypes == ASSUME TypeInv, NEW t, HandlePong(t) PROVE TypeInv'
<1>1. t \in lanes /\ t.load.load = "pong" /\ lanes' \subseteq lanes
  BY DEF HandlePong, Arrives
<1>2. t.load.no \in DOMAIN bounces
  BY <1>1, PingFacts
<1> QED
  BY <1>1, <1>2, BounceEndTypes DEF HandlePong

LEMMA BounceTimeoutTypes ==
    ASSUME TypeInv, NEW i \in DOMAIN bounces, BounceTimeout(i) PROVE TypeInv'
  BY BounceEndTypes DEF BounceTimeout

LEMMA FabricStepTypes == ASSUME TypeInv, [FabricNext]_fabricVars PROVE TypeInv'
<1>1. CASE UNCHANGED fabricVars
  <2>1. Later
    BY <1>1, NothingForgotten DEF fabricVars
  <2>2. /\ (net \in Nets)' /\ (alive \subseteq Members)' /\ LanesOK' /\ LostOK' /\ FoundOK'
        /\ RipplesOK' /\ BouncesOK'
    BY <1>1, <2>1, Untouched DEF fabricVars
  <2>3. OriginOK' /\ (shown \in BOOLEAN)'
    BY <1>1, OriginStays DEF TypeInv, fabricVars
  <2> QED
    BY <2>2, <2>3 DEF TypeInv
<1>2. CASE Serve
  BY <1>2, ForwardTypes, TooLateTypes, HandleSearchTypes, HandleEchoTypes, HandlePingTypes,
     HandlePongTypes DEF Serve
<1>3. CASE Attempt
  BY <1>3, AttemptTypes
<1>4. CASE GiveUp
  BY <1>4, GiveUpTypes
<1>5. ASSUME NEW x \in DOMAIN searches, RippleTimeout(x) PROVE TypeInv'
  BY <1>5, RippleTimeoutTypes
<1>6. ASSUME NEW s \in Members, NEW to \in Members, Bounce(s, to) PROVE TypeInv'
  BY <1>6, BounceTypes
<1>7. ASSUME NEW i \in DOMAIN bounces, BounceTimeout(i) PROVE TypeInv'
  BY <1>7, BounceTimeoutTypes
<1> QED
  BY <1>1, <1>2, <1>3, <1>4, <1>5, <1>6, <1>7 DEF FabricNext

LEMMA TypeInvTheorem == FabricSpec => []TypeInv
  BY InitTypeInv, FabricStepTypes, PTL DEF FabricSpec

\* Transports stay between stars of the machine and within their hops, whatever a search,
\* an echo or a ripple carries is a path that does not cross itself, and what the origin
\* keeps is one it may wrangle (star.rs from_hyperway, driver/star.rs handle_search_request).
THEOREM FabricTypeTheorem == FabricSpec => []FabricTypeOK
  BY TypeInvTheorem, TypeInvTypes, PTL

-----------------------------------------------------------------------------
(* Where one forwarder is adjacent to all.                                 *)

\* On its last hop, or one hop before it at a forwarder.
HubLane(t) ==
    \/ t.at = t.to /\ t.hops \in {0, 1}
    \/ t.hops = 0 /\ IsForwarder(t.at) /\ t.to \in Adjacents(t.at)

HubInv == Hub => lost = {} /\ alive = Members \ net.deaf /\ \A t \in lanes : HubLane(t)

\* A transport that the star s may hand on without losing it.
Departs(t, s) ==
    /\ t = [at |-> t.at, to |-> t.to, hops |-> t.hops, load |-> t.load]
    /\ t.to \in Members
    /\ t.hops = 0 \/ (t.hops = 1 /\ t.to \in Adjacents(s))

LEMMA HubNext ==
    ASSUME Hub, NEW s \in Members, NEW to \in Members
    PROVE  /\ NextHop(s, to) # {} /\ ~Stumps(s, to)
           /\ \A h \in NextHop(s, to) : h = to \/ (IsForwarder(h) /\ to \in Adjacents(h))
           /\ to \in Adjacents(s) => NextHop(s, to) = {to}
<1>1. CASE to = s \/ to \in Adjacents(s)
  BY <1>1 DEF NextHop, Stumps
<1>2. CASE ~(to = s \/ to \in Adjacents(s))
  <2>1. PICK h \in Members : Forwarders(s) = {h} /\ to \in Adjacents(h)
    BY <1>2 DEF Hub
  <2>2. Cardinality(Forwarders(s)) = 1
    BY <2>1, FS_Singleton
  <2>3. IsForwarder(h)
    BY <2>1 DEF Forwarders
  <2> QED
    BY <1>2, <2>1, <2>2, <2>3 DEF NextHop, Stumps
<1> QED
  BY <1>1, <1>2

LEMMA HubLaneMoved ==
    ASSUME Hub, NEW s \in Members, NEW t, Departs(t, s), NEW h \in NextHop(s, t.to)
    PROVE  HubLane([t EXCEPT !.at = h])
<1>1. PICK u : u = [t EXCEPT !.at = h]
  OBVIOUS
<1>2. u.at = h /\ u.to = t.to /\ u.hops = t.hops
  BY <1>1 DEF Departs
<1>3. t.to \in Members
  BY DEF Departs
<1>4. CASE h = t.to
  BY <1>1, <1>2, <1>4 DEF HubLane, Departs
<1>5. CASE h # t.to
  <2>1. IsForwarder(h) /\ t.to \in Adjacents(h) /\ t.to \notin Adjacents(s)
    BY <1>3, <1>5, HubNext
  <2>2. t.hops = 0
    BY <2>1 DEF Departs
  <2> QED
    BY <1>1, <1>2, <2>1, <2>2 DEF HubLane
<1> QED
  BY <1>4, <1>5

LEMMA HubSame ==
    ASSUME net' = net
    PROVE  Hub' = Hub /\ Members' = Members /\ \A t : HubLane(t)' = HubLane(t)
<1>1. /\ Members' = Members
      /\ \A s : /\ Adjacents(s)' = Adjacents(s) /\ Forwarders(s)' = Forwarders(s)
                /\ IsForwarder(s)' = IsForwarder(s)
  BY SameGraph
<1>2. Hub' = Hub
  BY <1>1 DEF Hub
<1>3. \A t : HubLane(t)' = HubLane(t)
  BY <1>1 DEF HubLane
<1> QED
  BY <1>1, <1>2, <1>3

\* Nothing is lost that leaves a star.
LEMMA HubLeave ==
    ASSUME HubInv, net' = net, NEW s \in Members, NEW ts, NEW rest, rest \subseteq lanes,
           Leave(s, ts, rest), \A t \in ts : Departs(t, s)
    PROVE  HubInv'
<1>1. SUFFICES ASSUME Hub PROVE lost' = {} /\ alive' = Members \ net.deaf /\ \A u \in lanes' : HubLane(u)
  BY HubSame DEF HubInv
<1>2. lost = {} /\ alive = Members \ net.deaf /\ \A t \in rest : HubLane(t)
  BY <1>1 DEF HubInv
<1>3. \A t \in ts : NextHop(s, t.to) # {} /\ ~Stumps(s, t.to)
  BY <1>1, HubNext DEF Departs
<1>4. lost' = {}
  BY <1>2, <1>3 DEF Leave
<1>5. alive' = alive
  BY <1>3 DEF Leave
<1>6. ASSUME NEW u \in lanes' PROVE HubLane(u)
  <2>1. CASE u \in rest
    BY <1>2, <2>1
  <2>2. CASE u \notin rest
    <3>1. PICK t \in ts : \E h \in NextHop(s, t.to) : u = [t EXCEPT !.at = h]
      BY <2>2, LeaveFacts
    <3>2. PICK h \in NextHop(s, t.to) : u = [t EXCEPT !.at = h]
      BY <3>1
    <3> QED
      BY <1>1, <3>1, <3>2, HubLaneMoved
  <2> QED
    BY <2>1, <2>2
<1> QED
  BY <1>2, <1>4, <1>5, <1>6

LEMMA HubDrop ==
    ASSUME HubInv, net' = net, lanes' \subseteq lanes, UNCHANGED <<alive, lost>> PROVE HubInv'
  BY HubSame DEF HubInv

LEMMA NewDeparts == ASSUME NEW to \in Members, NEW l, NEW s PROVE Departs(Transport(to, l), s)
<1>1. PICK t : t = Transport(to, l)
  OBVIOUS
<1>2. t = [at |-> to, to |-> to, hops |-> 0, load |-> l]
  BY <1>1 DEF Transport
<1>3. t.at = to /\ t.to = to /\ t.hops = 0 /\ t.load = l
  BY <1>2
<1> QED
  BY <1>1, <1>2, <1>3 DEF Departs

LEMMA HubOpen ==
    ASSUME HubInv, net' = net, NEW n, NEW p, IsTrail(p), NEW rest, rest \subseteq lanes, Open(n, p, rest)
    PROVE  HubInv'
<1>1. PICK ts : ts = {Transport(r, Search(n, Append(p, r))) : r \in Rest(p)}
  OBVIOUS
<1>2. Last(p) \in Members
  BY LastFacts DEF IsTrail
<1>3. \A t \in ts : Departs(t, Last(p))
  <2>1. \A r \in Rest(p) : r \in Members
    BY DEF Rest, Adjacents
  <2> QED
    BY <1>1, <2>1, NewDeparts
<1>4. Leave(Last(p), ts, rest)
  BY <1>1 DEF Open
<1> QED
  BY <1>2, <1>3, <1>4, HubLeave

LEMMA RouteStars ==
    ASSUME NEW p, IsRoute(p) PROVE Last(p) \in Members /\ Asker(p) \in Members
<1>1. p \in Seq(Members) /\ Len(p) \in Nat /\ Len(p) - 1 \in 1 .. Len(p) /\ Len(p) >= 1
  BY DEF IsRoute, IsTrail
<1>2. Last(p) \in Members
  BY <1>1, LastFacts
<1> QED
  BY <1>1, <1>2 DEF Asker

LEMMA HubAnswer ==
    ASSUME HubInv, net' = net, NEW n, NEW p, IsRoute(p), NEW found, NEW rest, rest \subseteq lanes,
           Answer(n, p, found, rest)
    PROVE  HubInv'
<1>1. PICK t : t = Transport(Asker(p), Echo(n, p, found \union Own(p)))
  OBVIOUS
<1>2. Leave(Last(p), {t}, rest)
  BY <1>1 DEF Answer
<1>3. Departs(t, Last(p))
  BY <1>1, NewDeparts, RouteStars
<1> QED
  BY <1>2, <1>3, HubLeave, RouteStars

LEMMA HubClose ==
    ASSUME TypeInv, HubInv, NEW x \in DOMAIN searches, NEW found, NEW rest, rest \subseteq lanes,
           Close(x, found, rest)
    PROVE  HubInv'
<1>1. net' = net
  BY DEF Close
<1>2. IsTrail(x.path)
  BY DEF TypeInv, RipplesOK, RippleOK
<1>3. CASE Len(x.path) = 1
  BY <1>1, <1>3, HubDrop DEF Close
<1>4. CASE Len(x.path) # 1
  <2>1. IsRoute(x.path)
    BY <1>2, <1>4, LongTrail
  <2> QED
    BY <1>1, <1>4, <2>1, HubAnswer DEF Close
<1> QED
  BY <1>3, <1>4

LEMMA HubForward == ASSUME TypeInv, HubInv, NEW t, Forward(t) PROVE HubInv'
<1>1. t \in lanes /\ net' = net /\ t.at # t.to
  BY DEF Forward
<1>2. SUFFICES ASSUME Hub PROVE HubInv'
  BY <1>1, HubSame DEF HubInv
<1>3. t.hops = 0 /\ IsForwarder(t.at) /\ t.to \in Adjacents(t.at)
  BY <1>1, <1>2 DEF HubInv, HubLane
<1>4. t.hops < MaxHops /\ LaneOK(t) /\ t.at \in Members
  BY <1>1, <1>3, LaneFacts
<1>5. PICK u : u = [t EXCEPT !.hops = @ + 1]
  OBVIOUS
<1>6. Departs(u, t.at)
  <2>1. t = [at |-> t.at, to |-> t.to, hops |-> t.hops, load |-> t.load] /\ t.to \in Members
    BY <1>4 DEF LaneOK, Transports
  <2>2. u = [at |-> t.at, to |-> t.to, hops |-> 1, load |-> t.load]
    BY <1>3, <1>5, <2>1
  <2>3. u.at = t.at /\ u.to = t.to /\ u.hops = 1 /\ u.load = t.load
    BY <2>2
  <2> QED
    BY <1>3, <2>1, <2>2, <2>3 DEF Departs
<1>7. Leave(t.at, {u}, lanes \ {t})
  BY <1>3, <1>4, <1>5 DEF Forward
<1> QED
  BY <1>1, <1>4, <1>6, <1>7, HubLeave

LEMMA HubTooLate == ASSUME TypeInv, HubInv, NEW t, TooLate(t) PROVE HubInv'
<1>1. t \in lanes /\ net' = net /\ t.at = t.to /\ t.hops = MaxHops
  BY DEF TooLate
<1>2. MaxHops \in Nat /\ MaxHops >= 2
  BY NetFacts DEF TypeInv
<1>3. CASE Hub
  <2>1. t.hops \in {0, 1}
    BY <1>1, <1>3 DEF HubInv, HubLane
  <2> QED
    BY <1>1, <1>2, <2>1
<1>4. CASE ~Hub
  BY <1>1, <1>4, HubSame DEF HubInv
<1> QED
  BY <1>3, <1>4

LEMMA HubHandleSearch == ASSUME TypeInv, HubInv, NEW t, HandleSearch(t) PROVE HubInv'
<1>1. t \in lanes /\ t.load.load = "search" /\ net' = net
  BY DEF HandleSearch, Arrives
<1>2. PICK n, p : n = t.load.no /\ p = t.load.path
  OBVIOUS
<1>3. IsRoute(p)
  BY <1>1, <1>2, WanderingFacts DEF Wandering
<1>4. CASE IsForwarder(t.to) /\ Rest(p) # {}
  <2>1. Open(n, p, lanes \ {t})
    BY <1>2, <1>4 DEF HandleSearch
  <2> QED
    BY <1>1, <1>3, <2>1, HubOpen DEF IsRoute
<1>5. CASE ~(IsForwarder(t.to) /\ Rest(p) # {})
  <2>1. Answer(n, p, {}, lanes \ {t})
    BY <1>2, <1>5 DEF HandleSearch
  <2> QED
    BY <1>1, <1>3, <2>1, HubAnswer
<1> QED
  BY <1>4, <1>5

LEMMA HubHandleEcho == ASSUME TypeInv, HubInv, NEW t, HandleEcho(t) PROVE HubInv'
<1>1. PICK x : x = Id(t.load.no, Front(t.load.path))
  OBVIOUS
<1>2. CASE x \notin DOMAIN searches
  BY <1>1, <1>2, HubDrop DEF HandleEcho
<1>3. CASE x \in DOMAIN searches
  <2>1. PICK left, got : /\ left = searches[x].left \ {Last(t.load.path)}
                         /\ got = searches[x].got \union t.load.found
    OBVIOUS
  <2>2. CASE left = {}
    <3>1. Close(x, got, lanes \ {t})
      BY <1>1, <1>3, <2>1, <2>2 DEF HandleEcho
    <3> QED
      BY <1>3, <3>1, HubClose
  <2>3. CASE left # {}
    BY <1>1, <1>3, <2>1, <2>3, HubDrop DEF HandleEcho
  <2> QED
    BY <2>2, <2>3
<1> QED
  BY <1>2, <1>3

LEMMA HubAttempt == ASSUME TypeInv, HubInv, Attempt PROVE HubInv'
<1>1. net' = net
  BY DEF Attempt
<1>2. CASE Rest(<<origin>>) = {}
  BY <1>1, <1>2, HubDrop DEF Attempt
<1>3. CASE Rest(<<origin>>) # {}
  <2>1. Open(attempt + 1, <<origin>>, lanes)
    BY <1>3 DEF Attempt
  <2>2. IsTrail(<<origin>>)
    BY OriginTrail DEF TypeInv
  <2> QED
    BY <1>1, <2>1, <2>2, HubOpen
<1> QED
  BY <1>2, <1>3

LEMMA HubHandlePing == ASSUME TypeInv, HubInv, NEW t, HandlePing(t) PROVE HubInv'
<1>1. t \in lanes /\ net' = net
  BY DEF HandlePing, Arrives
<1>2. PICK i, to : i = t.load.no /\ to = bounces[i].from
  OBVIOUS
<1>3. t.to \in Members /\ to \in Members
  BY <1>1, <1>2, LaneFacts, PingFacts DEF HandlePing, Arrives
<1>4. Leave(t.to, {Transport(to, Pong(i))}, lanes \ {t})
  BY <1>2 DEF HandlePing
<1> QED
  BY <1>1, <1>3, <1>4, NewDeparts, HubLeave

LEMMA HubBounce ==
    ASSUME TypeInv, HubInv, NEW s \in Members, NEW to \in Members, Bounce(s, to) PROVE HubInv'
<1>1. Leave(s, {Transport(to, Ping(Len(bounces) + 1))}, lanes) /\ net' = net
  BY DEF Bounce
<1> QED
  BY <1>1, NewDeparts, HubLeave

LEMMA HubStep == ASSUME TypeInv, HubInv, [FabricNext]_fabricVars PROVE HubInv'
<1>1. CASE UNCHANGED fabricVars
  BY <1>1, HubDrop DEF fabricVars
<1>2. ASSUME NEW t, HandlePong(t) PROVE HubInv'
  BY <1>2, HubDrop DEF HandlePong
<1>3. CASE Serve
  BY <1>2, <1>3, HubForward, HubTooLate, HubHandleSearch, HubHandleEcho, HubHandlePing DEF Serve
<1>4. CASE Attempt
  BY <1>4, HubAttempt
<1>5. CASE GiveUp
  BY <1>5, HubDrop DEF GiveUp
<1>6. ASSUME NEW x \in DOMAIN searches, RippleTimeout(x) PROVE HubInv'
  BY <1>6, HubClose DEF RippleTimeout
<1>7. ASSUME NEW s \in Members, NEW to \in Members, Bounce(s, to) PROVE HubInv'
  BY <1>7, HubBounce
<1>8. ASSUME NEW i \in DOMAIN bounces, BounceTimeout(i) PROVE HubInv'
  BY <1>8, HubDrop DEF BounceTimeout
<1> QED
  BY <1>1, <1>3, <1>4, <1>5, <1>6, <1>7, <1>8 DEF FabricNext

\* In a machine with one forwarder that all others are adjacent to, to_hyperway never
\* fails and no star's loop stops: every transport is over after two hops.
THEOREM HubTheorem == FabricSpec => []HubLosesNothing
<1>1. FabricInit => HubInv
  BY DEF FabricInit, HubInv
<1>2. TypeInv /\ HubInv /\ [FabricNext]_fabricVars => HubInv'
  BY HubStep
<1>3. HubInv => HubLosesNothing
  BY DEF HubInv, HubLosesNothing
<1> QED
  BY <1>1, <1>2, <1>3, TypeInvTheorem, PTL DEF FabricSpec

-----------------------------------------------------------------------------
(* What a search finds.                                                    *)

LEMMA ExtendsFacts ==
    ASSUME NEW p \in Seq(Members), NEW r \in Members
    PROVE  /\ Extends(p, p) /\ Extends(Append(p, r), p) /\ ~Extends(p, Append(p, r))
           /\ \A q \in Seq(Members) : Extends(q, Append(p, r)) => Extends(q, p)
           /\ \A a \in Seq(Members) :
                Extends(Append(p, r), a) => Extends(p, a) \/ Extends(a, p)
           /\ \A g \in Members : Extends(Append(p, g), Append(p, r)) => g = r
<1>1. PICK e : e = Append(p, r)
  OBVIOUS
<1>2. /\ Len(p) \in Nat /\ e \in Seq(Members) /\ Len(e) = Len(p) + 1 /\ e[Len(p) + 1] = r
      /\ \A i \in 1 .. Len(p) : e[i] = p[i]
  BY <1>1, AppendProperties
<1>3. Extends(p, p) /\ Extends(e, p) /\ ~Extends(p, e)
  BY <1>2 DEF Extends
<1>4. \A q \in Seq(Members) : Extends(q, e) => Extends(q, p)
  <2> TAKE q \in Seq(Members)
  <2> HAVE Extends(q, e)
  <2>1. Len(p) + 1 <= Len(q) /\ \A i \in 1 .. Len(p) + 1 : q[i] = e[i]
    BY <1>2 DEF Extends
  <2>2. \A i \in 1 .. Len(p) : q[i] = p[i]
    BY <1>2, <2>1
  <2>3. Len(p) <= Len(q)
    BY <1>2, <2>1
  <2> QED
    BY <2>2, <2>3 DEF Extends
<1>5. \A a \in Seq(Members) : Extends(e, a) => Extends(p, a) \/ Extends(a, p)
  <2> TAKE a \in Seq(Members)
  <2> HAVE Extends(e, a)
  <2>1. Len(a) \in Nat /\ Len(a) <= Len(p) + 1 /\ \A i \in 1 .. Len(a) : e[i] = a[i]
    BY <1>2 DEF Extends
  <2>2. CASE Len(a) <= Len(p)
    <3>1. \A i \in 1 .. Len(a) : p[i] = a[i]
      BY <1>2, <2>1, <2>2
    <3> QED
      BY <2>2, <3>1 DEF Extends
  <2>3. CASE Len(a) > Len(p)
    <3>1. \A i \in 1 .. Len(p) : a[i] = p[i]
      BY <1>2, <2>1, <2>3
    <3>2. Len(p) <= Len(a)
      BY <1>2, <2>1, <2>3
    <3> QED
      BY <3>1, <3>2 DEF Extends
  <2> QED
    BY <1>2, <2>1, <2>2, <2>3
<1>6. \A g \in Members : Extends(Append(p, g), e) => g = r
  <2> TAKE g \in Members
  <2> HAVE Extends(Append(p, g), e)
  <2>1. Append(p, g)[Len(p) + 1] = g
    BY AppendProperties
  <2>2. Len(p) + 1 \in 1 .. Len(e)
    BY <1>2
  <2> QED
    BY <1>2, <2>1, <2>2 DEF Extends
<1> QED
  BY <1>1, <1>3, <1>4, <1>5, <1>6

\* A discovery behind the end of a trail was made over one of the stars to ask.
LEMMA FindsSplit ==
    ASSUME NEW p, IsTrail(p), NEW q \in Finds(p)
    PROVE  \/ q = p /\ Len(p) >= 2 /\ q \in Own(p)
           \/ /\ \E r \in Rest(p) : q \in Finds(Append(p, r))
              /\ Len(p) >= 2 => IsForwarder(Last(p))
<1>1. p \in Seq(Members) /\ Len(p) \in Nat /\ Len(p) >= 1 /\ DOMAIN p = 1 .. Len(p)
  BY DEF IsTrail
<1>2. /\ q \in Seq(Members) /\ Len(q) \in Nat /\ DOMAIN q = 1 .. Len(q) /\ Len(q) >= 2
      /\ Simple(q) /\ IsFind(q) /\ CanBeWrangled(Last(q))
      /\ \A i \in 2 .. Len(q) - 1 : IsForwarder(q[i])
  BY DEF Finds, IsFind, IsRoute, IsTrail
<1>3. Len(p) <= Len(q) /\ \A i \in 1 .. Len(p) : q[i] = p[i]
  BY DEF Finds, Extends
<1>4. CASE Len(q) = Len(p)
  <2>1. q = p
    BY <1>1, <1>2, <1>3, <1>4, SeqEqual
  <2> QED
    BY <1>2, <2>1 DEF Own
<1>5. CASE Len(q) # Len(p)
  <2>1. Len(p) + 1 \in 1 .. Len(q) /\ Len(p) \in 1 .. Len(q) - 1
    <3>1. \A m, k \in Nat : m >= 1 /\ m <= k /\ k # m => m + 1 \in 1 .. k /\ m \in 1 .. k - 1
      OBVIOUS
    <3> QED
      BY <1>1, <1>2, <1>3, <1>5, <3>1
  <2>2. PICK r : r = q[Len(p) + 1]
    OBVIOUS
  <2>3. r \in Members
    BY <1>2, <2>1, <2>2, ElementOfSeq
  <2>4. Last(p) = p[Len(p)] /\ q[Len(p)] = p[Len(p)]
    BY <1>1, <1>3 DEF Last
  <2>5. r \in Adjacents(Last(p))
    BY <1>2, <2>1, <2>2, <2>4 DEF Simple
  <2>6. r \notin ToSet(p)
    <3>1. ASSUME NEW i \in 1 .. Len(p), p[i] = r PROVE FALSE
      <4>1. i \in DOMAIN q /\ q[i] = q[Len(p) + 1] /\ i # Len(p) + 1
        BY <1>1, <1>2, <1>3, <2>2, <3>1
      <4> QED
        BY <1>2, <2>1, <4>1 DEF Simple
    <3> QED
      BY <1>1, <3>1 DEF ToSet
  <2>7. r \in Rest(p)
    BY <2>5, <2>6 DEF Rest
  <2>8. Extends(q, Append(p, r))
    <3>1. PICK e : e = Append(p, r)
      OBVIOUS
    <3>2. Len(e) = Len(p) + 1 /\ e[Len(p) + 1] = r /\ \A i \in 1 .. Len(p) : e[i] = p[i]
      BY <1>1, <2>3, <3>1, AppendProperties
    <3>3. \A i \in 1 .. Len(p) + 1 : q[i] = e[i]
      <4> TAKE i \in 1 .. Len(p) + 1
      <4>1. CASE i = Len(p) + 1
        BY <2>2, <3>2, <4>1
      <4>2. CASE i # Len(p) + 1
        <5>1. i \in 1 .. Len(p)
          BY <1>1, <4>2
        <5> QED
          BY <1>3, <3>2, <5>1
      <4> QED
        BY <4>1, <4>2
    <3>4. Len(e) <= Len(q)
      BY <1>1, <1>2, <2>1, <3>2
    <3> QED
      BY <3>1, <3>2, <3>3, <3>4 DEF Extends
  <2>9. q \in Finds(Append(p, r))
    BY <1>2, <2>8 DEF Finds
  <2>10. Len(p) >= 2 => IsForwarder(Last(p))
    <3>1. Len(p) >= 2 => Len(p) \in 2 .. Len(q) - 1
      BY <1>1, <1>2, <2>1
    <3> QED
      BY <1>2, <2>4, <3>1
  <2> QED
    BY <2>7, <2>9, <2>10
<1> QED
  BY <1>4, <1>5

\* A star that nobody is asked behind answers with all there is to find.
LEMMA LeafFinds ==
    ASSUME NEW p, IsRoute(p), ~(IsForwarder(Last(p)) /\ Rest(p) # {})
    PROVE  Finds(p) \subseteq Own(p)
  BY FindsSplit DEF IsRoute

LEMMA AllFinds ==
    ASSUME NEW p, IsTrail(p), NEW got, \A r \in Rest(p) : Finds(Append(p, r)) \subseteq got
    PROVE  /\ Finds(p) \subseteq got \union Own(p)
           /\ Len(p) = 1 => Finds(p) \subseteq got
<1>1. ASSUME NEW q \in Finds(p) PROVE q \in got \/ (q \in Own(p) /\ Len(p) >= 2)
  BY FindsSplit
<1>2. ~(Len(p) = 1 /\ Len(p) >= 2)
  <2>1. Len(p) \in Nat
    BY DEF IsTrail
  <2>2. \A n \in Nat : ~(n = 1 /\ n >= 2)
    OBVIOUS
  <2> QED
    BY <2>1, <2>2
<1> QED
  BY <1>1, <1>2

-----------------------------------------------------------------------------
(* No search is answered for with less than it finds.                      *)

\* Nothing was found yet over the path of a search that is on its way, nor is
\* anybody asked there.
Fresh ==
    \A t \in lanes : t.load.load = "search" =>
        /\ \A u \in lanes : /\ Wandering(u.load) /\ u.load.no = t.load.no
                            /\ Extends(u.load.path, t.load.path)
                            => u = t
        /\ \A x \in DOMAIN searches : x.no = t.load.no => ~Extends(x.path, t.load.path)

\* An echo that somebody waits for has all there is to find behind it.
EchoesComplete ==
    \A t \in lanes :
        t.load.load = "echo" /\ Id(t.load.no, Front(t.load.path)) \in DOMAIN searches
        => Finds(t.load.path) \subseteq t.load.found

\* A ripple has what there is to find behind those who have answered.
RipplesComplete ==
    \A x \in DOMAIN searches : \A r \in Rest(x.path) \ searches[x].left :
        Finds(Append(x.path, r)) \subseteq searches[x].got

StopComplete == asking = "stopped" => \A q \in Finds(<<origin>>) : \E w \in wrangles : w.path = q

CompleteInv == Fresh /\ EchoesComplete /\ RipplesComplete /\ StopComplete

SearchesShrink == DOMAIN searches' \subseteq DOMAIN searches
SearchesSame   == \A x \in DOMAIN searches' : x \in DOMAIN searches /\ searches'[x] = searches[x]

LEMMA ShrinkSame == ASSUME SearchesSame PROVE SearchesShrink
  BY DEF SearchesSame, SearchesShrink

LEMMA FreshMoved ==
    ASSUME Fresh, NEW t \in lanes, NEW v, v.load = t.load, lanes' \subseteq (lanes \ {t}) \union {v},
           SearchesShrink
    PROVE  Fresh'
<1>1. SUFFICES ASSUME NEW a \in lanes', a.load.load = "search"
      PROVE  /\ \A u \in lanes' : /\ Wandering(u.load) /\ u.load.no = a.load.no
                                  /\ Extends(u.load.path, a.load.path)
                                  => u = a
             /\ \A x \in DOMAIN searches' : x.no = a.load.no => ~Extends(x.path, a.load.path)
  BY DEF Fresh, Extends, Wandering
<1>2. PICK b \in lanes : b.load = a.load /\ (a # v => a = b /\ b # t) /\ (a = v => b = t)
  <2>1. CASE a = v
    BY <2>1
  <2>2. CASE a # v
    BY <2>2
  <2> QED
    BY <2>1, <2>2
<1>3. ASSUME NEW u \in lanes', Wandering(u.load), u.load.no = a.load.no,
             Extends(u.load.path, a.load.path)
      PROVE  u = a
  <2>1. CASE u = v
    <3>1. t = b
      BY <1>1, <1>2, <1>3, <2>1 DEF Fresh
    <3> QED
      BY <1>2, <2>1, <3>1
  <2>2. CASE u # v
    <3>1. u \in lanes /\ u # t
      BY <2>2
    <3>2. u = b
      BY <1>1, <1>2, <1>3, <3>1 DEF Fresh
    <3> QED
      BY <1>2, <3>1, <3>2
  <2> QED
    BY <2>1, <2>2
<1>4. ASSUME NEW x \in DOMAIN searches', x.no = a.load.no PROVE ~Extends(x.path, a.load.path)
  BY <1>1, <1>2, <1>4 DEF Fresh, SearchesShrink
<1> QED
  BY <1>3, <1>4

LEMMA FreshQuiet ==
    ASSUME Fresh, \A u \in lanes' : u \in lanes \/ ~Wandering(u.load), SearchesShrink
    PROVE  Fresh'
  BY DEF Fresh, Extends, Wandering, SearchesShrink

LEMMA FreshAnswered ==
    ASSUME Fresh, NEW rest, rest \subseteq lanes, NEW e, lanes' \subseteq rest \union {e},
           e.load.load = "echo", SearchesShrink,
           \A t \in rest : t.load.load = "search" /\ t.load.no = e.load.no
                           => ~Extends(e.load.path, t.load.path)
    PROVE  Fresh'
<1>1. SUFFICES ASSUME NEW a \in lanes', a.load.load = "search"
      PROVE  /\ \A u \in lanes' : /\ Wandering(u.load) /\ u.load.no = a.load.no
                                  /\ Extends(u.load.path, a.load.path)
                                  => u = a
             /\ \A x \in DOMAIN searches' : x.no = a.load.no => ~Extends(x.path, a.load.path)
  BY DEF Fresh, Extends, Wandering
<1>2. a \in rest /\ a \in lanes
  BY <1>1
<1>3. \A u \in lanes' : u \in lanes \/ u = e
  OBVIOUS
<1>4. ASSUME NEW u \in lanes', Wandering(u.load), u.load.no = a.load.no,
             Extends(u.load.path, a.load.path)
      PROVE  u = a
  <2>1. u # e
    BY <1>1, <1>2, <1>4
  <2> QED
    BY <1>1, <1>2, <1>3, <1>4, <2>1 DEF Fresh
<1>5. ASSUME NEW x \in DOMAIN searches', x.no = a.load.no PROVE ~Extends(x.path, a.load.path)
  BY <1>1, <1>2, <1>5 DEF Fresh, SearchesShrink
<1> QED
  BY <1>4, <1>5

\* A ripple is new: nothing was there before, except the search it answers.
IsNew(n, p, rest) ==
    /\ \A u \in rest : Wandering(u.load) /\ u.load.no = n =>
         /\ ~Extends(u.load.path, p)
         /\ u.load.load = "search" => ~Extends(p, u.load.path)
    /\ \A x \in DOMAIN searches : x.no = n => ~Extends(x.path, p)

\* The transports with a search to everyone there is to ask.
Asks(n, p) == {Transport(r, Search(n, Append(p, r))) : r \in Rest(p)}

LEMMA AskFacts ==
    ASSUME NEW n, NEW p, NEW u \in Asks(n, p)
    PROVE  \E r \in Rest(p) : /\ r \in Members /\ u = Transport(r, Search(n, Append(p, r)))
                              /\ u.to = r /\ u.at = r
                              /\ u.load.load = "search" /\ u.load.no = n /\ u.load.path = Append(p, r)
<1>1. PICK r \in Rest(p) : u = Transport(r, Search(n, Append(p, r)))
  BY DEF Asks
<1>2. r \in Members
  BY DEF Rest, Adjacents
<1>3. PICK l : l = Search(n, Append(p, r))
  OBVIOUS
<1>4. l.load = "search" /\ l.no = n /\ l.path = Append(p, r)
  BY <1>3 DEF Search
<1>5. u.to = r /\ u.at = r /\ u.load = l
  BY <1>1, <1>3 DEF Transport
<1> QED
  BY <1>1, <1>2, <1>4, <1>5

LEMMA FreshOpened ==
    ASSUME TypeInv, Fresh, NEW n, NEW p \in Seq(Members), NEW rest, rest \subseteq lanes,
           IsNew(n, p, rest), lanes' \subseteq rest \union Asks(n, p),
           DOMAIN searches' \subseteq DOMAIN searches \union {Id(n, p)}
    PROVE  Fresh'
<1>1. SUFFICES ASSUME NEW a \in lanes', a.load.load = "search"
      PROVE  /\ \A u \in lanes' : /\ Wandering(u.load) /\ u.load.no = a.load.no
                                  /\ Extends(u.load.path, a.load.path)
                                  => u = a
             /\ \A x \in DOMAIN searches' : x.no = a.load.no => ~Extends(x.path, a.load.path)
  BY DEF Fresh, Extends, Wandering
<1>2. Wandering(a.load)
  BY <1>1 DEF Wandering
<1>3. \A x \in DOMAIN searches' : x \in DOMAIN searches \/ (x.no = n /\ x.path = p)
  BY DEF Id
<1>4. CASE a \in rest
  <2>1. a.load.path \in Seq(Members)
    BY <1>2, <1>4, WanderingFacts
  <2>2. ASSUME NEW u \in lanes', Wandering(u.load), u.load.no = a.load.no,
               Extends(u.load.path, a.load.path)
        PROVE  u = a
    <3>1. CASE u \in rest
      BY <1>1, <1>4, <2>2, <3>1 DEF Fresh
    <3>2. CASE u \in Asks(n, p)
      <4>1. PICK r \in Rest(p) : r \in Members /\ u.load.no = n /\ u.load.path = Append(p, r)
        BY <3>2, AskFacts
      <4>2. Extends(p, a.load.path) \/ Extends(a.load.path, p)
        BY <2>1, <2>2, <4>1, ExtendsFacts
      <4> QED
        BY <1>1, <1>2, <1>4, <2>2, <4>1, <4>2 DEF IsNew
    <3> QED
      BY <3>1, <3>2
  <2>3. ASSUME NEW x \in DOMAIN searches', x.no = a.load.no PROVE ~Extends(x.path, a.load.path)
    <3>1. CASE x \in DOMAIN searches
      BY <1>1, <1>4, <2>3, <3>1 DEF Fresh
    <3>2. CASE x.no = n /\ x.path = p
      BY <1>1, <1>2, <1>4, <2>3, <3>2 DEF IsNew
    <3> QED
      BY <1>3, <3>1, <3>2
  <2> QED
    BY <2>2, <2>3
<1>5. CASE a \in Asks(n, p)
  <2>1. PICK r \in Rest(p) : /\ r \in Members /\ a.load.no = n /\ a.load.path = Append(p, r)
                             /\ a = Transport(r, Search(n, Append(p, r)))
    BY <1>5, AskFacts
  <2>2. ASSUME NEW u \in lanes', Wandering(u.load), u.load.no = a.load.no,
               Extends(u.load.path, a.load.path)
        PROVE  u = a
    <3>1. CASE u \in rest
      <4>1. u.load.path \in Seq(Members)
        BY <2>2, <3>1, WanderingFacts
      <4>2. Extends(u.load.path, p)
        BY <2>1, <2>2, <4>1, ExtendsFacts
      <4> QED
        BY <2>1, <2>2, <3>1, <4>2 DEF IsNew
    <3>2. CASE u \in Asks(n, p)
      <4>1. PICK g \in Rest(p) : /\ g \in Members /\ u.load.path = Append(p, g)
                                 /\ u = Transport(g, Search(n, Append(p, g)))
        BY <3>2, AskFacts
      <4>2. g = r
        BY <2>1, <2>2, <4>1, ExtendsFacts
      <4> QED
        BY <2>1, <4>1, <4>2
    <3> QED
      BY <3>1, <3>2
  <2>3. ASSUME NEW x \in DOMAIN searches', x.no = a.load.no PROVE ~Extends(x.path, a.load.path)
    <3>1. CASE x \in DOMAIN searches
      <4>1. x.path \in Seq(Members)
        BY <3>1 DEF TypeInv, RipplesOK, RippleOK, IsTrail
      <4> QED
        BY <2>1, <2>3, <3>1, <4>1, ExtendsFacts DEF IsNew
    <3>2. CASE x.no = n /\ x.path = p
      BY <2>1, <3>2, ExtendsFacts
    <3> QED
      BY <1>3, <3>1, <3>2
  <2> QED
    BY <2>2, <2>3
<1> QED
  BY <1>4, <1>5

\* The stars asked, and the one that asked, are adjacent: no transport is lost.
LEMMA OpenLanes ==
    ASSUME NEW n, NEW p, IsTrail(p), NEW rest, Open(n, p, rest)
    PROVE  lanes' \subseteq rest \union Asks(n, p)
<1>1. Leave(Last(p), Asks(n, p), rest)
  BY DEF Open, Asks
<1>2. ASSUME NEW u \in lanes', u \notin rest PROVE u \in Asks(n, p)
  <2>1. PICK t \in Asks(n, p) : \E h \in NextHop(Last(p), t.to) : u = [t EXCEPT !.at = h]
    BY <1>1, <1>2, LeaveFacts
  <2>2. PICK h \in NextHop(Last(p), t.to) : u = [t EXCEPT !.at = h]
    BY <2>1
  <2>3. PICK r \in Rest(p) : t = Transport(r, Search(n, Append(p, r))) /\ t.to = r
    BY AskFacts
  <2>4. r \in Adjacents(Last(p))
    BY DEF Rest
  <2>5. h = r
    BY <2>3, <2>4 DEF NextHop
  <2>6. u = t
    BY <2>2, <2>3, <2>5 DEF Transport
  <2> QED
    BY <2>6
<1> QED
  BY <1>2

LEMMA AnswerLanes ==
    ASSUME net \in Nets, NEW n, NEW p, IsRoute(p), NEW found, NEW rest, Answer(n, p, found, rest)
    PROVE  \E e : /\ lanes' \subseteq rest \union {e}
                  /\ e.load.load = "echo" /\ e.load.no = n /\ e.load.path = p
                  /\ e.load.found = found \union Own(p)
<1>1. PICK l : l = Echo(n, p, found \union Own(p))
  OBVIOUS
<1>2. l.load = "echo" /\ l.no = n /\ l.path = p /\ l.found = found \union Own(p)
  BY <1>1 DEF Echo
<1>3. PICK e : e = Transport(Asker(p), l)
  OBVIOUS
<1>4. e.load = l /\ e.to = Asker(p)
  BY <1>3 DEF Transport
<1>5. Leave(Last(p), {e}, rest)
  BY <1>1, <1>3 DEF Answer
<1>6. Asker(p) \in Adjacents(Last(p))
  <2>1. Last(p) \in Rest(Front(p)) /\ Asker(p) = Last(Front(p))
    BY TrailFront
  <2> QED
    BY <2>1, AdjacentFacts, RouteStars DEF Rest
<1>7. ASSUME NEW u \in lanes', u \notin rest PROVE u = e
  <2>1. PICK t \in {e} : \E h \in NextHop(Last(p), t.to) : u = [t EXCEPT !.at = h]
    BY <1>5, <1>7, LeaveFacts
  <2>2. PICK h \in NextHop(Last(p), e.to) : u = [e EXCEPT !.at = h]
    BY <2>1
  <2>3. h = Asker(p)
    BY <1>4, <1>6 DEF NextHop
  <2> QED
    BY <1>3, <2>2, <2>3 DEF Transport
<1> QED
  BY <1>2, <1>4, <1>7

LEMMA SameFinds ==
    ASSUME net' = net
    PROVE  /\ \A p : Finds(p)' = Finds(p) /\ Rest(p)' = Rest(p)
           /\ Finds(<<origin>>)' = Finds(<<origin>>)
<1>1. \A p : Finds(p)' = Finds(p) /\ Rest(p)' = Rest(p)
  BY SameRoutes, SameGraph
<1>2. origin' = origin
  BY SameGraph
<1>3. \A p : IsFind(p)' = IsFind(p)
  BY SameRoutes
<1>4. Members' = Members
  BY SameGraph
<1>5. Finds(<<origin>>)' = Finds(<<origin>>)
  BY <1>2, <1>3, <1>4 DEF Finds, Extends
<1> QED
  BY <1>1, <1>5

LEMMA StopSame ==
    ASSUME StopComplete, net' = net, wrangles \subseteq wrangles',
           asking' = "stopped" => asking = "stopped"
    PROVE  StopComplete'
<1>1. Finds(<<origin>>)' = Finds(<<origin>>)
  BY SameFinds
<1> QED
  BY <1>1 DEF StopComplete

LEMMA RipplesSame ==
    ASSUME RipplesComplete, net' = net, SearchesSame PROVE RipplesComplete'
<1>1. SUFFICES ASSUME NEW x \in DOMAIN searches', NEW r \in Rest(x.path)' \ searches'[x].left
               PROVE  Finds(Append(x.path, r))' \subseteq searches'[x].got
  BY DEF RipplesComplete
<1>2. x \in DOMAIN searches /\ searches'[x] = searches[x]
  BY DEF SearchesSame
<1>3. r \in Rest(x.path) \ searches[x].left
  BY <1>2, SameFinds
<1>4. Finds(Append(x.path, r)) \subseteq searches[x].got
  BY <1>2, <1>3 DEF RipplesComplete
<1> QED
  BY <1>2, <1>4, SameFinds

LEMMA EchoesSame ==
    ASSUME EchoesComplete, net' = net, SearchesShrink,
           \A u \in lanes' : u.load.load = "echo" => \E t \in lanes : t.load = u.load
    PROVE  EchoesComplete'
<1>1. SUFFICES ASSUME NEW u \in lanes', u.load.load = "echo",
                      Id(u.load.no, Front(u.load.path)) \in DOMAIN searches'
               PROVE  Finds(u.load.path)' \subseteq u.load.found
  BY DEF EchoesComplete, Id, Front
<1>2. PICK t \in lanes : t.load = u.load
  BY <1>1
<1>3. Id(t.load.no, Front(t.load.path)) \in DOMAIN searches
  BY <1>1, <1>2 DEF SearchesShrink
<1>4. Finds(t.load.path) \subseteq t.load.found
  BY <1>1, <1>2, <1>3 DEF EchoesComplete
<1> QED
  BY <1>2, <1>4, SameFinds

\* Steps that have nothing to do with searches.
LEMMA QuietComplete ==
    ASSUME CompleteInv, UNCHANGED <<net, wrangles>>, asking' = "stopped" => asking = "stopped",
           SearchesSame, \A u \in lanes' : u \in lanes \/ ~Wandering(u.load)
    PROVE  CompleteInv'
<1>1. SearchesShrink
  BY ShrinkSame
<1>2. Fresh'
  BY <1>1, FreshQuiet DEF CompleteInv
<1>3. \A u \in lanes' : u.load.load = "echo" => \E t \in lanes : t.load = u.load
  BY DEF Wandering
<1> QED
  BY <1>1, <1>2, <1>3, EchoesSame, RipplesSame, StopSame DEF CompleteInv

LEMMA OpenComplete ==
    ASSUME TypeInv, CompleteInv, net' = net, NEW n, NEW p, IsTrail(p), NEW rest, rest \subseteq lanes,
           Open(n, p, rest), IsNew(n, p, rest), wrangles' = wrangles,
           asking' = "stopped" => asking = "stopped"
    PROVE  CompleteInv'
<1>1. lanes' \subseteq rest \union Asks(n, p) /\ Opened(Id(n, p), Rest(p)) /\ p \in Seq(Members)
  BY OpenLanes DEF Open, IsTrail
<1>2. DOMAIN searches' = DOMAIN searches \union {Id(n, p)}
  BY <1>1 DEF Opened
<1>3. Fresh'
  BY <1>1, <1>2, FreshOpened DEF CompleteInv
<1>4. EchoesComplete'
  <2>1. SUFFICES ASSUME NEW u \in lanes', u.load.load = "echo",
                        Id(u.load.no, Front(u.load.path)) \in DOMAIN searches'
                 PROVE  Finds(u.load.path)' \subseteq u.load.found
    BY DEF EchoesComplete, Id, Front
  <2>2. u \in rest /\ u \in lanes
    BY <1>1, <2>1, AskFacts
  <2>3. Wandering(u.load) /\ IsRoute(u.load.path)
    BY <2>1, <2>2, WanderingFacts DEF Wandering
  <2>4. Id(u.load.no, Front(u.load.path)) \in DOMAIN searches
    <3>1. SUFFICES ASSUME Id(u.load.no, Front(u.load.path)) = Id(n, p) PROVE FALSE
      BY <1>2, <2>1
    <3>2. u.load.no = n /\ Front(u.load.path) = p
      BY <3>1 DEF Id
    <3>3. u.load.path = Append(p, Last(u.load.path)) /\ Last(u.load.path) \in Members
      BY <2>3, <3>2, TrailFront, RouteStars
    <3>4. Extends(u.load.path, p)
      <4>1. \A r \in Members : Extends(Append(p, r), p)
        BY <1>1, ExtendsFacts
      <4> QED
        BY <3>3, <4>1
    <3> QED
      BY <2>2, <2>3, <3>2, <3>4 DEF IsNew
  <2>5. Finds(u.load.path) \subseteq u.load.found
    BY <2>1, <2>2, <2>4 DEF CompleteInv, EchoesComplete
  <2> QED
    BY <2>5, SameFinds
<1>5. RipplesComplete'
  <2>1. SUFFICES ASSUME NEW x \in DOMAIN searches', NEW r \in Rest(x.path)' \ searches'[x].left
                 PROVE  Finds(Append(x.path, r))' \subseteq searches'[x].got
    BY DEF RipplesComplete
  <2>2. r \in Rest(x.path) \ searches'[x].left
    BY SameFinds
  <2>3. CASE x \in DOMAIN searches
    <3>1. searches'[x] = searches[x]
      BY <1>1, <2>3 DEF Opened
    <3>2. Finds(Append(x.path, r)) \subseteq searches[x].got
      BY <2>2, <2>3, <3>1 DEF CompleteInv, RipplesComplete
    <3> QED
      BY <3>1, <3>2, SameFinds
  <2>4. CASE x \notin DOMAIN searches
    <3>1. x = Id(n, p) /\ searches'[x] = [left |-> Rest(p), got |-> {}]
      BY <1>1, <2>4 DEF Opened
    <3>2. x.path = p /\ searches'[x].left = Rest(p)
      BY <3>1 DEF Id
    <3> QED
      BY <2>2, <3>2
  <2> QED
    BY <2>3, <2>4
<1>6. StopComplete'
  BY StopSame DEF CompleteInv
<1> QED
  BY <1>3, <1>4, <1>5, <1>6 DEF CompleteInv

\* A search is answered for: with all there is to find, or to nobody.
LEMMA AnswerComplete ==
    ASSUME TypeInv, CompleteInv, net' = net, NEW n, NEW p, IsRoute(p), NEW found,
           NEW rest, rest \subseteq lanes, Answer(n, p, found, rest), SearchesSame, wrangles' = wrangles,
           asking' = asking,
           \A t \in rest : t.load.load = "search" /\ t.load.no = n => ~Extends(p, t.load.path),
           \/ Finds(p) \subseteq found \union Own(p)
           \/ Id(n, Front(p)) \notin DOMAIN searches
    PROVE  CompleteInv'
<1>1. SearchesShrink
  BY ShrinkSame
<1>2. PICK e : /\ lanes' \subseteq rest \union {e}
               /\ e.load.load = "echo" /\ e.load.no = n /\ e.load.path = p
               /\ e.load.found = found \union Own(p)
  BY AnswerLanes DEF TypeInv
<1>3. Fresh'
  BY <1>1, <1>2, FreshAnswered DEF CompleteInv
<1>4. EchoesComplete'
  <2>1. SUFFICES ASSUME NEW u \in lanes', u.load.load = "echo",
                        Id(u.load.no, Front(u.load.path)) \in DOMAIN searches'
                 PROVE  Finds(u.load.path)' \subseteq u.load.found
    BY DEF EchoesComplete, Id, Front
  <2>2. Id(u.load.no, Front(u.load.path)) \in DOMAIN searches
    BY <1>1, <2>1 DEF SearchesShrink
  <2>3. Finds(u.load.path) \subseteq u.load.found
    <3>1. CASE u \in lanes
      BY <2>1, <2>2, <3>1 DEF CompleteInv, EchoesComplete
    <3>2. CASE u \notin lanes
      <4>1. u = e
        BY <1>2, <3>2
      <4> QED
        BY <1>2, <2>2, <4>1
    <3> QED
      BY <3>1, <3>2
  <2> QED
    BY <2>3, SameFinds
<1>5. RipplesComplete' /\ StopComplete'
  BY RipplesSame, StopSame DEF CompleteInv
<1> QED
  BY <1>3, <1>4, <1>5 DEF CompleteInv

LEMMA ForwardComplete == ASSUME TypeInv, CompleteInv, NEW t, Forward(t) PROVE CompleteInv'
<1>1. t \in lanes /\ net' = net /\ searches' = searches /\ asking' = asking /\ wrangles' = wrangles
  BY DEF Forward
<1>2. SearchesSame /\ SearchesShrink
  BY <1>1 DEF SearchesSame, SearchesShrink
<1>3. CASE t.hops < MaxHops /\ IsForwarder(t.at)
  <2>1. PICK w : w = [t EXCEPT !.hops = @ + 1]
    OBVIOUS
  <2>2. Leave(t.at, {w}, lanes \ {t})
    BY <1>3, <2>1 DEF Forward
  <2>3. t \in Transports /\ t.at \in Members /\ t.to \in Members
    BY <1>1, LaneFacts DEF LaneOK
  <2>4. w = [at |-> t.at, to |-> t.to, hops |-> t.hops + 1, load |-> t.load]
    BY <2>1, <2>3 DEF Transports
  <2>5. \A h : [w EXCEPT !.at = h].load = t.load
    BY <2>4
  <2>6. \A u \in lanes' : u \in lanes \ {t} \/ \E h \in NextHop(t.at, t.to) : u = [w EXCEPT !.at = h]
    <3>1. \A u \in lanes' :
            \/ u \in lanes \ {t}
            \/ \E y \in {w} : \E h \in NextHop(t.at, y.to) : u = [y EXCEPT !.at = h]
      BY <2>2, LeaveFacts
    <3>2. w.to = t.to
      BY <2>4
    <3> QED
      BY <3>1, <3>2
  <2>7. \A g, h \in NextHop(t.at, t.to) : g = h
    BY <2>3, NextHopFacts DEF TypeInv
  <2>8. \E v : v.load = t.load /\ lanes' \subseteq (lanes \ {t}) \union {v}
    <3>1. CASE NextHop(t.at, t.to) = {}
      <4>1. lanes' \subseteq (lanes \ {t}) \union {t}
        BY <2>6, <3>1
      <4> QED
        BY <4>1
    <3>2. CASE NextHop(t.at, t.to) # {}
      <4>1. PICK h \in NextHop(t.at, t.to) : TRUE
        BY <3>2
      <4>2. lanes' \subseteq (lanes \ {t}) \union {[w EXCEPT !.at = h]}
        BY <2>6, <2>7, <4>1
      <4> QED
        BY <2>5, <4>2
    <3> QED
      BY <3>1, <3>2
  <2>9. PICK v : v.load = t.load /\ lanes' \subseteq (lanes \ {t}) \union {v}
    BY <2>8
  <2>10. Fresh'
    BY <1>1, <1>2, <2>9, FreshMoved DEF CompleteInv
  <2>11. \A u \in lanes' : u.load.load = "echo" => \E y \in lanes : y.load = u.load
    BY <1>1, <2>9
  <2> QED
    BY <1>1, <1>2, <2>10, <2>11, EchoesSame, RipplesSame, StopSame DEF CompleteInv
<1>4. CASE ~(t.hops < MaxHops /\ IsForwarder(t.at))
  <2>1. lanes' = lanes \ {t}
    BY <1>4 DEF Forward
  <2> QED
    BY <1>1, <1>2, <2>1, QuietComplete
<1> QED
  BY <1>3, <1>4

LEMMA LeafComplete ==
    ASSUME TypeInv, CompleteInv, UNCHANGED <<net, searches, asking, wrangles>>, NEW n, NEW p, IsRoute(p),
           ~(IsForwarder(Last(p)) /\ Rest(p) # {}), NEW rest, rest \subseteq lanes,
           Answer(n, p, {}, rest),
           \A t \in rest : t.load.load = "search" /\ t.load.no = n => ~Extends(p, t.load.path)
    PROVE  CompleteInv'
<1>1. SearchesSame
  BY DEF SearchesSame
<1>2. Finds(p) \subseteq {} \union Own(p)
  BY LeafFinds
<1> QED
  BY <1>1, <1>2, AnswerComplete

LEMMA HandleSearchComplete == ASSUME TypeInv, CompleteInv, NEW t, HandleSearch(t) PROVE CompleteInv'
<1>1. /\ t \in lanes /\ t.load.load = "search"
      /\ net' = net /\ asking' = asking /\ wrangles' = wrangles
  BY DEF HandleSearch, Arrives
<1>2. PICK n, p : n = t.load.no /\ p = t.load.path
  OBVIOUS
<1>3. IsRoute(p) /\ IsTrail(p) /\ p \in Seq(Members) /\ t.to = Last(p)
  BY <1>1, <1>2, WanderingFacts DEF Wandering, IsRoute
<1>4. \A u \in lanes \ {t} : Wandering(u.load) /\ u.load.no = n => ~Extends(u.load.path, p)
  BY <1>1, <1>2 DEF CompleteInv, Fresh
<1>5. ASSUME NEW u \in lanes \ {t}, u.load.load = "search", u.load.no = n
      PROVE  ~Extends(p, u.load.path)
  <2>1. SUFFICES ASSUME Extends(p, u.load.path) PROVE t = u
    OBVIOUS
  <2> QED
    BY <1>1, <1>2, <1>5, <2>1 DEF CompleteInv, Fresh, Wandering
<1>6. CASE IsForwarder(t.to) /\ Rest(p) # {}
  <2>1. Open(n, p, lanes \ {t})
    BY <1>2, <1>6 DEF HandleSearch
  <2>2. \A x \in DOMAIN searches : x.no = n => ~Extends(x.path, p)
    BY <1>1, <1>2 DEF CompleteInv, Fresh
  <2>3. IsNew(n, p, lanes \ {t})
    BY <1>4, <1>5, <2>2 DEF IsNew
  <2> QED
    BY <1>1, <1>3, <2>1, <2>3, OpenComplete
<1>7. CASE ~(IsForwarder(t.to) /\ Rest(p) # {})
  <2>1. Answer(n, p, {}, lanes \ {t}) /\ searches' = searches
    BY <1>2, <1>7 DEF HandleSearch
  <2>2. \A u \in lanes \ {t} : u.load.load = "search" /\ u.load.no = n => ~Extends(p, u.load.path)
    BY <1>5
  <2> QED
    BY <1>1, <1>3, <1>7, <2>1, <2>2, LeafComplete
<1> QED
  BY <1>6, <1>7

\* A ripple ends: with all there is to find, or when nobody waits for it.
LEMMA CloseComplete ==
    ASSUME TypeInv, CompleteInv, NEW x \in DOMAIN searches, NEW found, NEW rest, rest \subseteq lanes,
           Close(x, found, rest),
           \/ \A r \in Rest(x.path) : Finds(Append(x.path, r)) \subseteq found
           \/ IF Len(x.path) = 1 THEN ~Waits(x.no) ELSE Id(x.no, Front(x.path)) \notin DOMAIN searches
    PROVE  CompleteInv'
<1>1. net' = net /\ Closed(x)
  BY DEF Close
<1>2. SearchesSame /\ SearchesShrink
  BY <1>1, ShrinkSame DEF SearchesSame, Closed
<1>3. IsTrail(x.path)
  BY DEF TypeInv, RipplesOK, RippleOK
<1>4. CASE Len(x.path) = 1
  <2>1. Finish(x.no, found) /\ lanes' = rest
    BY <1>4 DEF Close
  <2>2. Fresh'
    BY <1>2, <2>1, FreshQuiet DEF CompleteInv
  <2>3. EchoesComplete' /\ RipplesComplete'
    BY <1>1, <1>2, <2>1, EchoesSame, RipplesSame DEF CompleteInv
  <2>4. StopComplete'
    <3>1. CASE \A r \in Rest(x.path) : Finds(Append(x.path, r)) \subseteq found
      <4>1. Finds(x.path) \subseteq found
        BY <1>3, <1>4, <3>1, AllFinds
      <4>2. x.path = <<origin>>
        BY <1>3, <1>4 DEF IsTrail
      <4>3. \A q \in Finds(<<origin>>) : \E w \in wrangles' : w.path = q
        <5> TAKE q \in Finds(<<origin>>)
        <5>1. Id(x.no, q) \in wrangles'
          BY <2>1, <4>1, <4>2 DEF Finish
        <5> QED
          BY <5>1 DEF Id
      <4> QED
        BY <1>1, <4>3, SameFinds DEF StopComplete
    <3>2. CASE ~Waits(x.no)
      BY <1>1, <2>1, <3>2, StopSame DEF CompleteInv, Finish
    <3> QED
      BY <1>4, <3>1, <3>2
  <2> QED
    BY <2>2, <2>3, <2>4 DEF CompleteInv
<1>5. CASE Len(x.path) # 1
  <2>1. Answer(x.no, x.path, found, rest) /\ wrangles' = wrangles /\ asking' = asking
    BY <1>5 DEF Close
  <2>2. IsRoute(x.path)
    BY <1>3, <1>5, LongTrail
  <2>3. \A t \in rest : t.load.load = "search" /\ t.load.no = x.no => ~Extends(x.path, t.load.path)
    BY DEF CompleteInv, Fresh
  <2>4. \/ Finds(x.path) \subseteq found \union Own(x.path)
        \/ Id(x.no, Front(x.path)) \notin DOMAIN searches
    BY <1>3, <1>5, AllFinds
  <2> QED
    BY <1>1, <1>2, <2>1, <2>2, <2>3, <2>4, AnswerComplete
<1> QED
  BY <1>4, <1>5

LEMMA HandleEchoComplete == ASSUME TypeInv, CompleteInv, NEW t, HandleEcho(t) PROVE CompleteInv'
<1>1. t \in lanes /\ t.load.load = "echo"
  BY DEF HandleEcho, Arrives
<1>2. PICK x : x = Id(t.load.no, Front(t.load.path))
  OBVIOUS
<1>3. CASE x \notin DOMAIN searches
  BY <1>1, <1>2, <1>3, QuietComplete DEF HandleEcho, SearchesSame
<1>4. CASE x \in DOMAIN searches
  <2>1. PICK left, got : /\ left = searches[x].left \ {Last(t.load.path)}
                         /\ got = searches[x].got \union t.load.found
    OBVIOUS
  <2>2. /\ x.path = Front(t.load.path)
        /\ t.load.path = Append(x.path, Last(t.load.path))
    <3>1. IsRoute(t.load.path)
      BY <1>1, WanderingFacts DEF Wandering
    <3>2. x.path = Front(t.load.path)
      BY <1>2 DEF Id
    <3> QED
      BY <3>1, <3>2, TrailFront
  <2>3. Finds(t.load.path) \subseteq t.load.found
    BY <1>1, <1>2, <1>4 DEF CompleteInv, EchoesComplete
  <2>4. \A r \in Rest(x.path) \ left : Finds(Append(x.path, r)) \subseteq got
    <3> TAKE r \in Rest(x.path) \ left
    <3>1. CASE r = Last(t.load.path)
      BY <2>1, <2>2, <2>3, <3>1
    <3>2. CASE r # Last(t.load.path)
      <4>1. r \in Rest(x.path) \ searches[x].left
        BY <2>1, <3>2
      <4>2. Finds(Append(x.path, r)) \subseteq searches[x].got
        BY <1>4, <4>1 DEF CompleteInv, RipplesComplete
      <4> QED
        BY <2>1, <4>2
    <3> QED
      BY <3>1, <3>2
  <2>5. CASE left = {}
    <3>1. Close(x, got, lanes \ {t})
      BY <1>2, <1>4, <2>1, <2>5 DEF HandleEcho
    <3>2. \A r \in Rest(x.path) : Finds(Append(x.path, r)) \subseteq got
      BY <2>4, <2>5
    <3> QED
      BY <1>4, <3>1, <3>2, CloseComplete
  <2>6. CASE left # {}
    <3>1. /\ searches' = [searches EXCEPT ![x] = [left |-> left, got |-> got]]
          /\ lanes' = lanes \ {t}
          /\ UNCHANGED <<net, asking, wrangles>>
      BY <1>2, <1>4, <2>1, <2>6 DEF HandleEcho
    <3>2. SearchesShrink
      BY <3>1 DEF SearchesShrink
    <3>3. Fresh' /\ EchoesComplete' /\ StopComplete'
      BY <3>1, <3>2, FreshQuiet, EchoesSame, StopSame DEF CompleteInv
    <3>4. RipplesComplete'
      <4>1. SUFFICES ASSUME NEW y \in DOMAIN searches', NEW r \in Rest(y.path)' \ searches'[y].left
                     PROVE  Finds(Append(y.path, r))' \subseteq searches'[y].got
        BY DEF RipplesComplete
      <4>2. y \in DOMAIN searches /\ r \in Rest(y.path) \ searches'[y].left
        BY <3>1, SameFinds
      <4>3. Finds(Append(y.path, r)) \subseteq searches'[y].got
        <5>1. CASE y = x
          <6>1. searches'[y] = [left |-> left, got |-> got]
            BY <1>4, <3>1, <5>1
          <6> QED
            BY <2>4, <4>2, <5>1, <6>1
        <5>2. CASE y # x
          <6>1. searches'[y] = searches[y]
            BY <3>1, <4>2, <5>2
          <6> QED
            BY <4>2, <6>1 DEF CompleteInv, RipplesComplete
        <5> QED
          BY <5>1, <5>2
      <4> QED
        BY <3>1, <4>3, SameFinds
    <3> QED
      BY <3>3, <3>4 DEF CompleteInv
  <2> QED
    BY <2>5, <2>6
<1> QED
  BY <1>3, <1>4

LEMMA AttemptComplete == ASSUME TypeInv, CompleteInv, Attempt PROVE CompleteInv'
<1>1. net' = net /\ wrangles' = wrangles
  BY DEF Attempt
<1>2. CASE Rest(<<origin>>) = {}
  <2>1. UNCHANGED <<lanes, searches>>
    BY <1>2 DEF Attempt
  <2>2. SearchesSame /\ SearchesShrink
    BY <2>1 DEF SearchesSame, SearchesShrink
  <2>3. Fresh' /\ EchoesComplete' /\ RipplesComplete'
    BY <1>1, <2>1, <2>2, FreshQuiet, EchoesSame, RipplesSame DEF CompleteInv
  <2>4. Finds(<<origin>>) \subseteq {}
    BY <1>2, OriginTrail, AllFinds DEF TypeInv
  <2>5. StopComplete'
    BY <1>1, <2>4, SameFinds DEF StopComplete
  <2> QED
    BY <2>3, <2>5 DEF CompleteInv
<1>3. CASE Rest(<<origin>>) # {}
  <2>1. Open(attempt + 1, <<origin>>, lanes) /\ asking' = "waits"
    BY <1>3 DEF Attempt
  <2>2. PICK p : p = <<origin>> /\ IsTrail(p)
    BY OriginTrail DEF TypeInv
  <2>3. attempt \in Nat
    BY AttemptIsNat
  <2>4. \A u \in lanes : Wandering(u.load) => u.load.no # attempt + 1
    BY <2>3, WanderingFacts
  <2>5. \A x \in DOMAIN searches : x.no # attempt + 1
    <3>1. \A x \in DOMAIN searches : x.no \in 1 .. attempt
      BY DEF TypeInv, RipplesOK, RippleOK
    <3> QED
      BY <2>3, <3>1
  <2>6. IsNew(attempt + 1, p, lanes)
    BY <2>4, <2>5 DEF IsNew
  <2> QED
    BY <1>1, <2>1, <2>2, <2>6, OpenComplete
<1> QED
  BY <1>2, <1>3

\* A transport with a ping or a pong leaves a star.
LEMMA BounceComplete ==
    ASSUME CompleteInv, UNCHANGED <<net, searches, wrangles, asking>>, NEW s, NEW to, NEW l,
           ~Wandering(l), NEW rest, rest \subseteq lanes, Leave(s, {Transport(to, l)}, rest)
    PROVE  CompleteInv'
<1>1. ASSUME NEW u \in lanes', u \notin lanes PROVE ~Wandering(u.load)
  <2>1. PICK t : t = Transport(to, l)
    OBVIOUS
  <2>2. PICK y \in {t} : \E h \in NextHop(s, y.to) : u = [y EXCEPT !.at = h]
    BY <1>1, <2>1, LeaveFacts
  <2>3. PICK h : u = [t EXCEPT !.at = h]
    BY <2>2
  <2>4. u.load = l
    BY <2>1, <2>3 DEF Transport
  <2> QED
    BY <2>4
<1> QED
  BY <1>1, QuietComplete DEF SearchesSame

LEMMA BounceLoads == \A i : ~Wandering(Ping(i)) /\ ~Wandering(Pong(i))
  BY DEF Wandering, Ping, Pong

LEMMA CompleteStep == ASSUME TypeInv, CompleteInv, [FabricNext]_fabricVars PROVE CompleteInv'
<1>1. CASE UNCHANGED fabricVars
  BY <1>1, QuietComplete DEF fabricVars, SearchesSame
<1>2. ASSUME NEW t, HandlePong(t) \/ TooLate(t) PROVE CompleteInv'
  BY <1>2, QuietComplete DEF HandlePong, TooLate, SearchesSame
<1>3. ASSUME NEW t, HandlePing(t) PROVE CompleteInv'
  BY <1>3, BounceComplete, BounceLoads DEF HandlePing
<1>4. CASE Serve
  BY <1>2, <1>3, <1>4, ForwardComplete, HandleSearchComplete, HandleEchoComplete DEF Serve
<1>5. CASE Attempt
  BY <1>5, AttemptComplete
<1>6. CASE GiveUp
  BY <1>6, QuietComplete DEF GiveUp, SearchesSame
<1>7. ASSUME NEW x \in DOMAIN searches, RippleTimeout(x) PROVE CompleteInv'
  BY <1>7, CloseComplete DEF RippleTimeout
<1>8. ASSUME NEW s \in Members, NEW to \in Members, Bounce(s, to) PROVE CompleteInv'
  BY <1>8, BounceComplete, BounceLoads DEF Bounce
<1>9. ASSUME NEW i \in DOMAIN bounces, BounceTimeout(i) PROVE CompleteInv'
  BY <1>9, QuietComplete DEF BounceTimeout, SearchesSame
<1> QED
  BY <1>1, <1>4, <1>5, <1>6, <1>7, <1>8, <1>9 DEF FabricNext

LEMMA CompleteInvTheorem == FabricSpec => []CompleteInv
<1>1. FabricInit => CompleteInv
  BY DEF FabricInit, CompleteInv, Fresh, EchoesComplete, RipplesComplete, StopComplete
<1> QED
  BY <1>1, CompleteStep, TypeInvTheorem, PTL DEF FabricSpec

LEMMA LeastNat ==
    ASSUME NEW T \in SUBSET Nat, T # {}
    PROVE  \E m \in T : \A k \in T : ~(k < m)
<1>1. PICK R : R = {p \in Nat \X Nat : p[1] < p[2]}
  OBVIOUS
<1>2. IsWellFoundedOn(R, Nat)
  BY <1>1, NatLessThanWellFounded DEF OpToRel
<1>3. \E m \in T : \A k \in T : ~(<<k, m>> \in R)
  BY <1>2, WFMin
<1> QED
  BY <1>1, <1>3

-----------------------------------------------------------------------------
(* The rounds of the reference, and the trails.                            *)

\* The stars at the end of the trails of at most n + 1 stars.
TrailEnds(n) == {s \in Members : \E p : IsTrail(p) /\ Len(p) <= n + 1 /\ Last(p) = s}

\* Where a trail comes by, a shorter one ends.
LEMMA TrailPrefix ==
    ASSUME NEW p, IsTrail(p), NEW i \in 1 .. Len(p)
    PROVE  \E q : IsTrail(q) /\ Len(q) <= Len(p) /\ Last(q) = p[i]
<1>1. /\ p \in Seq(Members) /\ Len(p) \in Nat /\ DOMAIN p = 1 .. Len(p)
      /\ i \in Nat /\ i >= 1 /\ i <= Len(p)
  BY DEF IsTrail
<1>2. \A j \in 1 .. i : p[j] \in Members
  BY <1>1, ElementOfSeq
<1>3. PICK q : q = [j \in 1 .. i |-> p[j]]
  OBVIOUS
<1>4. q \in Seq(Members)
  <2>1. q \in [1 .. i -> Members]
    BY <1>2, <1>3
  <2> QED
    BY <1>1, <2>1, SeqDef
<1>5. DOMAIN q = 1 .. i /\ \A j \in 1 .. i : q[j] = p[j]
  BY <1>3
<1>6. Len(q) = i
  BY <1>1, <1>4, <1>5, LenProperties
<1>7. Simple(q)
  <2>1. \A j, k \in DOMAIN q : q[j] = q[k] => j = k
    BY <1>1, <1>5 DEF IsTrail, Simple
  <2>2. \A j \in 1 .. Len(q) - 1 : q[j + 1] \in Adjacents(q[j])
    <3> TAKE j \in 1 .. Len(q) - 1
    <3>1. j \in 1 .. Len(p) - 1 /\ j \in 1 .. i /\ j + 1 \in 1 .. i
      BY <1>1, <1>6
    <3>2. p[j + 1] \in Adjacents(p[j])
      BY <3>1 DEF IsTrail, Simple
    <3> QED
      BY <1>5, <3>1, <3>2
  <2> QED
    BY <2>1, <2>2 DEF Simple
<1>8. \A j \in 2 .. Len(q) - 1 : IsForwarder(q[j])
  <2> TAKE j \in 2 .. Len(q) - 1
  <2>1. j \in 2 .. Len(p) - 1 /\ j \in 1 .. i
    BY <1>1, <1>6
  <2> QED
    BY <1>5, <2>1 DEF IsTrail
<1>9. IsTrail(q)
  BY <1>1, <1>4, <1>5, <1>6, <1>7, <1>8 DEF IsTrail
<1>10. Last(q) = p[i]
  BY <1>1, <1>5, <1>6 DEF Last
<1> QED
  BY <1>1, <1>6, <1>9, <1>10

LEMMA FirstTrail ==
    ASSUME net \in Nets
    PROVE  TrailEnds(0) = {origin}
<1>1. origin \in TrailEnds(0)
  <2>1. PICK p : p = <<origin>> /\ IsTrail(p) /\ Len(p) = 1
    BY OriginTrail
  <2>2. Last(p) = origin /\ origin \in Members /\ Len(p) <= 0 + 1
    BY <2>1, NetFacts DEF Last
  <2> QED
    BY <2>1, <2>2 DEF TrailEnds
<1>2. ASSUME NEW s \in TrailEnds(0) PROVE s = origin
  <2>1. PICK p : IsTrail(p) /\ Len(p) <= 1 /\ Last(p) = s
    BY DEF TrailEnds
  <2>2. Len(p) \in Nat /\ Len(p) >= 1 /\ p[1] = origin
    BY <2>1 DEF IsTrail
  <2>3. Len(p) = 1
    <3>1. \A k \in Nat : k >= 1 /\ k <= 1 => k = 1
      OBVIOUS
    <3> QED
      BY <2>1, <2>2, <3>1
  <2> QED
    BY <2>1, <2>2, <2>3 DEF Last
<1> QED
  BY <1>1, <1>2

Onward(S) == UNION {Adjacents(s) : s \in {t \in S : t = origin \/ IsForwarder(t)}}

LEMMA NextTrail ==
    ASSUME net \in Nets, NEW n \in Nat
    PROVE  TrailEnds(n + 1) = TrailEnds(n) \union Onward(TrailEnds(n))
<1>1. ASSUME NEW s \in TrailEnds(n + 1) PROVE s \in TrailEnds(n) \union Onward(TrailEnds(n))
  <2>1. PICK p : IsTrail(p) /\ Len(p) <= n + 1 + 1 /\ Last(p) = s
    BY DEF TrailEnds
  <2>2. Len(p) \in Nat /\ Len(p) >= 1 /\ p[1] = origin /\ s \in Members
    BY <2>1 DEF IsTrail, TrailEnds
  <2>3. CASE Len(p) <= n + 1
    BY <2>1, <2>2, <2>3 DEF TrailEnds
  <2>4. CASE ~(Len(p) <= n + 1)
    <3>1. Len(p) >= 2 /\ Len(p) = n + 2
      BY <2>1, <2>2, <2>4
    <3>2. IsRoute(p)
      BY <2>1, <3>1 DEF IsRoute
    <3>3. PICK f : f = Front(p)
      OBVIOUS
    <3>4. /\ IsTrail(f) /\ (Len(f) >= 2 => IsForwarder(Last(f))) /\ s \in Rest(f)
          /\ Len(f) = Len(p) - 1
      BY <2>1, <3>2, <3>3, TrailFront
    <3>5. Len(f) <= n + 1 /\ Len(f) \in Nat /\ Len(f) >= 1
      BY <2>2, <3>1, <3>4
    <3>6. Last(f) \in Members /\ Last(f) = f[Len(f)] /\ f[1] = origin
      BY <3>4, <3>5, LastFacts DEF IsTrail
    <3>7. Last(f) \in TrailEnds(n)
      BY <3>4, <3>5, <3>6 DEF TrailEnds
    <3>8. Last(f) = origin \/ IsForwarder(Last(f))
      <4>1. CASE Len(f) >= 2
        BY <3>4, <4>1
      <4>2. CASE ~(Len(f) >= 2)
        <5>1. Len(f) = 1
          BY <3>4, <4>2, LongTrail DEF IsRoute
        <5> QED
          BY <3>6, <5>1
      <4> QED
        BY <4>1, <4>2
    <3>9. s \in Adjacents(Last(f))
      BY <3>4 DEF Rest
    <3> QED
      BY <3>7, <3>8, <3>9 DEF Onward
  <2> QED
    BY <2>3, <2>4
<1>2. ASSUME NEW s \in TrailEnds(n) PROVE s \in TrailEnds(n + 1)
  <2>1. PICK p : IsTrail(p) /\ Len(p) <= n + 1 /\ Last(p) = s
    BY DEF TrailEnds
  <2>2. Len(p) \in Nat
    BY <2>1 DEF IsTrail
  <2>3. Len(p) <= n + 1 + 1
    BY <2>1, <2>2
  <2> QED
    BY <2>1, <2>3 DEF TrailEnds
<1>3. ASSUME NEW a \in Onward(TrailEnds(n)) PROVE a \in TrailEnds(n + 1)
  <2>1. PICK s \in TrailEnds(n) : (s = origin \/ IsForwarder(s)) /\ a \in Adjacents(s)
    BY DEF Onward
  <2>2. PICK p : IsTrail(p) /\ Len(p) <= n + 1 /\ Last(p) = s
    BY <2>1 DEF TrailEnds
  <2>3. /\ p \in Seq(Members) /\ Len(p) \in Nat /\ Len(p) >= 1 /\ p[1] = origin
        /\ DOMAIN p = 1 .. Len(p) /\ a \in Members
    BY <2>1, <2>2 DEF IsTrail, Adjacents
  <2>4. CASE a \in ToSet(p)
    <3>1. PICK i \in 1 .. Len(p) : p[i] = a
      BY <2>3, <2>4 DEF ToSet
    <3>2. PICK q : IsTrail(q) /\ Len(q) <= Len(p) /\ Last(q) = a
      BY <2>2, <3>1, TrailPrefix
    <3>3. Len(q) \in Nat
      BY <3>2 DEF IsTrail
    <3>4. Len(q) <= n + 1 + 1
      BY <2>2, <2>3, <3>2, <3>3
    <3> QED
      BY <2>3, <3>2, <3>4 DEF TrailEnds
  <2>5. CASE a \notin ToSet(p)
    <3>1. a \in Rest(p)
      BY <2>1, <2>2, <2>5 DEF Rest
    <3>2. Len(p) >= 2 => IsForwarder(Last(p))
      <4>1. CASE IsForwarder(s)
        BY <2>2, <4>1
      <4>2. CASE s = origin
        <5>1. p[Len(p)] = p[1] /\ Len(p) \in DOMAIN p /\ 1 \in DOMAIN p
          BY <2>2, <2>3, <4>2 DEF Last
        <5>2. Len(p) = 1
          BY <2>2, <5>1 DEF IsTrail, Simple
        <5> QED
          BY <5>2
      <4> QED
        BY <2>1, <4>1, <4>2
    <3>3. PICK q : q = Append(p, a)
      OBVIOUS
    <3>4. IsRoute(q) /\ Len(q) = Len(p) + 1 /\ Last(q) = a
      BY <2>2, <3>1, <3>2, <3>3, TrailAppend
    <3>5. IsTrail(q) /\ Len(q) <= n + 1 + 1
      BY <2>2, <2>3, <3>4 DEF IsRoute
    <3> QED
      BY <2>3, <3>4, <3>5 DEF TrailEnds
  <2> QED
    BY <2>4, <2>5
<1> QED
  BY <1>1, <1>2, <1>3

\* A function that goes on like the rounds is the rounds.
IsRounds(f) ==
    f = [n \in Nat |-> IF n = 0 THEN {origin} ELSE f[n - 1] \union Onward(f[n - 1])]

LEMMA TrailRounds == ASSUME net \in Nets PROVE IsRounds([n \in Nat |-> TrailEnds(n)])
<1>1. PICK f : f = [n \in Nat |-> TrailEnds(n)]
  OBVIOUS
<1>2. ASSUME NEW n \in Nat
      PROVE  f[n] = IF n = 0 THEN {origin} ELSE f[n - 1] \union Onward(f[n - 1])
  <2>1. CASE n = 0
    BY <1>1, <2>1, FirstTrail
  <2>2. CASE n # 0
    <3>1. PICK m \in Nat : n = m + 1 /\ n - 1 = m
      <4>1. n - 1 \in Nat /\ n = (n - 1) + 1
        BY <2>2
      <4> QED
        BY <4>1
    <3>2. f[n] = TrailEnds(m + 1) /\ f[n - 1] = TrailEnds(m)
      BY <1>1, <3>1
    <3> QED
      BY <2>2, <3>1, <3>2, NextTrail
  <2> QED
    BY <2>1, <2>2
<1>3. f = [n \in Nat |-> IF n = 0 THEN {origin} ELSE f[n - 1] \union Onward(f[n - 1])]
  BY <1>1, <1>2
<1> QED
  BY <1>1, <1>3 DEF IsRounds

LEMMA WithinRounds == ASSUME net \in Nets PROVE IsRounds(Within)
<1>1. Within = CHOOSE f : IsRounds(f)
  BY DEF Within, IsRounds, Onward
<1> QED
  BY <1>1, TrailRounds

LEMMA WithinIsTrailEnds == ASSUME net \in Nets, NEW n \in Nat PROVE Within[n] = TrailEnds(n)
<1>1. SUFFICES ASSUME NEW k \in Nat, Within[k] # TrailEnds(k) PROVE FALSE
  OBVIOUS
<1>2. PICK D : D = {m \in Nat : Within[m] # TrailEnds(m)}
  OBVIOUS
<1>3. PICK m \in D : \A j \in D : ~(j < m)
  BY <1>1, <1>2, LeastNat
<1>4. m \in Nat /\ Within[m] # TrailEnds(m)
  BY <1>2
<1>5. \A j \in Nat : Within[j] = IF j = 0 THEN {origin} ELSE Within[j - 1] \union Onward(Within[j - 1])
  BY WithinRounds DEF IsRounds
<1>6. CASE m = 0
  BY <1>4, <1>5, <1>6, FirstTrail
<1>7. CASE m # 0
  <2>1. PICK k0 \in Nat : m = k0 + 1 /\ m - 1 = k0
    <3>1. m - 1 \in Nat /\ m = (m - 1) + 1
      BY <1>4, <1>7
    <3> QED
      BY <3>1
  <2>2. Within[k0] = TrailEnds(k0)
    <3>1. k0 < m
      BY <2>1
    <3> QED
      BY <1>2, <1>3, <3>1
  <2>3. Within[m] = Within[k0] \union Onward(Within[k0])
    BY <1>4, <1>5, <1>7, <2>1
  <2>4. TrailEnds(m) = TrailEnds(k0) \union Onward(TrailEnds(k0))
    BY <2>1, NextTrail
  <2> QED
    BY <1>4, <2>2, <2>3, <2>4
<1> QED
  BY <1>6, <1>7

\* A trail comes by a star once at most.
LEMMA TrailLength ==
    ASSUME net \in Nets, NEW p, IsTrail(p)
    PROVE  Cardinality(Members) \in Nat /\ Len(p) <= Cardinality(Members)
<1>1. p \in Seq(Members) /\ Len(p) \in Nat
  BY DEF IsTrail
<1>2. p \in [1 .. Len(p) -> Members] /\ DOMAIN p = 1 .. Len(p)
  BY <1>1, LenProperties
<1>3. IsFiniteSet(Members)
  BY NetFacts
<1>4. Cardinality(Members) \in Nat
  BY <1>3, FS_CardinalityType
<1>5. IsFiniteSet(1 .. Len(p)) /\ Cardinality(1 .. Len(p)) = Len(p)
  <2>1. Cardinality(1 .. Len(p)) = IF 1 > Len(p) THEN 0 ELSE Len(p) - 1 + 1
    BY <1>1, FS_Interval
  <2>2. \A n \in Nat : (IF 1 > n THEN 0 ELSE n - 1 + 1) = n
    OBVIOUS
  <2>3. IsFiniteSet(1 .. Len(p))
    BY <1>1, FS_Interval
  <2> QED
    BY <1>1, <2>1, <2>2, <2>3
<1>6. \A i, j \in 1 .. Len(p) : p[i] = p[j] => i = j
  BY <1>2 DEF IsTrail, Simple
<1>7. SUFFICES ASSUME ~(Len(p) <= Cardinality(Members)) PROVE FALSE
  BY <1>4
<1>8. Cardinality(1 .. Len(p)) > Cardinality(Members)
  BY <1>1, <1>4, <1>5, <1>7
<1>9. \E i, j \in 1 .. Len(p) : i # j /\ p[i] = p[j]
  BY <1>2, <1>3, <1>5, <1>8, FS_PigeonHole
<1> QED
  BY <1>6, <1>9

LEMMA FindOfOrigin == ASSUME NEW q, IsFind(q) PROVE q \in Finds(<<origin>>)
<1>1. PICK o : o = <<origin>>
  OBVIOUS
<1>2. Len(o) = 1 /\ o[1] = origin
  BY <1>1
<1>3. q \in Seq(Members) /\ Len(q) >= 1 /\ q[1] = origin
  BY DEF IsFind, IsRoute, IsTrail
<1>4. Extends(q, o)
  BY <1>2, <1>3 DEF Extends
<1> QED
  BY <1>1, <1>3, <1>4 DEF Finds

\* The searches of the paths find what the rounds reach.
LEMMA FindsAreReachable ==
    ASSUME net \in Nets
    PROVE  Reachable = {Last(q) : q \in Finds(<<origin>>)}
<1>1. PICK N : N = Cardinality(Members)
  OBVIOUS
<1>2. N \in Nat /\ Within[N] = TrailEnds(N)
  BY <1>1, NetFacts, FS_CardinalityType, WithinIsTrailEnds
<1>3. \A q : IsFind(q) => q \in Finds(<<origin>>)
  BY FindOfOrigin
<1>4. ASSUME NEW s \in Reachable PROVE \E q \in Finds(<<origin>>) : s = Last(q)
  <2>1. s \in TrailEnds(N) /\ s # origin /\ CanBeWrangled(s)
    BY <1>1, <1>2 DEF Reachable
  <2>2. PICK p : IsTrail(p) /\ Last(p) = s
    BY <2>1 DEF TrailEnds
  <2>3. p \in Seq(Members) /\ p[1] = origin
    BY <2>2 DEF IsTrail
  <2>4. Len(p) # 1
    BY <2>1, <2>2, <2>3 DEF Last
  <2>5. IsRoute(p)
    BY <2>2, <2>4, LongTrail
  <2>6. p \in Finds(<<origin>>)
    BY <1>3, <2>1, <2>2, <2>5 DEF IsFind
  <2> QED
    BY <2>2, <2>6
<1>5. ASSUME NEW q \in Finds(<<origin>>) PROVE Last(q) \in Reachable
  <2>1. IsTrail(q) /\ Len(q) >= 2 /\ CanBeWrangled(Last(q))
    BY DEF Finds, IsFind, IsRoute
  <2>2. q \in Seq(Members) /\ Len(q) \in Nat /\ q[1] = origin /\ DOMAIN q = 1 .. Len(q)
    BY <2>1 DEF IsTrail
  <2>3. Last(q) = q[Len(q)] /\ Last(q) \in Members
    BY <2>1, <2>2, LastFacts
  <2>4. Last(q) # origin
    <3>1. SUFFICES ASSUME q[Len(q)] = q[1] PROVE FALSE
      BY <2>2, <2>3
    <3>2. 1 \in DOMAIN q /\ Len(q) \in DOMAIN q /\ Len(q) # 1
      BY <2>1, <2>2
    <3> QED
      BY <2>1, <3>1, <3>2 DEF IsTrail, Simple
  <2>5. Len(q) <= N + 1
    BY <1>1, <1>2, <2>1, <2>2, TrailLength
  <2>6. Last(q) \in TrailEnds(N)
    BY <2>1, <2>3, <2>5 DEF TrailEnds
  <2> QED
    BY <1>1, <1>2, <2>1, <2>4, <2>6 DEF Reachable
<1> QED
  BY <1>4, <1>5

\* However the stars are linked and whoever is deaf, whatever searches were given up and
\* are still on their way: when start_wrangling stops, the paths that the searches took
\* (star.rs wrangle, driver/star.rs handle_search_request) have found exactly the stars
\* that can be reached over forwarders.
THEOREM FoundAllTheorem == FabricSpec => []StoppedHasFoundAll
<1>1. TypeInv /\ CompleteInv => StoppedHasFoundAll
  <2>1. SUFFICES ASSUME TypeInv, CompleteInv, asking = "stopped"
                 PROVE  {Last(w.path) : w \in wrangles} = Reachable
    BY DEF StoppedHasFoundAll
  <2>2. Reachable = {Last(q) : q \in Finds(<<origin>>)}
    BY <2>1, FindsAreReachable DEF TypeInv
  <2>3. \A q \in Finds(<<origin>>) : \E w \in wrangles : w.path = q
    BY <2>1 DEF CompleteInv, StopComplete
  <2>4. ASSUME NEW w \in wrangles PROVE Last(w.path) \in Reachable
    <3>1. IsFind(w.path)
      BY <2>1 DEF TypeInv, FoundOK
    <3>2. w.path \in Finds(<<origin>>)
      BY <3>1, FindOfOrigin
    <3> QED
      BY <2>2, <3>2
  <2>5. ASSUME NEW s \in Reachable PROVE \E w \in wrangles : s = Last(w.path)
    <3>1. PICK q \in Finds(<<origin>>) : s = Last(q)
      BY <2>2
    <3> QED
      BY <2>3, <3>1
  <2> QED
    BY <2>4, <2>5
<1> QED
  BY <1>1, TypeInvTheorem, CompleteInvTheorem, PTL
=============================================================================
