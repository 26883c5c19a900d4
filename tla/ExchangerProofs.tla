--------------------------- MODULE ExchangerProofs ---------------------------
(***************************************************************************)
(* Proofs about the Exchanger for any requests, replies, capacities and    *)
(* shards.  IInv is inductive; the safety properties are its conjuncts.    *)
(***************************************************************************)
EXTENDS Exchanger, FiniteSetTheorems, TLAPS

\* The parts of the kinds of answers that the proofs tell apart.
LEMMA AnswerKinds ==
    /\ NoAnswer.agg = "none" /\ NoAnswer.status = "none" /\ NoAnswer.of = {}
    /\ \A p : SingleAnswer(p).agg = "Single" /\ SingleAnswer(p).status = "ok"
              /\ SingleAnswer(p).of = {p}
    /\ SingleTimeout.agg = "Single" /\ SingleTimeout.status = "408"
    /\ SingleTimeout.of = {}
    /\ \A S : MultiAnswer(S).agg = "Multi" /\ MultiAnswer(S).status = "ok"
              /\ MultiAnswer(S).of = S
    /\ MultiTimeout.agg = "Multi" /\ MultiTimeout.status = "408"
    /\ MultiTimeout.of = {}
  BY DEF NoAnswer, SingleAnswer, SingleTimeout, MultiAnswer, MultiTimeout

\* A request waits exactly when its answer is of no kind.
LEMMA NoneIsNoAnswer ==
    ASSUME TypeOK, NEW r \in Requests
    PROVE  answer[r].agg = "none" <=> answer[r] = NoAnswer
  BY AnswerKinds DEF TypeOK, Acceptable

\* The sets of replies are finite, so that Cardinality counts them.
LEMMA AtFinite ==
    ASSUME NEW r, NEW s
    PROVE  IsFiniteSet(At(r, s)) /\ Cardinality(At(r, s)) \in Nat
<1>1. At(r, s) \subseteq Replies
  BY DEF At, RepliesTo
<1> QED
  BY <1>1, ExchangerAssumption, FS_Subset, FS_CardinalityType

\* The capacity part of TypeOK, for a step that puts nothing in a channel.
LEMMA RoomKept ==
    ASSUME TypeOK, \A r \in Requests : At(r, "queued")' \subseteq At(r, "queued")
    PROVE  \A r \in Requests : Cardinality(At(r, "queued"))' <= Cap[r]
<1> SUFFICES ASSUME NEW r \in Requests
             PROVE  Cardinality(At(r, "queued"))' <= Cap[r]
  OBVIOUS
<1>1. Cardinality(At(r, "queued"))' <= Cardinality(At(r, "queued"))
  BY AtFinite, FS_Subset
<1>2. Cardinality(At(r, "queued"))' \in Nat
  <2>1. At(r, "queued")' \subseteq Replies
    BY DEF At, RepliesTo
  <2> QED
    BY <2>1, ExchangerAssumption, FS_Subset, FS_CardinalityType
<1> QED
  BY <1>1, <1>2, AtFinite, ExchangerAssumption DEF TypeOK

THEOREM InitIInv == Init => IInv
<1> SUFFICES ASSUME Init PROVE IInv
  OBVIOUS
<1> USE ExchangerAssumption
<1>1. \A r \in Requests : At(r, "queued") = {}
  BY DEF Init, At, RepliesTo
<1>2. TypeOK
  <2>1. \A r \in Requests : Cardinality(At(r, "queued")) <= Cap[r]
    BY <1>1, FS_EmptySet, AtFinite
  <2> QED
    BY <2>1 DEF Init, TypeOK, Stages
<1>3. WaitingIffInSingles
  BY DEF Init, WaitingIffInSingles
<1>4. TasksInStep
  BY <1>1, AnswerKinds DEF Init, TasksInStep
<1>5. AnswersFit /\ RefusedOnlyIfAnswered /\ AcceptedIsAnswered
  BY AnswerKinds DEF Init, AnswersFit, Fits, RefusedOnlyIfAnswered, AcceptedIsAnswered
<1> QED
  BY <1>2, <1>3, <1>4, <1>5 DEF IInv

\* Registering a request.
LEMMA ExchangeKeepsIInv ==
    ASSUME IInv, NEW r \in Requests, Exchange(r)
    PROVE  IInv'
<1>1. TypeOK'
  <2>1. \A q \in Requests : Cardinality(At(q, "queued"))' <= Cap[q]
    <3>1. \A q \in Requests : At(q, "queued")' \subseteq At(q, "queued")
      BY DEF Exchange, At
    <3> QED
      BY <3>1, RoomKept DEF IInv
  <2> QED
    BY <2>1 DEF IInv, TypeOK, Exchange
<1>2. WaitingIffInSingles'
  BY DEF IInv, TasksInStep, WaitingIffInSingles, Exchange
<1>3. TasksInStep'
  BY DEF IInv, TypeOK, TasksInStep, Exchange, At
<1>4. AnswersFit'
  BY DEF IInv, TasksInStep, AnswersFit, Fits, Exchange
<1>5. RefusedOnlyIfAnswered'
  BY DEF IInv, RefusedOnlyIfAnswered, Exchange
<1>6. AcceptedIsAnswered'
  BY DEF IInv, AcceptedIsAnswered, Exchange
<1> QED
  BY <1>1, <1>2, <1>3, <1>4, <1>5, <1>6 DEF IInv

\* A reply is looked up in multis.
LEMMA LookupKeepsIInv ==
    ASSUME IInv, NEW p \in Replies, Lookup(p)
    PROVE  IInv'
<1>1. TypeOK'
  <2>1. \A q \in Requests : Cardinality(At(q, "queued"))' <= Cap[q]
    <3>1. \A q \in Requests : At(q, "queued")' \subseteq At(q, "queued")
      BY DEF Lookup, At
    <3> QED
      BY <3>1, RoomKept DEF IInv
  <2> QED
    BY <2>1 DEF IInv, TypeOK, WaitingIffInSingles, Stages, Lookup
<1>2. WaitingIffInSingles'
  BY DEF IInv, WaitingIffInSingles, Lookup
<1>3. TasksInStep'
  BY DEF IInv, TypeOK, TasksInStep, Lookup, At
<1>4. AnswersFit'
  BY DEF IInv, AnswersFit, Fits, Lookup
<1>5. RefusedOnlyIfAnswered'
  BY DEF IInv, RefusedOnlyIfAnswered, Lookup
<1>6. AcceptedIsAnswered'
  BY DEF IInv, TasksInStep, AcceptedIsAnswered, Lookup, RepliesTo
<1> QED
  BY <1>1, <1>2, <1>3, <1>4, <1>5, <1>6 DEF IInv

\* It is put in the channel of a collector that has room, or lost.
LEMMA SendKeepsIInv ==
    ASSUME IInv, NEW p \in Replies, SendToCollector(p)
    PROVE  IInv'
<1>1. TypeOK'
  <2>1. \A q \in Requests : Cardinality(At(q, "queued"))' <= Cap[q]
    <3>1. CASE stage' = [stage EXCEPT ![p] = "queued"]
                /\ Cardinality(At(ReflectionOf[p], "queued")) < Cap[ReflectionOf[p]]
      <4> SUFFICES ASSUME NEW q \in Requests
                   PROVE  Cardinality(At(q, "queued"))' <= Cap[q]
        OBVIOUS
      <4>1. CASE q /= ReflectionOf[p]
        <5>1. At(q, "queued")' = At(q, "queued")
          BY <3>1, <4>1 DEF At, RepliesTo
        <5> QED
          BY <5>1 DEF IInv, TypeOK
      <4>2. CASE q = ReflectionOf[p]
        <5>1. At(q, "queued")' = At(q, "queued") \union {p}
          BY <3>1, <4>2 DEF IInv, TypeOK, At, RepliesTo
        <5>2. IsFiniteSet(At(q, "queued")) /\ Cardinality(At(q, "queued")) \in Nat
          BY AtFinite
        <5>3. \/ Cardinality(At(q, "queued") \union {p}) = Cardinality(At(q, "queued"))
              \/ Cardinality(At(q, "queued") \union {p}) = Cardinality(At(q, "queued")) + 1
          BY <5>2, FS_AddElement
        <5>4. Cardinality(At(q, "queued")) < Cap[q] /\ Cap[q] \in Nat
          BY <3>1, <4>2, ExchangerAssumption
        <5>5. Cardinality(At(q, "queued") \union {p}) <= Cap[q]
          BY <5>2, <5>3, <5>4
        <5> QED
          BY <5>1, <5>5
      <4> QED
        BY <4>1, <4>2
    <3>2. CASE stage' = [stage EXCEPT ![p] = "dropped"]
      <4>1. \A q \in Requests : At(q, "queued")' \subseteq At(q, "queued")
        BY <3>2 DEF At
      <4> QED
        BY <4>1, RoomKept DEF IInv
    <3> QED
      BY <3>1, <3>2 DEF SendToCollector
  <2> QED
    BY <2>1 DEF IInv, TypeOK, Stages, SendToCollector
<1>2. WaitingIffInSingles'
  BY DEF IInv, WaitingIffInSingles, SendToCollector
<1>3. TasksInStep'
  BY DEF IInv, TypeOK, TasksInStep, SendToCollector, At, RepliesTo
<1>4. AnswersFit'
  BY DEF IInv, AnswersFit, Fits, SendToCollector
<1>5. RefusedOnlyIfAnswered'
  BY DEF IInv, TypeOK, RefusedOnlyIfAnswered, SendToCollector
<1>6. AcceptedIsAnswered'
  BY DEF IInv, TypeOK, AcceptedIsAnswered, SendToCollector, RepliesTo
<1> QED
  BY <1>1, <1>2, <1>3, <1>4, <1>5, <1>6 DEF IInv

\* It takes the sender out of singles, or is refused.
LEMMA ClaimKeepsIInv ==
    ASSUME IInv, NEW p \in Replies, ClaimSingle(p)
    PROVE  IInv'
<1>1. TypeOK'
  <2>1. \A q \in Requests : Cardinality(At(q, "queued"))' <= Cap[q]
    <3>1. \A q \in Requests : At(q, "queued")' \subseteq At(q, "queued")
      BY DEF IInv, TypeOK, ClaimSingle, At, RepliesTo
    <3> QED
      BY <3>1, RoomKept DEF IInv
  <2> QED
    BY <2>1 DEF IInv, TypeOK, Acceptable, Stages, ClaimSingle, Give, RepliesTo
<1>2. WaitingIffInSingles'
  BY AnswerKinds DEF IInv, TypeOK, WaitingIffInSingles, ClaimSingle, Give
<1>3. TasksInStep'
  BY AnswerKinds
  DEF IInv, TypeOK, Stages, WaitingIffInSingles, TasksInStep, ClaimSingle, Give, At,
      RepliesTo
<1>4. AnswersFit'
  BY AnswerKinds
  DEF IInv, TypeOK, TasksInStep, AnswersFit, Fits, ClaimSingle, Give, RepliesTo
<1>5. RefusedOnlyIfAnswered'
  BY DEF IInv, TypeOK, WaitingIffInSingles, RefusedOnlyIfAnswered, ClaimSingle, Give
<1>6. AcceptedIsAnswered'
  BY AnswerKinds DEF IInv, TypeOK, AcceptedIsAnswered, ClaimSingle, Give, RepliesTo
<1> QED
  BY <1>1, <1>2, <1>3, <1>4, <1>5, <1>6 DEF IInv

\* The timer of a request for one reply.
LEMMA TimeoutSingleKeepsIInv ==
    ASSUME IInv, NEW r \in Requests, TimeoutSingle(r)
    PROVE  IInv'
<1>1. TypeOK'
  <2>1. \A q \in Requests : Cardinality(At(q, "queued"))' <= Cap[q]
    <3>1. \A q \in Requests : At(q, "queued")' \subseteq At(q, "queued")
      BY DEF TimeoutSingle, At
    <3> QED
      BY <3>1, RoomKept DEF IInv
  <2> QED
    BY <2>1 DEF IInv, TypeOK, Acceptable, TimeoutSingle, Give
<1>2. WaitingIffInSingles'
  BY AnswerKinds DEF IInv, TypeOK, WaitingIffInSingles, TimeoutSingle, Give
<1>3. TasksInStep'
  BY AnswerKinds DEF IInv, TypeOK, TasksInStep, TimeoutSingle, Give, At
<1>4. AnswersFit'
  BY AnswerKinds DEF IInv, TypeOK, AnswersFit, Fits, TimeoutSingle, Give
<1>5. RefusedOnlyIfAnswered'
  BY AnswerKinds DEF IInv, TypeOK, RefusedOnlyIfAnswered, TimeoutSingle, Give
<1>6. AcceptedIsAnswered'
  BY AnswerKinds DEF IInv, TypeOK, AcceptedIsAnswered, TimeoutSingle, Give
<1> QED
  BY <1>1, <1>2, <1>3, <1>4, <1>5, <1>6 DEF IInv

\* The timer of a request for many.
LEMMA TimeoutMultiKeepsIInv ==
    ASSUME IInv, NEW r \in Requests, TimeoutMulti(r)
    PROVE  IInv'
<1>1. TypeOK'
  <2>1. \A q \in Requests : Cardinality(At(q, "queued"))' <= Cap[q]
    <3>1. \A q \in Requests : At(q, "queued")' \subseteq At(q, "queued")
      BY DEF TimeoutMulti, At
    <3> QED
      BY <3>1, RoomKept DEF IInv
  <2> QED
    BY <2>1 DEF IInv, TypeOK, TimeoutMulti
<1>2. WaitingIffInSingles'
  BY DEF IInv, WaitingIffInSingles, TimeoutMulti
<1>3. TasksInStep'
  BY DEF IInv, TypeOK, TasksInStep, TimeoutMulti, ShardFree, At
<1>4. AnswersFit'
  BY DEF IInv, AnswersFit, Fits, TimeoutMulti
<1>5. RefusedOnlyIfAnswered'
  BY DEF IInv, RefusedOnlyIfAnswered, TimeoutMulti
<1>6. AcceptedIsAnswered'
  BY DEF IInv, AcceptedIsAnswered, TimeoutMulti
<1> QED
  BY <1>1, <1>2, <1>3, <1>4, <1>5, <1>6 DEF IInv

\* The collector takes a reply and may thereby be complete.
LEMMA CollectKeepsIInv ==
    ASSUME IInv, NEW r \in Requests, Collect(r)
    PROVE  IInv'
<1>1. TypeOK'
  <2>1. \A q \in Requests : Cardinality(At(q, "queued"))' <= Cap[q]
    <3>1. \A q \in Requests : At(q, "queued")' \subseteq At(q, "queued")
      BY DEF IInv, TypeOK, Collect, At, RepliesTo
    <3> QED
      BY <3>1, RoomKept DEF IInv
  <2>2. \A q \in Requests : answer'[q] \in Acceptable[q] \union {NoAnswer}
    <3>1. \A p \in At(r, "queued") : At(r, "taken") \union {p} \in SUBSET RepliesTo(r)
      BY DEF At
    <3>2. CASE answer' = answer
      BY <3>2 DEF IInv, TypeOK
    <3>3. ASSUME NEW S \in SUBSET RepliesTo(r), Multi(r), answer' = [answer EXCEPT ![r] = MultiAnswer(S)]
          PROVE  \A q \in Requests : answer'[q] \in Acceptable[q] \union {NoAnswer}
      BY <3>3 DEF IInv, TypeOK, Acceptable
    <3>4. Multi(r)
      BY DEF IInv, TasksInStep, Collect
    <3> QED
      BY <3>1, <3>2, <3>3, <3>4 DEF Collect, Give
  <2> QED
    BY <2>1, <2>2 DEF IInv, TypeOK, Stages, Collect, Give, At
<1>2. WaitingIffInSingles'
  BY AnswerKinds DEF IInv, TypeOK, WaitingIffInSingles, Collect, Give
<1>3. TasksInStep'
  BY AnswerKinds
  DEF IInv, TypeOK, WaitingIffInSingles, TasksInStep, Collect, Give, Full, At,
      RepliesTo
<1>4. AnswersFit'
  BY AnswerKinds DEF IInv, TypeOK, AnswersFit, Fits, Collect, Give, Full, Multi, At
<1>5. RefusedOnlyIfAnswered'
  BY AnswerKinds DEF IInv, TypeOK, RefusedOnlyIfAnswered, Collect, Give
<1>6. AcceptedIsAnswered'
  BY DEF IInv, TypeOK, AcceptedIsAnswered, Collect, Give, Full, At, RepliesTo
<1> QED
  BY <1>1, <1>2, <1>3, <1>4, <1>5, <1>6 DEF IInv

\* The collector finds its channel closed.
LEMMA ClosedKeepsIInv ==
    ASSUME IInv, NEW r \in Requests, CollectorClosed(r)
    PROVE  IInv'
<1>1. TypeOK'
  <2>1. \A q \in Requests : Cardinality(At(q, "queued"))' <= Cap[q]
    <3>1. \A q \in Requests : At(q, "queued")' \subseteq At(q, "queued")
      BY DEF CollectorClosed, At, RepliesTo
    <3> QED
      BY <3>1, RoomKept DEF IInv
  <2>2. \A q \in Requests : answer'[q] \in Acceptable[q] \union {NoAnswer}
    <3>1. At(r, "taken") \in SUBSET RepliesTo(r) /\ Multi(r)
      BY DEF IInv, TasksInStep, CollectorClosed, At
    <3>2. OnClose(r) \in Acceptable[r]
      BY <3>1 DEF OnClose, Acceptable
    <3> QED
      BY <3>2 DEF IInv, TypeOK, CollectorClosed, Give
  <2> QED
    BY <2>1, <2>2 DEF IInv, TypeOK, CollectorClosed, Closed, Give
<1>2. WaitingIffInSingles'
  BY AnswerKinds
  DEF IInv, TypeOK, WaitingIffInSingles, CollectorClosed, OnClose, Give
<1>3. TasksInStep'
  BY AnswerKinds
  DEF IInv, TypeOK, WaitingIffInSingles, TasksInStep, CollectorClosed, Closed,
      OnClose, Give, At
<1>4. AnswersFit'
  BY AnswerKinds
  DEF IInv, TypeOK, TasksInStep, AnswersFit, Fits, CollectorClosed, Closed, OnClose,
      Give, At
<1>5. RefusedOnlyIfAnswered'
  BY AnswerKinds DEF IInv, RefusedOnlyIfAnswered, CollectorClosed, OnClose, Give
<1>6. AcceptedIsAnswered'
  <2> SUFFICES ASSUME NEW q \in Requests, Kind[q] = "timer", answer'[q].agg = "Multi"
               PROVE  answer'[q].of = {p \in RepliesTo(q) :
                                         stage'[p] \notin {"away", "missed", "refused"}}
    BY DEF AcceptedIsAnswered
  <2>1. stage' = stage
    BY DEF IInv, TypeOK, CollectorClosed, Closed
  <2>2. CASE q /= r
    BY <2>1, <2>2 DEF IInv, AcceptedIsAnswered, CollectorClosed, Give
  <2>3. CASE q = r
    <3>1. answer'[r].of = At(r, "taken")
      BY <2>3, AnswerKinds DEF IInv, TypeOK, CollectorClosed, OnClose, Give
    <3>2. answer[r].agg = "none"
      BY AnswerKinds DEF IInv, WaitingIffInSingles, CollectorClosed
    <3>3. \A p \in RepliesTo(r) : stage[p] \notin {"queued", "sending", "dropped", "claimed"}
      BY <3>2 DEF IInv, TasksInStep, CollectorClosed, Closed, At, RepliesTo
    <3>4. \A p \in Replies : stage[p] \in Stages
      BY DEF IInv, TypeOK
    <3> QED
      BY <2>1, <2>3, <3>1, <3>3, <3>4 DEF Stages, At, RepliesTo
  <2> QED
    BY <2>2, <2>3
<1> QED
  BY <1>1, <1>2, <1>3, <1>4, <1>5, <1>6 DEF IInv

-----------------------------------------------------------------------------

\* IInv is inductive.
THEOREM StepIInv == IInv /\ [Next]_vars => IInv'
<1> SUFFICES ASSUME IInv, [Next]_vars PROVE IInv'
  OBVIOUS
<1>1. CASE UNCHANGED vars
  BY <1>1 DEF vars, IInv, TypeOK, WaitingIffInSingles, TasksInStep, AnswersFit, Fits,
              RefusedOnlyIfAnswered, AcceptedIsAnswered, At
<1>2. ASSUME NEW r \in Requests, Exchange(r) \/ Timer(r) \/ Collector(r)
      PROVE  IInv'
  BY <1>2, ExchangeKeepsIInv, TimeoutSingleKeepsIInv, TimeoutMultiKeepsIInv,
     CollectKeepsIInv, ClosedKeepsIInv DEF Timer, Collector
<1>3. ASSUME NEW p \in Replies, Lookup(p) \/ Reflected(p)
      PROVE  IInv'
  BY <1>3, LookupKeepsIInv, SendKeepsIInv, ClaimKeepsIInv DEF Reflected
<1> QED
  BY <1>1, <1>2, <1>3 DEF Next

THEOREM Inductive == Spec => []IInv
  BY InitIInv, StepIInv, PTL DEF Spec

\* Whoever answers a request uses up the right to: a request is in singles just
\* as long as exchange() has registered it and nobody has answered.
THEOREM WaitingTheorem == Spec => []WaitingIffInSingles
<1>1. IInv => WaitingIffInSingles
  BY DEF IInv
<1> QED
  BY <1>1, Inductive, PTL

\* The types, and the capacity of the collectors' channels.
THEOREM TypeTheorem == Spec => []TypeOK
<1>1. IInv => TypeOK
  BY DEF IInv
<1> QED
  BY <1>1, Inductive, PTL

\* A Count(n) in time has n replies of its own; no 408 and no single answer to
\* many comes before the timer.
THEOREM AnswersTheorem == Spec => []AnswersFit
<1>1. IInv => AnswersFit
  BY DEF IInv
<1> QED
  BY <1>1, Inductive, PTL

\* reflected() errs only on a reply whose request has its answer.
THEOREM RefusedTheorem == Spec => []RefusedOnlyIfAnswered
<1>1. IInv => RefusedOnlyIfAnswered
  BY DEF IInv
<1> QED
  BY <1>1, Inductive, PTL

\* What reflected() accepted for a Timer is in the answer of the Timer.
THEOREM AcceptedTheorem == Spec => []AcceptedIsAnswered
<1>1. IInv => AcceptedIsAnswered
  BY DEF IInv
<1> QED
  BY <1>1, Inductive, PTL

\* The requests' tasks and maps stay in step: a request for many is in multis until
\* its timer fires, and a reply that missed it there came after that.
THEOREM TasksTheorem == Spec => []TasksInStep
<1>1. IInv => TasksInStep
  BY DEF IInv
<1> QED
  BY <1>1, Inductive, PTL

-----------------------------------------------------------------------------
(* The Exchanger implements the contract's safety part.                    *)

\* Whoever gives an answer takes an Answer step of the contract.
LEMMA GiveIsAnswer ==
    ASSUME IInv, NEW r \in singles, NEW a \in Acceptable[r], Give(r, a), asked' = asked
    PROVE  Contract!Next
<1>1. r \in Requests /\ r \in asked /\ answer[r] = NoAnswer
  BY DEF IInv, TypeOK, WaitingIffInSingles
<1>2. Contract!Answer(r)
  BY <1>1 DEF Contract!Answer, Give
<1> QED
  BY <1>1, <1>2 DEF Contract!Next

\* Every step is a step of the contract or leaves what it talks of unchanged.
LEMMA StepIsContractStep ==
    ASSUME IInv, [Next]_vars
    PROVE  [Contract!Next]_<<asked, answer>>
<1>1. CASE UNCHANGED vars
  BY <1>1 DEF vars
<1>2. ASSUME NEW r \in Requests, Exchange(r)
      PROVE  Contract!Next
  BY <1>2 DEF Exchange, Contract!Next, Contract!Ask
<1>3. ASSUME NEW r \in Requests, TimeoutSingle(r)
      PROVE  [Contract!Next]_<<asked, answer>>
  <2>1. SingleTimeout \in Acceptable[r]
    BY <1>3 DEF TimeoutSingle, Acceptable
  <2> QED
    BY <1>3, <2>1, GiveIsAnswer DEF TimeoutSingle
<1>4. ASSUME NEW r \in Requests, TimeoutMulti(r)
      PROVE  UNCHANGED <<asked, answer>>
  BY <1>4 DEF TimeoutMulti
<1>5. ASSUME NEW r \in Requests, Collect(r)
      PROVE  [Contract!Next]_<<asked, answer>>
  <2>1. ASSUME NEW p \in At(r, "queued")
        PROVE  MultiAnswer(At(r, "taken") \union {p}) \in Acceptable[r]
    <3>1. Multi(r)
      BY <1>5 DEF IInv, TasksInStep, Collect
    <3> QED
      BY <3>1 DEF Acceptable, At
  <2> QED
    BY <1>5, <2>1, GiveIsAnswer DEF Collect
<1>6. ASSUME NEW r \in Requests, CollectorClosed(r)
      PROVE  Contract!Next
  <2>1. OnClose(r) \in Acceptable[r]
    BY <1>6 DEF IInv, TasksInStep, CollectorClosed, OnClose, Acceptable, At
  <2> QED
    BY <1>6, <2>1, GiveIsAnswer DEF CollectorClosed
<1>7. ASSUME NEW p \in Replies, Lookup(p) \/ SendToCollector(p)
      PROVE  UNCHANGED <<asked, answer>>
  BY <1>7 DEF Lookup, SendToCollector
<1>8. ASSUME NEW p \in Replies, ClaimSingle(p)
      PROVE  [Contract!Next]_<<asked, answer>>
  <2>1. ReflectionOf[p] \in Requests /\ SingleAnswer(p) \in Acceptable[ReflectionOf[p]]
    BY ExchangerAssumption DEF Acceptable, RepliesTo
  <2> QED
    BY <1>8, <2>1, GiveIsAnswer DEF ClaimSingle
<1> QED
  BY <1>1, <1>2, <1>3, <1>4, <1>5, <1>6, <1>7, <1>8
  DEF Next, Timer, Collector, Reflected

\* Each request is answered at most once, after it was asked, with an answer of
\* a form its BounceBacks admits; liveness is left to the model checker.
THEOREM ImplementsContractSafety == Spec => Contract!Spec
<1>1. Init => Contract!Init
  BY DEF Init, Contract!Init
<1>2. IInv /\ [Next]_vars => [Contract!Next]_<<asked, answer>>
  BY StepIsContractStep
<1> QED
  BY <1>1, <1>2, Inductive, PTL DEF Spec, Contract!Spec

=============================================================================
