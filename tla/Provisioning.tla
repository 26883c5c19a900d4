---------------------------- MODULE Provisioning ----------------------------
(***************************************************************************)
(* How a particle gets a star (hyperspace/src/star.rs, global.rs,          *)
(* driver/star.rs).  A create registers the point, which takes a count and *)
(* an insert; whoever needs the point's star and finds none in the registry*)
(* asks the star of the point's parent to provision it, after provisioning *)
(* the parent.  That star picks a host in turn, holding its selector until *)
(* the host has answered, or takes the point itself; the host makes the    *)
(* shell, asks its driver, and writes the star into the registry.          *)
(*                                                                         *)
(* A job is what some caller asks of a star: the registry is one for all   *)
(* stars, so it does not matter which star the job runs on.  A request and *)
(* the handler that serves it carry the job's task and the point: a task   *)
(* asks for a point at most once.  Waves are not lost; they can be late,   *)
(* and then their sender gives up on them (the Timeout actions).           *)
(***************************************************************************)
EXTENDS Naturals, Sequences, FiniteSets

CONSTANTS
    Points,     \* the points that are created and located
    Root,       \* the root, which lives on Central
    Parent,     \* the parent of each point
    Kind,       \* the kind of each point
    Stars, Central,
    Wrangles,   \* by star and kind: the nearest stars found for it, in order, a star as
                \* many times as it was found
    External,   \* by star: the kinds of its external drivers
    Drivers,    \* by star: the kinds of all its drivers
    Tasks,
    Plans       \* the jobs that the tasks do, in each case to be looked at

Kinds  == {Kind[p] : p \in Points}
NoStar == "no star"
Jobs   == {plan[t] : plan \in Plans, t \in Tasks}

ASSUME ProvisioningAssumption ==
    /\ Root \notin Points /\ Central \in Stars /\ NoStar \notin Stars
    /\ \A plan \in Plans : DOMAIN plan = Tasks
    /\ Parent \in [Points -> Points \union {Root}]
    /\ Wrangles \in [Stars -> [Kinds -> Seq(Stars)]]
    /\ \A s \in Stars : External[s] \subseteq Drivers[s]
    /\ \A s \in Stars, k \in Kinds : \A i \in DOMAIN Wrangles[s][k] : k \in External[Wrangles[s][k][i]]
    \* locate: a wave for the point; create: a command; adopt: create_in_star, for a
    \* point of that star, of a kind that is not provisioned by its creation
    /\ \A j \in Jobs :
          /\ j.what \in {"locate", "create", "adopt"} /\ j.point \in Points
          /\ j.what # "locate" => j.strategy \in {"Commit", "Ensure", "Override"}
          /\ j.what = "create" => j.provision \in BOOLEAN
          /\ j.what = "adopt"  => j.star \in Stars

\* A point is a segment of its parent: nobody descends from itself.
ASSUME TreeAssumption ==
    \A S \in SUBSET Points : S # {} => \E p \in S : Parent[p] \notin S

VARIABLES
    registered, \* points in the registry
    location,   \* the star of each, there
    status,     \* the status of each, there
    shells,     \* by star, the points that have a shell
    index,      \* by star and kind, the selector's turn
    lock,       \* by star and kind, the request that holds the selector
    task,       \* what each task does: where it is, its job, the points it still has to
                \* provision, nearest first, how it ended, the star it was told
    prov,       \* by task and point: the request to provision, and its handler
    assign      \* by task and point: the request to assign, and its handler

registry == <<registered, location, status>>
vars     == <<registry, shells, index, lock, task, prov, assign>>

Begin(j)  == [at |-> IF j.what = "locate" THEN "locate" ELSE "count", job |-> j, stack |-> <<>>,
              result |-> "none", answer |-> NoStar]
NoProv   == [at |-> "none", star |-> NoStar, host |-> NoStar]
NoAssign == [at |-> "none", star |-> NoStar]
Free     == <<>>

TypeOK ==
    /\ registered \subseteq Points
    /\ location \in [Points -> Stars \union {NoStar}]
    /\ status \in [Points -> {"Pending", "Panic"}]
    /\ shells \in [Stars -> SUBSET Points]
    /\ index \in [Stars -> [Kinds -> Nat]]
    /\ lock \in [Stars -> [Kinds -> {Free} \union (Tasks \X Points)]]
    /\ task \in [Tasks ->
         [at : {"count", "insert", "locate", "parent", "reread", "asking", "adopt",
                "adopting", "record", "done"},
          job : Jobs, stack : Seq(Points),
          result : {"none", "ok", "failed", "panicked"}, answer : Stars \union {NoStar}]]
    /\ prov \in [Tasks -> [Points ->
         [at : {"none", "asked", "lock", "assigning", "ok", "failed"},
          star : Stars \union {NoStar}, host : Stars \union {NoStar}]]]
    /\ assign \in [Tasks -> [Points ->
         [at : {"none", "find", "driver", "store", "ok", "failed"},
          star : Stars \union {NoStar}]]]

Init ==
    /\ registered = {}
    /\ location = [p \in Points |-> NoStar]
    /\ status = [p \in Points |-> "Pending"]
    /\ shells = [s \in Stars |-> {}]
    /\ index = [s \in Stars |-> [k \in Kinds |-> 0]]
    /\ lock = [s \in Stars |-> [k \in Kinds |-> Free]]
    /\ \E plan \in Plans : task = [t \in Tasks |-> Begin(plan[t])]
    /\ prov = [t \in Tasks |-> [p \in Points |-> NoProv]]
    /\ assign = [t \in Tasks |-> [p \in Points |-> NoAssign]]

(***************************************************************************)
(* The registry.                                                           *)
(***************************************************************************)

Known(p)      == p = Root \/ p \in registered
LocationOf(p) == IF p = Root THEN Central ELSE location[p]
AssignStar(p, s) == location' = [location EXCEPT ![p] = s]

(***************************************************************************)
(* Tasks: create, create_in_star, locate and provision.                    *)
(***************************************************************************)

At(t, where)        == task[t].at = where
Go(t, where)        == task' = [task EXCEPT ![t].at = where]
End(t, how, answer) == task' = [task EXCEPT ![t].at = "done", ![t].result = how,
                                            ![t].answer = answer]
Fail(t)             == End(t, "failed", NoStar)
PointOf(t)          == task[t].job.point
Provisions(t, stack) == task' = [task EXCEPT ![t].at = "parent", ![t].stack = stack]

\* What follows the registration.
Registered(t) ==
    LET j == task[t].job IN
    CASE j.what = "adopt"                 -> Go(t, "adopt")
      [] j.what = "create" /\ j.provision -> Provisions(t, <<j.point>>)
      [] OTHER                            -> Go(t, "record")

\* register, first half: only a Commit minds that the point is there.
Count(t) ==
    /\ At(t, "count")
    /\ IF PointOf(t) \notin registered THEN Go(t, "insert")
       ELSE IF task[t].job.strategy = "Commit" THEN Fail(t)
       ELSE Registered(t)
    /\ UNCHANGED <<registry, shells, index, lock, prov, assign>>

\* Mutant: the insert updates the record that is there (ON CONFLICT DO UPDATE).
Insert_Upsert(t) ==
    /\ At(t, "insert")
    /\ Registered(t) /\ registered' = registered \union {PointOf(t)}
    /\ UNCHANGED <<location, status, shells, index, lock, prov, assign>>

\* register, second half: UNIQUE(point) refuses whoever comes second.
Insert(t) ==
    /\ At(t, "insert")
    /\ IF PointOf(t) \in registered
       THEN Fail(t) /\ UNCHANGED registered
       ELSE Registered(t) /\ registered' = registered \union {PointOf(t)}
    /\ UNCHANGED <<location, status, shells, index, lock, prov, assign>>

Record(t) ==
    /\ At(t, "record") /\ End(t, "ok", NoStar)
    /\ UNCHANGED <<registry, shells, index, lock, prov, assign>>

Locate(t) ==
    /\ At(t, "locate")
    /\ LET p == PointOf(t) IN
          IF p \notin registered THEN Fail(t)
          ELSE IF location[p] # NoStar THEN End(t, "ok", location[p])
          ELSE Provisions(t, <<p>>)
    /\ UNCHANGED <<registry, shells, index, lock, prov, assign>>

\* The point at hand is asked of the star of its parent.
Ask(t, s) ==
    /\ Go(t, "asking")
    /\ prov' = [prov EXCEPT ![t][Head(task[t].stack)] = [at |-> "asked", star |-> s, host |-> NoStar]]

CheckParent(t) ==
    /\ At(t, "parent")
    /\ LET q == Parent[Head(task[t].stack)] IN
          IF ~Known(q) THEN Fail(t) /\ UNCHANGED prov
          ELSE IF LocationOf(q) = NoStar
               THEN Provisions(t, <<q>> \o task[t].stack) /\ UNCHANGED prov
          ELSE Ask(t, LocationOf(q))
    /\ UNCHANGED <<registry, shells, index, lock, assign>>

\* The parent has been provisioned: its record is read again, and must have a star.
RereadParent(t) ==
    /\ At(t, "reread")
    /\ LET s == LocationOf(Parent[Head(task[t].stack)]) IN
          IF s = NoStar THEN End(t, "panicked", NoStar) /\ UNCHANGED prov ELSE Ask(t, s)
    /\ UNCHANGED <<registry, shells, index, lock, assign>>

Asked(t) == prov[t][Head(task[t].stack)]

Provisioned(t) ==
    /\ At(t, "asking") /\ Asked(t).at = "ok"
    /\ IF Len(task[t].stack) > 1
       THEN task' = [task EXCEPT ![t].at = "reread", ![t].stack = Tail(@)]
       ELSE IF task[t].job.what = "locate" THEN End(t, "ok", Asked(t).host)
       ELSE Go(t, "record")
    /\ UNCHANGED <<registry, shells, index, lock, prov, assign>>

\* Any answer but 200, and no answer in time, makes the point's status Panic.
ProvisionFails(t) ==
    /\ At(t, "asking") /\ Asked(t).at # "ok"
    /\ status' = [status EXCEPT ![Head(task[t].stack)] = "Panic"]
    /\ Fail(t)
    /\ UNCHANGED <<registered, location, shells, index, lock, prov, assign>>

NotProvisioned(t) == At(t, "asking") /\ Asked(t).at = "failed" /\ ProvisionFails(t)
AskTimeout(t)     == At(t, "asking") /\ Asked(t).at # "failed" /\ ProvisionFails(t)

\* create_in_star: the star assigns the point to itself.
Adopt(t) ==
    /\ At(t, "adopt") /\ Go(t, "adopting")
    /\ assign' = [assign EXCEPT ![t][PointOf(t)] = [at |-> "find", star |-> task[t].job.star]]
    /\ UNCHANGED <<registry, shells, index, lock, prov>>

\* ... and whatever the answer was, is written down as its star.
Adopted(t, how) ==
    /\ AssignStar(PointOf(t), task[t].job.star)
    /\ End(t, how, NoStar)
    /\ UNCHANGED <<registered, status, shells, index, lock, prov, assign>>

Over(how)        == how \in {"ok", "failed"}
AdoptAnswered(t) == /\ At(t, "adopting") /\ Over(assign[t][PointOf(t)].at)
                    /\ Adopted(t, assign[t][PointOf(t)].at)
AdoptTimeout(t)  == /\ At(t, "adopting") /\ ~Over(assign[t][PointOf(t)].at)
                    /\ Adopted(t, "failed")

(***************************************************************************)
(* The star: Provision.                                                    *)
(***************************************************************************)

Turns(s, k)   == Wrangles[s][k]
Pick(s, k, i) == Turns(s, k)[1 + (i % Len(Turns(s, k)))]

SendAssign(t, p, s) == assign' = [assign EXCEPT ![t][p] = [at |-> "find", star |-> s]]

\* No selector for the kind: the star takes the point itself, if it can.
Provision(t, p) ==
    /\ prov[t][p].at = "asked"
    /\ LET s == prov[t][p].star IN
          IF Turns(s, Kind[p]) # <<>>
          THEN prov' = [prov EXCEPT ![t][p].at = "lock"] /\ UNCHANGED assign
          ELSE IF Kind[p] \in External[s]
          THEN /\ prov' = [prov EXCEPT ![t][p].at = "assigning", ![t][p].host = s]
               /\ SendAssign(t, p, s)
          ELSE prov' = [prov EXCEPT ![t][p].at = "failed"] /\ UNCHANGED assign
    /\ UNCHANGED <<registry, shells, index, lock, task>>

\* Mutant: the turn is taken without advancing it.
Wrangle_SameTurn(t, p) ==
    LET s == prov[t][p].star  k == Kind[p] IN
    /\ prov[t][p].at = "lock" /\ lock[s][k] = Free
    /\ lock' = [lock EXCEPT ![s][k] = <<t, p>>]
    /\ prov' = [prov EXCEPT ![t][p].at = "assigning", ![t][p].host = Pick(s, k, index[s][k] + 1)]
    /\ SendAssign(t, p, Pick(s, k, index[s][k] + 1))
    /\ UNCHANGED <<registry, shells, index, task>>

\* Through the selector: the next of the nearest stars.
Wrangle(t, p) ==
    LET s == prov[t][p].star  k == Kind[p] IN
    /\ prov[t][p].at = "lock" /\ lock[s][k] = Free
    /\ lock' = [lock EXCEPT ![s][k] = <<t, p>>]
    /\ index' = [index EXCEPT ![s][k] = @ + 1]
    /\ prov' = [prov EXCEPT ![t][p].at = "assigning", ![t][p].host = Pick(s, k, index[s][k] + 1)]
    /\ SendAssign(t, p, Pick(s, k, index[s][k] + 1))
    /\ UNCHANGED <<registry, shells, task>>

\* Mutant: a handler that fails leaves the selector locked.
EndProvision_KeepsLock(t, p, how) ==
    LET s == prov[t][p].star  k == Kind[p] IN
    /\ prov' = [prov EXCEPT ![t][p].at = how]
    /\ lock' = [lock EXCEPT ![s][k] = IF @ = <<t, p>> /\ how = "ok" THEN Free ELSE @]
    /\ UNCHANGED <<registry, shells, index, task, assign>>

\* The handler ends, and with it its hold on the selector.
EndProvision(t, p, how) ==
    LET s == prov[t][p].star  k == Kind[p] IN
    /\ prov' = [prov EXCEPT ![t][p].at = how]
    /\ lock' = [lock EXCEPT ![s][k] = IF @ = <<t, p>> THEN Free ELSE @]
    /\ UNCHANGED <<registry, shells, index, task, assign>>

\* Mutant: the Assign is sent as a signal, nobody waits for its answer.
AssignAnswered_Early(t, p) ==
    /\ prov[t][p].at = "assigning"
    /\ EndProvision(t, p, "ok")

AssignAnswered(t, p) ==
    /\ prov[t][p].at = "assigning" /\ Over(assign[t][p].at)
    /\ EndProvision(t, p, assign[t][p].at)

AssignTimeout(t, p) ==
    /\ prov[t][p].at = "assigning" /\ ~Over(assign[t][p].at)
    /\ lock[prov[t][p].star][Kind[p]] = <<t, p>>
    /\ EndProvision(t, p, "failed")

(***************************************************************************)
(* The star: Assign.                                                       *)
(***************************************************************************)

Step(t, p, where) == assign' = [assign EXCEPT ![t][p].at = where]

\* Mutant: a missing driver is reported, and the assignment goes on.
CreateShell_Unchecked(t, p) ==
    LET s == assign[t][p].star IN
    /\ assign[t][p].at = "find"
    /\ IF Kind[p] \in Drivers[s]
       THEN Step(t, p, "driver") /\ shells' = [shells EXCEPT ![s] = @ \union {p}]
       ELSE Step(t, p, "store") /\ UNCHANGED shells
    /\ UNCHANGED <<registry, index, lock, task, prov>>

CreateShell(t, p) ==
    LET s == assign[t][p].star IN
    /\ assign[t][p].at = "find"
    /\ IF Kind[p] \in Drivers[s]
       THEN Step(t, p, "driver") /\ shells' = [shells EXCEPT ![s] = @ \union {p}]
       ELSE Step(t, p, "failed") /\ UNCHANGED shells
    /\ UNCHANGED <<registry, index, lock, task, prov>>

\* Every driver has the default handler, which takes any particle.
DriverAnswers(t, p) ==
    /\ assign[t][p].at = "driver"
    /\ Step(t, p, "store")
    /\ UNCHANGED <<registry, shells, index, lock, task, prov>>

DriverTimeout(t, p) ==
    /\ assign[t][p].at = "driver"
    /\ Step(t, p, "failed")
    /\ UNCHANGED <<registry, shells, index, lock, task, prov>>

StoreStar(t, p) ==
    /\ assign[t][p].at = "store"
    /\ Step(t, p, "ok")
    /\ AssignStar(p, assign[t][p].star)
    /\ UNCHANGED <<registered, status, shells, index, lock, task, prov>>

TaskStep(t) ==
    \/ Count(t) \/ Insert(t) \/ Record(t) \/ Locate(t) \/ CheckParent(t) \/ RereadParent(t)
    \/ Provisioned(t) \/ NotProvisioned(t) \/ Adopt(t) \/ AdoptAnswered(t)

StarStep(t, p) ==
    \/ Provision(t, p) \/ Wrangle(t, p) \/ AssignAnswered(t, p)
    \/ CreateShell(t, p) \/ DriverAnswers(t, p) \/ StoreStar(t, p)

Late(t, p) == AssignTimeout(t, p) \/ DriverTimeout(t, p)

Next ==
    \E t \in Tasks :
       \/ TaskStep(t) \/ AskTimeout(t) \/ AdoptTimeout(t)
       \/ \E p \in Points : StarStep(t, p) \/ Late(t, p)

Spec == Init /\ [][Next]_vars

\* Tasks and handlers are tokio tasks and keep running; nothing is assumed of the
\* timeouts, so whatever ends does so without one.
FairSpec ==
    /\ Spec
    /\ \A t \in Tasks : WF_vars(TaskStep(t))
    /\ \A t \in Tasks, p \in Points : WF_vars(StarStep(t, p))

(***************************************************************************)
(* Properties.                                                             *)
(***************************************************************************)

Committed(t) == /\ task[t].job.what # "locate" /\ task[t].job.strategy = "Commit"
                /\ task[t].at \notin {"count", "insert"} /\ task[t].result # "failed"

\* Of the creations of one point that insist on being the first, one at most gets past
\* the registration, although the look and the insert are two statements.
CommitIsExclusive ==
    \A t, u \in Tasks : Committed(t) /\ Committed(u) /\ PointOf(t) = PointOf(u) => t = u

\* create_in_star writes the star down even when its own Assign failed or was late.
Mishap(p, s) == \E t \in Tasks : /\ task[t].job.what = "adopt" /\ PointOf(t) = p
                                 /\ task[t].job.star = s /\ task[t].result = "failed"

\* Where the registry sends the waves for a point, there is a shell to take them, with
\* create_in_star's mishaps the one exception.
LocatedHasShell ==
    \A p \in Points : location[p] # NoStar =>
        p \in shells[location[p]] \/ Mishap(p, location[p])

\* A star that was told where a point is (by the registry or by the star that provisioned
\* it, which another provision may since have contradicted) finds a shell there; and a
\* parent just provisioned has a star when its record is read again.
AnswerIsServed ==
    \A t \in Tasks :
        /\ task[t].result # "panicked"
        /\ task[t].answer # NoStar =>
              PointOf(t) \in shells[task[t].answer] \/ Mishap(PointOf(t), task[t].answer)

Picked(s, k, h) == {w \in Tasks \X Points : /\ Kind[w[2]] = k /\ prov[w[1]][w[2]].star = s
                                            /\ prov[w[1]][w[2]].host = h}

Times(s, k, h) == Cardinality({i \in DOMAIN Turns(s, k) : Turns(s, k)[i] = h})

\* However requests overlap, fail or give up, a selector spreads them over the nearest
\* stars: for each time it is listed a star gets at most one more than any other star for
\* each time it is listed, and a star that is not listed gets none.
RoundRobinIsFair ==
    \A s \in Stars, k \in Kinds, g, h \in Stars : Turns(s, k) # <<>> =>
        Cardinality(Picked(s, k, h)) * Times(s, k, g)
            <= (Cardinality(Picked(s, k, g)) + Times(s, k, g)) * Times(s, k, h)

\* Every job ends, and needs no timeout for it: the selectors' locks, held across the
\* Assign, never make the stars wait for each other.
EveryJobEnds == \A t \in Tasks : <>At(t, "done")

=============================================================================
