------------------------- MODULE ProvisioningProofs -------------------------
(***************************************************************************)
(* Theorems about Provisioning, for any points, stars, drivers and jobs.   *)
(***************************************************************************)
EXTENDS Provisioning, Integers, FiniteSetTheorems, TLAPS

-----------------------------------------------------------------------------
(* The inductive invariant.                                                *)

\* An assignment that got past the driver's table left a shell on its star, and one
\* that succeeded wrote a star down.
AssignInv(t, p) ==
    /\ assign[t][p].at # "none" => assign[t][p].star \in Stars
    /\ assign[t][p].at \in {"driver", "store", "ok"} => p \in shells[assign[t][p].star]
    /\ assign[t][p].at = "ok" => location[p] # NoStar

\* A provision that waits for an assignment waits for that of its host, and succeeds
\* only with it.
ProvInv(t, p) ==
    /\ prov[t][p].at # "none" => prov[t][p].star \in Stars
    /\ prov[t][p].at \in {"assigning", "ok"} =>
          prov[t][p].host \in Stars /\ assign[t][p].star = prov[t][p].host
    /\ prov[t][p].at = "assigning" => assign[t][p].at # "none"
    /\ prov[t][p].at = "ok" => assign[t][p].at = "ok"
    /\ prov[t][p].at = "lock" => Turns(prov[t][p].star, Kind[p]) # <<>>

AssignOK == \A t \in Tasks, p \in Points : AssignInv(t, p)
ProvOK   == \A t \in Tasks, p \in Points : ProvInv(t, p)

\* What is on a task's stack is a line of descent that ends with its point.
StackOK(t) ==
    task[t].at \in {"parent", "reread", "asking"} =>
       LET stack == task[t].stack IN
       /\ stack # <<>> /\ stack[Len(stack)] = PointOf(t)
       /\ \A i \in 1 .. Len(stack) - 1 : Parent[stack[i + 1]] = stack[i]
       /\ task[t].at = "reread" => LocationOf(Parent[Head(stack)]) # NoStar

\* Where the jobs are, by what they are.
JobOK(t) ==
    /\ task[t].result # "none" => task[t].at = "done"
    /\ task[t].at \in {"adopt", "adopting"} => task[t].job.what = "adopt"
    /\ task[t].job.what = "adopt" =>
          /\ task[t].at \in {"count", "insert", "adopt", "adopting", "done"}
          /\ \A p \in Points : prov[t][p].at = "none"
    /\ task[t].at = "adopting" => /\ assign[t][PointOf(t)].at # "none"
                                  /\ assign[t][PointOf(t)].star = task[t].job.star

TaskOK == \A t \in Tasks : StackOK(t) /\ JobOK(t)

IInv == TypeOK /\ AssignOK /\ ProvOK /\ TaskOK /\ LocatedHasShell /\ AnswerIsServed

-----------------------------------------------------------------------------
(* What every step keeps.                                                  *)

TaskRec == [at : {"count", "insert", "locate", "parent", "reread", "asking", "adopt",
                  "adopting", "record", "done"},
            job : Jobs, stack : Seq(Points),
            result : {"none", "ok", "failed", "panicked"}, answer : Stars \union {NoStar}]
ProvRec == [at : {"none", "asked", "lock", "assigning", "ok", "failed"},
            star : Stars \union {NoStar}, host : Stars \union {NoStar}]
AssignRec == [at : {"none", "find", "driver", "store", "ok", "failed"},
              star : Stars \union {NoStar}]

Served(p, s) == p \in shells[s] \/ Mishap(p, s)

LEMMA TaskIsTask ==
  ASSUME IInv
  PROVE  task \in [Tasks -> TaskRec]
BY DEF IInv, TypeOK, TaskRec

LEMMA PointIsPoint ==
  ASSUME IInv, NEW t \in Tasks
  PROVE  PointOf(t) \in Points /\ task[t].job \in Jobs
<1> task[t].job \in Jobs
  BY DEF IInv, TypeOK
<1> QED
  BY ProvisioningAssumption DEF PointOf

\* Shells are never taken away and a job that has ended stays as it is, so that what
\* is served stays served.
LEMMA ServedStays ==
  ASSUME IInv, 
         \A u \in Tasks : task[u].result = "none" \/ task'[u] = task[u],
         \A s \in Stars : shells[s] \subseteq shells'[s]
  PROVE  \A p \in Points, s \in Stars : Served(p, s) => Served(p, s)'
<1> SUFFICES ASSUME NEW p \in Points, NEW s \in Stars, Served(p, s)
             PROVE  Served(p, s)'
  OBVIOUS
<1>1. CASE p \in shells[s]
  BY <1>1 DEF Served
<1>2. CASE Mishap(p, s)
  <2>1. PICK t \in Tasks : /\ task[t].job.what = "adopt" /\ PointOf(t) = p
                           /\ task[t].job.star = s /\ task[t].result = "failed"
    BY <1>2 DEF Mishap
  <2>2. task'[t] = task[t]
    BY <2>1
  <2> QED
    BY <2>1, <2>2 DEF Served, Mishap, PointOf
<1> QED
  BY <1>1, <1>2 DEF Served

\* A step that writes no location keeps the registry true.
LEMMA LocatedStays ==
  ASSUME IInv, UNCHANGED location,
         \A p \in Points, s \in Stars : Served(p, s) => Served(p, s)'
  PROVE  LocatedHasShell'
BY DEF LocatedHasShell, Served, IInv, TypeOK

\* A step that tells no job an answer keeps the answers served.
LEMMA AnswersStay ==
  ASSUME IInv, 
         \A u \in Tasks : /\ task'[u].job = task[u].job
                          /\ task'[u].answer \in {task[u].answer, NoStar}
                          /\ task'[u].result # "panicked" \/ task'[u] = task[u],
         \A p \in Points, s \in Stars : Served(p, s) => Served(p, s)'
  PROVE  AnswerIsServed'
<1> SUFFICES ASSUME NEW t \in Tasks
             PROVE  /\ task'[t].result # "panicked"
                    /\ task'[t].answer # NoStar => Served(PointOf(t), task[t].answer)'
  BY DEF AnswerIsServed, Served, PointOf, Mishap
<1>1. PointOf(t) \in Points /\ PointOf(t)' = PointOf(t)
  BY PointIsPoint DEF PointOf
<1>2. task[t].answer \in Stars \union {NoStar}
  BY DEF IInv, TypeOK
<1> QED
  BY <1>1, <1>2 DEF AnswerIsServed, Served, IInv

-----------------------------------------------------------------------------
(* The steps of a task.                                                    *)

\* What a step of task t has to show when it changes nothing but the task, and
\* maybe what is registered.
LEMMA TaskMoves ==
  ASSUME IInv, NEW t \in Tasks, 
         task' \in [Tasks -> TaskRec], \A u \in Tasks \ {t} : task'[u] = task[u],
         task[t].at # "done",
         task'[t].job = task[t].job, task'[t].result # "panicked",
         task'[t].answer # NoStar => task'[t].answer \in Stars /\ Served(PointOf(t), task'[t].answer),
         StackOK(t)', JobOK(t)', registered' \subseteq Points,
         UNCHANGED <<location, status, shells, index, lock, prov, assign>>
  PROVE  IInv'
<1>1. TypeOK'
  BY DEF IInv, TypeOK, TaskRec
<1>2. AssignOK' /\ ProvOK'
  BY DEF IInv, AssignOK, AssignInv, ProvOK, ProvInv
<1>3. \A u \in Tasks : StackOK(u) /\ JobOK(u)
  BY DEF IInv, TaskOK
<1>4. TaskOK'
  <2> SUFFICES ASSUME NEW u \in Tasks, u # t PROVE StackOK(u)' /\ JobOK(u)'
    BY DEF TaskOK
  <2> task'[u] = task[u]
    OBVIOUS
  <2>1. StackOK(u)'
    BY <1>3 DEF StackOK, PointOf, LocationOf
  <2>2. JobOK(u)'
    BY <1>3 DEF JobOK, PointOf
  <2> QED
    BY <2>1, <2>2
<1>5. \A u \in Tasks : task[u].result = "none" \/ task'[u] = task[u]
  BY <1>3 DEF JobOK
<1>6. \A p \in Points, s \in Stars : Served(p, s) => Served(p, s)'
  BY <1>5, ServedStays
<1>7. LocatedHasShell'
  BY <1>6, LocatedStays
<1>8. AnswerIsServed'
  <2> SUFFICES ASSUME NEW u \in Tasks
               PROVE  /\ task'[u].result # "panicked"
                      /\ task'[u].answer # NoStar => Served(PointOf(u), task[u].answer)'
    BY DEF AnswerIsServed, Served, PointOf, Mishap
  <2>1. PointOf(u) \in Points /\ PointOf(u)' = PointOf(u)
    BY PointIsPoint DEF PointOf
  <2>2. CASE u = t
    BY <2>1, <2>2, <1>6
  <2>3. CASE u # t
    <3> task'[u] = task[u] /\ task[u].answer \in Stars \union {NoStar}
      BY <2>3 DEF IInv, TypeOK
    <3> QED
      BY <2>1, <1>6 DEF AnswerIsServed, Served, IInv
  <2> QED
    BY <2>2, <2>3
<1> QED
  BY <1>1, <1>2, <1>4, <1>7, <1>8 DEF IInv

LEMMA StackIsStack ==
  ASSUME IInv, NEW t \in Tasks, task[t].at \in {"parent", "reread", "asking"}
  PROVE  /\ task[t].stack \in Seq(Points) /\ task[t].stack # <<>>
         /\ Head(task[t].stack) \in Points /\ Head(task[t].stack) = task[t].stack[1]
         /\ Len(task[t].stack) \in Nat \ {0}
         /\ task[t].job.what # "adopt"
<1>1. task[t].stack \in Seq(Points) /\ task[t] \in TaskRec
  BY DEF IInv, TypeOK, TaskRec
<1>2. task[t].stack # <<>>
  BY DEF IInv, TaskOK, StackOK
<1>3. task[t].job.what # "adopt"
  BY DEF IInv, TaskOK, JobOK
<1> QED
  BY <1>1, <1>2, <1>3

\* Jobs only go where jobs of their kind go.
LEMMA GoTo ==
  ASSUME IInv, NEW t \in Tasks, NEW a \in {"insert", "record", "adopt"}, 
         task[t].at \in {"count", "insert", "asking"}, Go(t, a),
         a = "adopt" <=> task[t].job.what = "adopt" /\ a # "insert",
         registered' \subseteq Points,
         UNCHANGED <<location, status, shells, index, lock, prov, assign>>
  PROVE  IInv'
<1>1. task' \in [Tasks -> TaskRec] /\ task[t] \in TaskRec
  <2>1. task \in [Tasks -> TaskRec]
    BY TaskIsTask
  <2>2. [task[t] EXCEPT !.at = a] \in TaskRec
    BY <2>1 DEF TaskRec
  <2>3. task' = [task EXCEPT ![t] = [task[t] EXCEPT !.at = a]]
    BY <2>1 DEF Go
  <2> QED
    BY <2>1, <2>2, <2>3
<1>2. /\ \A u \in Tasks \ {t} : task'[u] = task[u]
      /\ task'[t] = [task[t] EXCEPT !.at = a]
  BY DEF IInv, TypeOK, Go
<1>3. StackOK(t) /\ JobOK(t)
  BY DEF IInv, TaskOK
<1>4. StackOK(t)'
  BY <1>1, <1>2 DEF StackOK, TaskRec
<1>5. JobOK(t)'
  BY <1>1, <1>2, <1>3 DEF JobOK, TaskRec
<1>6. task'[t].answer = task[t].answer /\ task[t].answer \in Stars \union {NoStar}
      /\ task'[t].result = task[t].result /\ task[t].result # "panicked"
      /\ task'[t].job = task[t].job
  BY <1>1, <1>2 DEF IInv, AnswerIsServed, TaskRec
<1>7. task[t].answer # NoStar => Served(PointOf(t), task[t].answer)
  BY DEF IInv, AnswerIsServed, Served
<1> QED
  BY <1>1, <1>2, <1>4, <1>5, <1>6, <1>7, TaskMoves

LEMMA EndWith ==
  ASSUME IInv, NEW t \in Tasks, NEW how \in {"ok", "failed"}, NEW answer \in Stars \union {NoStar},
         End(t, how, answer), task[t].at \notin {"done", "adopt", "adopting"},
         answer # NoStar => Served(PointOf(t), answer),
         UNCHANGED <<registry, shells, index, lock, prov, assign>>
  PROVE  IInv'
<1>1. task' \in [Tasks -> TaskRec] /\ task[t] \in TaskRec
  <2>1. task \in [Tasks -> TaskRec]
    BY TaskIsTask
  <2>2. [task[t] EXCEPT !.at = "done", !.result = how, !.answer = answer] \in TaskRec
    BY <2>1 DEF TaskRec
  <2>3. task' = [task EXCEPT ![t] = [task[t] EXCEPT !.at = "done", !.result = how, !.answer = answer]]
    BY <2>1 DEF End
  <2> QED
    BY <2>1, <2>2, <2>3
<1>2. /\ \A u \in Tasks \ {t} : task'[u] = task[u]
      /\ task'[t] = [task[t] EXCEPT !.at = "done", !.result = how, !.answer = answer]
  BY DEF IInv, TypeOK, End
<1>3. StackOK(t) /\ JobOK(t)
  BY DEF IInv, TaskOK
<1>4. StackOK(t)'
  BY <1>1, <1>2 DEF StackOK, TaskRec
<1>5. JobOK(t)'
  BY <1>1, <1>2, <1>3 DEF JobOK, TaskRec, registry
<1>6. task'[t].answer = answer /\ task'[t].result = how /\ task'[t].job = task[t].job
  BY <1>1, <1>2 DEF TaskRec
<1>7. registered' \subseteq Points /\ UNCHANGED <<location, status>>
  BY DEF IInv, TypeOK, registry
<1> QED
  BY <1>1, <1>2, <1>4, <1>5, <1>6, <1>7, TaskMoves

\* A task that starts to provision, or finds that it has to provision the parent first.
LEMMA Descends ==
  ASSUME IInv, NEW t \in Tasks, NEW stack \in Seq(Points), Provisions(t, stack), 
         task[t].at \in {"count", "insert", "locate", "parent"}, task[t].job.what # "adopt",
         stack # <<>>, stack[Len(stack)] = PointOf(t),
         \A i \in 1 .. Len(stack) - 1 : Parent[stack[i + 1]] = stack[i],
         registered' \subseteq Points,
         UNCHANGED <<location, status, shells, index, lock, prov, assign>>
  PROVE  IInv'
<1>1. task' \in [Tasks -> TaskRec] /\ task[t] \in TaskRec
  <2>1. task \in [Tasks -> TaskRec]
    BY TaskIsTask
  <2>2. [task[t] EXCEPT !.at = "parent", !.stack = stack] \in TaskRec
    BY <2>1 DEF TaskRec
  <2>3. task' = [task EXCEPT ![t] = [task[t] EXCEPT !.at = "parent", !.stack = stack]]
    BY <2>1 DEF Provisions
  <2> QED
    BY <2>1, <2>2, <2>3
<1>2. /\ \A u \in Tasks \ {t} : task'[u] = task[u]
      /\ task'[t] = [task[t] EXCEPT !.at = "parent", !.stack = stack]
  BY DEF IInv, TypeOK, Provisions
<1>3. JobOK(t)
  BY DEF IInv, TaskOK
<1>4. /\ task'[t].stack = stack /\ task'[t].at = "parent" /\ task'[t].job = task[t].job
      /\ task'[t].result = task[t].result /\ task'[t].answer = task[t].answer
  BY <1>1, <1>2 DEF TaskRec
<1>5. StackOK(t)'
  BY <1>4 DEF StackOK, PointOf
<1>6. JobOK(t)'
  BY <1>4, <1>3 DEF JobOK
<1>7. /\ task[t].result # "panicked" 
      /\ task[t].answer # NoStar => task[t].answer \in Stars /\ Served(PointOf(t), task[t].answer)
  BY <1>1 DEF IInv, AnswerIsServed, Served, TaskRec
<1> QED
  BY <1>1, <1>2, <1>4, <1>5, <1>6, <1>7, TaskMoves

LEMMA RegisteredKeeps ==
  ASSUME IInv, NEW t \in Tasks, Registered(t), task[t].at \in {"count", "insert"},
         registered' \subseteq Points,
         UNCHANGED <<location, status, shells, index, lock, prov, assign>>
  PROVE  IInv'
<1>1. CASE task[t].job.what = "adopt"
  <2> Go(t, "adopt")
    BY <1>1 DEF Registered
  <2> QED
    BY <1>1, GoTo
<1>2. CASE task[t].job.what # "adopt" /\ ~(task[t].job.what = "create" /\ task[t].job.provision)
  <2> Go(t, "record")
    BY <1>2 DEF Registered
  <2> QED
    BY <1>2, GoTo
<1>3. CASE task[t].job.what = "create" /\ task[t].job.provision
  <2> DEFINE stack == <<PointOf(t)>>
  <2> Provisions(t, stack)
    BY <1>3 DEF Registered, PointOf
  <2> PointOf(t) \in Points
    BY PointIsPoint
  <2> stack \in Seq(Points) /\ stack # <<>> /\ Len(stack) = 1 /\ stack[1] = PointOf(t)
    OBVIOUS
  <2> HIDE DEF stack
  <2> QED
    BY <1>3, Descends
<1> QED
  BY <1>1, <1>2, <1>3

LEMMA CountKeeps ==
  ASSUME IInv, NEW t \in Tasks, Count(t)
  PROVE  IInv'
<1> /\ task[t].at = "count" /\ UNCHANGED <<registry, shells, index, lock, prov, assign>>
    /\ registered' \subseteq Points /\ UNCHANGED <<location, status>>
  BY DEF Count, At, registry, IInv, TypeOK
<1>1. CASE Go(t, "insert")
  BY <1>1, GoTo
<1>2. CASE Fail(t)
  BY <1>2, EndWith DEF Fail
<1>3. CASE Registered(t)
  BY <1>3, RegisteredKeeps
<1> QED
  BY <1>1, <1>2, <1>3 DEF Count

LEMMA InsertKeeps ==
  ASSUME IInv, NEW t \in Tasks, Insert(t)
  PROVE  IInv'
<1> /\ task[t].at = "insert" /\ UNCHANGED <<location, status, shells, index, lock, prov, assign>>
    /\ registered' \subseteq Points
  BY PointIsPoint DEF Insert, At, registry, IInv, TypeOK
<1>2. CASE Fail(t) /\ UNCHANGED registered
  BY <1>2, EndWith DEF Fail, registry
<1>3. CASE Registered(t)
  BY <1>3, RegisteredKeeps
<1> QED
  BY <1>2, <1>3 DEF Insert

LEMMA RecordKeeps ==
  ASSUME IInv, NEW t \in Tasks, Record(t)
  PROVE  IInv'
BY EndWith DEF Record, At

LEMMA LocateKeeps ==
  ASSUME IInv, NEW t \in Tasks, Locate(t)
  PROVE  IInv'
<1> DEFINE p == PointOf(t)
<1>0. /\ task[t].at = "locate" /\ UNCHANGED <<registry, shells, index, lock, prov, assign>>
      /\ registered' \subseteq Points /\ UNCHANGED <<location, status>>
      /\ p \in Points /\ location[p] \in Stars \union {NoStar}
  BY PointIsPoint DEF Locate, At, registry, IInv, TypeOK
<1>1. CASE Fail(t)
  BY <1>0, <1>1, EndWith DEF Fail
<1>2. CASE location[p] # NoStar /\ End(t, "ok", location[p])
  <2> Served(p, location[p])
    BY <1>0, <1>2 DEF IInv, LocatedHasShell, Served
  <2> QED
    BY <1>0, <1>2, EndWith
<1>3. CASE Provisions(t, <<p>>)
  <2> DEFINE stack == <<p>>
  <2>1. stack \in Seq(Points) /\ stack # <<>> /\ Len(stack) = 1 /\ stack[1] = p
    BY <1>0
  <2>2. task[t].job.what # "adopt"
    BY <1>0 DEF IInv, TaskOK, JobOK
  <2>3. Provisions(t, stack)
    BY <1>3
  <2> HIDE DEF stack
  <2> QED
    BY <1>0, <2>1, <2>2, <2>3, Descends
<1> QED
  BY <1>1, <1>2, <1>3 DEF Locate

\* The point at hand is asked for: its request is a new one, that waits for nothing yet.
LEMMA AskKeeps ==
  ASSUME IInv, NEW t \in Tasks, NEW s \in Stars, task[t].at \in {"parent", "reread"}, Ask(t, s),
         UNCHANGED <<registry, shells, index, lock, assign>>
  PROVE  IInv'
<1> DEFINE p == Head(task[t].stack)
           req == [at |-> "asked", star |-> s, host |-> NoStar]
<1>1. p \in Points /\ task[t].job.what # "adopt"
  BY StackIsStack
<1>2. task \in [Tasks -> TaskRec] /\ task[t] \in TaskRec
  BY TaskIsTask
<1>3. task' \in [Tasks -> TaskRec]
  <2>1. [task[t] EXCEPT !.at = "asking"] \in TaskRec
    BY <1>2 DEF TaskRec
  <2>2. task' = [task EXCEPT ![t] = [task[t] EXCEPT !.at = "asking"]]
    BY <1>2 DEF Ask, Go
  <2> QED
    BY <1>2, <2>1, <2>2
<1>4. /\ \A u \in Tasks \ {t} : task'[u] = task[u]
      /\ task'[t].at = "asking" /\ task'[t].stack = task[t].stack /\ task'[t].job = task[t].job
      /\ task'[t].result = task[t].result /\ task'[t].answer = task[t].answer
  BY <1>2 DEF Ask, Go, TaskRec
<1>5. /\ prov \in [Tasks -> [Points -> ProvRec]] /\ req \in ProvRec
      /\ prov' = [prov EXCEPT ![t][p] = req]
  BY DEF IInv, TypeOK, ProvRec, Ask
<1>6. /\ prov' \in [Tasks -> [Points -> ProvRec]]
      /\ prov'[t][p] = req
      /\ \A u \in Tasks, q \in Points : u # t \/ q # p => prov'[u][q] = prov[u][q]
  BY <1>1, <1>5
<1>7. TypeOK'
  BY <1>3, <1>6 DEF IInv, TypeOK, TaskRec, ProvRec, registry
<1>8. AssignOK'
  BY DEF IInv, AssignOK, AssignInv, registry
<1>9. ProvOK'
  <2> SUFFICES ASSUME NEW u \in Tasks, NEW q \in Points
               PROVE  /\ prov'[u][q].at # "none" => prov'[u][q].star \in Stars
                      /\ prov'[u][q].at \in {"assigning", "ok"} =>
                            prov'[u][q].host \in Stars /\ assign[u][q].star = prov'[u][q].host
                      /\ prov'[u][q].at = "assigning" => assign[u][q].at # "none"
                      /\ prov'[u][q].at = "ok" => assign[u][q].at = "ok"
                      /\ prov'[u][q].at = "lock" => Turns(prov'[u][q].star, Kind[q]) # <<>>
    BY DEF ProvOK, ProvInv, Turns
  <2>1. CASE u = t /\ q = p
    BY <2>1, <1>6
  <2>2. CASE u # t \/ q # p
    BY <2>2, <1>6 DEF IInv, ProvOK, ProvInv
  <2> QED
    BY <2>1, <2>2
<1>10. TaskOK'
  <2> SUFFICES ASSUME NEW u \in Tasks PROVE StackOK(u)' /\ JobOK(u)'
    BY DEF TaskOK
  <2>0. StackOK(u) /\ JobOK(u) /\ UNCHANGED location
    BY DEF IInv, TaskOK, registry
  <2>1. CASE u = t
    <3>1. StackOK(t)'
      BY <2>0, <2>1, <1>4 DEF StackOK, PointOf
    <3>2. JobOK(t)'
      BY <2>0, <2>1, <1>1, <1>4 DEF JobOK
    <3> QED
      BY <2>1, <3>1, <3>2
  <2>2. CASE u # t
    <3>1. task'[u] = task[u] /\ \A q \in Points : prov'[u][q] = prov[u][q]
      BY <2>2, <1>4, <1>6
    <3>2. StackOK(u)'
      BY <2>0, <3>1 DEF StackOK, PointOf, LocationOf
    <3>3. JobOK(u)'
      BY <2>0, <3>1 DEF JobOK, PointOf
    <3> QED
      BY <3>2, <3>3
  <2> QED
    BY <2>1, <2>2
<1>11. \A q \in Points, r \in Stars : Served(q, r) => Served(q, r)'
  <2> \A u \in Tasks : task[u].result = "none" \/ task'[u] = task[u]
    BY <1>4 DEF IInv, TaskOK, JobOK
  <2> QED
    BY ServedStays
<1>12. LocatedHasShell'
  BY <1>11, LocatedStays DEF registry
<1>13. AnswerIsServed'
  <2> \A u \in Tasks : /\ task'[u].job = task[u].job
                       /\ task'[u].answer \in {task[u].answer, NoStar}
                       /\ task'[u].result # "panicked" \/ task'[u] = task[u]
    BY <1>4 DEF IInv, AnswerIsServed
  <2> QED
    BY <1>11, AnswersStay
<1> QED
  BY <1>7, <1>8, <1>9, <1>10, <1>12, <1>13 DEF IInv

LEMMA LocationIsStar ==
  ASSUME IInv, NEW q \in Points \union {Root}, LocationOf(q) # NoStar
  PROVE  LocationOf(q) \in Stars
BY ProvisioningAssumption DEF LocationOf, IInv, TypeOK

\* The parent put in front of the points to provision is a point of its own.
LEMMA ParentInFront ==
  ASSUME NEW S, NEW stack \in Seq(S), stack # <<>>, NEW q \in S
  PROVE  /\ <<q>> \o stack \in Seq(S) /\ <<q>> \o stack # <<>>
         /\ Len(<<q>> \o stack) = 1 + Len(stack) 
         /\ (<<q>> \o stack)[1] = q
         /\ \A i \in 1 .. Len(stack) : (<<q>> \o stack)[i + 1] = stack[i]
         /\ (<<q>> \o stack)[Len(<<q>> \o stack)] = stack[Len(stack)]
OBVIOUS

LEMMA CheckParentKeeps ==
  ASSUME IInv, NEW t \in Tasks, CheckParent(t)
  PROVE  IInv'
<1> DEFINE q == Parent[Head(task[t].stack)]
<1>0. /\ task[t].at = "parent" /\ UNCHANGED <<registry, shells, index, lock, assign>>
      /\ registered' \subseteq Points /\ UNCHANGED <<location, status>>
  BY DEF CheckParent, At, registry, IInv, TypeOK
<1>1. q \in Points \union {Root}
  BY <1>0, StackIsStack, ProvisioningAssumption
<1>2. CASE Fail(t) /\ UNCHANGED prov
  BY <1>0, <1>2, EndWith DEF Fail
<1>3. CASE Known(q) /\ LocationOf(q) = NoStar /\ Provisions(t, <<q>> \o task[t].stack)
           /\ UNCHANGED prov
  <2> DEFINE old == task[t].stack
             new == <<q>> \o old
  <2>1. q \in Points
    BY <1>1, <1>3, ProvisioningAssumption DEF LocationOf
  <2>2. /\ old \in Seq(Points) /\ old # <<>> /\ Len(old) \in Nat \ {0} /\ Head(old) = old[1]
        /\ task[t].job.what # "adopt"
    BY <1>0, StackIsStack
  <2>3. /\ old[Len(old)] = PointOf(t)
        /\ \A i \in 1 .. Len(old) - 1 : Parent[old[i + 1]] = old[i]
    BY <1>0 DEF IInv, TaskOK, StackOK
  <2> HIDE DEF old
  <2>4. /\ new \in Seq(Points) /\ new # <<>>
        /\ Len(new) = 1 + Len(old) /\ new[1] = q
        /\ \A i \in 1 .. Len(old) : new[i + 1] = old[i]
        /\ new[Len(new)] = old[Len(old)]
    BY <2>1, <2>2, ParentInFront
  <2>5. Provisions(t, new)
    BY <1>3 DEF old
  <2>6. q = Parent[old[1]]
    BY <2>2 DEF old
  <2> HIDE DEF new, q
  <2>7. \A i \in 1 .. Len(new) - 1 : Parent[new[i + 1]] = new[i]
    <3> SUFFICES ASSUME NEW i \in 1 .. Len(old) PROVE Parent[new[i + 1]] = new[i]
      BY <2>2, <2>4
    <3>1. CASE i = 1
      BY <3>1, <2>2, <2>4, <2>6
    <3>2. CASE i # 1
      <4> i - 1 \in 1 .. Len(old) - 1 /\ i - 1 \in 1 .. Len(old) /\ (i - 1) + 1 = i
        BY <3>2, <2>2
      <4> new[i] = old[i - 1] /\ new[i + 1] = old[i] /\ Parent[old[i]] = old[i - 1]
        BY <2>3, <2>4
      <4> QED
        OBVIOUS
    <3> QED
      BY <3>1, <3>2
  <2> QED
    BY <1>0, <1>3, <2>2, <2>3, <2>4, <2>5, <2>7, Descends
<1>4. CASE LocationOf(q) # NoStar /\ Ask(t, LocationOf(q))
  BY <1>0, <1>1, <1>4, LocationIsStar, AskKeeps
<1> QED
  BY <1>2, <1>3, <1>4 DEF CheckParent

LEMMA RereadParentKeeps ==
  ASSUME IInv, NEW t \in Tasks, RereadParent(t)
  PROVE  IInv'
<1> DEFINE q == Parent[Head(task[t].stack)]
<1>0. task[t].at = "reread" /\ UNCHANGED <<registry, shells, index, lock, assign>>
  BY DEF RereadParent, At
<1>1. q \in Points \union {Root}
  BY <1>0, StackIsStack, ProvisioningAssumption
<1>2. LocationOf(q) # NoStar
  BY <1>0 DEF IInv, TaskOK, StackOK
<1>3. Ask(t, LocationOf(q))
  BY <1>2 DEF RereadParent
<1> QED
  BY <1>0, <1>1, <1>2, <1>3, LocationIsStar, AskKeeps

\* Without its first point, a line of descent is one still.
LEMMA WithoutFirst ==
  ASSUME NEW S, NEW stack \in Seq(S), Len(stack) > 1
  PROVE  /\ Tail(stack) \in Seq(S) /\ Tail(stack) # <<>> /\ Len(Tail(stack)) = Len(stack) - 1
         /\ Head(Tail(stack)) = stack[2]
         /\ \A i \in 1 .. Len(stack) - 1 : Tail(stack)[i] = stack[i + 1]
         /\ Tail(stack)[Len(Tail(stack))] = stack[Len(stack)]
<1>1. /\ Tail(stack) \in Seq(S) /\ Len(Tail(stack)) = Len(stack) - 1 /\ Len(stack) \in Nat
      /\ \A i \in 1 .. Len(stack) - 1 : Tail(stack)[i] = stack[i + 1]
  OBVIOUS
<1>2. Tail(stack) # <<>> /\ Head(Tail(stack)) = Tail(stack)[1]
  <2> DEFINE tail == Tail(stack)
  <2>0. Len(stack) - 1 # 0
    <3> DEFINE n == Len(stack)
    <3>1. n \in Nat /\ n > 1
      BY <1>1
    <3> HIDE DEF n
    <3>2. n - 1 # 0
      BY <3>1
    <3> QED
      BY <3>2 DEF n
  <2>1. tail \in Seq(S) /\ Len(tail) # 0
    BY <1>1, <2>0
  <2> HIDE DEF tail
  <2>2. tail # <<>> /\ Head(tail) = tail[1]
    BY <2>1
  <2> QED
    BY <2>2 DEF tail
<1>3. 1 \in 1 .. Len(stack) - 1 /\ Len(stack) - 1 \in 1 .. Len(stack) - 1
      /\ 1 + 1 = 2 /\ (Len(stack) - 1) + 1 = Len(stack)
  BY <1>1
<1>4. Tail(stack)[1] = stack[2] /\ Tail(stack)[Len(stack) - 1] = stack[Len(stack)]
  BY <1>1, <1>3
<1> QED
  BY <1>1, <1>2, <1>4

LEMMA ProvisionedKeeps ==
  ASSUME IInv, NEW t \in Tasks, Provisioned(t)
  PROVE  IInv'
<1> DEFINE old == task[t].stack
           p == Head(old)
<1>0. /\ task[t].at = "asking" /\ prov[t][p].at = "ok"
      /\ UNCHANGED <<registry, shells, index, lock, prov, assign>>
      /\ registered' \subseteq Points /\ UNCHANGED <<location, status>>
  BY DEF Provisioned, Asked, At, registry, IInv, TypeOK
<1>1. /\ old \in Seq(Points) /\ old # <<>> /\ Len(old) \in Nat \ {0} /\ p = old[1] /\ p \in Points
      /\ task[t].job.what # "adopt"
  BY <1>0, StackIsStack
<1>2. /\ old[Len(old)] = PointOf(t)
      /\ \A i \in 1 .. Len(old) - 1 : Parent[old[i + 1]] = old[i]
  BY <1>0 DEF IInv, TaskOK, StackOK
<1>3. /\ assign[t][p].at = "ok" /\ prov[t][p].host \in Stars
      /\ assign[t][p].star = prov[t][p].host
  BY <1>0, <1>1 DEF IInv, ProvOK, ProvInv
<1>4. p \in shells[prov[t][p].host] /\ location[p] # NoStar
  BY <1>1, <1>3 DEF IInv, AssignOK, AssignInv
<1>5. task \in [Tasks -> TaskRec]
  BY TaskIsTask
<1>6. CASE Len(old) > 1 /\ task' = [task EXCEPT ![t].at = "reread", ![t].stack = Tail(@)]
  <2> DEFINE new == Tail(old)
  <2>1. /\ new \in Seq(Points) /\ new # <<>> /\ Len(new) = Len(old) - 1
        /\ Head(new) = old[2]
        /\ \A i \in 1 .. Len(old) - 1 : new[i] = old[i + 1]
        /\ new[Len(new)] = old[Len(old)]
    BY <1>1, <1>6, WithoutFirst
  <2>2. task' = [task EXCEPT ![t] = [task[t] EXCEPT !.at = "reread", !.stack = new]]
    BY <1>5, <1>6
  <2> HIDE DEF new
  <2>3. [task[t] EXCEPT !.at = "reread", !.stack = new] \in TaskRec
    <3> DEFINE r == task[t]
    <3> r \in TaskRec
      BY <1>5
    <3> HIDE DEF r
    <3> [r EXCEPT !.at = "reread", !.stack = new] \in TaskRec
      BY <2>1 DEF TaskRec
    <3> QED
      BY DEF r
  <2>4. task' \in [Tasks -> TaskRec] /\ \A u \in Tasks \ {t} : task'[u] = task[u]
    BY <1>5, <2>2, <2>3
  <2>5. /\ task'[t].at = "reread" /\ task'[t].stack = new /\ task'[t].job = task[t].job
        /\ task'[t].result = task[t].result /\ task'[t].answer = task[t].answer
    BY <1>5, <2>2 DEF TaskRec
  <2>6. Parent[old[2]] = p
    <3> 1 \in 1 .. Len(old) - 1 /\ 1 + 1 = 2
      BY <1>1, <1>6
    <3> QED
      BY <1>1, <1>2
  <2>7. LocationOf(Parent[Head(new)]) # NoStar
    BY <2>1, <2>6, <1>1, <1>4, ProvisioningAssumption DEF LocationOf
  <2> HIDE DEF old, p
  <2>8. \A i \in 1 .. Len(new) - 1 : Parent[new[i + 1]] = new[i]
    <3> SUFFICES ASSUME NEW i \in 1 .. Len(new) - 1 PROVE Parent[new[i + 1]] = new[i]
      OBVIOUS
    <3> i \in 1 .. Len(old) - 1 /\ i + 1 \in 1 .. Len(old) - 1
      BY <1>1, <2>1
    <3> new[i] = old[i + 1] /\ new[i + 1] = old[(i + 1) + 1] /\ Parent[old[(i + 1) + 1]] = old[i + 1]
      BY <1>2, <2>1
    <3> QED
      OBVIOUS
  <2>9. StackOK(t)'
    BY <2>1, <2>5, <2>7, <2>8, <1>0, <1>2 DEF StackOK, PointOf, LocationOf
  <2>10. JobOK(t)
    BY DEF IInv, TaskOK
  <2>11. JobOK(t)'
    BY <2>10, <2>5, <1>1, <1>0 DEF JobOK
  <2>12. /\ task[t].result # "panicked"
         /\ task[t].answer # NoStar => task[t].answer \in Stars /\ Served(PointOf(t), task[t].answer)
    BY <1>5 DEF IInv, AnswerIsServed, Served, TaskRec
  <2> QED
    BY <1>0, <2>4, <2>5, <2>9, <2>11, <2>12, TaskMoves
<1>7. CASE ~(Len(old) > 1) /\ End(t, "ok", prov[t][p].host)
  <2>1. Len(old) \in Nat \ {0} /\ ~(Len(old) > 1)
    BY <1>1, <1>7
  <2> Len(old) = 1
    <3> HIDE DEF old
    <3> QED
      BY <2>1
  <2> p = PointOf(t)
    BY <1>1, <1>2
  <2> Served(PointOf(t), prov[t][p].host)
    BY <1>4 DEF Served
  <2> QED
    BY <1>0, <1>3, <1>7, EndWith
<1>8. CASE Go(t, "record")
  BY <1>0, <1>1, <1>8, GoTo
<1> QED
  BY <1>6, <1>7, <1>8 DEF Provisioned, Asked

LEMMA ProvisionFailsKeeps ==
  ASSUME IInv, NEW t \in Tasks, ProvisionFails(t)
  PROVE  IInv'
<1> DEFINE r == [task[t] EXCEPT !.at = "done", !.result = "failed", !.answer = NoStar]
<1>0. /\ task[t].at = "asking" /\ UNCHANGED <<registered, location, shells, index, lock, prov, assign>>
      /\ status' = [status EXCEPT ![Head(task[t].stack)] = "Panic"]
  BY DEF ProvisionFails, At
<1>1. task \in [Tasks -> TaskRec] /\ task' = [task EXCEPT ![t] = r]
  BY TaskIsTask DEF ProvisionFails, Fail, End
<1>2. r \in TaskRec
  BY <1>1 DEF TaskRec
<1>3. task' \in [Tasks -> TaskRec] /\ \A u \in Tasks \ {t} : task'[u] = task[u]
  BY <1>1, <1>2
<1>4. /\ task'[t].at = "done" /\ task'[t].job = task[t].job
      /\ task'[t].result = "failed" /\ task'[t].answer = NoStar
  BY <1>1 DEF TaskRec
<1>5. TypeOK'
  <2> status' \in [Points -> {"Pending", "Panic"}]
    BY <1>0 DEF IInv, TypeOK
  <2> QED
    BY <1>0, <1>3 DEF IInv, TypeOK, TaskRec
<1>6. AssignOK' /\ ProvOK'
  BY <1>0 DEF IInv, AssignOK, AssignInv, ProvOK, ProvInv
<1>7. TaskOK'
  <2> SUFFICES ASSUME NEW u \in Tasks PROVE StackOK(u)' /\ JobOK(u)'
    BY DEF TaskOK
  <2>0. StackOK(u) /\ JobOK(u)
    BY DEF IInv, TaskOK
  <2>1. CASE u = t
    <3> StackOK(t)'
      BY <1>4 DEF StackOK
    <3> JobOK(t)'
      BY <2>0, <2>1, <1>0, <1>4 DEF JobOK
    <3> QED
      BY <2>1
  <2>2. CASE u # t
    <3> task'[u] = task[u]
      BY <2>2, <1>3
    <3> StackOK(u)'
      BY <2>0, <1>0 DEF StackOK, PointOf, LocationOf
    <3> JobOK(u)'
      BY <2>0, <1>0 DEF JobOK, PointOf
    <3> QED
      OBVIOUS
  <2> QED
    BY <2>1, <2>2
<1>8. \A p \in Points, s \in Stars : Served(p, s) => Served(p, s)'
  <2> \A u \in Tasks : task[u].result = "none" \/ task'[u] = task[u]
    BY <1>0, <1>3 DEF IInv, TaskOK, JobOK
  <2> QED
    BY <1>0, ServedStays
<1>9. LocatedHasShell'
  BY <1>0, <1>8, LocatedStays
<1>10. AnswerIsServed'
  <2> \A u \in Tasks : /\ task'[u].job = task[u].job
                       /\ task'[u].answer \in {task[u].answer, NoStar}
                       /\ task'[u].result # "panicked" \/ task'[u] = task[u]
    BY <1>3, <1>4
  <2> QED
    BY <1>8, AnswersStay
<1> QED
  BY <1>5, <1>6, <1>7, <1>9, <1>10 DEF IInv

(***************************************************************************)
(* What the handlers' steps have to show.                                  *)
(***************************************************************************)
\* A step on task t's request or assignment for p, that may add shells and write a
\* location down.
LEMMA HandlerMoves ==
  ASSUME IInv, NEW t \in Tasks, NEW p \in Points, UNCHANGED <<registered, status, task>>,
         shells' \in [Stars -> SUBSET Points], \A s \in Stars : shells[s] \subseteq shells'[s],
         index' \in [Stars -> [Kinds -> Nat]],
         lock' \in [Stars -> [Kinds -> {Free} \union (Tasks \X Points)]],
         prov' \in [Tasks -> [Points -> ProvRec]], assign' \in [Tasks -> [Points -> AssignRec]],
         \A u \in Tasks, q \in Points : u # t \/ q # p =>
            prov'[u][q] = prov[u][q] /\ assign'[u][q] = assign[u][q],
         location' \in [Points -> Stars \union {NoStar}],
         \A q \in Points : location'[q] # location[q] =>
            location'[q] # NoStar /\ Served(q, location'[q]),
         AssignInv(t, p)', ProvInv(t, p)',
         prov[t][p].at = "none" => prov'[t][p].at = "none",
         task[t].at = "adopting" /\ PointOf(t) = p =>
            assign'[t][p].at # "none" /\ assign'[t][p].star = assign[t][p].star
  PROVE  IInv'
<1>1. TypeOK'
  BY DEF IInv, TypeOK, ProvRec, AssignRec
<1>2. \A q \in Points : location[q] # NoStar => location'[q] # NoStar
  OBVIOUS
<1>3. \A q \in Points, s \in Stars : Served(q, s) => Served(q, s)'
  BY ServedStays
<1>4. AssignOK'
  <2> SUFFICES ASSUME NEW u \in Tasks, NEW q \in Points PROVE AssignInv(u, q)'
    BY DEF AssignOK, AssignInv
  <2>1. CASE u # t \/ q # p
    <3> AssignInv(u, q) /\ assign'[u][q] = assign[u][q]
      BY <2>1 DEF IInv, AssignOK, AssignInv
    <3> QED
      BY <1>2 DEF AssignInv
  <2> QED
    BY <2>1
<1>5. ProvOK'
  <2> SUFFICES ASSUME NEW u \in Tasks, NEW q \in Points PROVE ProvInv(u, q)'
    BY DEF ProvOK, ProvInv
  <2>1. CASE u # t \/ q # p
    <3> ProvInv(u, q) /\ assign'[u][q] = assign[u][q] /\ prov'[u][q] = prov[u][q]
      BY <2>1 DEF IInv, ProvOK, ProvInv
    <3> QED
      BY DEF ProvInv, Turns
  <2> QED
    BY <2>1
<1>6. TaskOK'
  <2> SUFFICES ASSUME NEW u \in Tasks PROVE StackOK(u)' /\ JobOK(u)'
    BY DEF TaskOK
  <2>0. StackOK(u) /\ JobOK(u) /\ PointOf(u) \in Points /\ PointOf(u)' = PointOf(u)
    BY PointIsPoint DEF IInv, TaskOK, PointOf
  <2>1. StackOK(u)'
    <3> HIDE DEF IInv
    <3>1. task[u].at = "reread" => Parent[Head(task[u].stack)] \in Points \union {Root}
      BY StackIsStack, ProvisioningAssumption
    <3>2. \A q \in Points \union {Root} : LocationOf(q) # NoStar => LocationOf(q)' # NoStar
      BY <1>2, ProvisioningAssumption DEF LocationOf
    <3> QED
      BY <2>0, <3>1, <3>2 DEF StackOK
  <2>2. JobOK(u)'
    <3>1. \A q \in Points : prov[u][q].at = "none" => prov'[u][q].at = "none"
      OBVIOUS
    <3>2. task[u].at = "adopting" => /\ assign'[u][PointOf(u)].at # "none"
                                     /\ assign'[u][PointOf(u)].star = task[u].job.star
      BY <2>0 DEF JobOK
    <3> QED
      BY <2>0, <3>1, <3>2 DEF JobOK
  <2> QED
    BY <2>1, <2>2
<1>7. LocatedHasShell'
  <2> SUFFICES ASSUME NEW q \in Points, location'[q] # NoStar
               PROVE  Served(q, location[q])'
    BY DEF LocatedHasShell, Served
  <2> location'[q] \in Stars
    OBVIOUS
  <2>1. Served(q, location'[q])
    BY DEF IInv, LocatedHasShell, Served
  <2> QED
    BY <1>3, <2>1 DEF Served
<1>8. AnswerIsServed'
  <2> \A u \in Tasks : /\ task'[u].job = task[u].job
                       /\ task'[u].answer \in {task[u].answer, NoStar}
                       /\ task'[u].result # "panicked" \/ task'[u] = task[u]
    OBVIOUS
  <2> QED
    BY <1>3, AnswersStay
<1> QED
  BY <1>1, <1>4, <1>5, <1>6, <1>7, <1>8 DEF IInv

(* The tables of requests and assignments are written a cell at a time.      *)
LEMMA Cell ==
  ASSUME NEW S, NEW T, NEW R, NEW f \in [S -> [T -> R]], NEW s \in S, NEW t \in T, NEW r \in R
  PROVE  /\ [f EXCEPT ![s][t] = r] \in [S -> [T -> R]]
         /\ [f EXCEPT ![s][t] = r][s][t] = r
         /\ \A u \in S, v \in T : u # s \/ v # t => [f EXCEPT ![s][t] = r][u][v] = f[u][v]
OBVIOUS

LEMMA StepCell ==
  ASSUME IInv, NEW t \in Tasks, NEW p \in Points,
         NEW a \in {"none", "find", "driver", "store", "ok", "failed"}, Step(t, p, a)
  PROVE  /\ assign' \in [Tasks -> [Points -> AssignRec]]
         /\ \A u \in Tasks, q \in Points : u # t \/ q # p => assign'[u][q] = assign[u][q]
         /\ assign'[t][p].at = a /\ assign'[t][p].star = assign[t][p].star
<1> DEFINE r == [assign[t][p] EXCEPT !.at = a]
<1>1. assign \in [Tasks -> [Points -> AssignRec]] /\ assign[t][p] \in AssignRec
  BY DEF IInv, TypeOK, AssignRec
<1>2. r \in AssignRec /\ r.at = a /\ r.star = assign[t][p].star
  BY <1>1 DEF AssignRec
<1>3. assign' = [assign EXCEPT ![t][p] = r]
  BY <1>1 DEF Step
<1> HIDE DEF r
<1> QED
  BY <1>1, <1>2, <1>3, Cell

LEMMA ProvCell ==
  ASSUME IInv, NEW t \in Tasks, NEW p \in Points,
         NEW a \in {"none", "asked", "lock", "assigning", "ok", "failed"},
         NEW h \in Stars \union {NoStar},
         prov' = [prov EXCEPT ![t][p] = [prov[t][p] EXCEPT !.at = a, !.host = h]]
  PROVE  /\ prov' \in [Tasks -> [Points -> ProvRec]]
         /\ \A u \in Tasks, q \in Points : u # t \/ q # p => prov'[u][q] = prov[u][q]
         /\ prov'[t][p].at = a /\ prov'[t][p].star = prov[t][p].star /\ prov'[t][p].host = h
<1> DEFINE r == [prov[t][p] EXCEPT !.at = a, !.host = h]
<1>1. prov \in [Tasks -> [Points -> ProvRec]] /\ prov[t][p] \in ProvRec
  BY DEF IInv, TypeOK, ProvRec
<1>2. r \in ProvRec /\ r.at = a /\ r.star = prov[t][p].star /\ r.host = h
  BY <1>1 DEF ProvRec
<1> HIDE DEF r
<1> QED
  BY <1>1, <1>2, Cell DEF r

\* A request that stays with its host.
LEMMA ProvStepCell ==
  ASSUME IInv, NEW t \in Tasks, NEW p \in Points,
         NEW a \in {"none", "asked", "lock", "assigning", "ok", "failed"},
         prov' = [prov EXCEPT ![t][p].at = a]
  PROVE  /\ prov' \in [Tasks -> [Points -> ProvRec]]
         /\ \A u \in Tasks, q \in Points : u # t \/ q # p => prov'[u][q] = prov[u][q]
         /\ prov'[t][p].at = a /\ prov'[t][p].star = prov[t][p].star
         /\ prov'[t][p].host = prov[t][p].host
<1> DEFINE r == [prov[t][p] EXCEPT !.at = a]
<1>1. prov \in [Tasks -> [Points -> ProvRec]] /\ prov[t][p] \in ProvRec
  BY DEF IInv, TypeOK, ProvRec
<1>2. r \in ProvRec /\ r.at = a /\ r.star = prov[t][p].star /\ r.host = prov[t][p].host
  BY <1>1 DEF ProvRec
<1>3. prov' = [prov EXCEPT ![t][p] = r]
  BY <1>1
<1> HIDE DEF r
<1>4. /\ prov' \in [Tasks -> [Points -> ProvRec]] /\ prov'[t][p] = r
      /\ \A u \in Tasks, q \in Points : u # t \/ q # p => prov'[u][q] = prov[u][q]
  <2>1. prov' \in [Tasks -> [Points -> ProvRec]]
    <3>1. [prov[t] EXCEPT ![p] = r] \in [Points -> ProvRec]
      BY <1>1, <1>2
    <3> QED
      BY <1>1, <1>3, <3>1
  <2>2. prov'[t][p] = r
    BY <1>1, <1>3
  <2>3. \A u \in Tasks, q \in Points : u # t \/ q # p => prov'[u][q] = prov[u][q]
    BY <1>1, <1>3
  <2> QED
    BY <2>1, <2>2, <2>3
<1> QED
  BY <1>2, <1>4

LEMMA TablesAreTables ==
  ASSUME IInv, NEW t \in Tasks, NEW p \in Points
  PROVE  /\ prov \in [Tasks -> [Points -> ProvRec]] /\ assign \in [Tasks -> [Points -> AssignRec]]
         /\ prov[t][p] \in ProvRec /\ assign[t][p] \in AssignRec
         /\ shells \in [Stars -> SUBSET Points] /\ index \in [Stars -> [Kinds -> Nat]]
         /\ lock \in [Stars -> [Kinds -> {Free} \union (Tasks \X Points)]]
         /\ location \in [Points -> Stars \union {NoStar}]
         /\ Kind[p] \in Kinds
         /\ AssignInv(t, p) /\ ProvInv(t, p)
<1>1. /\ prov \in [Tasks -> [Points -> ProvRec]] /\ assign \in [Tasks -> [Points -> AssignRec]]
      /\ shells \in [Stars -> SUBSET Points] /\ index \in [Stars -> [Kinds -> Nat]]
      /\ lock \in [Stars -> [Kinds -> {Free} \union (Tasks \X Points)]]
      /\ location \in [Points -> Stars \union {NoStar}]
  BY DEF IInv, TypeOK, ProvRec, AssignRec
<1>2. Kind[p] \in Kinds
  BY DEF Kinds
<1>3. AssignInv(t, p) /\ ProvInv(t, p)
  BY DEF IInv, AssignOK, ProvOK
<1> QED
  BY <1>1, <1>2, <1>3

LEMMA CreateShellKeeps ==
  ASSUME IInv, NEW t \in Tasks, NEW p \in Points, CreateShell(t, p)
  PROVE  IInv'
<1> DEFINE s == assign[t][p].star
           a == assign'[t][p].at
<1>0. /\ assign[t][p].at = "find" /\ UNCHANGED <<registered, location, status, index, lock, task, prov>>
  BY DEF CreateShell, registry
<1>1. /\ prov \in [Tasks -> [Points -> ProvRec]] /\ assign \in [Tasks -> [Points -> AssignRec]]
      /\ shells \in [Stars -> SUBSET Points] /\ index \in [Stars -> [Kinds -> Nat]]
      /\ lock \in [Stars -> [Kinds -> {Free} \union (Tasks \X Points)]]
      /\ location \in [Points -> Stars \union {NoStar}]
      /\ s \in Stars
  BY <1>0, TablesAreTables DEF AssignInv
<1>2. PICK where \in {"driver", "failed"} :
         /\ Step(t, p, where)
         /\ where = "driver" => shells' = [shells EXCEPT ![s] = @ \union {p}]
         /\ where = "failed" => UNCHANGED shells
  BY DEF CreateShell
<1>3. /\ assign' \in [Tasks -> [Points -> AssignRec]]
      /\ \A u \in Tasks, q \in Points : u # t \/ q # p => assign'[u][q] = assign[u][q]
      /\ assign'[t][p].at = where /\ assign'[t][p].star = s
  BY <1>2, StepCell
<1>4. /\ shells' \in [Stars -> SUBSET Points] /\ \A r \in Stars : shells[r] \subseteq shells'[r]
      /\ where = "driver" => p \in shells'[s]
  <2>1. CASE where = "driver"
    <3> shells' = [shells EXCEPT ![s] = @ \union {p}]
      BY <1>2, <2>1
    <3> QED
      BY <1>1
  <2>2. CASE where = "failed"
    BY <1>1, <1>2, <2>2
  <2> QED
    BY <2>1, <2>2
<1>5. AssignInv(t, p)'
  BY <1>1, <1>3, <1>4 DEF AssignInv
<1>6. ProvInv(t, p)'
  BY <1>0, <1>3, TablesAreTables DEF ProvInv, Turns
<1> QED
  BY <1>0, <1>1, <1>3, <1>4, <1>5, <1>6, HandlerMoves

\* A step of an assignment that adds no shell and ends nothing.
LEMMA StepKeeps ==
  ASSUME IInv, NEW t \in Tasks, NEW p \in Points, NEW where \in {"store", "failed"},
         assign[t][p].at = "driver", Step(t, p, where),
         UNCHANGED <<registry, shells, index, lock, task, prov>>
  PROVE  IInv'
<1>0. UNCHANGED <<registered, location, status>>
  BY DEF registry
<1>1. /\ prov \in [Tasks -> [Points -> ProvRec]] /\ assign \in [Tasks -> [Points -> AssignRec]]
      /\ shells \in [Stars -> SUBSET Points] /\ index \in [Stars -> [Kinds -> Nat]]
      /\ lock \in [Stars -> [Kinds -> {Free} \union (Tasks \X Points)]]
      /\ location \in [Points -> Stars \union {NoStar}]
  BY TablesAreTables
<1>3. /\ assign' \in [Tasks -> [Points -> AssignRec]]
      /\ \A u \in Tasks, q \in Points : u # t \/ q # p => assign'[u][q] = assign[u][q]
      /\ assign'[t][p].at = where /\ assign'[t][p].star = assign[t][p].star
  BY StepCell
<1>5. AssignInv(t, p)'
  BY <1>3, TablesAreTables DEF AssignInv
<1>6. ProvInv(t, p)'
  BY <1>3, TablesAreTables DEF ProvInv, Turns
<1> QED
  BY <1>0, <1>1, <1>3, <1>5, <1>6, HandlerMoves

LEMMA DriverAnswersKeeps ==
  ASSUME IInv, NEW t \in Tasks, NEW p \in Points, DriverAnswers(t, p)
  PROVE  IInv'
<1> PICK where \in {"store", "failed"} : Step(t, p, where)
  BY DEF DriverAnswers
<1> QED
  BY StepKeeps DEF DriverAnswers

LEMMA DriverTimeoutKeeps ==
  ASSUME IInv, NEW t \in Tasks, NEW p \in Points, DriverTimeout(t, p)
  PROVE  IInv'
BY StepKeeps DEF DriverTimeout

LEMMA StoreStarKeeps ==
  ASSUME IInv, NEW t \in Tasks, NEW p \in Points, StoreStar(t, p)
  PROVE  IInv'
<1> DEFINE s == assign[t][p].star
<1>0. /\ assign[t][p].at = "store" /\ UNCHANGED <<registered, status, shells, index, lock, task, prov>>
      /\ location' = [location EXCEPT ![p] = s]
  BY DEF StoreStar, AssignStar
<1>1. /\ prov \in [Tasks -> [Points -> ProvRec]] /\ assign \in [Tasks -> [Points -> AssignRec]]
      /\ shells \in [Stars -> SUBSET Points] /\ index \in [Stars -> [Kinds -> Nat]]
      /\ lock \in [Stars -> [Kinds -> {Free} \union (Tasks \X Points)]]
      /\ location \in [Points -> Stars \union {NoStar}]
      /\ s \in Stars /\ p \in shells[s] /\ s # NoStar
  BY <1>0, TablesAreTables, ProvisioningAssumption DEF AssignInv
<1>3. /\ assign' \in [Tasks -> [Points -> AssignRec]]
      /\ \A u \in Tasks, q \in Points : u # t \/ q # p => assign'[u][q] = assign[u][q]
      /\ assign'[t][p].at = "ok" /\ assign'[t][p].star = s
  BY StepCell DEF StoreStar
<1>4. /\ location' \in [Points -> Stars \union {NoStar}]
      /\ location'[p] = s /\ \A q \in Points \ {p} : location'[q] = location[q]
  BY <1>0, <1>1
<1>5. AssignInv(t, p)'
  BY <1>0, <1>1, <1>3, <1>4 DEF AssignInv
<1>6. ProvInv(t, p)'
  BY <1>0, <1>3, TablesAreTables DEF ProvInv, Turns
<1>7. \A q \in Points : location'[q] # location[q] =>
         location'[q] # NoStar /\ Served(q, location'[q])
  BY <1>1, <1>4 DEF Served
<1>8. \A r \in Stars : shells[r] \subseteq shells'[r]
  BY <1>0
<1>9. /\ UNCHANGED <<registered, status, task>>
      /\ shells' \in [Stars -> SUBSET Points] /\ \A r \in Stars : shells[r] \subseteq shells'[r]
      /\ index' \in [Stars -> [Kinds -> Nat]]
      /\ lock' \in [Stars -> [Kinds -> {Free} \union (Tasks \X Points)]]
      /\ prov' \in [Tasks -> [Points -> ProvRec]] /\ assign' \in [Tasks -> [Points -> AssignRec]]
      /\ location' \in [Points -> Stars \union {NoStar}]
  BY <1>0, <1>1, <1>3, <1>4, <1>8
<1>10. /\ \A u \in Tasks, q \in Points : u # t \/ q # p =>
             prov'[u][q] = prov[u][q] /\ assign'[u][q] = assign[u][q]
       /\ prov[t][p].at = "none" => prov'[t][p].at = "none"
       /\ task[t].at = "adopting" /\ PointOf(t) = p =>
             assign'[t][p].at # "none" /\ assign'[t][p].star = assign[t][p].star
  BY <1>0, <1>3
<1> HIDE DEF s
<1> QED
  BY <1>5, <1>6, <1>7, <1>9, <1>10, HandlerMoves

LEMMA EndProvisionKeeps ==
  ASSUME IInv, NEW t \in Tasks, NEW p \in Points, NEW how \in {"ok", "failed"},
         prov[t][p].at = "assigning", how = "ok" => assign[t][p].at = "ok",
         EndProvision(t, p, how)
  PROVE  IInv'
<1> DEFINE s == prov[t][p].star
<1>0. UNCHANGED <<registered, location, status, shells, index, task, assign>>
  BY DEF EndProvision, registry
<1>1. /\ prov \in [Tasks -> [Points -> ProvRec]] /\ assign \in [Tasks -> [Points -> AssignRec]]
      /\ shells \in [Stars -> SUBSET Points] /\ index \in [Stars -> [Kinds -> Nat]]
      /\ lock \in [Stars -> [Kinds -> {Free} \union (Tasks \X Points)]]
      /\ location \in [Points -> Stars \union {NoStar}]
      /\ s \in Stars /\ Kind[p] \in Kinds
  BY TablesAreTables DEF ProvInv
<1>2. lock' \in [Stars -> [Kinds -> {Free} \union (Tasks \X Points)]]
  BY <1>1 DEF EndProvision
<1>3. /\ prov' \in [Tasks -> [Points -> ProvRec]]
      /\ \A u \in Tasks, q \in Points : u # t \/ q # p => prov'[u][q] = prov[u][q]
      /\ prov'[t][p].at = how /\ prov'[t][p].star = s /\ prov'[t][p].host = prov[t][p].host
  BY ProvStepCell DEF EndProvision
<1>5. AssignInv(t, p)'
  BY <1>0, TablesAreTables DEF AssignInv
<1>6. ProvInv(t, p)'
  BY <1>0, <1>3, TablesAreTables DEF ProvInv, Turns
<1>7. task[t].at = "adopting" /\ PointOf(t) = p =>
         assign'[t][p].at # "none" /\ assign'[t][p].star = assign[t][p].star
  BY <1>0 DEF IInv, TaskOK, JobOK
<1> QED
  BY <1>0, <1>1, <1>2, <1>3, <1>5, <1>6, <1>7, HandlerMoves

LEMMA AssignAnsweredKeeps ==
  ASSUME IInv, NEW t \in Tasks, NEW p \in Points, AssignAnswered(t, p)
  PROVE  IInv'
BY EndProvisionKeeps DEF AssignAnswered, Over

LEMMA AssignTimeoutKeeps ==
  ASSUME IInv, NEW t \in Tasks, NEW p \in Points, AssignTimeout(t, p)
  PROVE  IInv'
BY EndProvisionKeeps DEF AssignTimeout

\* A request that sends an assignment to its host.
LEMMA AssigningKeeps ==
  ASSUME IInv, NEW t \in Tasks, NEW p \in Points, NEW host \in Stars,
         prov[t][p].at \in {"asked", "lock"},
         prov' = [prov EXCEPT ![t][p].at = "assigning", ![t][p].host = host],
         SendAssign(t, p, host),
         index' \in [Stars -> [Kinds -> Nat]],
         lock' \in [Stars -> [Kinds -> {Free} \union (Tasks \X Points)]],
         UNCHANGED <<registry, shells, task>>
  PROVE  IInv'
<1>0. UNCHANGED <<registered, location, status>>
  BY DEF registry
<1>1. /\ prov \in [Tasks -> [Points -> ProvRec]] /\ assign \in [Tasks -> [Points -> AssignRec]]
      /\ shells \in [Stars -> SUBSET Points]
      /\ location \in [Points -> Stars \union {NoStar}]
      /\ prov[t][p].star \in Stars
  BY TablesAreTables DEF ProvInv
<1>2. /\ assign' \in [Tasks -> [Points -> AssignRec]]
      /\ \A u \in Tasks, q \in Points : u # t \/ q # p => assign'[u][q] = assign[u][q]
      /\ assign'[t][p].at = "find" /\ assign'[t][p].star = host
  <2> [at |-> "find", star |-> host] \in AssignRec
    BY DEF AssignRec
  <2> QED
    BY <1>1 DEF SendAssign
<1>3. /\ prov' \in [Tasks -> [Points -> ProvRec]]
      /\ \A u \in Tasks, q \in Points : u # t \/ q # p => prov'[u][q] = prov[u][q]
      /\ prov'[t][p].at = "assigning" /\ prov'[t][p].star = prov[t][p].star /\ prov'[t][p].host = host
  <2> prov' = [prov EXCEPT ![t][p] = [prov[t][p] EXCEPT !.at = "assigning", !.host = host]]
    BY <1>1
  <2> QED
    BY ProvCell
<1>5. AssignInv(t, p)'
  BY <1>2 DEF AssignInv
<1>6. ProvInv(t, p)'
  BY <1>1, <1>2, <1>3 DEF ProvInv
<1>7. ~(task[t].at = "adopting") /\ prov[t][p].at # "none"
  BY DEF IInv, TaskOK, JobOK
<1>8. /\ shells' \in [Stars -> SUBSET Points] /\ location' \in [Points -> Stars \union {NoStar}]
      /\ \A r \in Stars : shells[r] \subseteq shells'[r]
      /\ UNCHANGED <<location, task>>
  BY <1>0, <1>1
<1>9. /\ UNCHANGED <<registered, status, task>>
      /\ shells' \in [Stars -> SUBSET Points] /\ \A r \in Stars : shells[r] \subseteq shells'[r]
      /\ index' \in [Stars -> [Kinds -> Nat]]
      /\ lock' \in [Stars -> [Kinds -> {Free} \union (Tasks \X Points)]]
      /\ prov' \in [Tasks -> [Points -> ProvRec]] /\ assign' \in [Tasks -> [Points -> AssignRec]]
      /\ location' \in [Points -> Stars \union {NoStar}]
  BY <1>0, <1>1, <1>2, <1>3, <1>8
<1>10. /\ \A u \in Tasks, q \in Points : u # t \/ q # p =>
             prov'[u][q] = prov[u][q] /\ assign'[u][q] = assign[u][q]
       /\ prov[t][p].at = "none" => prov'[t][p].at = "none"
       /\ task[t].at = "adopting" /\ PointOf(t) = p =>
             assign'[t][p].at # "none" /\ assign'[t][p].star = assign[t][p].star
  BY <1>0, <1>2, <1>3, <1>7
<1>11. \A q \in Points : location'[q] # location[q] =>
          location'[q] # NoStar /\ Served(q, location'[q])
  BY <1>0
<1> QED
  BY <1>5, <1>6, <1>9, <1>10, <1>11, HandlerMoves

\* A request that goes for the selector, or finds nobody for its point.
LEMMA NoAssignKeeps ==
  ASSUME IInv, NEW t \in Tasks, NEW p \in Points, NEW a \in {"lock", "failed"},
         prov[t][p].at = "asked", prov' = [prov EXCEPT ![t][p].at = a],
         a = "lock" => Turns(prov[t][p].star, Kind[p]) # <<>>,
         UNCHANGED <<registered, location, status, shells, index, lock, task, assign>>
  PROVE  IInv'
<1>1. /\ prov \in [Tasks -> [Points -> ProvRec]] /\ assign \in [Tasks -> [Points -> AssignRec]]
      /\ shells \in [Stars -> SUBSET Points] /\ index \in [Stars -> [Kinds -> Nat]]
      /\ lock \in [Stars -> [Kinds -> {Free} \union (Tasks \X Points)]]
      /\ location \in [Points -> Stars \union {NoStar}]
      /\ prov[t][p].star \in Stars
  BY TablesAreTables DEF ProvInv
<1>2. /\ prov' \in [Tasks -> [Points -> ProvRec]]
      /\ \A u \in Tasks, q \in Points : u # t \/ q # p => prov'[u][q] = prov[u][q]
      /\ prov'[t][p].at = a /\ prov'[t][p].star = prov[t][p].star
  <2> DEFINE r == [prov[t][p] EXCEPT !.at = a]
  <2>1. prov[t][p] \in ProvRec
    BY <1>1
  <2>2. r \in ProvRec /\ r.at = a /\ r.star = prov[t][p].star
    BY <2>1 DEF ProvRec
  <2>3. prov' = [prov EXCEPT ![t][p] = r]
    BY <1>1
  <2> HIDE DEF r
  <2>4. prov' \in [Tasks -> [Points -> ProvRec]] /\ prov'[t][p] = r
    <3>1. [prov[t] EXCEPT ![p] = r] \in [Points -> ProvRec]
      BY <1>1, <2>2
    <3>2. prov' \in [Tasks -> [Points -> ProvRec]]
      BY <1>1, <2>3, <3>1
    <3>3. prov'[t][p] = r
      BY <1>1, <2>3
    <3> QED
      BY <3>2, <3>3
  <2>5. \A u \in Tasks, q \in Points : u # t \/ q # p => prov'[u][q] = prov[u][q]
    BY <1>1, <2>3
  <2> QED
    BY <2>2, <2>4, <2>5
<1>3. AssignInv(t, p)'
  BY TablesAreTables DEF AssignInv
<1>4. ProvInv(t, p)'
  BY <1>1, <1>2 DEF ProvInv, Turns
<1>5. ~(task[t].at = "adopting")
  BY DEF IInv, TaskOK, JobOK
<1> QED
  BY <1>1, <1>2, <1>3, <1>4, <1>5, HandlerMoves

LEMMA ProvisionKeeps ==
  ASSUME IInv, NEW t \in Tasks, NEW p \in Points, Provision(t, p)
  PROVE  IInv'
<1> DEFINE s == prov[t][p].star
<1>0. /\ prov[t][p].at = "asked"
      /\ UNCHANGED <<registered, location, status, shells, index, lock, task>>
      /\ UNCHANGED registry
  BY DEF Provision, registry
<1>1. /\ prov \in [Tasks -> [Points -> ProvRec]] /\ assign \in [Tasks -> [Points -> AssignRec]]
      /\ shells \in [Stars -> SUBSET Points] /\ index \in [Stars -> [Kinds -> Nat]]
      /\ lock \in [Stars -> [Kinds -> {Free} \union (Tasks \X Points)]]
      /\ location \in [Points -> Stars \union {NoStar}]
      /\ s \in Stars
  BY <1>0, TablesAreTables DEF ProvInv
<1>2. CASE \E a \in {"lock", "failed"} : /\ prov' = [prov EXCEPT ![t][p].at = a] /\ UNCHANGED assign
                                         /\ a = "lock" => Turns(s, Kind[p]) # <<>>
  BY <1>0, <1>2, NoAssignKeeps
<1>3. CASE /\ prov' = [prov EXCEPT ![t][p].at = "assigning", ![t][p].host = s]
           /\ SendAssign(t, p, s)
  BY <1>0, <1>1, <1>3, AssigningKeeps
<1> QED
  BY <1>2, <1>3 DEF Provision

LEMMA PickIsStar ==
  ASSUME NEW s \in Stars, NEW k \in Kinds, Turns(s, k) # <<>>, NEW i \in Nat
  PROVE  Pick(s, k, i) \in Stars
<1> DEFINE turns == Turns(s, k)
<1>1. turns \in Seq(Stars) /\ turns # <<>>
  BY ProvisioningAssumption DEF Turns
<1> HIDE DEF turns
<1>2. Len(turns) \in Nat \ {0}
  BY <1>1
<1>3. 1 + (i % Len(turns)) \in 1 .. Len(turns)
  BY <1>2
<1>4. turns[1 + (i % Len(turns))] \in Stars
  BY <1>1, <1>3
<1> QED
  BY <1>4 DEF Pick, turns

LEMMA WrangleKeeps ==
  ASSUME IInv, NEW t \in Tasks, NEW p \in Points, Wrangle(t, p)
  PROVE  IInv'
<1> DEFINE s == prov[t][p].star
           k == Kind[p]
           host == Pick(s, k, index[s][k] + 1)
<1>1. /\ index \in [Stars -> [Kinds -> Nat]] /\ s \in Stars /\ k \in Kinds
      /\ lock \in [Stars -> [Kinds -> {Free} \union (Tasks \X Points)]]
      /\ Turns(s, k) # <<>>
  BY TablesAreTables DEF Wrangle, ProvInv
<1>2. host \in Stars
  BY <1>1, PickIsStar
<1>3. /\ prov[t][p].at = "lock" /\ UNCHANGED <<registry, shells, task>>
      /\ prov' = [prov EXCEPT ![t][p].at = "assigning", ![t][p].host = host]
      /\ SendAssign(t, p, host)
      /\ lock' = [lock EXCEPT ![s][k] = <<t, p>>]
      /\ index' = [index EXCEPT ![s][k] = @ + 1]
  BY DEF Wrangle
<1> HIDE DEF host
<1>4. index' \in [Stars -> [Kinds -> Nat]]
  BY <1>1, <1>3
<1>5. lock' \in [Stars -> [Kinds -> {Free} \union (Tasks \X Points)]]
  BY <1>1, <1>3
<1> QED
  BY <1>2, <1>3, <1>4, <1>5, AssigningKeeps

\* The star of a create_in_star sends the assignment to itself.
LEMMA AdoptKeeps ==
  ASSUME IInv, NEW t \in Tasks, Adopt(t)
  PROVE  IInv'
<1> DEFINE p == PointOf(t)
           s == task[t].job.star
           r == [task[t] EXCEPT !.at = "adopting"]
           a == [at |-> "find", star |-> s]
<1>0. /\ task[t].at = "adopt" /\ UNCHANGED <<registry, shells, index, lock, prov>>
      /\ UNCHANGED <<registered, location, status>>
      /\ task' = [task EXCEPT ![t].at = "adopting"] /\ assign' = [assign EXCEPT ![t][p] = a]
  BY DEF Adopt, At, Go, registry
<1>1. /\ p \in Points /\ task[t].job.what = "adopt" /\ s \in Stars
      /\ \A q \in Points : prov[t][q].at = "none"
  <2> task[t].job.what = "adopt" /\ \A q \in Points : prov[t][q].at = "none"
    BY <1>0 DEF IInv, TaskOK, JobOK
  <2> QED
    BY PointIsPoint, ProvisioningAssumption
<1>2. task \in [Tasks -> TaskRec] /\ task' = [task EXCEPT ![t] = r]
  BY <1>0, TaskIsTask
<1>3. /\ r \in TaskRec /\ r.at = "adopting" /\ r.job = task[t].job
      /\ r.result = task[t].result /\ r.answer = task[t].answer
  BY <1>2 DEF TaskRec
<1> HIDE DEF r
<1>4. /\ task' \in [Tasks -> TaskRec] /\ \A u \in Tasks \ {t} : task'[u] = task[u]
      /\ task'[t].at = "adopting" /\ task'[t].job = task[t].job
      /\ task'[t].result = task[t].result /\ task'[t].answer = task[t].answer
  BY <1>2, <1>3
<1>5. a \in AssignRec /\ a.at = "find" /\ a.star = s
  BY <1>1 DEF AssignRec
<1>6. assign \in [Tasks -> [Points -> AssignRec]]
  BY <1>1, TablesAreTables
<1> HIDE DEF a, p
<1>7. /\ assign' \in [Tasks -> [Points -> AssignRec]] /\ assign'[t][p] = a
      /\ \A u \in Tasks, q \in Points : u # t \/ q # p => assign'[u][q] = assign[u][q]
  BY <1>0, <1>1, <1>5, <1>6, Cell
<1>8. TypeOK'
  BY <1>0, <1>4, <1>7 DEF IInv, TypeOK, TaskRec, AssignRec
<1>9. AssignOK'
  <2> SUFFICES ASSUME NEW u \in Tasks, NEW q \in Points PROVE AssignInv(u, q)'
    BY DEF AssignOK
  <2>1. CASE u = t /\ q = p
    BY <2>1, <1>1, <1>5, <1>7 DEF AssignInv
  <2>2. CASE u # t \/ q # p
    BY <2>2, <1>0, <1>7 DEF IInv, AssignOK, AssignInv
  <2> QED
    BY <2>1, <2>2
<1>10. ProvOK'
  <2> SUFFICES ASSUME NEW u \in Tasks, NEW q \in Points PROVE ProvInv(u, q)'
    BY DEF ProvOK
  <2>1. CASE u = t /\ q = p
    BY <2>1, <1>0, <1>1 DEF ProvInv
  <2>2. CASE u # t \/ q # p
    BY <2>2, <1>0, <1>7 DEF IInv, ProvOK, ProvInv, Turns
  <2> QED
    BY <2>1, <2>2
<1>11. TaskOK'
  <2> SUFFICES ASSUME NEW u \in Tasks PROVE StackOK(u)' /\ JobOK(u)'
    BY DEF TaskOK
  <2>0. StackOK(u) /\ JobOK(u)
    BY DEF IInv, TaskOK
  <2>1. CASE u = t
    <3>1. StackOK(t)'
      BY <1>4 DEF StackOK
    <3>2. PointOf(t)' = p
      BY <1>4 DEF PointOf, p
    <3>3. JobOK(t)'
      BY <2>0, <2>1, <1>0, <1>1, <1>4, <1>5, <1>7, <3>2 DEF JobOK
    <3> QED
      BY <2>1, <3>1, <3>3
  <2>2. CASE u # t
    <3>1. task'[u] = task[u] /\ PointOf(u) \in Points /\ PointOf(u)' = PointOf(u)
      BY <2>2, <1>4, PointIsPoint DEF PointOf
    <3>2. assign'[u][PointOf(u)] = assign[u][PointOf(u)]
      BY <2>2, <3>1, <1>7
    <3>3. StackOK(u)'
      BY <2>0, <3>1, <1>0 DEF StackOK, PointOf, LocationOf
    <3>4. JobOK(u)'
      BY <2>0, <3>1, <3>2, <1>0 DEF JobOK
    <3> QED
      BY <3>3, <3>4
  <2> QED
    BY <2>1, <2>2
<1>12. \A q \in Points, w \in Stars : Served(q, w) => Served(q, w)'
  <2> \A u \in Tasks : task[u].result = "none" \/ task'[u] = task[u]
    BY <1>0, <1>4 DEF IInv, TaskOK, JobOK
  <2> QED
    BY <1>0, ServedStays
<1>13. LocatedHasShell'
  BY <1>0, <1>12, LocatedStays
<1>14. AnswerIsServed'
  <2> \A u \in Tasks : /\ task'[u].job = task[u].job
                       /\ task'[u].answer \in {task[u].answer, NoStar}
                       /\ task'[u].result # "panicked" \/ task'[u] = task[u]
    BY <1>4 DEF IInv, AnswerIsServed
  <2> QED
    BY <1>12, AnswersStay
<1> QED
  BY <1>8, <1>9, <1>10, <1>11, <1>13, <1>14 DEF IInv

\* Its answer is written down as the star of the point, whatever it was: if it was not
\* good, the job has failed, and its point is where the mishap is.
LEMMA AdoptedKeeps ==
  ASSUME IInv, NEW t \in Tasks, NEW how \in {"ok", "failed"}, task[t].at = "adopting",
         how = "ok" => assign[t][PointOf(t)].at = "ok", Adopted(t, how)
  PROVE  IInv'
<1> DEFINE p == PointOf(t)
           s == task[t].job.star
           r == [task[t] EXCEPT !.at = "done", !.result = how, !.answer = NoStar]
<1>0. /\ UNCHANGED <<registered, status, shells, index, lock, prov, assign>>
      /\ location' = [location EXCEPT ![p] = s]
      /\ task' = [task EXCEPT ![t].at = "done", ![t].result = how, ![t].answer = NoStar]
  BY DEF Adopted, AssignStar, End
<1>1. /\ p \in Points /\ task[t].job.what = "adopt" /\ s \in Stars /\ s # NoStar
      /\ assign[t][p].star = s /\ \A q \in Points : prov[t][q].at = "none"
  <2> /\ task[t].job.what = "adopt" /\ assign[t][p].star = s
      /\ \A q \in Points : prov[t][q].at = "none"
    BY DEF IInv, TaskOK, JobOK
  <2> QED
    BY PointIsPoint, ProvisioningAssumption
<1>2. task \in [Tasks -> TaskRec] /\ task' = [task EXCEPT ![t] = r]
  BY <1>0, TaskIsTask
<1>3. r \in TaskRec /\ r.at = "done" /\ r.job = task[t].job /\ r.result = how /\ r.answer = NoStar
  BY <1>2 DEF TaskRec
<1> HIDE DEF r
<1>4. /\ task' \in [Tasks -> TaskRec] /\ \A u \in Tasks \ {t} : task'[u] = task[u]
      /\ task'[t].at = "done" /\ task'[t].job = task[t].job
      /\ task'[t].result = how /\ task'[t].answer = NoStar
  BY <1>2, <1>3
<1>5. location \in [Points -> Stars \union {NoStar}]
  BY DEF IInv, TypeOK
<1>6. /\ location' \in [Points -> Stars \union {NoStar}] /\ location'[p] = s
      /\ \A q \in Points \ {p} : location'[q] = location[q]
  BY <1>0, <1>1, <1>5
<1>7. \A q \in Points : location[q] # NoStar => location'[q] # NoStar
  BY <1>1, <1>6
<1> HIDE DEF s
<1>8. TypeOK'
  BY <1>0, <1>4, <1>6 DEF IInv, TypeOK, TaskRec
<1>9. AssignOK'
  BY <1>0, <1>7 DEF IInv, AssignOK, AssignInv
<1>10. ProvOK'
  BY <1>0 DEF IInv, ProvOK, ProvInv, Turns
<1>11. TaskOK'
  <2> SUFFICES ASSUME NEW u \in Tasks PROVE StackOK(u)' /\ JobOK(u)'
    BY DEF TaskOK
  <2>0. StackOK(u) /\ JobOK(u)
    BY DEF IInv, TaskOK
  <2>1. CASE u = t
    <3>1. StackOK(t)'
      BY <1>4 DEF StackOK
    <3>2. JobOK(t)'
      BY <1>0, <1>1, <1>4 DEF JobOK
    <3> QED
      BY <2>1, <3>1, <3>2
  <2>2. CASE u # t
    <3>1. task'[u] = task[u] /\ PointOf(u)' = PointOf(u)
      BY <2>2, <1>4 DEF PointOf
    <3>2. task[u].at = "reread" => Parent[Head(task[u].stack)] \in Points \union {Root}
      BY StackIsStack, ProvisioningAssumption
    <3>3. \A q \in Points \union {Root} : LocationOf(q) # NoStar => LocationOf(q)' # NoStar
      BY <1>7, ProvisioningAssumption DEF LocationOf
    <3>4. StackOK(u)'
      BY <2>0, <3>1, <3>2, <3>3 DEF StackOK
    <3>5. JobOK(u)'
      BY <2>0, <3>1, <1>0 DEF JobOK
    <3> QED
      BY <3>4, <3>5
  <2> QED
    BY <2>1, <2>2
<1>12. \A q \in Points, w \in Stars : Served(q, w) => Served(q, w)'
  <2> \A u \in Tasks : task[u].result = "none" \/ task'[u] = task[u]
    BY <1>4 DEF IInv, TaskOK, JobOK
  <2> QED
    BY <1>0, ServedStays
<1>13. Served(p, s)'
  <2>1. CASE how = "ok"
    <3> p \in shells[s]
      BY <2>1, <1>1 DEF IInv, AssignOK, AssignInv
    <3> QED
      BY <1>0, <1>4 DEF Served, s, p, PointOf
  <2>2. CASE how = "failed"
    <3> /\ task'[t].job.what = "adopt" /\ PointOf(t)' = PointOf(t)
        /\ task'[t].job.star = s /\ task'[t].result = "failed" /\ s' = s
      BY <2>2, <1>1, <1>4 DEF PointOf, s
    <3> Mishap(PointOf(t), s)'
      BY DEF Mishap
    <3> QED
      BY DEF Served
  <2> QED
    BY <2>1, <2>2
<1>14. LocatedHasShell'
  <2> SUFFICES ASSUME NEW q \in Points, location'[q] # NoStar PROVE Served(q, location[q])'
    BY DEF LocatedHasShell, Served
  <2>1. CASE q = p
    <3> s' = s /\ p' = p
      BY <1>4 DEF s, PointOf
    <3> location'[q] = s'
      BY <2>1, <1>6
    <3> QED
      BY <2>1, <1>13
  <2>2. CASE q # p
    <3> Served(q, location[q]) /\ location'[q] = location[q] /\ location[q] \in Stars
      BY <2>2, <1>5, <1>6 DEF IInv, LocatedHasShell, Served
    <3> QED
      BY <1>12
  <2> QED
    BY <2>1, <2>2
<1>15. AnswerIsServed'
  <2> \A u \in Tasks : /\ task'[u].job = task[u].job
                       /\ task'[u].answer \in {task[u].answer, NoStar}
                       /\ task'[u].result # "panicked" \/ task'[u] = task[u]
    BY <1>4
  <2> QED
    BY <1>12, AnswersStay
<1> QED
  BY <1>8, <1>9, <1>10, <1>11, <1>14, <1>15 DEF IInv

-----------------------------------------------------------------------------
(* The theorems.                                                           *)

LEMMA InitHolds == Init => IInv
<1> SUFFICES ASSUME Init PROVE IInv
  OBVIOUS
<1>1. PICK plan \in Plans : task = [t \in Tasks |-> Begin(plan[t])]
  BY DEF Init
<1>2. \A t \in Tasks : plan[t] \in Jobs
  BY ProvisioningAssumption DEF Jobs
<1>3. \A t \in Tasks : /\ task[t] \in TaskRec /\ task[t].result = "none" /\ task[t].answer = NoStar
                       /\ task[t].at \in {"locate", "count"} /\ task[t].job = plan[t]
                       /\ task[t].at = "locate" => task[t].job.what = "locate"
  BY <1>1, <1>2 DEF Begin, TaskRec
<1>4. /\ prov \in [Tasks -> [Points -> ProvRec]] /\ assign \in [Tasks -> [Points -> AssignRec]]
      /\ \A t \in Tasks, p \in Points : prov[t][p].at = "none" /\ assign[t][p].at = "none"
  BY DEF Init, NoProv, NoAssign, ProvRec, AssignRec
<1>5. TypeOK
  <2> /\ registered \subseteq Points /\ location \in [Points -> Stars \union {NoStar}]
      /\ status \in [Points -> {"Pending", "Panic"}] /\ shells \in [Stars -> SUBSET Points]
      /\ index \in [Stars -> [Kinds -> Nat]]
      /\ lock \in [Stars -> [Kinds -> {Free} \union (Tasks \X Points)]]
    BY DEF Init
  <2> task \in [Tasks -> TaskRec]
    BY <1>1, <1>3
  <2> QED
    BY <1>4 DEF TypeOK, TaskRec, ProvRec, AssignRec
<1>6. AssignOK /\ ProvOK
  BY <1>4 DEF AssignOK, AssignInv, ProvOK, ProvInv
<1>7. TaskOK
  BY <1>3, <1>4 DEF TaskOK, StackOK, JobOK
<1>8. LocatedHasShell /\ AnswerIsServed
  BY <1>3 DEF Init, LocatedHasShell, AnswerIsServed
<1> QED
  BY <1>5, <1>6, <1>7, <1>8 DEF IInv

LEMMA StutterHolds ==
  ASSUME IInv, UNCHANGED vars
  PROVE  IInv'
<1> UNCHANGED <<registered, location, status, shells, index, lock, task, prov, assign>>
  BY DEF vars, registry
<1>1. TypeOK'
  BY DEF IInv, TypeOK
<1>2. AssignOK' /\ ProvOK'
  BY DEF IInv, AssignOK, AssignInv, ProvOK, ProvInv, Turns
<1>3. TaskOK'
  BY DEF IInv, TaskOK, StackOK, JobOK, PointOf, LocationOf
<1>4. LocatedHasShell' /\ AnswerIsServed'
  BY DEF IInv, LocatedHasShell, AnswerIsServed, Mishap, PointOf
<1> QED
  BY <1>1, <1>2, <1>3, <1>4 DEF IInv

LEMMA NextHolds ==
  ASSUME IInv, [Next]_vars
  PROVE  IInv'
<1>1. CASE \E t \in Tasks : TaskStep(t)
  <2> PICK t \in Tasks : TaskStep(t)
    BY <1>1
  <2>1. CASE AdoptAnswered(t)
    BY <2>1, AdoptedKeeps DEF AdoptAnswered, At, Over
  <2>2. CASE NotProvisioned(t)
    BY <2>2, ProvisionFailsKeeps DEF NotProvisioned
  <2> QED
    BY <2>1, <2>2, CountKeeps, InsertKeeps, RecordKeeps, LocateKeeps, CheckParentKeeps,
       RereadParentKeeps, ProvisionedKeeps, AdoptKeeps DEF TaskStep
<1>2. CASE \E t \in Tasks : AskTimeout(t)
  BY <1>2, ProvisionFailsKeeps DEF AskTimeout
<1>3. CASE \E t \in Tasks : AdoptTimeout(t)
  BY <1>3, AdoptedKeeps DEF AdoptTimeout, At
<1>4. CASE \E t \in Tasks, p \in Points : StarStep(t, p)
  BY <1>4, ProvisionKeeps, WrangleKeeps, AssignAnsweredKeeps, CreateShellKeeps,
     DriverAnswersKeeps, StoreStarKeeps DEF StarStep
<1>5. CASE \E t \in Tasks, p \in Points : Late(t, p)
  BY <1>5, AssignTimeoutKeeps, DriverTimeoutKeeps DEF Late
<1>6. CASE UNCHANGED vars
  BY <1>6, StutterHolds
<1> QED
  BY <1>1, <1>2, <1>3, <1>4, <1>5, <1>6 DEF Next

LEMMA Invariance == Spec => []IInv
<1>1. Init => IInv
  BY InitHolds
<1>2. IInv /\ [Next]_vars => IInv'
  BY NextHolds
<1> QED
  BY <1>1, <1>2, PTL DEF Spec

\* The variables keep their types.
THEOREM TypeTheorem == Spec => []TypeOK
<1>1. IInv => TypeOK
  BY DEF IInv
<1> QED
  BY <1>1, Invariance, PTL

\* Whatever tasks and stars there are, and however requests overlap, fail or come late:
\* where the registry sends the waves for a point, a star has a shell to take them, but
\* for the points whose create_in_star failed.
THEOREM LocatedTheorem == Spec => []LocatedHasShell
<1>1. IInv => LocatedHasShell
  BY DEF IInv
<1> QED
  BY <1>1, Invariance, PTL

\* The star a locate is told of has a shell for its point, and provision's second
\* reading of the parent's record always finds a star: its unwrap never panics.
THEOREM AnswerTheorem == Spec => []AnswerIsServed
<1>1. IInv => AnswerIsServed
  BY DEF IInv
<1> QED
  BY <1>1, Invariance, PTL

-----------------------------------------------------------------------------
(* Registration.                                                           *)

\* Whoever got past the registration finds its point registered.
RegisteredInv ==
    \A t \in Tasks : Committed(t) => PointOf(t) \in registered

CommitInv == RegisteredInv /\ CommitIsExclusive

LEMMA CommitStays ==
  ASSUME CommitInv, registered \subseteq registered',
         \A u \in Tasks : /\ task'[u].job = task[u].job
                          /\ Committed(u)' => Committed(u)
  PROVE  CommitInv'
BY DEF CommitInv, RegisteredInv, CommitIsExclusive, PointOf

\* A task that is past the registration, or fails it, or goes from one half to the other.
LEMMA NotCommitting ==
  ASSUME IInv, CommitInv, NEW t \in Tasks, registered \subseteq registered',
         \A u \in Tasks \ {t} : task'[u] = task[u], task'[t].job = task[t].job,
         \/ task[t].at \notin {"count", "insert", "done"}
         \/ task'[t].at = "insert" \/ task'[t].result = "failed"
         \/ task[t].job.what = "locate" \/ task[t].job.strategy # "Commit"
  PROVE  CommitInv'
<1>1. Committed(t)' => Committed(t)
  BY DEF Committed, IInv, TaskOK, JobOK
<1>2. \A u \in Tasks \ {t} : Committed(u)' => Committed(u)
  BY DEF Committed
<1> QED
  BY <1>1, <1>2, CommitStays

LEMMA TaskFields ==
  ASSUME IInv, NEW t \in Tasks
  PROVE  /\ \A a : Go(t, a) => /\ \A u \in Tasks \ {t} : task'[u] = task[u]
                               /\ task'[t].job = task[t].job /\ task'[t].at = a
                               /\ task'[t].stack = task[t].stack
                               /\ task'[t].result = task[t].result
         /\ \A how, answer : End(t, how, answer) =>
               /\ \A u \in Tasks \ {t} : task'[u] = task[u]
               /\ task'[t].job = task[t].job /\ task'[t].at = "done" /\ task'[t].result = how
               /\ task'[t].stack = task[t].stack
         /\ \A stack : Provisions(t, stack) =>
               /\ \A u \in Tasks \ {t} : task'[u] = task[u]
               /\ task'[t].job = task[t].job /\ task'[t].at = "parent"
               /\ task'[t].stack = stack /\ task'[t].result = task[t].result
<1>1. task \in [Tasks -> TaskRec] /\ task[t] \in TaskRec
  BY TaskIsTask
<1>2. ASSUME NEW a, Go(t, a)
      PROVE  /\ \A u \in Tasks \ {t} : task'[u] = task[u]
             /\ task'[t].job = task[t].job /\ task'[t].at = a
             /\ task'[t].stack = task[t].stack
             /\ task'[t].result = task[t].result
  BY <1>1, <1>2 DEF Go, TaskRec
<1>3. ASSUME NEW how, NEW answer, End(t, how, answer)
      PROVE  /\ \A u \in Tasks \ {t} : task'[u] = task[u]
             /\ task'[t].job = task[t].job /\ task'[t].at = "done" /\ task'[t].result = how
             /\ task'[t].stack = task[t].stack
  BY <1>1, <1>3 DEF End, TaskRec
<1>4. ASSUME NEW stack, Provisions(t, stack)
      PROVE  /\ \A u \in Tasks \ {t} : task'[u] = task[u]
             /\ task'[t].job = task[t].job /\ task'[t].at = "parent"
             /\ task'[t].stack = stack /\ task'[t].result = task[t].result
  BY <1>1, <1>4 DEF Provisions, TaskRec
<1> QED
  BY <1>2, <1>3, <1>4

\* What the registration is followed by.
LEMMA RegisteredFields ==
  ASSUME IInv, NEW t \in Tasks, Registered(t)
  PROVE  /\ \A u \in Tasks \ {t} : task'[u] = task[u]
         /\ task'[t].job = task[t].job /\ task'[t].at \in {"adopt", "parent", "record"}
         /\ task'[t].at = "parent" => task'[t].stack = <<PointOf(t)>>
         /\ task'[t].result = task[t].result
<1>1. CASE Go(t, "adopt")
  BY <1>1, TaskFields
<1>2. CASE Go(t, "record")
  BY <1>2, TaskFields
<1>3. CASE Provisions(t, <<PointOf(t)>>)
  BY <1>3, TaskFields
<1> QED
  BY <1>1, <1>2, <1>3 DEF Registered, PointOf

LEMMA InsertCommits ==
  ASSUME IInv, CommitInv, NEW t \in Tasks, Insert(t)
  PROVE  CommitInv'
<1>1. CASE PointOf(t) \in registered
  <2> Fail(t) /\ UNCHANGED registered
    BY <1>1 DEF Insert
  <2> QED
    BY TaskFields, NotCommitting DEF Fail
<1>2. CASE PointOf(t) \notin registered
  <2>1. Registered(t) /\ registered' = registered \union {PointOf(t)}
    BY <1>2 DEF Insert
  <2>2. /\ \A u \in Tasks \ {t} : task'[u] = task[u]
        /\ task'[t].job = task[t].job
    BY <2>1, RegisteredFields
  <2>3. \A u \in Tasks \ {t} : Committed(u)' => Committed(u) /\ PointOf(u) \in registered
    BY <2>2 DEF Committed, CommitInv, RegisteredInv
  <2>4. \A u \in Tasks : PointOf(u)' = PointOf(u)
    BY <2>2 DEF PointOf
  <2>5. RegisteredInv'
    BY <2>1, <2>3, <2>4 DEF RegisteredInv
  <2>6. CommitIsExclusive'
    BY <1>2, <2>3, <2>4 DEF CommitIsExclusive, CommitInv
  <2> QED
    BY <2>5, <2>6 DEF CommitInv
<1> QED
  BY <1>1, <1>2

LEMMA CountCommits ==
  ASSUME IInv, CommitInv, NEW t \in Tasks, Count(t)
  PROVE  CommitInv'
<1>0. UNCHANGED registered
  BY DEF Count, registry
<1>1. CASE Go(t, "insert")
  BY <1>0, <1>1, TaskFields, NotCommitting
<1>2. CASE Fail(t)
  BY <1>0, <1>2, TaskFields, NotCommitting DEF Fail
<1>3. CASE task[t].job.strategy # "Commit" /\ Registered(t)
  BY <1>0, <1>3, RegisteredFields, NotCommitting
<1> QED
  BY <1>1, <1>2, <1>3 DEF Count

\* A step of a task that is past the registration.
LEMMA TaskFrame ==
  ASSUME IInv, NEW t \in Tasks,
         \/ Record(t) \/ Locate(t) \/ CheckParent(t) \/ RereadParent(t) \/ Provisioned(t)
         \/ ProvisionFails(t) \/ Adopt(t) \/ \E how : At(t, "adopting") /\ Adopted(t, how)
  PROVE  /\ task[t].at \notin {"count", "insert", "done"} /\ UNCHANGED registered
         /\ \A u \in Tasks \ {t} : task'[u] = task[u]
         /\ task'[t].job = task[t].job
<1>0. task \in [Tasks -> TaskRec] /\ task[t] \in TaskRec
  BY TaskIsTask
<1>1. CASE Record(t)
  BY <1>1, TaskFields DEF Record, At, registry
<1>2. CASE Locate(t)
  BY <1>2, TaskFields DEF Locate, At, Fail, registry
<1>3. CASE CheckParent(t)
  BY <1>3, TaskFields DEF CheckParent, At, Fail, Ask, registry
<1>4. CASE RereadParent(t)
  BY <1>4, TaskFields DEF RereadParent, At, Ask, registry
<1>5. CASE Provisioned(t)
  <2>1. CASE task' = [task EXCEPT ![t].at = "reread", ![t].stack = Tail(@)]
    BY <1>0, <1>5, <2>1 DEF Provisioned, At, registry, TaskRec
  <2>2. CASE ~(Len(task[t].stack) > 1)
    BY <1>5, <2>2, TaskFields DEF Provisioned, At, registry
  <2> QED
    BY <1>5, <2>1, <2>2 DEF Provisioned
<1>6. CASE ProvisionFails(t)
  BY <1>6, TaskFields DEF ProvisionFails, At, Fail
<1>7. CASE Adopt(t)
  BY <1>7, TaskFields DEF Adopt, At, registry
<1>8. CASE \E how : At(t, "adopting") /\ Adopted(t, how)
  BY <1>8, TaskFields DEF Adopted, At
<1> QED
  BY <1>1, <1>2, <1>3, <1>4, <1>5, <1>6, <1>7, <1>8

LEMMA StarStepFrame ==
  ASSUME NEW t \in Tasks, NEW p \in Points, StarStep(t, p) \/ Late(t, p)
  PROVE  UNCHANGED <<registered, task>>
BY DEF StarStep, Late, Provision, Wrangle, AssignAnswered, CreateShell, DriverAnswers, StoreStar,
       AssignTimeout, DriverTimeout, EndProvision, registry

LEMMA NextCommits ==
  ASSUME IInv, CommitInv, [Next]_vars
  PROVE  CommitInv'
<1>1. CASE \E t \in Tasks : Count(t) \/ Insert(t)
  BY <1>1, CountCommits, InsertCommits
<1>2. CASE \E t \in Tasks :
              \/ Record(t) \/ Locate(t) \/ CheckParent(t) \/ RereadParent(t) \/ Provisioned(t)
              \/ ProvisionFails(t) \/ Adopt(t) \/ \E how : At(t, "adopting") /\ Adopted(t, how)
  <2> PICK t \in Tasks :
              \/ Record(t) \/ Locate(t) \/ CheckParent(t) \/ RereadParent(t) \/ Provisioned(t)
              \/ ProvisionFails(t) \/ Adopt(t) \/ \E how : At(t, "adopting") /\ Adopted(t, how)
    BY <1>2
  <2> QED
    BY TaskFrame, NotCommitting
<1>3. CASE (\E t \in Tasks, p \in Points : StarStep(t, p) \/ Late(t, p)) \/ UNCHANGED vars
  <2> UNCHANGED <<registered, task>>
    BY <1>3, StarStepFrame DEF vars, registry
  <2> QED
    BY CommitStays DEF Committed
<1> QED
  BY <1>1, <1>2, <1>3 DEF Next, TaskStep, NotProvisioned, AskTimeout, AdoptAnswered, AdoptTimeout

\* Of any creations of a point that insist on being the first, one at most gets past
\* the registration, whatever comes between its two statements.
THEOREM CommitTheorem == Spec => []CommitIsExclusive
<1>1. Init => CommitInv
  <2> SUFFICES ASSUME Init PROVE CommitInv
    OBVIOUS
  <2> \A t \in Tasks : ~Committed(t)
    BY DEF Init, Begin, Committed
  <2> QED
    BY DEF CommitInv, RegisteredInv, CommitIsExclusive
<1>2. IInv /\ CommitInv /\ [Next]_vars => CommitInv'
  BY NextCommits
<1>3. CommitInv => CommitIsExclusive
  BY DEF CommitInv
<1> QED
  BY <1>1, <1>2, <1>3, Invariance, PTL DEF Spec

-----------------------------------------------------------------------------
(* The turns of the selectors.                                             *)

\* What a task still has to ask for it has not asked for before.
NotYet(t) ==
    /\ task[t].at \in {"count", "insert", "locate", "adopt", "adopting", "parent"} =>
          \A q \in Points : prov[t][q].at = "none"
    /\ task[t].at = "reread" =>
          \A i \in 1 .. Len(task[t].stack) : prov[t][task[t].stack[i]].at = "none"
    /\ task[t].at = "asking" =>
          \A i \in 2 .. Len(task[t].stack) : prov[t][task[t].stack[i]].at = "none"

\* A request has no host before one was picked for it.
NoHost(t, p) == prov[t][p].at \in {"none", "asked", "lock"} => prov[t][p].host = NoStar

Listed(s, k, h) == {i \in DOMAIN Turns(s, k) : Turns(s, k)[i] = h}

\* The first turn is that of the second star, the round ends with the first.
Turn(s, k)         == 1 + (index[s][k] % Len(Turns(s, k)))
ThisRound(s, k, h) == {i \in Listed(s, k, h) : 1 < i /\ i <= Turn(s, k)}

\* In every full round a star has had all its turns, in this one those up to the
\* selector's index.
InTurn(s, k, c, h) ==
    /\ IsFiniteSet(Picked(s, k, h))
    /\ Cardinality(Picked(s, k, h)) = c * Times(s, k, h) + Cardinality(ThisRound(s, k, h))

RoundsOK(s, k) == Turns(s, k) # <<>> => \E c \in Nat : \A h \in Stars : InTurn(s, k, c, h)

TurnInv == /\ \A t \in Tasks : NotYet(t)
           /\ \A t \in Tasks, p \in Points : NoHost(t, p)
           /\ \A s \in Stars, k \in Kinds : RoundsOK(s, k)

\* A line of descent does not come back.
LEMMA NoneTwice ==
  ASSUME NEW stack \in Seq(Points), stack # <<>>,
         \A i \in 1 .. Len(stack) - 1 : Parent[stack[i + 1]] = stack[i]
  PROVE  \A i \in 1 .. Len(stack) : Parent[stack[1]] # stack[i]
<1> SUFFICES ASSUME NEW k \in 1 .. Len(stack), Parent[stack[1]] = stack[k]
             PROVE  FALSE
  OBVIOUS
<1> DEFINE n == Len(stack)
           S == {stack[i] : i \in 1 .. n}
<1>1. n \in Nat \ {0} /\ \A i \in 1 .. n : stack[i] \in Points
  OBVIOUS
<1>2. \A i \in 1 .. n - 1 : Parent[stack[i + 1]] = stack[i]
  OBVIOUS
<1>3. k \in 1 .. n /\ Parent[stack[1]] = stack[k]
  OBVIOUS
<1> HIDE DEF n
<1>4. \A i \in 1 .. n : Parent[stack[i]] \in S
  <2> SUFFICES ASSUME NEW i \in 1 .. n PROVE Parent[stack[i]] \in S
    OBVIOUS
  <2>1. CASE i = 1
    BY <2>1, <1>3
  <2>2. CASE i # 1
    <3> i - 1 \in 1 .. n - 1 /\ i - 1 \in 1 .. n /\ (i - 1) + 1 = i
      BY <2>2, <1>1
    <3> Parent[stack[i]] = stack[i - 1]
      BY <1>2
    <3> QED
      OBVIOUS
  <2> QED
    BY <2>1, <2>2
<1>5. S \in SUBSET Points /\ stack[k] \in S
  BY <1>1, <1>3
<1>6. \A p \in S : Parent[p] \in S
  BY <1>4
<1> HIDE DEF S
<1> QED
  BY <1>5, <1>6, TreeAssumption

\* What an index counted up does to the turn.
LEMMA NextTurn ==
  ASSUME NEW n \in Nat, NEW L \in Nat \ {0}
  PROVE  /\ n % L \in 0 .. L - 1
         /\ (n % L) + 1 < L => (n + 1) % L = (n % L) + 1
         /\ (n % L) + 1 = L => (n + 1) % L = 0
<1> DEFINE q == n \div L
           r == n % L
           qq == (n + 1) \div L
           rr == (n + 1) % L
<1>1. r \in 0 .. L - 1 /\ n = L * q + r /\ q \in Int
  OBVIOUS
<1>2. rr \in 0 .. L - 1 /\ n + 1 = L * qq + rr /\ qq \in Int
  OBVIOUS
<1> HIDE DEF q, r, qq, rr
<1>3. qq = q \/ qq = q + 1 
  BY <1>1, <1>2
<1>4. (r + 1 < L => rr = r + 1) /\ (r + 1 = L => rr = 0)
  BY <1>1, <1>2, <1>3
<1> QED
  BY <1>1, <1>4 DEF r, rr

\* a and b are the turns of this round, m and n those of a full one.
LEMMA Share ==
  ASSUME NEW c \in Nat, NEW a \in Nat, NEW m \in Nat, NEW b \in Nat, NEW n \in Nat, a <= m
  PROVE  (c * m + a) * n <= (c * n + b + n) * m
<1>1. a * n <= m * n /\ 0 <= b * m
  OBVIOUS
<1>2. (c * m + a) * n = c * m * n + a * n
  OBVIOUS
<1>3. (c * n + b + n) * m = c * n * m + b * m + n * m
  OBVIOUS
<1>4. c * m * n = c * n * m
  OBVIOUS
<1> QED
  BY <1>1, <1>2, <1>3, <1>4

\* The places in a selector's list are finitely many.
LEMMA ListedFinite ==
  ASSUME NEW s \in Stars, NEW k \in Kinds, NEW h, NEW S, S \subseteq Listed(s, k, h)
  PROVE  /\ IsFiniteSet(Listed(s, k, h)) /\ Cardinality(Listed(s, k, h)) \in Nat
         /\ Times(s, k, h) = Cardinality(Listed(s, k, h))
         /\ IsFiniteSet(S) /\ Cardinality(S) \in Nat /\ Cardinality(S) <= Times(s, k, h)
<1>1. Turns(s, k) \in Seq(Stars)
  BY ProvisioningAssumption DEF Turns
<1>2. DOMAIN Turns(s, k) = 1 .. Len(Turns(s, k)) /\ Len(Turns(s, k)) \in Nat
  BY <1>1
<1>3. IsFiniteSet(DOMAIN Turns(s, k))
  BY <1>2, FS_Interval
<1>4. Listed(s, k, h) \subseteq DOMAIN Turns(s, k)
  BY DEF Listed
<1>5. IsFiniteSet(Listed(s, k, h))
  BY <1>3, <1>4, FS_Subset
<1>6. IsFiniteSet(S) /\ Cardinality(S) <= Cardinality(Listed(s, k, h))
  BY <1>5, FS_Subset
<1>7. Cardinality(Listed(s, k, h)) \in Nat /\ Cardinality(S) \in Nat
  BY <1>5, <1>6, FS_CardinalityType
<1> QED
  BY <1>5, <1>6, <1>7 DEF Times, Listed

\* Rounds shared in this way are shared fairly.
LEMMA RoundsAreFair ==
  ASSUME TurnInv
  PROVE  RoundRobinIsFair
<1> SUFFICES ASSUME NEW s \in Stars, NEW k \in Kinds, NEW g \in Stars, NEW h \in Stars,
                    Turns(s, k) # <<>>
             PROVE  Cardinality(Picked(s, k, h)) * Times(s, k, g)
                       <= (Cardinality(Picked(s, k, g)) + Times(s, k, g)) * Times(s, k, h)
  BY DEF RoundRobinIsFair
<1>1. PICK c \in Nat : \A i \in Stars : InTurn(s, k, c, i)
  BY DEF TurnInv, RoundsOK
<1> DEFINE a == Cardinality(ThisRound(s, k, h))
           b == Cardinality(ThisRound(s, k, g))
           m == Times(s, k, h)
           n == Times(s, k, g)
<1>2. Cardinality(Picked(s, k, h)) = c * m + a /\ Cardinality(Picked(s, k, g)) = c * n + b
  BY <1>1 DEF InTurn
<1>3. a \in Nat /\ b \in Nat /\ m \in Nat /\ n \in Nat /\ a <= m
  BY ListedFinite DEF ThisRound
<1> HIDE DEF a, b, m, n
<1>4. (c * m + a) * n <= (c * n + b + n) * m
  BY <1>3, Share
<1> QED
  BY <1>2, <1>4 DEF m, n

\* A step that advances no selector, and changes the host only of requests without a
\* selector.
LEMMA RoundsStay ==
  ASSUME UNCHANGED index, TurnInv,
         \A u \in Tasks, q \in Points :
            \/ prov'[u][q].star = prov[u][q].star /\ prov'[u][q].host = prov[u][q].host
            \/ prov[u][q].host = NoStar /\ prov'[u][q].host = NoStar
            \/ prov'[u][q].star = prov[u][q].star /\ Turns(prov[u][q].star, Kind[q]) = <<>>
  PROVE  \A s \in Stars, k \in Kinds : RoundsOK(s, k)'
<1> SUFFICES ASSUME NEW s \in Stars, NEW k \in Kinds, Turns(s, k) # <<>>
             PROVE  \E c \in Nat : \A h \in Stars : InTurn(s, k, c, h)'
  BY DEF RoundsOK, Turns
<1>1. PICK c \in Nat : \A h \in Stars : InTurn(s, k, c, h)
  BY DEF TurnInv, RoundsOK
<1>2. ASSUME NEW h \in Stars
      PROVE  InTurn(s, k, c, h)'
  <2>1. h # NoStar
    BY ProvisioningAssumption
  <2>2. ASSUME NEW u \in Tasks, NEW q \in Points, Kind[q] = k
        PROVE  prov'[u][q].star = s /\ prov'[u][q].host = h
                  <=> prov[u][q].star = s /\ prov[u][q].host = h
    BY <2>1, <2>2
  <2>3. Picked(s, k, h)' = Picked(s, k, h)
    BY <2>2 DEF Picked
  <2>4. ThisRound(s, k, h)' = ThisRound(s, k, h)
    BY DEF ThisRound, Turn, Listed, Turns
  <2>5. Times(s, k, h)' = Times(s, k, h)
    BY DEF Times, Turns
  <2>6. InTurn(s, k, c, h)
    BY <1>1
  <2> QED
    BY <2>3, <2>4, <2>5, <2>6 DEF InTurn
<1> QED
  BY <1>2
LEMMA OneMore ==
  ASSUME NEW S, IsFiniteSet(S), NEW x, x \notin S
  PROVE  /\ IsFiniteSet(S \union {x}) /\ Cardinality(S \union {x}) = Cardinality(S) + 1
BY FS_AddElement

\* The next turn of a selector, taken for p.
LEMMA WrangleRounds ==
  ASSUME IInv, TurnInv, NEW t \in Tasks, NEW p \in Points, Wrangle(t, p)
  PROVE  \A s \in Stars, k \in Kinds : RoundsOK(s, k)'
<1>1. /\ index \in [Stars -> [Kinds -> Nat]] /\ prov \in [Tasks -> [Points -> ProvRec]]
      /\ prov[t][p].star \in Stars /\ Kind[p] \in Kinds /\ prov[t][p].at = "lock"
      /\ Turns(prov[t][p].star, Kind[p]) # <<>>
  BY TablesAreTables DEF Wrangle, ProvInv
<1>2. PICK S \in Stars, K \in Kinds : S = prov[t][p].star /\ K = Kind[p]
  BY <1>1
<1>3. PICK n \in Nat : n = index[S][K]
  BY <1>1
<1>4. Pick(S, K, n + 1) \in Stars
  <2> n + 1 \in Nat
    OBVIOUS
  <2> QED
    BY <1>1, <1>2, PickIsStar
<1>5. PICK host \in Stars : host = Pick(S, K, n + 1)
  BY <1>4
<1>6. /\ prov' = [prov EXCEPT ![t][p].at = "assigning", ![t][p].host = host]
      /\ index' = [index EXCEPT ![S][K] = n + 1]
  BY <1>1, <1>2, <1>3, <1>5 DEF Wrangle
<1> DEFINE L == Len(Turns(S, K))
<1>7. /\ Turns(S, K) \in Seq(Stars) /\ L \in Nat \ {0} /\ DOMAIN Turns(S, K) = 1 .. L
      /\ host = Turns(S, K)[1 + ((n + 1) % L)]
  <2> Turns(S, K) \in Seq(Stars)
    BY ProvisioningAssumption DEF Turns
  <2> QED
    BY <1>1, <1>2, <1>5 DEF Pick
<1> HIDE DEF L
<1>8. /\ index'[S][K] = n + 1
      /\ \A s \in Stars, k \in Kinds : s # S \/ k # K => index'[s][k] = index[s][k]
  BY <1>1, <1>6
<1>9. /\ prov'[t][p].star = S /\ prov'[t][p].host = host
      /\ \A u \in Tasks, q \in Points : u # t \/ q # p => prov'[u][q] = prov[u][q]
  <2> DEFINE r == [prov[t][p] EXCEPT !.at = "assigning", !.host = host]
  <2>1. prov' = [prov EXCEPT ![t][p] = r] /\ prov[t][p] \in ProvRec
    BY <1>1, <1>6
  <2>2. r.star = S /\ r.host = host /\ r \in ProvRec
    BY <1>2, <2>1 DEF ProvRec
  <2> HIDE DEF r
  <2>3. /\ prov'[t][p] = r
        /\ \A u \in Tasks, q \in Points : u # t \/ q # p => prov'[u][q] = prov[u][q]
    BY <1>1, <2>1
  <2> QED
    BY <2>2, <2>3
<1>10. /\ prov[t][p].host = NoStar /\ NoStar \notin Stars /\ UNCHANGED Kind
       /\ prov[t][p].star = S /\ Kind[p] = K
  BY <1>1, <1>2, ProvisioningAssumption DEF TurnInv, NoHost
<1> SUFFICES ASSUME NEW s \in Stars, NEW k \in Kinds, Turns(s, k) # <<>>
             PROVE  \E c \in Nat : \A h \in Stars : InTurn(s, k, c, h)'
  BY DEF RoundsOK, Turns
<1>11. PICK c \in Nat : \A h \in Stars : InTurn(s, k, c, h)
  BY DEF TurnInv, RoundsOK
<1>12. CASE s # S \/ k # K
  <2>1. ASSUME NEW h \in Stars
        PROVE  InTurn(s, k, c, h)'
    <3>1. ASSUME NEW u \in Tasks, NEW q \in Points, Kind[q] = k
          PROVE  prov'[u][q].star = s /\ prov'[u][q].host = h
                    <=> prov[u][q].star = s /\ prov[u][q].host = h
      BY <1>9, <1>10, <1>12, <3>1
    <3>2. Picked(s, k, h)' = Picked(s, k, h)
      BY <3>1 DEF Picked
    <3>3. ThisRound(s, k, h)' = ThisRound(s, k, h)
      BY <1>8, <1>12 DEF ThisRound, Turn, Listed, Turns
    <3>4. Times(s, k, h)' = Times(s, k, h)
      BY DEF Times, Turns
    <3>5. InTurn(s, k, c, h)
      BY <1>11
    <3> QED
      BY <3>2, <3>3, <3>4, <3>5 DEF InTurn
  <2> QED
    BY <2>1
<1>13. CASE s = S /\ k = K
  <2> DEFINE r == n % L
  <2>1. /\ r \in 0 .. L - 1 /\ Turn(S, K) = 1 + r
        /\ r + 1 < L => (n + 1) % L = r + 1
        /\ r + 1 = L => (n + 1) % L = 0
    BY <1>3, <1>7, NextTurn DEF Turn, L
  <2>2. Turn(S, K)' = 1 + ((n + 1) % L)
    BY <1>8 DEF Turn, L, Turns
  <2> HIDE DEF r
  <2>3. ASSUME NEW h \in Stars
        PROVE  /\ Times(S, K, h)' = Times(S, K, h) /\ Listed(S, K, h)' = Listed(S, K, h)
               /\ Times(S, K, h) = Cardinality(Listed(S, K, h)) /\ Times(S, K, h) \in Nat
               /\ IsFiniteSet(Listed(S, K, h)) /\ IsFiniteSet(ThisRound(S, K, h))
               /\ Cardinality(ThisRound(S, K, h)) \in Nat
               /\ IsFiniteSet(Picked(S, K, h))
               /\ Cardinality(Picked(S, K, h))
                     = c * Times(S, K, h) + Cardinality(ThisRound(S, K, h))
    <3>1. Times(S, K, h)' = Times(S, K, h) /\ Listed(S, K, h)' = Listed(S, K, h)
      BY DEF Times, Listed, Turns
    <3>2. ThisRound(S, K, h) \subseteq Listed(S, K, h)
      BY DEF ThisRound
    <3>3. InTurn(S, K, c, h)
      BY <1>11, <1>13
    <3> QED
      BY <3>1, <3>2, <3>3, ListedFinite DEF InTurn
  \* The request has been given its turn.
  <2>4. ASSUME NEW h \in Stars
        PROVE  /\ IsFiniteSet(Picked(S, K, h)')
               /\ Cardinality(Picked(S, K, h)')
                     = Cardinality(Picked(S, K, h)) + (IF h = host THEN 1 ELSE 0)
    <3>1. CASE h = host
      <4>1. <<t, p>> \notin Picked(S, K, h)
        BY <1>10, <3>1 DEF Picked
      <4>2. Picked(S, K, h)' = Picked(S, K, h) \union {<<t, p>>}
        BY <1>9, <1>10, <3>1 DEF Picked
      <4>3. /\ IsFiniteSet(Picked(S, K, h) \union {<<t, p>>})
            /\ Cardinality(Picked(S, K, h) \union {<<t, p>>}) = Cardinality(Picked(S, K, h)) + 1
        BY <2>3, <4>1, OneMore
      <4> QED
        BY <3>1, <4>2, <4>3
    <3>2. CASE h # host
      <4>1. <<t, p>> \notin Picked(S, K, h)
        BY <1>10 DEF Picked
      <4>2. Picked(S, K, h)' = Picked(S, K, h)
        BY <1>9, <3>2, <4>1 DEF Picked
      <4>3. Cardinality(Picked(S, K, h)) \in Nat
        BY <2>3, FS_CardinalityType
      <4> QED
        BY <2>3, <3>2, <4>2, <4>3
    <3> QED
      BY <3>1, <3>2
  <2>5. CASE r + 1 < L
    <3>1. host = Turns(S, K)[r + 2] /\ r + 2 \in 1 .. L /\ Turn(S, K)' = r + 2
      BY <1>3, <1>7, <1>7, <2>1, <2>2, <2>5
    <3>2. ASSUME NEW h \in Stars
          PROVE  InTurn(S, K, c, h)'
      <4>1. Cardinality(ThisRound(S, K, h)')
               = Cardinality(ThisRound(S, K, h)) + (IF h = host THEN 1 ELSE 0)
        <5>0. /\ ThisRound(S, K, h) = {i \in Listed(S, K, h) : 1 < i /\ i <= 1 + r}
              /\ ThisRound(S, K, h)' = {i \in Listed(S, K, h) : 1 < i /\ i <= r + 2}
              /\ Listed(S, K, h) \subseteq 1 .. L
          BY <1>3, <1>7, <2>1, <2>3, <3>1 DEF ThisRound, Listed
        <5>1. CASE h = host
          <6>1. r + 2 \in Listed(S, K, h)
            BY <1>3, <1>7, <3>1, <5>1 DEF Listed
          <6>2. ThisRound(S, K, h)' = ThisRound(S, K, h) \union {r + 2}
            BY <1>3, <1>7, <2>1, <5>0, <6>1
          <6>3. r + 2 \notin ThisRound(S, K, h)
            BY <1>3, <1>7, <2>1, <5>0
          <6> QED
            BY <2>3, <5>1, <6>2, <6>3, OneMore
        <5>2. CASE h # host
          <6>1. r + 2 \notin Listed(S, K, h)
            BY <3>1, <5>2 DEF Listed
          <6>2. ThisRound(S, K, h)' = ThisRound(S, K, h)
            BY <1>3, <1>7, <2>1, <5>0, <6>1
          <6> QED
            BY <2>3, <5>2, <6>2
        <5> QED
          BY <5>1, <5>2
      <4> DEFINE a == Cardinality(Picked(S, K, h))
                 aa == Cardinality(Picked(S, K, h)')
                 b == Cardinality(ThisRound(S, K, h))
                 bb == Cardinality(ThisRound(S, K, h)')
                 m == Times(S, K, h)
      <4>2. a = c * m + b /\ aa = a + (IF h = host THEN 1 ELSE 0)
               /\ bb = b + (IF h = host THEN 1 ELSE 0) /\ m \in Nat /\ b \in Nat
        BY <2>3, <2>4, <4>1
      <4> HIDE DEF a, aa, b, bb, m
      <4>3. aa = c * m + bb
        BY <4>2
      <4> QED
        BY <2>3, <2>4, <4>3 DEF InTurn, aa, bb, m
    <3> QED
      BY <1>13, <3>2
  \* The turn of the first star ends the round.
  <2>6. CASE r + 1 = L
    <3>1. host = Turns(S, K)[1] /\ 1 \in 1 .. L /\ Turn(S, K)' = 1
      BY <1>3, <1>7, <1>7, <2>1, <2>2, <2>6, SMTT(20)
    <3>2. ASSUME NEW h \in Stars
          PROVE  InTurn(S, K, c + 1, h)'
      <4>0. /\ ThisRound(S, K, h) = {i \in Listed(S, K, h) : 1 < i /\ i <= L}
            /\ ThisRound(S, K, h)' = {i \in Listed(S, K, h) : 1 < i /\ i <= 1}
            /\ Listed(S, K, h) \subseteq 1 .. L
        BY <1>3, <1>7, <2>1, <2>3, <2>6, <3>1 DEF ThisRound, Listed
      <4>1. Cardinality(ThisRound(S, K, h)') = 0
        <5> ThisRound(S, K, h)' = {}
          BY <1>3, <1>7, <4>0
        <5> QED
          BY FS_EmptySet
      <4>2. Times(S, K, h) = Cardinality(ThisRound(S, K, h)) + (IF h = host THEN 1 ELSE 0)
        <5>1. CASE h = host
          <6>1. 1 \in Listed(S, K, h)
            BY <1>3, <1>7, <3>1, <5>1 DEF Listed
          <6>2. Listed(S, K, h) = ThisRound(S, K, h) \union {1}
            BY <1>3, <1>7, <4>0, <6>1
          <6>3. 1 \notin ThisRound(S, K, h)
            BY <1>3, <1>7, <4>0
          <6> QED
            BY <2>3, <5>1, <6>2, <6>3, OneMore
        <5>2. CASE h # host
          <6>1. 1 \notin Listed(S, K, h)
            BY <3>1, <5>2 DEF Listed
          <6>2. Listed(S, K, h) = ThisRound(S, K, h)
            BY <1>3, <1>7, <4>0, <6>1
          <6> QED
            BY <2>3, <5>2, <6>2
        <5> QED
          BY <5>1, <5>2
      <4> DEFINE a == Cardinality(Picked(S, K, h))
                 aa == Cardinality(Picked(S, K, h)')
                 b == Cardinality(ThisRound(S, K, h))
                 m == Times(S, K, h)
      <4>3. a = c * m + b /\ aa = a + (IF h = host THEN 1 ELSE 0)
               /\ m = b + (IF h = host THEN 1 ELSE 0) /\ m \in Nat /\ b \in Nat
        BY <2>3, <2>4, <4>2
      <4> HIDE DEF a, aa, b, m
      <4>4. aa = c * m + m
        BY <4>3
      <4>5. (c + 1) * m = c * m + m
        BY <4>3
      <4>6. aa = (c + 1) * m + 0
        BY <4>3, <4>4, <4>5
      <4> QED
        BY <2>3, <2>4, <4>1, <4>6 DEF InTurn, aa, m
    <3> QED
      BY <1>13, <3>2
  <2> QED
    BY <1>3, <1>7, <2>1, <2>5, <2>6
<1> QED
  BY <1>12, <1>13
\* The first of a line of descent is in it once.
LEMMA FirstOnce ==
  ASSUME NEW stack \in Seq(Points), stack # <<>>,
         \A i \in 1 .. Len(stack) - 1 : Parent[stack[i + 1]] = stack[i]
  PROVE  \A i \in 2 .. Len(stack) : stack[i] # stack[1]
<1> SUFFICES ASSUME NEW k \in 2 .. Len(stack) PROVE stack[k] # stack[1]
  OBVIOUS
<1> DEFINE tail == Tail(stack)
           n == Len(stack)
<1>1. n \in Nat /\ n > 1 /\ k \in 2 .. n
  OBVIOUS
<1>2. /\ tail \in Seq(Points) /\ tail # <<>> /\ Len(tail) = n - 1
      /\ \A i \in 1 .. n - 1 : tail[i] = stack[i + 1]
  BY <1>1, WithoutFirst
<1>3. \A i \in 1 .. n - 1 : Parent[stack[i + 1]] = stack[i]
  OBVIOUS
<1> HIDE DEF tail, n
<1>4. \A i \in 1 .. Len(tail) - 1 : Parent[tail[i + 1]] = tail[i]
  <2> SUFFICES ASSUME NEW i \in 1 .. Len(tail) - 1 PROVE Parent[tail[i + 1]] = tail[i]
    OBVIOUS
  <2> i \in 1 .. n - 1 /\ i + 1 \in 1 .. n - 1
    BY <1>1, <1>2
  <2> QED
    BY <1>2, <1>3
<1>5. \A i \in 1 .. Len(tail) : Parent[tail[1]] # tail[i]
  BY <1>2, <1>4, NoneTwice
<1>6. 1 \in 1 .. n - 1 /\ k - 1 \in 1 .. n - 1 /\ (k - 1) + 1 = k
  BY <1>1
<1>7. Parent[tail[1]] = stack[1]
  <2> tail[1] = stack[1 + 1]
    BY <1>2, <1>6
  <2> QED
    BY <1>3, <1>6
<1>8. tail[k - 1] = stack[k]
  BY <1>2, <1>6
<1> QED
  BY <1>2, <1>5, <1>6, <1>7, <1>8

\* A step of a task that asks for nothing.
LEMMA TaskKeepsTurns ==
  ASSUME IInv, TurnInv, NEW t \in Tasks, \A u \in Tasks \ {t} : task'[u] = task[u],
         UNCHANGED <<prov, index>>, NotYet(t)'
  PROVE  TurnInv'
<1>1. \A u \in Tasks : NotYet(u)'
  <2> SUFFICES ASSUME NEW u \in Tasks, u # t PROVE NotYet(u)'
    OBVIOUS
  <2> NotYet(u) /\ task'[u] = task[u]
    BY DEF TurnInv
  <2> QED
    BY DEF NotYet
<1>2. \A u \in Tasks, p \in Points : NoHost(u, p)'
  BY DEF TurnInv, NoHost
<1>3. \A s \in Stars, k \in Kinds : RoundsOK(s, k)'
  BY RoundsStay
<1> QED
  BY <1>1, <1>2, <1>3 DEF TurnInv

\* A task that has asked for nothing yet.
LEMMA NothingAsked ==
  ASSUME IInv, TurnInv, NEW t \in Tasks, \A u \in Tasks \ {t} : task'[u] = task[u],
         UNCHANGED <<prov, index>>,
         task[t].at \in {"count", "insert", "locate", "adopt", "adopting", "parent"},
         task'[t].at \notin {"reread", "asking"}
  PROVE  TurnInv'
<1> NotYet(t)'
  BY DEF TurnInv, NotYet
<1> QED
  BY TaskKeepsTurns

LEMMA TaskTurns ==
  ASSUME IInv, TurnInv, NEW t \in Tasks,
         Count(t) \/ Insert(t) \/ Locate(t) \/ Adopt(t) \/ Record(t) \/ ProvisionFails(t)
  PROVE  TurnInv'
<1>1. CASE Count(t) \/ Insert(t)
  <2>1. /\ task[t].at \in {"count", "insert"} /\ UNCHANGED <<prov, index>>
        /\ \A u \in Tasks \ {t} : task'[u] = task[u]
        /\ task'[t].at \in {"insert", "adopt", "parent", "record", "done"}
    BY <1>1, RegisteredFields, TaskFields DEF Count, Insert, Fail, At
  <2> QED
    BY <2>1, NothingAsked
<1>2. CASE Locate(t)
  <2>1. /\ task[t].at = "locate" /\ UNCHANGED <<prov, index>>
        /\ \A u \in Tasks \ {t} : task'[u] = task[u]
        /\ task'[t].at \in {"parent", "done"}
    BY <1>2, TaskFields DEF Locate, Fail, At
  <2> QED
    BY <2>1, NothingAsked
<1>3. CASE Adopt(t)
  <2>1. /\ task[t].at = "adopt" /\ UNCHANGED <<prov, index>>
        /\ \A u \in Tasks \ {t} : task'[u] = task[u]
        /\ task'[t].at = "adopting"
    BY <1>3, TaskFields DEF Adopt, At
  <2> QED
    BY <2>1, NothingAsked
<1>4. CASE Record(t) \/ ProvisionFails(t)
  <2>1. /\ UNCHANGED <<prov, index>> /\ \A u \in Tasks \ {t} : task'[u] = task[u]
        /\ task'[t].at = "done"
    BY <1>4, TaskFields DEF Record, ProvisionFails, Fail
  <2>2. NotYet(t)'
    BY <2>1 DEF NotYet
  <2> QED
    BY <2>1, <2>2, TaskKeepsTurns
<1> QED
  BY <1>1, <1>2, <1>3, <1>4

LEMMA AdoptedTurns ==
  ASSUME IInv, TurnInv, NEW t \in Tasks, AdoptAnswered(t) \/ AdoptTimeout(t)
  PROVE  TurnInv'
<1>1. UNCHANGED <<prov, index>> /\ \E how : End(t, how, NoStar)
  BY DEF AdoptAnswered, AdoptTimeout, Adopted
<1>2. /\ \A u \in Tasks \ {t} : task'[u] = task[u] 
      /\ task'[t].at = "done"
  BY <1>1, TaskFields
<1>3. NotYet(t)'
  BY <1>2 DEF NotYet
<1> QED
  BY <1>1, <1>2, <1>3, TaskKeepsTurns

\* A request for the first of the stack, which is on it once.
LEMMA AskTurns ==
  ASSUME IInv, TurnInv, NEW t \in Tasks, NEW s \in Stars, task[t].at \in {"parent", "reread"},
         Ask(t, s), UNCHANGED index
  PROVE  TurnInv'
<1> DEFINE old == task[t].stack
           p == Head(old)
           req == [at |-> "asked", star |-> s, host |-> NoStar]
<1>1. /\ old \in Seq(Points) /\ old # <<>> /\ p \in Points /\ p = old[1]
      /\ Len(old) \in Nat \ {0}
  BY StackIsStack
<1>2. \A i \in 1 .. Len(old) - 1 : Parent[old[i + 1]] = old[i]
  BY DEF IInv, TaskOK, StackOK
<1>3. \A i \in 2 .. Len(old) : old[i] # p
  BY <1>1, <1>2, FirstOnce
<1>4. \A i \in 1 .. Len(old) : old[i] \in Points /\ prov[t][old[i]].at = "none"
  BY <1>1 DEF TurnInv, NotYet
<1>5. prov[t][p].at = "none" /\ prov[t][p].host = NoStar
  <2> 1 \in 1 .. Len(old)
    BY <1>1
  <2> QED
    BY <1>1, <1>4 DEF TurnInv, NoHost
<1>6. /\ \A u \in Tasks \ {t} : task'[u] = task[u]
      /\ task'[t].at = "asking" /\ task'[t].stack = old
  BY TaskFields DEF Ask
<1>7. /\ prov'[t][p] = req
      /\ \A u \in Tasks, q \in Points : u # t \/ q # p => prov'[u][q] = prov[u][q]
  <2> prov \in [Tasks -> [Points -> ProvRec]] /\ prov' = [prov EXCEPT ![t][p] = req]
    BY DEF IInv, TypeOK, ProvRec, Ask
  <2> HIDE DEF p, req
  <2> QED
    BY <1>1
<1>8. req.at = "asked" /\ req.host = NoStar
  OBVIOUS
<1> HIDE DEF req, p, old
<1>9. ASSUME NEW u \in Tasks
      PROVE  NotYet(u)'
  <2>1. CASE u = t
    <3> \A i \in 2 .. Len(old) : prov'[t][old[i]].at = "none"
      BY <1>1, <1>3, <1>4, <1>7
    <3> QED
      BY <2>1, <1>6 DEF NotYet
  <2>2. CASE u # t
    <3>1. NotYet(u) /\ task'[u] = task[u]
      BY <2>2, <1>6 DEF TurnInv
    <3>2. \A q \in Points : prov'[u][q] = prov[u][q]
      BY <2>2, <1>7
    <3>3. CASE task[u].at \in {"reread", "asking"}
      <4> task[u].stack \in Seq(Points)
        BY <3>3, StackIsStack
      <4> \A i \in 1 .. Len(task[u].stack) : prov'[u][task[u].stack[i]] = prov[u][task[u].stack[i]]
        BY <3>2
      <4> QED
        BY <3>1, <3>3 DEF NotYet
    <3>4. CASE task[u].at \notin {"reread", "asking"}
      BY <3>1, <3>2, <3>4 DEF NotYet
    <3> QED
      BY <3>3, <3>4
  <2> QED
    BY <2>1, <2>2
<1>10. \A u \in Tasks, q \in Points : NoHost(u, q)'
  <2> SUFFICES ASSUME NEW u \in Tasks, NEW q \in Points PROVE NoHost(u, q)'
    OBVIOUS
  <2> NoHost(u, q)
    BY DEF TurnInv
  <2> QED
    BY <1>7, <1>8 DEF NoHost
<1>11. \A u \in Tasks, q \in Points :
          \/ prov'[u][q].star = prov[u][q].star /\ prov'[u][q].host = prov[u][q].host
          \/ prov[u][q].host = NoStar /\ prov'[u][q].host = NoStar
  BY <1>5, <1>7, <1>8
<1>12. \A s1 \in Stars, k \in Kinds : RoundsOK(s1, k)'
  BY <1>11, RoundsStay
<1> QED
  BY <1>9, <1>10, <1>12 DEF TurnInv
LEMMA ParentTurns ==
  ASSUME IInv, TurnInv, NEW t \in Tasks, CheckParent(t) \/ RereadParent(t)
  PROVE  TurnInv'
<1> DEFINE old == task[t].stack
           q == Parent[Head(old)]
<1>0. task[t].at \in {"parent", "reread"} /\ UNCHANGED index
  BY DEF CheckParent, RereadParent, At
<1>1. q \in Points \union {Root}
  BY <1>0, StackIsStack, ProvisioningAssumption
<1>2. CASE Ask(t, LocationOf(q)) /\ LocationOf(q) # NoStar
  BY <1>0, <1>1, <1>2, LocationIsStar, AskTurns
<1>3. CASE /\ task[t].at = "parent" /\ UNCHANGED prov
           /\ Fail(t) \/ Provisions(t, <<q>> \o old)
  <2>1. /\ \A u \in Tasks \ {t} : task'[u] = task[u]
        /\ task'[t].at \in {"parent", "done"}
    BY <1>3, TaskFields DEF Fail
  <2> QED
    BY <1>0, <1>3, <2>1, NothingAsked
<1>4. CASE CheckParent(t)
  BY <1>2, <1>3, <1>4 DEF CheckParent, At
<1>5. CASE RereadParent(t)
  <2>1. task[t].at = "reread"
    BY <1>5 DEF RereadParent, At
  <2>2. LocationOf(q) # NoStar
    BY <2>1 DEF IInv, TaskOK, StackOK
  <2> QED
    BY <1>2, <1>5, <2>2 DEF RereadParent
<1> QED
  BY <1>4, <1>5

LEMMA ProvisionedTurns ==
  ASSUME IInv, TurnInv, NEW t \in Tasks, Provisioned(t)
  PROVE  TurnInv'
<1> DEFINE old == task[t].stack
<1>0. task[t].at = "asking" /\ UNCHANGED <<prov, index>>
  BY DEF Provisioned, At
<1>1. /\ old \in Seq(Points) /\ old # <<>> /\ Len(old) \in Nat \ {0}
      /\ task[t] \in TaskRec /\ task \in [Tasks -> TaskRec]
  BY <1>0, StackIsStack, TaskIsTask
<1>2. CASE Len(old) > 1 /\ task' = [task EXCEPT ![t].at = "reread", ![t].stack = Tail(@)]
  <2> DEFINE new == Tail(old)
  <2>1. /\ \A u \in Tasks \ {t} : task'[u] = task[u]
        /\ task'[t].at = "reread" /\ task'[t].stack = new
    BY <1>1, <1>2 DEF TaskRec
  <2>2. \A i \in 2 .. Len(old) : prov[t][old[i]].at = "none"
    BY <1>0 DEF TurnInv, NotYet
  <2> HIDE DEF old
  <2>3. /\ Len(new) = Len(old) - 1
        /\ \A i \in 1 .. Len(old) - 1 : new[i] = old[i + 1]
    BY <1>1, <1>2, WithoutFirst
  <2> HIDE DEF new
  <2>4. \A i \in 1 .. Len(new) : prov[t][new[i]].at = "none"
    <3> SUFFICES ASSUME NEW i \in 1 .. Len(new) PROVE prov[t][new[i]].at = "none"
      OBVIOUS
    <3> i \in 1 .. Len(old) - 1 /\ i + 1 \in 2 .. Len(old)
      BY <1>1, <2>3
    <3> QED
      BY <2>2, <2>3
  <2>5. NotYet(t)'
    BY <1>0, <2>1, <2>4 DEF NotYet
  <2> QED
    BY <1>0, <2>1, <2>5, TaskKeepsTurns
<1>3. CASE ~(Len(old) > 1)
  <2>1. /\ \A u \in Tasks \ {t} : task'[u] = task[u]
        /\ task'[t].at \in {"done", "record"}
    BY <1>3, TaskFields DEF Provisioned
  <2>2. NotYet(t)'
    BY <2>1 DEF NotYet
  <2> QED
    BY <1>0, <2>1, <2>2, TaskKeepsTurns
<1> QED
  BY <1>2, <1>3 DEF Provisioned

\* A step of a handler, which asks for nothing in the task's name.
LEMMA HandlerKeepsTurns ==
  ASSUME IInv, TurnInv, NEW t \in Tasks, NEW p \in Points, UNCHANGED task,
         \A u \in Tasks, q \in Points : u # t \/ q # p => prov'[u][q] = prov[u][q],
         prov[t][p].at = "none" => prov'[t][p].at = "none",
         NoHost(t, p)', \A s \in Stars, k \in Kinds : RoundsOK(s, k)'
  PROVE  TurnInv'
<1>1. ASSUME NEW u \in Tasks
      PROVE  NotYet(u)'
  <2>1. \A q \in Points : prov[u][q].at = "none" => prov'[u][q].at = "none"
    OBVIOUS
  <2>2. NotYet(u)
    BY DEF TurnInv
  <2>3. CASE task[u].at \in {"reread", "asking"}
    <3> task[u].stack \in Seq(Points)
      BY <2>3, StackIsStack
    <3> \A i \in 1 .. Len(task[u].stack) : task[u].stack[i] \in Points
      OBVIOUS
    <3> QED
      BY <2>1, <2>2, <2>3 DEF NotYet
  <2>4. CASE task[u].at \notin {"reread", "asking"}
    BY <2>1, <2>2, <2>4 DEF NotYet
  <2> QED
    BY <2>3, <2>4
<1>2. \A u \in Tasks, q \in Points : NoHost(u, q)'
  <2> SUFFICES ASSUME NEW u \in Tasks, NEW q \in Points, u # t \/ q # p PROVE NoHost(u, q)'
    OBVIOUS
  <2> NoHost(u, q) /\ prov'[u][q] = prov[u][q]
    BY DEF TurnInv
  <2> QED
    BY DEF NoHost
<1> QED
  BY <1>1, <1>2 DEF TurnInv

LEMMA ProvisionTurns ==
  ASSUME IInv, TurnInv, NEW t \in Tasks, NEW p \in Points, Provision(t, p)
  PROVE  TurnInv'
<1>1. /\ prov[t][p].at = "asked" /\ UNCHANGED <<index, task>> /\ prov[t][p].star \in Stars
      /\ prov[t][p].host = NoStar /\ prov \in [Tasks -> [Points -> ProvRec]]
  BY TablesAreTables DEF Provision, ProvInv, TurnInv, NoHost
<1>2. CASE \E a \in {"lock", "failed"} : prov' = [prov EXCEPT ![t][p].at = a]
  <2>1. /\ \A u \in Tasks, q \in Points : u # t \/ q # p => prov'[u][q] = prov[u][q]
        /\ prov'[t][p].star = prov[t][p].star /\ prov'[t][p].host = prov[t][p].host
    BY <1>2, ProvStepCell, SMTT(20)
  <2>2. \A s \in Stars, k \in Kinds : RoundsOK(s, k)'
    BY <1>1, <2>1, RoundsStay
  <2>3. NoHost(t, p)'
    BY <1>1, <2>1 DEF NoHost
  <2> QED
    BY <1>1, <2>1, <2>2, <2>3, HandlerKeepsTurns
<1>3. CASE /\ prov' = [prov EXCEPT ![t][p].at = "assigning", ![t][p].host = prov[t][p].star]
           /\ Turns(prov[t][p].star, Kind[p]) = <<>>
  <2>1. /\ \A u \in Tasks, q \in Points : u # t \/ q # p => prov'[u][q] = prov[u][q]
        /\ prov'[t][p].star = prov[t][p].star /\ prov'[t][p].at = "assigning"
    <3> DEFINE r == [prov[t][p] EXCEPT !.at = "assigning", !.host = prov[t][p].star]
    <3>1. prov' = [prov EXCEPT ![t][p] = r] /\ prov[t][p] \in ProvRec
      BY <1>1, <1>3
    <3>2. r.star = prov[t][p].star /\ r.at = "assigning"
      BY <3>1 DEF ProvRec
    <3> HIDE DEF r
    <3> QED
      BY <1>1, <3>1, <3>2
  <2>2. \A s \in Stars, k \in Kinds : RoundsOK(s, k)'
    BY <1>1, <1>3, <2>1, RoundsStay
  <2>3. NoHost(t, p)'
    BY <2>1 DEF NoHost
  <2> QED
    BY <1>1, <2>1, <2>2, <2>3, HandlerKeepsTurns
<1> QED
  BY <1>2, <1>3 DEF Provision

LEMMA WrangleTurns ==
  ASSUME IInv, TurnInv, NEW t \in Tasks, NEW p \in Points, Wrangle(t, p)
  PROVE  TurnInv'
<1> DEFINE host == Pick(prov[t][p].star, Kind[p], index[prov[t][p].star][Kind[p]] + 1)
<1>1. /\ prov[t][p].at = "lock" /\ UNCHANGED task /\ prov \in [Tasks -> [Points -> ProvRec]]
      /\ prov' = [prov EXCEPT ![t][p].at = "assigning", ![t][p].host = host]
  BY TablesAreTables DEF Wrangle
<1> HIDE DEF host
<1>2. /\ \A u \in Tasks, q \in Points : u # t \/ q # p => prov'[u][q] = prov[u][q]
      /\ prov'[t][p].at = "assigning"
  BY <1>1 DEF ProvRec
<1>3. NoHost(t, p)'
  BY <1>2 DEF NoHost
<1> QED
  BY <1>1, <1>2, <1>3, WrangleRounds, HandlerKeepsTurns

LEMMA EndProvisionTurns ==
  ASSUME IInv, TurnInv, NEW t \in Tasks, NEW p \in Points,
         AssignAnswered(t, p) \/ AssignTimeout(t, p)
  PROVE  TurnInv'
<1>1. /\ prov[t][p].at = "assigning" /\ UNCHANGED <<index, task>>
      /\ \E how \in {"ok", "failed"} : prov' = [prov EXCEPT ![t][p].at = how]
  BY DEF AssignAnswered, AssignTimeout, EndProvision, Over
<1>2. /\ \A u \in Tasks, q \in Points : u # t \/ q # p => prov'[u][q] = prov[u][q]
      /\ prov'[t][p].star = prov[t][p].star /\ prov'[t][p].host = prov[t][p].host
      /\ prov'[t][p].at \in {"ok", "failed"}
  <2>1. CASE prov' = [prov EXCEPT ![t][p].at = "ok"]
    BY <2>1, ProvStepCell
  <2>2. CASE prov' = [prov EXCEPT ![t][p].at = "failed"]
    <3>1. \A u \in Tasks, q \in Points : u # t \/ q # p => prov'[u][q] = prov[u][q]
      BY <2>2, ProvStepCell, SMTT(20)
    <3>2. /\ prov'[t][p].at = "failed" /\ prov'[t][p].star = prov[t][p].star
          /\ prov'[t][p].host = prov[t][p].host
      BY <2>2, ProvStepCell
    <3> QED
      BY <3>1, <3>2
  <2> QED
    BY <1>1, <2>1, <2>2
<1>3. \A s \in Stars, k \in Kinds : RoundsOK(s, k)'
  BY <1>1, <1>2, RoundsStay
<1>4. NoHost(t, p)'
  BY <1>2 DEF NoHost
<1> QED
  BY <1>1, <1>2, <1>3, <1>4, HandlerKeepsTurns

LEMMA QuietTurns ==
  ASSUME IInv, TurnInv, UNCHANGED <<prov, task, index>>
  PROVE  TurnInv'
<1>1. \A s \in Stars, k \in Kinds : RoundsOK(s, k)'
  BY RoundsStay
<1> QED
  BY <1>1 DEF TurnInv, NotYet, NoHost

LEMMA NextTurns ==
  ASSUME IInv, TurnInv, [Next]_vars
  PROVE  TurnInv'
<1>1. CASE \E t \in Tasks : TaskStep(t) \/ AskTimeout(t) \/ AdoptTimeout(t)
  BY <1>1, TaskTurns, AdoptedTurns, ParentTurns, ProvisionedTurns
     DEF TaskStep, AskTimeout, NotProvisioned
<1>2. CASE \E t \in Tasks, p \in Points : StarStep(t, p) \/ Late(t, p)
  <2> PICK t \in Tasks, p \in Points : StarStep(t, p) \/ Late(t, p)
    BY <1>2
  <2>1. CASE CreateShell(t, p) \/ DriverAnswers(t, p) \/ DriverTimeout(t, p) \/ StoreStar(t, p)
    BY <2>1, QuietTurns DEF CreateShell, DriverAnswers, DriverTimeout, StoreStar
  <2> QED
    BY <2>1, ProvisionTurns, WrangleTurns, EndProvisionTurns DEF StarStep, Late
<1>3. CASE UNCHANGED vars
  BY <1>3, QuietTurns DEF vars
<1> QED
  BY <1>1, <1>2, <1>3 DEF Next

LEMMA InitTurns ==
  ASSUME Init
  PROVE  TurnInv
<1>1. \A t \in Tasks, p \in Points : prov[t][p].at = "none" /\ prov[t][p].host = NoStar
  BY DEF Init, NoProv
<1>2. \A t \in Tasks : NotYet(t)
  <2> \A t \in Tasks : task[t].at \in {"locate", "count"}
    BY DEF Init, Begin
  <2> QED
    BY <1>1 DEF NotYet
<1>3. \A t \in Tasks, p \in Points : NoHost(t, p)
  BY <1>1 DEF NoHost
<1>4. ASSUME NEW s \in Stars, NEW k \in Kinds, Turns(s, k) # <<>>
      PROVE  RoundsOK(s, k)
  <2>1. /\ Len(Turns(s, k)) \in Nat \ {0} /\ index[s][k] = 0
        /\ DOMAIN Turns(s, k) = 1 .. Len(Turns(s, k))
    <3> Turns(s, k) \in Seq(Stars)
      BY ProvisioningAssumption DEF Turns
    <3> QED
      BY <1>4 DEF Init
  <2>2. Turn(s, k) = 1
    <3> DEFINE L == Len(Turns(s, k))
    <3> L \in Nat \ {0}
      BY <2>1
    <3> HIDE DEF L
    <3> 0 % L = 0
      OBVIOUS
    <3> QED
      BY <2>1 DEF Turn, L
  <2>3. ASSUME NEW h \in Stars
        PROVE  InTurn(s, k, 0, h)
    <3>1. Picked(s, k, h) = {}
      BY <1>1, ProvisioningAssumption DEF Picked
    <3>2. ThisRound(s, k, h) = {}
      BY <2>1, <2>2 DEF ThisRound, Listed
    <3>3. Times(s, k, h) \in Nat
      BY ListedFinite
    <3> QED
      BY <3>1, <3>2, <3>3, FS_EmptySet DEF InTurn
  <2> QED
    BY <2>3 DEF RoundsOK
<1> QED
  BY <1>2, <1>3, <1>4 DEF TurnInv, RoundsOK

\* However the creations and locations of a mesh overlap, fail or give up, a selector
\* spreads them over the stars it lists, each in proportion to how often it is listed.
THEOREM RoundRobinTheorem == Spec => []RoundRobinIsFair
<1>1. Init => TurnInv
  BY InitTurns
<1>2. IInv /\ TurnInv /\ [Next]_vars => TurnInv'
  BY NextTurns
<1>3. TurnInv => RoundRobinIsFair
  BY RoundsAreFair
<1> QED
  BY <1>1, <1>2, <1>3, Invariance, PTL DEF Spec

=============================================================================
