------------------------ MODULE TaskLifecycle_proofs -------------------------
(***************************************************************************)
(* Theorems about TaskLifecycle: type correctness, that completion is      *)
(* earned, the retry budget, one run at a time, that a run has its agent,  *)
(* and what the serial task board promises.                                *)
(***************************************************************************)
EXTENDS TaskLifecycle, TLAPS

-----------------------------------------------------------------------------
(* Types.  What a request holds depends on where it is suspended: a request *)
(* about a task has its id, one about to write an agent has that agent's.   *)

TaskAwaits == Awaits \ {"idle", "suspend", "cascade", "unsuspend"}

AgentAwaits == {"release", "reserve", "assign", "record", "rollback",
                "rollbackAgent", "rollbackTask", "cancelRelease",
                "reassignRelease", "suspend", "cascade", "unsuspend"}

TargetAwaits == {"reassignRelease", "reassign", "occupy"}

Shaped(r) == /\ r.at \in TaskAwaits => r.t \in Tasks
             /\ r.at \in AgentAwaits => r.a \in Agents
             /\ r.at \in TargetAwaits => r.b \in Agents

RequestsTyped == /\ req \in [Workers -> Request]
                 /\ \A w \in Workers : Shaped(req[w])

TypeInv == TypeOK /\ RequestsTyped

\* The value of a free slot.
LEMMA IdleTyped == Idle \in Request /\ Shaped(Idle)
  BY BoardAssumption
     DEF Idle, Request, Awaits, Steps, Ages, Fresh, Shaped, TaskAwaits,
         AgentAwaits, TargetAwaits

\* The value of a task that does not exist.
LEMMA NoRowTyped == NoRow \in Row
  BY BoardAssumption DEF NoRow, Row, Statuses, Steps, Results, Ages, Fresh, Proofs

\* The values the handlers write are values of the columns.
LEMMA Values ==
  /\ {"active", "completed", "failed", "deleted"} \subseteq Statuses
  /\ {"Submitted", "Assigned", "Executing", "Complete"} \subseteq Steps
  /\ {"null", "running", "succeeded", "retryable", "fatal"} \subseteq Results
  /\ "hash" \in Proofs
  /\ Fresh \in Ages
  /\ 0 \in 0..MaxAttempts
  BY BoardAssumption DEF Statuses, Steps, Results, Proofs, Ages, Fresh

\* A statement that writes a well-formed row.
LEMMA UpdateTyped ==
  ASSUME TypeOK, NEW t \in Tasks, NEW cond, NEW row \in Row,
         UpdateWhere(t, cond, row)
  PROVE  task' \in [Tasks -> Row]
  BY DEF UpdateWhere, TypeOK

\* A well-formed request that takes a slot.
LEMMA BeginTyped ==
  ASSUME TypeInv, NEW w \in Workers, NEW r \in Request, Shaped(r), Begin(w, r)
  PROVE  RequestsTyped'
  BY DEF RequestsTyped, TypeInv, Begin

\* A request that ends.
LEMMA EndTyped ==
  ASSUME TypeInv, NEW w \in Workers, End(w)
  PROVE  RequestsTyped'
  BY IdleTyped DEF TypeInv, RequestsTyped, TypeOK, End

\* A request that goes on to an await for which it has what is needed.
LEMMA ProceedTyped ==
  ASSUME TypeInv, NEW w \in Workers, NEW p \in Awaits, Proceed(w, p),
         Shaped([req[w] EXCEPT !.at = p])
  PROVE  RequestsTyped'
  BY DEF TypeInv, RequestsTyped, TypeOK, Proceed, Request

\* A request that goes on to release an agent, or ends.
LEMMA ReleaseNextTyped ==
  ASSUME TypeInv, NEW w \in Workers, NEW a \in Agents \cup {NoAgent},
         req[w].t \in Tasks, ReleaseNext(w, a)
  PROVE  RequestsTyped'
<1>1. CASE a = NoAgent
  BY <1>1, IdleTyped DEF TypeInv, RequestsTyped, TypeOK, ReleaseNext
<1>2. CASE a # NoAgent
  <2> DEFINE r == [Idle EXCEPT !.at = "release", !.t = req[w].t, !.a = a]
  <2>1. r \in Request /\ Shaped(r)
    BY <1>2, IdleTyped DEF Idle, Request, Awaits, Shaped, TaskAwaits, AgentAwaits, TargetAwaits
  <2> QED
    BY <1>2, <2>1 DEF TypeInv, RequestsTyped, TypeOK, ReleaseNext
<1> QED
  BY <1>1, <1>2

-----------------------------------------------------------------------------
(* Every step keeps the types.                                              *)

\* The requests that arrive: what a handler's reads leave in its slot.
LEMMA ArriveTyped ==
  ASSUME TypeInv, NEW w \in Workers, Arrive(w)
  PROVE  TypeInv'
<1> USE BoardAssumption
<1>1. UNCHANGED <<task, agent, verified, produced>>
  BY DEF Arrive, AdvanceRead, TimeoutRead, DeleteRead, CancelRead, RetryRead,
         ResolveRead, HireRead, ReassignRead, SuspendRead, UnsuspendRead,
         OnlyRequests
<1>2. ASSUME NEW r, Begin(w, r), r \in Request, Shaped(r)
      PROVE  TypeInv'
  BY <1>1, <1>2, BeginTyped DEF TypeInv, RequestsTyped, TypeOK
<1>3. ASSUME NEW t \in Tasks PROVE task[t] \in Row
  BY DEF TypeInv, TypeOK
<1> USE DEF Ages, Fresh, Awaits, TaskAwaits, AgentAwaits, TargetAwaits
<1>4. ASSUME NEW t \in Tasks, AdvanceRead(w, t)
      PROVE  TypeInv'
  <2> DEFINE row == task[t]
             moving == [About("move", t) EXCEPT !.step = NextStep[row.step]]
             claiming == [About("claim", t) EXCEPT !.a = row.agent,
                                                   !.attempts = row.attempts]
             closing == [About("giveUp", t) EXCEPT !.a = row.agent]
  <2>1. CASE Begin(w, moving) /\ ReadyToMove(row)
    <3>1. NextStep[row.step] \in Steps
      BY <2>1 DEF ReadyToMove, NextStep, Steps
    <3>2. moving \in Request /\ Shaped(moving)
      BY <3>1, IdleTyped DEF About, Idle, Request, Shaped
    <3> QED
      BY <1>2, <2>1, <3>2
  <2>2. CASE Begin(w, About("prove", t))
    <3>1. About("prove", t) \in Request /\ Shaped(About("prove", t))
      BY IdleTyped DEF About, Idle, Request, Shaped
    <3> QED
      BY <1>2, <2>2, <3>1
  <2>3. CASE Begin(w, claiming)
    <3>1. claiming \in Request /\ Shaped(claiming)
      BY <1>3, IdleTyped DEF About, Idle, Request, Row, Shaped
    <3> QED
      BY <1>2, <2>3, <3>1
  <2>4. CASE Begin(w, closing)
    <3>1. closing \in Request /\ Shaped(closing)
      BY <1>3, IdleTyped DEF About, Idle, Request, Row, Shaped
    <3> QED
      BY <1>2, <2>4, <3>1
  <2> QED
    BY <1>4, <2>1, <2>2, <2>3, <2>4 DEF AdvanceRead
<1>5. ASSUME NEW t \in Tasks, TimeoutRead(w, t) PROVE TypeInv'
  <2> DEFINE r == [About("timeoutFail", t) EXCEPT !.a = task[t].agent,
                                                  !.step = task[t].step]
  <2>1. r \in Request /\ Shaped(r)
    BY <1>3, IdleTyped DEF About, Idle, Request, Row, Shaped
  <2> QED
    BY <1>2, <1>5, <2>1 DEF TimeoutRead
<1>6. ASSUME NEW t \in Tasks,
             NEW p \in {"delete", "retry", "cancel", "resolveRefund",
                        "resolveRelease"},
             Begin(w, About(p, t))
      PROVE  TypeInv'
  <2>1. About(p, t) \in Request /\ Shaped(About(p, t))
    BY IdleTyped DEF About, Idle, Request, Shaped
  <2> QED
    BY <1>2, <1>6, <2>1
<1>7. ASSUME NEW t \in Tasks, CancelRead(w, t) PROVE TypeInv'
  <2> DEFINE r == [About("cancelRelease", t) EXCEPT !.a = task[t].agent]
  <2>1. CASE Begin(w, About("cancel", t))
    BY <1>6, <2>1
  <2>2. CASE task[t].agent # NoAgent /\ Begin(w, r)
    <3>1. r \in Request /\ Shaped(r)
      BY <1>3, <2>2, IdleTyped DEF About, Idle, Request, Row, Shaped
    <3> QED
      BY <1>2, <2>2, <3>1
  <2> QED
    BY <1>7, <2>1, <2>2 DEF CancelRead
<1>8. ASSUME NEW t \in Tasks, NEW a \in Agents, HireRead(w, t, a)
      PROVE  TypeInv'
  <2> DEFINE r == [About("reserve", t) EXCEPT !.a = a, !.step = task[t].step,
                                              !.age = task[t].age]
  <2>1. r \in Request /\ Shaped(r)
    BY <1>3, IdleTyped DEF About, Idle, Request, Row, Shaped
  <2> QED
    BY <1>2, <1>8, <2>1 DEF HireRead
<1>9. ASSUME NEW t \in Tasks, NEW b \in Agents, ReassignRead(w, t, b)
      PROVE  TypeInv'
  <2> DEFINE a == task[t].agent
             direct == [About("reassign", t) EXCEPT !.a = a, !.b = b]
             releasing == [About("reassignRelease", t) EXCEPT !.a = a, !.b = b]
  <2>1. CASE a = NoAgent
    <3>1. direct \in Request /\ Shaped(direct)
      BY <2>1, IdleTyped, ZenonT(40) DEF About, Idle, Request, Shaped
    <3> QED
      BY <1>2, <1>9, <2>1, <3>1 DEF ReassignRead
  <2>2. CASE a # NoAgent
    <3>1. releasing \in Request /\ Shaped(releasing)
      BY <1>3, <2>2, IdleTyped DEF About, Idle, Request, Row, Shaped
    <3> QED
      BY <1>2, <1>9, <2>2, <3>1 DEF ReassignRead
  <2> QED
    BY <2>1, <2>2
<1>10. ASSUME NEW a \in Agents, NEW p \in {"suspend", "unsuspend"},
              Begin(w, [Idle EXCEPT !.at = p, !.a = a])
       PROVE  TypeInv'
  <2> DEFINE r == [Idle EXCEPT !.at = p, !.a = a]
  <2>1. r \in Request /\ Shaped(r)
    BY IdleTyped DEF Idle, Request, Shaped
  <2> QED
    BY <1>2, <1>10, <2>1
<1> QED
  BY <1>4, <1>5, <1>6, <1>7, <1>8, <1>9, <1>10
     DEF Arrive, DeleteRead, RetryRead, ResolveRead, SuspendRead, UnsuspendRead

\* What storing a failure does to the table: an UPDATE that may match nothing,
\* as the one that failed did.
LEMMA FailureWritten ==
  ASSUME TypeInv, NEW w \in Workers, NEW expected, NEW attempts, NEW terminal,
         PersistFailure(w, expected, attempts, terminal)
  PROVE  \E cond \in BOOLEAN :
           /\ cond => task[req[w].t].step = expected
           /\ UpdateWhere(req[w].t, cond,
                          FailedRow(task[req[w].t], attempts, terminal))
<1> DEFINE t == req[w].t
           row == FailedRow(task[t], attempts, terminal)
<1> HIDE DEF row
<1>1. CASE UpdateWhere(t, task[t].step = expected, row)
  <2>1. \/ task[t].step = expected /\ UpdateWhere(t, TRUE, row)
        \/ UpdateWhere(t, FALSE, row)
    BY <1>1 DEF UpdateWhere
  <2> QED
    BY <2>1 DEF row
<1>2. CASE UNCHANGED task
  <2>1. UpdateWhere(t, FALSE, row)
    BY <1>2 DEF UpdateWhere, TypeInv, TypeOK
  <2> QED
    BY <2>1 DEF row
<1> QED
  BY <1>1, <1>2 DEF PersistFailure, row

\* The row an assignment writes.
HiredRow(t, a) == [task[t] EXCEPT !.agent = a, !.step = "Assigned",
                                     !.age = Fresh]

\* What assigning does to the table, likewise.
LEMMA AssignWritten ==
  ASSUME TypeInv, NEW w \in Workers, Assign(w)
  PROVE  \E cond \in BOOLEAN :
           /\ cond => Active(req[w].t) /\ task[req[w].t].agent = NoAgent
           /\ UpdateWhere(req[w].t, cond, HiredRow(req[w].t, req[w].a))
<1> DEFINE t == req[w].t
           open == Active(t) /\ task[t].agent = NoAgent
           row == HiredRow(t, req[w].a)
<1>1. UpdateWhere(t, open, row) \/ UNCHANGED task
  BY DEF Assign, HiredRow
<1> HIDE DEF row, open
<1>2. CASE UpdateWhere(t, open, row)
  <2>1. \/ open /\ UpdateWhere(t, TRUE, row)
        \/ UpdateWhere(t, FALSE, row)
    BY <1>2 DEF UpdateWhere
  <2> QED
    BY <2>1 DEF row, open
<1>3. CASE UNCHANGED task
  <2>1. UpdateWhere(t, FALSE, row)
    BY <1>3 DEF UpdateWhere, TypeInv, TypeOK
  <2> QED
    BY <2>1 DEF row
<1> QED
  BY <1>1, <1>2, <1>3

\* The request goes on to record the hire, or to release the agent.
LEMMA AssignGoesOn ==
  ASSUME NEW w \in Workers, Assign(w)
  PROVE  /\ req[w].at = "assign"
         /\ Proceed(w, "record") \/ ReleaseNext(w, req[w].a)
         /\ UNCHANGED <<agent, verified, produced>>
  BY DEF Assign, OnlyTasks

\* The rows persistExecutionFailure writes.
LEMMA FailedRowTyped ==
  ASSUME NEW row \in Row, NEW attempts \in Nat, NEW terminal \in BOOLEAN,
         ~terminal => attempts <= MaxAttempts
  PROVE  FailedRow(row, attempts, terminal) \in Row
<1>1. terminal \/ attempts \in 0..MaxAttempts
  BY BoardAssumption
<1> QED
  BY <1>1, Values DEF FailedRow, Row

\* persistExecutionFailure writes a well-formed row, and its agent is one.
LEMMA PersistFailureTyped ==
  ASSUME TypeInv, NEW w \in Workers, NEW expected, NEW attempts \in Nat,
         NEW terminal \in BOOLEAN, ~terminal => attempts <= MaxAttempts,
         req[w].t \in Tasks, PersistFailure(w, expected, attempts, terminal)
  PROVE  TypeInv'
<1> DEFINE t == req[w].t
<1>1. FailedRow(task[t], attempts, terminal) \in Row
  BY FailedRowTyped DEF TypeInv, TypeOK
<1>2. task' \in [Tasks -> Row]
  BY <1>1, FailureWritten, UpdateTyped DEF TypeInv
<1>3. req[w].a \in Agents \cup {NoAgent}
  BY DEF TypeInv, TypeOK, Request
<1>4. RequestsTyped'
  BY <1>3, EndTyped, ReleaseNextTyped DEF PersistFailure
<1> QED
  BY <1>2, <1>4 DEF PersistFailure, OnlyTasks, TypeInv, RequestsTyped, TypeOK

\* A request that goes on to its next await: its locals are unchanged.
LEMMA ResumeTyped ==
  ASSUME TypeInv, NEW w \in Workers, Resume(w)
  PROVE  TypeInv'
<1> USE BoardAssumption
<1> DEFINE r == req[w]
           t == req[w].t
<1>1. /\ r \in Request /\ Shaped(r) /\ r.a \in Agents \cup {NoAgent}
      /\ r.b \in Agents \cup {NoAgent} /\ r.attempts \in Nat /\ r.step \in Steps
      /\ r.age \in Ages /\ r.at \in Awaits
  BY DEF TypeInv, RequestsTyped, Request
<1>2. t \in Tasks => task[t] \in Row
  BY DEF TypeInv, TypeOK
<1>3. ASSUME RequestsTyped', task' \in [Tasks -> Row],
             UNCHANGED <<agent, verified, produced>>
      PROVE  TypeInv'
  BY <1>3 DEF TypeInv, RequestsTyped, TypeOK
<1>4. ASSUME RequestsTyped', agent' \in [Agents -> AgentStatuses],
             UNCHANGED <<task, verified, produced>>
      PROVE  TypeInv'
  BY <1>4 DEF TypeInv, RequestsTyped, TypeOK
<1>5. ASSUME NEW a \in Agents, NEW s \in AgentStatuses, SetAgent(a, s)
      PROVE  agent' \in [Agents -> AgentStatuses]
  BY <1>5 DEF SetAgent, TypeInv, TypeOK
<1>6. ASSUME NEW u \in Tasks, NEW row \in Row, NEW cond, UpdateWhere(u, cond, row)
      PROVE  task' \in [Tasks -> Row]
  BY <1>6, UpdateTyped DEF TypeInv
<1>7. ASSUME NEW p \in Awaits, Proceed(w, p),
             p \in TaskAwaits => r.at \in TaskAwaits,
             p \in AgentAwaits => r.at \in AgentAwaits,
             p \in TargetAwaits => r.at \in TargetAwaits
      PROVE  RequestsTyped'
  <2>1. Shaped([req[w] EXCEPT !.at = p])
    BY <1>1, <1>7 DEF Shaped, Request
  <2> QED
    BY <1>7, <2>1, ProceedTyped
<1> HIDE DEF r
<1>8. ASSUME r.at \in TaskAwaits PROVE t \in Tasks
  BY <1>1, <1>8 DEF Shaped, r
<1>9. ASSUME r.at \in AgentAwaits PROVE r.a \in Agents
  BY <1>1, <1>9 DEF Shaped
<1> USE DEF r, TaskAwaits, AgentAwaits, TargetAwaits, Awaits
<1>10. CASE GiveUp(w)
  BY <1>8, <1>10, PersistFailureTyped DEF GiveUp
<1>11. CASE Claim(w)
  <2>1. t \in Tasks
    BY <1>8, <1>11 DEF Claim
  <2>2. [task[t] EXCEPT !.step = "Executing", !.age = Fresh,
                        !.result = "running", !.attempts = 0] \in Row
    BY <1>2, <2>1, Values DEF Row
  <2>3. task' \in [Tasks -> Row]
    BY <1>6, <1>11, <2>1, <2>2 DEF Claim
  <2>4. RequestsTyped'
    BY <1>7, <1>11, EndTyped DEF Claim
  <2> QED
    BY <1>3, <1>11, <2>3, <2>4 DEF Claim, OnlyTasks
<1>12. CASE RunSucceeds(w)
  <2>1. t \in Tasks
    BY <1>8, <1>12 DEF RunSucceeds
  <2>2. [task[t] EXCEPT !.result = "succeeded", !.attempts = 0] \in Row
    BY <1>2, <2>1, Values DEF Row
  <2>3. task' \in [Tasks -> Row]
    BY <1>12, <2>1, <2>2 DEF RunSucceeds, SetRow, TypeInv, TypeOK
  <2>4. produced' \in [Tasks -> BOOLEAN]
    <3>1. produced \in [Tasks -> BOOLEAN]
      BY DEF TypeInv, TypeOK
    <3>2. \/ produced' = [produced EXCEPT ![t] = TRUE]
          \/ produced' = produced
      BY <1>12 DEF RunSucceeds
    <3> QED
      BY <3>1, <3>2
  <2>5. RequestsTyped'
    BY <1>7, <1>12, EndTyped DEF RunSucceeds
  <2> QED
    BY <1>12, <2>3, <2>4, <2>5 DEF RunSucceeds, TypeInv, RequestsTyped, TypeOK
<1>13. ASSUME NEW retryable \in BOOLEAN, RunFails(w, retryable) PROVE TypeInv'
  <2> DEFINE attempts == r.attempts + 1
             terminal == ~retryable \/ attempts >= MaxAttempts
  <2>1. /\ t \in Tasks /\ attempts \in Nat /\ terminal \in BOOLEAN
        /\ ~terminal => attempts <= MaxAttempts
    BY <1>1, <1>8, <1>13 DEF RunFails
  <2>2. PersistFailure(w, "Executing", attempts, terminal)
    BY <1>13 DEF RunFails
  <2> HIDE DEF attempts, terminal
  <2> QED
    BY <2>1, <2>2, PersistFailureTyped
<1>14. CASE PutBack(w)
  <2>1. t \in Tasks
    BY <1>8, <1>14 DEF PutBack
  <2>2. [task[t] EXCEPT !.step = "Assigned", !.age = Fresh] \in Row
    BY <1>2, <2>1, Values DEF Row
  <2> QED
    BY <1>3, <1>6, <1>14, <2>1, <2>2, EndTyped DEF PutBack, OnlyTasks
<1>15. CASE Prove(w)
  <2>1. RequestsTyped'
    <3>1. CASE End(w)
      BY <3>1, EndTyped
    <3>2. CASE req' = [req EXCEPT ![w].at = "move", ![w].step = "Complete"]
      <4>1. req'[w] \in Request /\ Shaped(req'[w])
        BY <1>1, <1>15, <3>2, ZenonT(40)
           DEF Prove, Request, Shaped, Steps, TypeInv, RequestsTyped
      <4> QED
        BY <3>2, <4>1 DEF TypeInv, RequestsTyped
    <3> QED
      BY <1>15, <3>1, <3>2 DEF Prove
  <2>2. verified' \in [Tasks -> BOOLEAN]
    BY <1>15 DEF Prove, TypeInv, TypeOK
  <2> QED
    BY <1>15, <2>1, <2>2 DEF Prove, TypeInv, RequestsTyped, TypeOK
<1>16. CASE Move(w)
  <2>1. t \in Tasks
    BY <1>8, <1>16 DEF Move
  <2>2. MovedRow(task[t], req[w].step) \in Row
    BY <1>1, <1>2, <2>1, Values DEF MovedRow, Row
  <2>3. task[t].agent \in Agents \cup {NoAgent}
    BY <1>2, <2>1 DEF Row
  <2>4. RequestsTyped'
    BY <1>16, <2>1, <2>3, EndTyped, ReleaseNextTyped DEF Move
  <2> QED
    BY <1>3, <1>6, <1>16, <2>1, <2>2, <2>4 DEF Move, OnlyTasks
<1>17. CASE Reserve(w)
  <2>1. agent' \in [Agents -> AgentStatuses]
    BY <1>5, <1>9, <1>17 DEF Reserve, AgentStatuses, TypeInv, TypeOK
  <2>2. RequestsTyped'
    BY <1>7, <1>17, EndTyped DEF Reserve
  <2> QED
    BY <1>4, <1>17, <2>1, <2>2 DEF Reserve, OnlyAgents
<1>18. CASE Assign(w)
  <2>1. t \in Tasks
    BY <1>8, <1>18 DEF Assign
  <2>2. HiredRow(t, req[w].a) \in Row
    BY <1>1, <1>2, <2>1, Values DEF HiredRow, Row
  <2>3. RequestsTyped'
    BY <1>1, <1>7, <1>18, <2>1, AssignGoesOn, ReleaseNextTyped
  <2>4. task' \in [Tasks -> Row]
    BY <1>6, <1>18, <2>1, <2>2, AssignWritten
  <2> QED
    BY <1>3, <1>18, <2>3, <2>4, AssignGoesOn
<1>19. CASE Record(w)
  <2>1. RequestsTyped'
    BY <1>7, <1>19, EndTyped DEF Record
  <2> QED
    BY <1>19, <2>1 DEF Record, OnlyRequests, TypeInv, RequestsTyped, TypeOK
<1>20. CASE RollbackAgent(w)
  <2>1. agent' \in [Agents -> AgentStatuses]
    BY <1>5, <1>9, <1>20 DEF RollbackAgent, AgentStatuses
  <2>2. RequestsTyped'
    BY <1>7, <1>20, EndTyped DEF RollbackAgent
  <2> QED
    BY <1>4, <1>20, <2>1, <2>2 DEF RollbackAgent, OnlyAgents
<1>21. CASE RollbackTask(w)
  <2>1. t \in Tasks
    BY <1>8, <1>21 DEF RollbackTask
  <2>2. [task[t] EXCEPT !.agent = NoAgent, !.step = req[w].step,
                        !.age = req[w].age] \in Row
    BY <1>1, <1>2, <2>1 DEF Row
  <2>3. RequestsTyped'
    BY <1>7, <1>21, EndTyped DEF RollbackTask
  <2> QED
    BY <1>3, <1>6, <1>21, <2>1, <2>2, <2>3 DEF RollbackTask, OnlyTasks
<1>22. CASE TimeoutFail(w)
  <2>1. t \in Tasks
    BY <1>8, <1>22 DEF TimeoutFail
  <2>2. [task[t] EXCEPT !.status = "failed", !.age = Fresh,
                        !.result = "fatal", !.attempts = 0] \in Row
    BY <1>2, <2>1, Values DEF Row
  <2>3. RequestsTyped'
    BY <1>1, <1>22, <2>1, ReleaseNextTyped DEF TimeoutFail
  <2> QED
    BY <1>3, <1>6, <1>22, <2>1, <2>2, <2>3 DEF TimeoutFail, OnlyTasks
<1>23. CASE DeleteWrite(w)
  <2>1. t \in Tasks
    BY <1>8, <1>23 DEF DeleteWrite
  <2>2. [NoRow EXCEPT !.status = "deleted"] \in Row
    BY NoRowTyped DEF Row, Statuses
  <2> QED
    BY <1>3, <1>6, <1>23, <2>1, <2>2, EndTyped DEF DeleteWrite, OnlyTasks
<1>24. CASE CancelRelease(w) \/ ReassignRelease(w)
  <2>1. agent' \in [Agents -> AgentStatuses]
    BY <1>5, <1>9, <1>24
       DEF CancelRelease, ReassignRelease, LooseRelease, AgentStatuses, TypeInv,
           TypeOK
  <2>2. RequestsTyped'
    BY <1>7, <1>24 DEF CancelRelease, ReassignRelease
  <2> QED
    BY <1>4, <1>24, <2>1, <2>2 DEF CancelRelease, ReassignRelease, OnlyAgents
<1>25. CASE CancelWrite(w)
  <2>1. t \in Tasks
    BY <1>8, <1>25 DEF CancelWrite
  <2>2. [task[t] EXCEPT !.status = "failed", !.age = Fresh] \in Row
    BY <1>2, <2>1, Values DEF Row
  <2> QED
    BY <1>3, <1>6, <1>25, <2>1, <2>2, EndTyped DEF CancelWrite, OnlyTasks
<1>26. ASSUME NEW row \in Row, NEW a \in Agents \cup {NoAgent}
       PROVE  Restarted(row, a) \in Row
  BY Values DEF Restarted, Row
<1>27. CASE RetryWrite(w)
  <2>1. t \in Tasks
    BY <1>8, <1>27 DEF RetryWrite
  <2>2. task[t] \in Row /\ task[t].agent \in Agents \cup {NoAgent}
    BY <1>2, <2>1 DEF Row
  <2>3. Restarted(task[t], task[t].agent) \in Row
    BY <1>26, <2>2
  <2> QED
    BY <1>3, <1>6, <1>27, <2>1, <2>3, EndTyped DEF RetryWrite, OnlyTasks
<1>28. CASE ReassignWrite(w)
  <2>1. t \in Tasks
    BY <1>8, <1>28 DEF ReassignWrite
  <2>2. Restarted(task[t], req[w].b) \in Row
    BY <1>1, <1>2, <1>26, <2>1
  <2>3. RequestsTyped'
    BY <1>7, <1>28 DEF ReassignWrite
  <2> QED
    BY <1>3, <1>6, <1>28, <2>1, <2>2, <2>3 DEF ReassignWrite, OnlyTasks
<1>29. CASE Occupy(w)
  <2>1. req[w].b \in Agents
    BY <1>1, <1>29 DEF Occupy, Shaped
  <2> QED
    BY <1>4, <1>5, <1>29, <2>1, EndTyped DEF Occupy, OnlyAgents, AgentStatuses
<1>30. CASE SuspendWrite(w)
  <2>1. agent' \in [Agents -> AgentStatuses]
    BY <1>5, <1>9, <1>30 DEF SuspendWrite, AgentStatuses
  <2>2. RequestsTyped'
    BY <1>7, <1>30 DEF SuspendWrite
  <2> QED
    BY <1>4, <1>30, <2>1, <2>2 DEF SuspendWrite, OnlyAgents
<1>31. CASE Cascade(w)
  <2>1. \A u \in Tasks :
          [task[u] EXCEPT !.status = "failed", !.age = Fresh] \in Row
    BY Values DEF TypeInv, TypeOK, Row
  <2>2. task' \in [Tasks -> Row]
    BY <1>31, <2>1 DEF Cascade, TypeInv, TypeOK
  <2> QED
    BY <1>3, <1>31, <2>2, EndTyped DEF Cascade, OnlyTasks
<1>32. CASE UnsuspendWrite(w) \/ ReleaseAgent(w)
  <2>1. agent' \in [Agents -> AgentStatuses]
    BY <1>5, <1>9, <1>32 DEF UnsuspendWrite, ReleaseAgent, AgentStatuses
  <2> QED
    BY <1>4, <1>32, <2>1, EndTyped
       DEF UnsuspendWrite, ReleaseAgent, OnlyAgents
<1>33. CASE ResolveWrite(w)
  <2>1. t \in Tasks
    BY <1>8, <1>33 DEF ResolveWrite
  <2>2. Refunded(task[t]) \in Row /\ Released(task[t]) \in Row
    BY <1>2, <2>1, Values DEF Refunded, Released, Row
  <2> QED
    BY <1>3, <1>6, <1>33, <2>1, <2>2, EndTyped DEF ResolveWrite, OnlyTasks
<1> QED
  BY <1>10, <1>11, <1>12, <1>13, <1>14, <1>15, <1>16, <1>17, <1>18, <1>19,
     <1>20, <1>21, <1>22, <1>23, <1>24, <1>25, <1>27, <1>28, <1>29, <1>30,
     <1>31, <1>32, <1>33
     DEF Resume, AdvanceStep, HireStep, AdminStep

\* The rows left by an earlier release.
LEMMA LegacyRowTyped ==
  ASSUME NEW a \in Agents, NEW result \in {"unflagged", "retryable"}
  PROVE  LegacyRow(a, result) \in Row
<1>1. result \in Results /\ MaxAttempts \in 0..MaxAttempts
  BY BoardAssumption DEF Results
<1> QED
  BY <1>1, NoRowTyped, Values DEF LegacyRow, Row

\* The initial database and the free slots.
LEMMA InitTyped == Init => TypeInv
<1> SUFFICES ASSUME Init PROVE TypeInv
  OBVIOUS
<1>1. RequestsTyped
  BY IdleTyped DEF Init, BoardInit, RequestsTyped
<1>2. PICK holder \in [LegacyTasks -> Agents],
           result \in [LegacyTasks -> {"unflagged", "retryable"}] :
        /\ task = [t \in Tasks |-> IF t \in LegacyTasks
                                   THEN LegacyRow(holder[t], result[t])
                                   ELSE NoRow]
        /\ agent = [a \in Agents |->
                      IF \E t \in LegacyTasks : holder[t] = a
                      THEN "busy" ELSE "online"]
  BY DEF Init, BoardInit
<1>3. task \in [Tasks -> Row]
  BY <1>2, LegacyRowTyped, NoRowTyped
<1>4. agent \in [Agents -> AgentStatuses]
  BY <1>2 DEF AgentStatuses
<1>5. verified \in [Tasks -> BOOLEAN] /\ produced \in [Tasks -> BOOLEAN]
  BY DEF Init, BoardInit
<1> QED
  BY <1>1, <1>3, <1>4, <1>5 DEF TypeInv, TypeOK, RequestsTyped

\* Every step of the system keeps the types.
LEMMA TypeStep == TypeInv /\ [Next]_vars => TypeInv'
<1> SUFFICES ASSUME TypeInv, [Next]_vars PROVE TypeInv'
  OBVIOUS
<1>1. ASSUME NEW t \in Tasks, CreateTask(t) PROVE TypeInv'
  <2>1. [NoRow EXCEPT !.status = "active"] \in Row
    BY NoRowTyped, Values DEF Row
  <2> QED
    BY <1>1, <2>1 DEF CreateTask, SetRow, TypeInv, TypeOK, RequestsTyped
<1>2. ASSUME NEW t \in Tasks, Tick(t) PROVE TypeInv'
  <2> DEFINE later == IF task[t].age = Ripe /\ task[t].step # "Assigned"
                      THEN Overdue ELSE task[t].age + 1
  <2>1. task[t] \in Row /\ task[t].age \in 0..3 /\ task[t].age < 3
    BY <1>2 DEF Tick, Overdue, TypeInv, TypeOK, Row, Ages
  <2>2. later \in Ages
    BY <2>1 DEF Ages, Overdue
  <2> HIDE DEF later
  <2>3. [task[t] EXCEPT !.age = later] \in Row
    BY <2>1, <2>2 DEF Row
  <2> QED
    BY <1>2, <2>3 DEF Tick, SetRow, TypeInv, TypeOK, RequestsTyped, later
<1>3. ASSUME NEW w \in Workers, Crash(w) PROVE TypeInv'
  BY <1>3, EndTyped DEF Crash, OnlyRequests, TypeInv, TypeOK, RequestsTyped
<1>4. CASE UNCHANGED vars
  BY <1>4 DEF vars, TypeInv, TypeOK, RequestsTyped
<1> QED
  BY <1>1, <1>2, <1>3, <1>4, ArriveTyped, ResumeTyped DEF Next

\* Rows, agents and requests keep their shape in every interleaving: no
\* handler writes a value the schema does not have, and none resumes without
\* the task or the agent its next statement is about.
THEOREM TypeInvariant == Spec => []TypeInv
  BY InitTyped, TypeStep, PTL DEF Spec

\* Type correctness, as TLC checks it.
THEOREM TypeCorrect == Spec => []TypeOK
<1>1. TypeInv => TypeOK
  BY DEF TypeInv
<1> QED
  BY <1>1, TypeInvariant, PTL

-----------------------------------------------------------------------------
(* Completion is earned.  The invariant follows a result through the calls  *)
(* that store, prove and complete: a request about to submit a proof, or to *)
(* complete the task, read or did what entitles it to, and nothing takes    *)
(* that back.                                                               *)

EarnedRow(t) ==
  /\ task[t].status = "completed" => verified[t] \/ task[t].ruled
  /\ task[t].proof = "hash" => verified[t]
  /\ verified[t] => produced[t]
  /\ task[t].result = "succeeded" => produced[t]

Entitled(w) ==
  /\ req[w].at = "move" /\ req[w].step = "Complete" => verified[req[w].t]
  /\ req[w].at = "prove" => produced[req[w].t]

EarnedInv == /\ \A t \in Tasks : EarnedRow(t)
             /\ \A w \in Workers : Entitled(w)

\* A row that gains none of what has to be earned, unless an operator decided
\* it does, and no retryable failure but one that leaves an attempt.
GainsNothing(old, new) ==
  /\ new.status = "completed" => \/ new.ruled
                                 \/ old.status = "completed" /\ ~old.ruled
  /\ new.proof = "hash" => old.proof = "hash"
  /\ new.result = "succeeded" => old.result = "succeeded"
  /\ new.result = "retryable" => \/ new.attempts < MaxAttempts
                                 \/ /\ old.result = "retryable"
                                    /\ new.attempts = old.attempts

Quiet ==
  /\ \A t \in Tasks : GainsNothing(task[t], task'[t])
  /\ UNCHANGED <<verified, produced>>
  /\ \A w \in Workers : req'[w].at \in {"move", "prove"} => req'[w] = req[w]

\* A quiet step earns nothing and takes nothing back.
LEMMA QuietEarned ==
  ASSUME EarnedInv, Quiet PROVE EarnedInv'
  BY DEF EarnedInv, EarnedRow, Entitled, Quiet, GainsNothing

\* A statement that gains the row it matches nothing gains none anything.
LEMMA UpdateGainsNothing ==
  ASSUME TypeInv, NEW t \in Tasks, NEW cond, NEW row,
         GainsNothing(task[t], row), UpdateWhere(t, cond, row)
  PROVE  \A u \in Tasks : GainsNothing(task[u], task'[u])
  BY DEF UpdateWhere, GainsNothing, TypeInv, TypeOK

\* A request that begins, ends, or goes on to an await other than the two.
LEMMA RequestsQuiet ==
  ASSUME TypeInv, NEW w \in Workers,
         \/ End(w)
         \/ \E a : ReleaseNext(w, a)
         \/ \E p \in Awaits \ {"move", "prove"} : Proceed(w, p)
         \/ \E r \in Request : r.at \notin {"move", "prove"} /\ Begin(w, r)
  PROVE  \A v \in Workers : req'[v].at \in {"move", "prove"} => req'[v] = req[v]
<1>1. Idle.at \notin {"move", "prove"}
  BY DEF Idle
<1>2. CASE End(w)
  BY <1>1, <1>2 DEF End, TypeInv, RequestsTyped
<1>3. CASE \E a : ReleaseNext(w, a)
  <2>1. PICK a : ReleaseNext(w, a)
    BY <1>3
  <2>2. req'[w].at \in {"idle", "release"}
    BY <2>1 DEF ReleaseNext, Idle, TypeInv, RequestsTyped
  <2> QED
    BY <2>1, <2>2 DEF ReleaseNext, TypeInv, RequestsTyped
<1>4. CASE \E p \in Awaits \ {"move", "prove"} : Proceed(w, p)
  <2>1. PICK p \in Awaits \ {"move", "prove"} : Proceed(w, p)
    BY <1>4
  <2>2. req'[w].at = p
    BY <2>1 DEF Proceed, TypeInv, RequestsTyped, Request
  <2> QED
    BY <2>1, <2>2 DEF Proceed, TypeInv, RequestsTyped
<1>5. CASE \E r \in Request : r.at \notin {"move", "prove"} /\ Begin(w, r)
  BY <1>5 DEF Begin, TypeInv, RequestsTyped
<1> QED
  BY <1>2, <1>3, <1>4, <1>5

\* The row of a failure.
LEMMA FailedGainsNothing ==
  ASSUME NEW row \in Row, NEW attempts, NEW terminal \in BOOLEAN,
         ~terminal => attempts < MaxAttempts
  PROVE  GainsNothing(row, FailedRow(row, attempts, terminal))
  BY DEF GainsNothing, FailedRow, Row

\* Storing a failure is quiet.
LEMMA PersistFailureQuiet ==
  ASSUME TypeInv, NEW w \in Workers, NEW expected, NEW attempts,
         NEW terminal \in BOOLEAN, ~terminal => attempts < MaxAttempts,
         req[w].t \in Tasks, PersistFailure(w, expected, attempts, terminal)
  PROVE  Quiet
<1> DEFINE t == req[w].t
<1>1. task[t] \in Row
  BY DEF TypeInv, TypeOK
<1>2. \A u \in Tasks : GainsNothing(task[u], task'[u])
  BY <1>1, FailedGainsNothing, FailureWritten, UpdateGainsNothing
<1> QED
  BY <1>2, RequestsQuiet DEF PersistFailure, OnlyTasks, Quiet

\* A step that writes no row.
LEMMA SameRowsGainNothing ==
  task' = task => \A u \in Tasks : GainsNothing(task[u], task'[u])
  BY DEF GainsNothing

\* Where the task a request is about comes from.
LEMMA AboutTask ==
  ASSUME TypeInv, NEW w \in Workers, req[w].at \in TaskAwaits
  PROVE  /\ req[w].t \in Tasks
         /\ task[req[w].t] \in Row
  BY DEF TypeInv, RequestsTyped, TypeOK, Shaped

\* Everything a suspended request does next, but storing a result, proving
\* and moving, is quiet.
LEMMA ResumeQuiet ==
  ASSUME TypeInv, NEW w \in Workers, Resume(w),
         ~RunSucceeds(w), ~Prove(w), ~Move(w)
  PROVE  Quiet
<1> USE DEF TaskAwaits, Awaits
<1> DEFINE t == req[w].t
<1>1. ASSUME NEW cond, NEW row, UpdateWhere(t, cond, row), t \in Tasks,
             GainsNothing(task[t], row), UNCHANGED <<verified, produced>>,
             \A v \in Workers : req'[v].at \in {"move", "prove"} => req'[v] = req[v]
      PROVE  Quiet
  BY <1>1, UpdateGainsNothing DEF Quiet
<1>2. ASSUME UNCHANGED <<task, verified, produced>>,
             \A v \in Workers : req'[v].at \in {"move", "prove"} => req'[v] = req[v]
      PROVE  Quiet
  BY <1>2, SameRowsGainNothing DEF Quiet
<1>3. CASE GiveUp(w)
  <2>1. t \in Tasks
    BY <1>3, AboutTask DEF GiveUp
  <2> QED
    BY <1>3, <2>1, PersistFailureQuiet DEF GiveUp
<1>4. CASE Claim(w)
  <2>1. t \in Tasks /\ task[t] \in Row
    BY <1>4, AboutTask DEF Claim
  <2>2. GainsNothing(task[t], [task[t] EXCEPT !.step = "Executing", !.age = Fresh,
                                 !.result = "running", !.attempts = 0])
    BY <2>1 DEF GainsNothing, Row
  <2> QED
    BY <1>1, <1>4, <2>1, <2>2, RequestsQuiet DEF Claim, OnlyTasks
<1>5. ASSUME NEW retryable \in BOOLEAN, RunFails(w, retryable) PROVE Quiet
  <2> DEFINE attempts == req[w].attempts + 1
             terminal == ~retryable \/ attempts >= MaxAttempts
  <2>1. t \in Tasks /\ terminal \in BOOLEAN
    BY <1>5, AboutTask DEF RunFails
  <2>1a. ~terminal => attempts < MaxAttempts
    BY BoardAssumption DEF TypeInv, RequestsTyped, Request
  <2>2. PersistFailure(w, "Executing", attempts, terminal)
    BY <1>5 DEF RunFails
  <2> HIDE DEF attempts, terminal
  <2> QED
    BY <2>1, <2>1a, <2>2, PersistFailureQuiet
<1>6. CASE PutBack(w)
  <2>1. t \in Tasks /\ task[t] \in Row
    BY <1>6, AboutTask DEF PutBack
  <2>2. GainsNothing(task[t], [task[t] EXCEPT !.step = "Assigned", !.age = Fresh])
    BY <2>1 DEF GainsNothing, Row
  <2> QED
    BY <1>1, <1>6, <2>1, <2>2, RequestsQuiet DEF PutBack, OnlyTasks
<1>7. CASE Reserve(w) \/ RollbackAgent(w) \/ CancelRelease(w)
           \/ ReassignRelease(w) \/ Occupy(w) \/ SuspendWrite(w)
           \/ UnsuspendWrite(w) \/ ReleaseAgent(w)
  BY <1>2, <1>7, RequestsQuiet
     DEF Reserve, RollbackAgent, CancelRelease, ReassignRelease, Occupy,
         SuspendWrite, UnsuspendWrite, ReleaseAgent, OnlyAgents
<1>8. CASE Assign(w)
  <2>1. t \in Tasks /\ task[t] \in Row
    BY <1>8, AboutTask DEF Assign
  <2>2. GainsNothing(task[t], HiredRow(t, req[w].a))
    BY <2>1 DEF GainsNothing, HiredRow, Row
  <2>3. \A v \in Workers : req'[v].at \in {"move", "prove"} => req'[v] = req[v]
    BY <1>8, AssignGoesOn, RequestsQuiet
  <2> QED
    BY <1>1, <1>8, <2>1, <2>2, <2>3, AssignGoesOn, AssignWritten
<1>9. CASE Record(w)
  BY <1>2, <1>9, RequestsQuiet DEF Record, OnlyRequests
<1>10. CASE RollbackTask(w)
  <2>1. t \in Tasks /\ task[t] \in Row
    BY <1>10, AboutTask DEF RollbackTask
  <2>2. GainsNothing(task[t], [task[t] EXCEPT !.agent = NoAgent,
                                 !.step = req[w].step, !.age = req[w].age])
    BY <2>1 DEF GainsNothing, Row
  <2> QED
    BY <1>1, <1>10, <2>1, <2>2, RequestsQuiet DEF RollbackTask, OnlyTasks
<1>11. CASE TimeoutFail(w)
  <2>1. t \in Tasks /\ task[t] \in Row
    BY <1>11, AboutTask DEF TimeoutFail
  <2>2. GainsNothing(task[t], [task[t] EXCEPT !.status = "failed", !.age = Fresh,
                                 !.result = "fatal", !.attempts = 0])
    BY <2>1 DEF GainsNothing, Row
  <2> QED
    BY <1>1, <1>11, <2>1, <2>2, RequestsQuiet DEF TimeoutFail, OnlyTasks
<1>12. CASE DeleteWrite(w)
  <2>1. t \in Tasks
    BY <1>12, AboutTask DEF DeleteWrite
  <2>2. GainsNothing(task[t], [NoRow EXCEPT !.status = "deleted"])
    BY DEF GainsNothing, NoRow
  <2> QED
    BY <1>1, <1>12, <2>1, <2>2, RequestsQuiet DEF DeleteWrite, OnlyTasks
<1>13. CASE CancelWrite(w)
  <2>1. t \in Tasks /\ task[t] \in Row
    BY <1>13, AboutTask DEF CancelWrite
  <2>2. GainsNothing(task[t], [task[t] EXCEPT !.status = "failed", !.age = Fresh])
    BY <2>1 DEF GainsNothing, Row
  <2> QED
    BY <1>1, <1>13, <2>1, <2>2, RequestsQuiet DEF CancelWrite, OnlyTasks
<1>14. ASSUME NEW row \in Row, NEW a
       PROVE  GainsNothing(row, Restarted(row, a))
  BY DEF GainsNothing, Restarted, Row
<1>15. CASE RetryWrite(w)
  <2>1. t \in Tasks /\ task[t] \in Row
    BY <1>15, AboutTask DEF RetryWrite
  <2> QED
    BY <1>1, <1>14, <1>15, <2>1, RequestsQuiet DEF RetryWrite, OnlyTasks
<1>16. CASE ReassignWrite(w)
  <2>1. t \in Tasks /\ task[t] \in Row
    BY <1>16, AboutTask DEF ReassignWrite
  <2> QED
    BY <1>1, <1>14, <1>16, <2>1, RequestsQuiet DEF ReassignWrite, OnlyTasks
<1>17. CASE Cascade(w)
  <2>1. \A u \in Tasks : GainsNothing(task[u], task'[u])
    BY <1>17 DEF Cascade, GainsNothing, TypeInv, TypeOK, Row
  <2> QED
    BY <1>17, <2>1, RequestsQuiet DEF Cascade, OnlyTasks, Quiet
<1>18. CASE ResolveWrite(w)
  <2>1. t \in Tasks /\ task[t] \in Row
    BY <1>18, AboutTask DEF ResolveWrite
  <2>2. /\ GainsNothing(task[t], Refunded(task[t]))
        /\ GainsNothing(task[t], Released(task[t]))
    BY <2>1 DEF GainsNothing, Refunded, Released, Row
  <2> QED
    BY <1>1, <1>18, <2>1, <2>2, RequestsQuiet DEF ResolveWrite, OnlyTasks
<1> QED
  BY <1>3, <1>4, <1>5, <1>6, <1>7, <1>8, <1>9, <1>10, <1>11, <1>12, <1>13,
     <1>15, <1>16, <1>17, <1>18
     DEF Resume, AdvanceStep, HireStep, AdminStep

\* So is every arrival but advance's, whose reads are what entitles it.
LEMMA ArriveEarned ==
  ASSUME TypeInv, EarnedInv, NEW w \in Workers, Arrive(w)
  PROVE  EarnedInv'
<1>1. UNCHANGED <<task, verified, produced>>
  BY DEF Arrive, AdvanceRead, TimeoutRead, DeleteRead, CancelRead, RetryRead,
         ResolveRead, HireRead, ReassignRead, SuspendRead, UnsuspendRead,
         OnlyRequests
<1>2. ASSUME NEW r, Begin(w, r),
             r.at = "move" /\ r.step = "Complete" => verified[r.t],
             r.at = "prove" => produced[r.t]
      PROVE  EarnedInv'
  <2>1. Entitled(w)'
    BY <1>1, <1>2 DEF Begin, Entitled, TypeInv, RequestsTyped
  <2>2. \A v \in Workers \ {w} : Entitled(v)'
    BY <1>1, <1>2 DEF Begin, Entitled, EarnedInv, TypeInv, RequestsTyped
  <2>3. \A t \in Tasks : EarnedRow(t)'
    BY <1>1 DEF EarnedInv, EarnedRow
  <2> QED
    BY <2>1, <2>2, <2>3 DEF EarnedInv
<1>3. ASSUME NEW t \in Tasks, NEW p
      PROVE  About(p, t).at = p /\ About(p, t).t = t
  BY DEF About, Idle
<1>4. ASSUME NEW t \in Tasks, AdvanceRead(w, t)
      PROVE  EarnedInv'
  <2> DEFINE row == task[t]
             moving == [About("move", t) EXCEPT !.step = NextStep[row.step]]
             claiming == [About("claim", t) EXCEPT !.a = row.agent,
                                                   !.attempts = row.attempts]
             closing == [About("giveUp", t) EXCEPT !.a = row.agent]
  <2>0. EarnedRow(t)
    BY DEF EarnedInv
  <2>1. CASE Begin(w, moving) /\ ReadyToMove(row)
    <3>1. NextStep[row.step] = "Complete" => verified[t]
      BY <2>0, <2>1 DEF ReadyToMove, NextStep, EarnedRow
    <3>2. moving.at = "move" /\ moving.t = t /\ moving.step = NextStep[row.step]
      BY DEF About, Idle
    <3> QED
      BY <1>2, <2>1, <3>1, <3>2
  <2>2. CASE Begin(w, About("prove", t)) /\ row.result = "succeeded"
    <3>1. produced[t]
      BY <2>0, <2>2 DEF EarnedRow
    <3> QED
      BY <1>2, <1>3, <2>2, <3>1
  <2>3. CASE Begin(w, claiming)
    <3>1. claiming.at = "claim"
      BY DEF About, Idle
    <3> QED
      BY <1>2, <2>3, <3>1
  <2>4. CASE Begin(w, closing)
    <3>1. closing.at = "giveUp"
      BY DEF About, Idle
    <3> QED
      BY <1>2, <2>4, <3>1
  <2> QED
    BY <1>4, <2>1, <2>2, <2>3, <2>4 DEF AdvanceRead
<1>5. ASSUME NEW r, Begin(w, r), r.at \notin {"move", "prove"}
      PROVE  EarnedInv'
  BY <1>2, <1>5
<1>6. ASSUME NEW t \in Tasks, TimeoutRead(w, t) PROVE EarnedInv'
  <2> DEFINE r == [About("timeoutFail", t) EXCEPT !.a = task[t].agent,
                                                  !.step = task[t].step]
  <2>1. r.at = "timeoutFail"
    BY DEF About, Idle
  <2> QED
    BY <1>5, <1>6, <2>1 DEF TimeoutRead
<1>6a. ASSUME NEW t \in Tasks,
              NEW p \in {"delete", "retry", "cancel", "resolveRefund",
                         "resolveRelease"},
              Begin(w, About(p, t))
       PROVE  EarnedInv'
  BY <1>3, <1>5, <1>6a
<1>7. ASSUME NEW t \in Tasks, CancelRead(w, t) PROVE EarnedInv'
  <2> DEFINE r == [About("cancelRelease", t) EXCEPT !.a = task[t].agent]
  <2>1. r.at = "cancelRelease"
    BY DEF About, Idle
  <2> QED
    BY <1>5, <1>6a, <1>7, <2>1 DEF CancelRead
<1>8. ASSUME NEW t \in Tasks, NEW a \in Agents, HireRead(w, t, a)
      PROVE  EarnedInv'
  <2> DEFINE r == [About("reserve", t) EXCEPT !.a = a, !.step = task[t].step,
                                              !.age = task[t].age]
  <2>1. r.at = "reserve"
    BY DEF About, Idle
  <2> QED
    BY <1>5, <1>8, <2>1 DEF HireRead
<1>9. ASSUME NEW t \in Tasks, NEW b \in Agents, ReassignRead(w, t, b)
      PROVE  EarnedInv'
  <2> DEFINE a == task[t].agent
             p == IF a = NoAgent THEN "reassign" ELSE "reassignRelease"
             r == [About(p, t) EXCEPT !.a = a, !.b = b]
  <2>1. r.at \in {"reassign", "reassignRelease"}
    BY DEF About, Idle
  <2> QED
    BY <1>5, <1>9, <2>1 DEF ReassignRead
<1>10. ASSUME NEW a, NEW p \in {"suspend", "unsuspend"},
              Begin(w, [Idle EXCEPT !.at = p, !.a = a])
       PROVE  EarnedInv'
  <2> DEFINE r == [Idle EXCEPT !.at = p, !.a = a]
  <2>1. r.at = p
    BY DEF Idle
  <2> QED
    BY <1>5, <1>10, <2>1
<1> QED
  BY <1>4, <1>6, <1>6a, <1>7, <1>8, <1>9, <1>10
     DEF Arrive, DeleteRead, RetryRead, ResolveRead, SuspendRead, UnsuspendRead

\* Storing a result, proving and moving: each does what the next needs.
LEMMA RunEarned ==
  ASSUME TypeInv, EarnedInv, NEW w \in Workers, RunSucceeds(w)
  PROVE  EarnedInv'
<1> DEFINE t == req[w].t
<1>1. t \in Tasks /\ task[t] \in Row
  BY AboutTask DEF RunSucceeds, TaskAwaits, Awaits
<1>2. \A u \in Tasks : produced[u] => produced'[u]
  BY DEF RunSucceeds, TypeInv, TypeOK
<1>3. verified' = verified
  BY DEF RunSucceeds
<1>4. \A v \in Workers : req'[v].at \in {"move", "prove"} => req'[v] = req[v]
  BY RequestsQuiet DEF RunSucceeds, Awaits
<1>5. \A v \in Workers : Entitled(v)'
  <2> SUFFICES ASSUME NEW v \in Workers, req'[v].at \in {"move", "prove"}
               PROVE  Entitled(v)'
    BY DEF Entitled
  <2>1. req'[v] = req[v] /\ Entitled(v)
    BY <1>4 DEF EarnedInv
  <2>2. req[v].t \in Tasks
    BY <2>1, AboutTask DEF TaskAwaits, Awaits
  <2> QED
    BY <1>2, <1>3, <2>1, <2>2 DEF Entitled
<1>6. ASSUME NEW u \in Tasks PROVE EarnedRow(u)'
  <2>1. /\ task'[u].status = task[u].status
        /\ task'[u].ruled = task[u].ruled
        /\ task'[u].proof = task[u].proof
        /\ task'[u].result = "succeeded"
             => produced'[u] \/ task[u].result = "succeeded"
    <3>1. CASE /\ task' = [task EXCEPT ![t] = [task[t] EXCEPT
                                !.result = "succeeded", !.attempts = 0]]
               /\ produced' = [produced EXCEPT ![t] = TRUE]
      BY <1>1, <3>1 DEF TypeInv, TypeOK, Row
    <3>2. CASE task' = task
      BY <3>2
    <3> QED
      BY <3>1, <3>2 DEF RunSucceeds, SetRow
  <2> QED
    BY <1>2, <1>3, <2>1 DEF EarnedInv, EarnedRow
<1> QED
  BY <1>5, <1>6 DEF EarnedInv

\* A proof is submitted only for a result that was stored.
LEMMA ProveEarned ==
  ASSUME TypeInv, EarnedInv, NEW w \in Workers, Prove(w)
  PROVE  EarnedInv'
<1> DEFINE t == req[w].t
<1>1. t \in Tasks /\ produced[t]
  BY AboutTask DEF Prove, TaskAwaits, Awaits, EarnedInv, Entitled
<1>2. task' = task /\ produced' = produced
  BY DEF Prove
<1>3. /\ \A u \in Tasks : verified[u] => verified'[u]
      /\ \A u \in Tasks : verified'[u] => verified[u] \/ u = t
  BY DEF Prove, TypeInv, TypeOK
<1>4. \A u \in Tasks : EarnedRow(u)'
  BY <1>1, <1>2, <1>3 DEF EarnedInv, EarnedRow
<1>5. ASSUME NEW v \in Workers, v # w PROVE Entitled(v)'
  <2>1. req'[v] = req[v]
    BY <1>5 DEF Prove, End, TypeInv, RequestsTyped
  <2>2. CASE req[v].at \in {"move", "prove"}
    <3>1. req[v].t \in Tasks
      BY <2>2, AboutTask DEF TaskAwaits, Awaits
    <3> QED
      BY <1>2, <1>3, <2>1, <3>1 DEF EarnedInv, Entitled
  <2>3. CASE req[v].at \notin {"move", "prove"}
    BY <2>1, <2>3 DEF Entitled
  <2> QED
    BY <2>2, <2>3
<1>6. Entitled(w)'
  <2>1. CASE End(w)
    BY <2>1 DEF End, Entitled, Idle, TypeInv, RequestsTyped
  <2>2. CASE /\ req' = [req EXCEPT ![w].at = "move", ![w].step = "Complete"]
             /\ verified' = [verified EXCEPT ![t] = TRUE]
    <3>1. verified'[t]
      BY <1>1, <2>2 DEF TypeInv, TypeOK
    <3>2. req'[w].at = "move" /\ req'[w].t = t
      BY <2>2 DEF TypeInv, RequestsTyped, Request
    <3> QED
      BY <3>1, <3>2 DEF Entitled
  <2> QED
    BY <2>1, <2>2 DEF Prove
<1> QED
  BY <1>4, <1>5, <1>6 DEF EarnedInv

\* The move to Complete follows the proof.
LEMMA MoveEarned ==
  ASSUME TypeInv, EarnedInv, NEW w \in Workers, Move(w)
  PROVE  EarnedInv'
<1>0. PICK t \in Tasks : t = req[w].t
  BY AboutTask DEF Move, TaskAwaits, Awaits
<1>1. task[t] \in Row
  BY DEF TypeInv, TypeOK
<1>2. UNCHANGED <<verified, produced>>
  BY DEF Move, OnlyTasks
<1>3. \A v \in Workers : req'[v].at \in {"move", "prove"} => req'[v] = req[v]
  BY RequestsQuiet DEF Move
<1>4. \A v \in Workers : Entitled(v)'
  BY <1>2, <1>3 DEF EarnedInv, Entitled
<1>5. ASSUME NEW u \in Tasks, u # t PROVE EarnedRow(u)'
  <2>1. task'[u] = task[u]
    BY <1>0, <1>5 DEF Move, UpdateWhere, TypeInv, TypeOK
  <2> QED
    BY <1>2, <2>1 DEF EarnedInv, EarnedRow
<1>6. EarnedRow(t)'
  <2>1. task'[t] \in {task[t], MovedRow(task[t], req[w].step)}
    BY <1>0, <1>1 DEF Move, UpdateWhere, TypeInv, TypeOK
  <2>2. EarnedRow(t)
    BY <1>1 DEF EarnedInv
  <2>3. CASE req[w].step = "Complete"
    <3>1. verified[t]
      BY <1>0, <2>3 DEF Move, EarnedInv, Entitled
    <3>2. task'[t].result = task[t].result
      BY <1>1, <2>1 DEF MovedRow, Row
    <3> QED
      BY <1>2, <2>2, <3>1, <3>2 DEF EarnedRow
  <2>4. CASE req[w].step # "Complete"
    <3>1. GainsNothing(task[t], task'[t])
      BY <1>1, <2>1, <2>4 DEF MovedRow, GainsNothing, Row
    <3> QED
      BY <1>2, <2>2, <3>1 DEF EarnedRow, GainsNothing
  <2> QED
    BY <2>3, <2>4
<1> QED
  BY <1>4, <1>5, <1>6 DEF EarnedInv

\* No task of the initial database is completed, proven or run.
LEMMA InitEarned == Init => EarnedInv
<1> SUFFICES ASSUME Init PROVE EarnedInv
  OBVIOUS
<1>1. \A w \in Workers : Entitled(w)
  BY DEF Init, BoardInit, Entitled, Idle
<1>2. ASSUME NEW a, NEW result \in {"unflagged", "retryable"}
      PROVE  LET row == LegacyRow(a, result) IN
             row.status = "active" /\ row.proof = "null" /\ row.result = result
  BY DEF LegacyRow, NoRow
<1>3. NoRow.status = "none" /\ NoRow.proof = "null" /\ NoRow.result = "null"
  BY DEF NoRow
<1>4. \A t \in Tasks : EarnedRow(t)
  BY <1>2, <1>3 DEF Init, BoardInit, EarnedRow
<1> QED
  BY <1>1, <1>4 DEF EarnedInv

\* Every step keeps the invariant.
LEMMA EarnedStep == TypeInv /\ EarnedInv /\ [Next]_vars => EarnedInv'
<1> SUFFICES ASSUME TypeInv, EarnedInv, [Next]_vars PROVE EarnedInv'
  OBVIOUS
<1>1. ASSUME NEW t \in Tasks, CreateTask(t) \/ Tick(t) PROVE EarnedInv'
  <2>1. \A u \in Tasks : GainsNothing(task[u], task'[u])
    <3>1. CASE CreateTask(t)
      <4>1. GainsNothing(task[t], [NoRow EXCEPT !.status = "active"])
        BY DEF GainsNothing, NoRow
      <4> QED
        BY <3>1, <4>1 DEF CreateTask, SetRow, GainsNothing, TypeInv, TypeOK
    <3>2. CASE Tick(t)
      <4>1. \A age : GainsNothing(task[t], [task[t] EXCEPT !.age = age])
        BY DEF GainsNothing, TypeInv, TypeOK, Row
      <4> QED
        BY <3>2, <4>1 DEF Tick, SetRow, GainsNothing, TypeInv, TypeOK
    <3> QED
      BY <1>1, <3>1, <3>2
  <2> QED
    BY <1>1, <2>1, QuietEarned DEF CreateTask, Tick, Quiet
<1>2. ASSUME NEW w \in Workers, Crash(w) PROVE EarnedInv'
  BY <1>2, RequestsQuiet, SameRowsGainNothing, QuietEarned
     DEF Crash, OnlyRequests, Quiet
<1>3. ASSUME NEW w \in Workers, Resume(w) PROVE EarnedInv'
  BY <1>3, ResumeQuiet, QuietEarned, RunEarned, ProveEarned, MoveEarned
<1>4. CASE UNCHANGED vars
  BY <1>4 DEF vars, EarnedInv, EarnedRow, Entitled
<1> QED
  BY <1>1, <1>2, <1>3, <1>4, ArriveEarned DEF Next

\* A task is completed only when the verifier has recorded its proof or an
\* operator decided a dispute for its release, and proven only when its agent's
\* result was stored, whatever requests of whatever routes of the model
\* interleave, crash or overrule one another.
THEOREM CompletionEarned == Spec => []CompletionIsEarned
<1>1. TypeInv /\ EarnedInv => CompletionIsEarned
  BY DEF EarnedInv, EarnedRow, CompletionIsEarned
<1>2. Init => TypeInv /\ EarnedInv
  BY InitTyped, InitEarned
<1>3. TypeInv /\ EarnedInv /\ [Next]_vars => TypeInv' /\ EarnedInv'
  BY TypeStep, EarnedStep
<1> QED
  BY <1>1, <1>2, <1>3, PTL DEF Spec

-----------------------------------------------------------------------------
(* The retry budget.                                                        *)

\* A quiet step stores a retryable failure only with an attempt left.
LEMMA QuietBudget == RetryHasBudget /\ Quiet => RetryHasBudget'
  BY DEF RetryHasBudget, Quiet, GainsNothing

\* A failure is stored as retryable only with an attempt left to retry with,
\* and no other handler turns a stored failure into one without.
THEOREM RetryBudget == Spec => []RetryHasBudget
<1>1. Init => RetryHasBudget
  BY DEF Init, BoardInit, RetryHasBudget, NoRow
<1>2. ASSUME TypeInv, RetryHasBudget, [Next]_vars PROVE RetryHasBudget'
  <2>1. ASSUME task' = task PROVE RetryHasBudget'
    BY <1>2, <2>1 DEF RetryHasBudget
  <2>2. ASSUME NEW w \in Workers, Arrive(w) PROVE task' = task
    BY <2>2
       DEF Arrive, AdvanceRead, TimeoutRead, DeleteRead, CancelRead, RetryRead,
           ResolveRead, HireRead, ReassignRead, SuspendRead, UnsuspendRead,
           OnlyRequests
  <2>3. ASSUME NEW w \in Workers, RunSucceeds(w) PROVE RetryHasBudget'
    <3>1. req[w].t \in Tasks /\ task[req[w].t] \in Row
      BY <1>2, <2>3, AboutTask DEF RunSucceeds, TaskAwaits, Awaits
    <3>2. [task[req[w].t] EXCEPT !.result = "succeeded", !.attempts = 0].result
            = "succeeded"
      BY <3>1 DEF Row
    <3> QED
      BY <1>2, <2>1, <2>3, <3>1, <3>2
         DEF RunSucceeds, SetRow, RetryHasBudget, TypeInv, TypeOK
  <2>4. ASSUME NEW w \in Workers, Move(w) PROVE RetryHasBudget'
    <3>1. req[w].t \in Tasks /\ task[req[w].t] \in Row
      BY <1>2, <2>4, AboutTask DEF Move, TaskAwaits, Awaits
    <3>2. LET row == MovedRow(task[req[w].t], req[w].step)
          IN  /\ row.result = task[req[w].t].result
              /\ row.attempts = task[req[w].t].attempts
      BY <3>1 DEF MovedRow, Row
    <3> QED
      BY <1>2, <2>4, <3>1, <3>2
         DEF Move, UpdateWhere, RetryHasBudget, TypeInv, TypeOK
  <2>5. ASSUME NEW w \in Workers, Resume(w) PROVE RetryHasBudget'
    BY <1>2, <2>1, <2>3, <2>4, <2>5, ResumeQuiet, QuietBudget DEF Prove
  <2>6. ASSUME NEW t \in Tasks, CreateTask(t) PROVE RetryHasBudget'
    <3>1. [NoRow EXCEPT !.status = "active"].result = "null"
      BY DEF NoRow
    <3> QED
      BY <1>2, <2>6, <3>1
         DEF CreateTask, SetRow, RetryHasBudget, TypeInv, TypeOK
  <2>7. ASSUME NEW t \in Tasks, Tick(t) PROVE RetryHasBudget'
    <3>1. \A age : LET row == [task[t] EXCEPT !.age = age]
                   IN  row.result = task[t].result
                         /\ row.attempts = task[t].attempts
      BY <1>2 DEF TypeInv, TypeOK, Row
    <3> QED
      BY <1>2, <2>7, <3>1 DEF Tick, SetRow, RetryHasBudget, TypeInv, TypeOK
  <2> QED
    BY <1>2, <2>1, <2>2, <2>5, <2>6, <2>7 DEF Next, Crash, OnlyRequests, vars
<1>3. TypeInv /\ RetryHasBudget /\ [Next]_vars => TypeInv' /\ RetryHasBudget'
  BY <1>2, TypeStep
<1> QED
  BY <1>1, <1>3, InitTyped, PTL DEF Spec

-----------------------------------------------------------------------------
(* One run at a time.  The claim takes the task from Assigned, so the run is*)
(* the claimant's as long as nobody else puts a task it left back there: the*)
(* claimant holds the task, as it would a lock, until it has stored a result*)
(* or undone the claim.                                                     *)

Holds(r) == r.at \in {"execute", "misrun", "putBack"}

\* Awaits of retry and reassign, and of a hire that is being undone.
Undoing == {"rollback", "rollbackAgent", "rollbackTask", "retry",
            "reassignRelease", "reassign", "occupy"}

\* No two requests hold a task.
OneHolder ==
  \A v, w \in Workers :
    v # w /\ Holds(req[v]) /\ Holds(req[w]) => req[v].t # req[w].t

\* A held task is not there to be claimed, nor to be hired for; the latter
\* would put it back to Assigned.
HeldRow(w) ==
  Holds(req[w]) /\ Exists(req[w].t) =>
    /\ task[req[w].t].step # "Assigned"
    /\ task[req[w].t].agent # NoAgent

AssignedRow(t) ==
  Exists(t) /\ task[t].step = "Assigned" => task[t].agent # NoAgent

\* Requests are about tasks that were created, and none is about to put its
\* task back to Assigned without holding it.
KnownTask(w) == /\ req[w].at \in TaskAwaits => task[req[w].t].status # "none"
                /\ req[w].at \notin Undoing
                /\ req[w].at = "move" => req[w].step # "Assigned"

TokenInv == /\ OneHolder
            /\ \A w \in Workers : HeldRow(w) /\ KnownTask(w)
            /\ \A t \in Tasks : AssignedRow(t)

\* A row that a step leaves no easier to claim or to hire for.
Firm(old, new) ==
  /\ new.status = "none" => old.status = "none"
  /\ new.status \notin {"none", "deleted"} =>
       /\ old.status \notin {"none", "deleted"}
       /\ new.step = "Assigned" => old.step = "Assigned"
       /\ old.agent # NoAgent => new.agent # NoAgent

\* A request that holds its task only if it did before.
Loose(w) ==
  /\ Holds(req'[w]) => Holds(req[w]) /\ req'[w].t = req[w].t
  /\ req'[w].at \in TaskAwaits =>
       \/ req[w].at \in TaskAwaits /\ req'[w].t = req[w].t
       \/ req'[w].t \in Tasks /\ task[req'[w].t].status # "none"
  /\ req'[w].at \notin Undoing
  /\ req'[w].at = "move" => req'[w].step # "Assigned"

\* A request that holds a task has the id of that task.
LEMMA HoldersAreAbout ==
  ASSUME TypeInv, NEW w \in Workers, Holds(req[w])
  PROVE  req[w].at \in TaskAwaits /\ req[w].t \in Tasks
  BY AboutTask DEF Holds, TaskAwaits, Awaits

\* A step that frees no held row and lets no request take hold of one.
LEMMA QuietToken ==
  ASSUME TypeInv, TokenInv,
         \A t \in Tasks : Firm(task[t], task'[t]),
         \A w \in Workers : Loose(w)
  PROVE  TokenInv'
<1>1. OneHolder'
  BY DEF TokenInv, OneHolder, Loose
<1>2. ASSUME NEW w \in Workers PROVE HeldRow(w)'
  <2> SUFFICES ASSUME Holds(req'[w]), Exists(req[w].t)'
               PROVE  /\ task'[req[w].t].step # "Assigned"
                      /\ task'[req[w].t].agent # NoAgent
    BY DEF HeldRow, Loose, Exists
  <2>1. Holds(req[w]) /\ req'[w].t = req[w].t
    BY DEF Loose
  <2>2. req[w].t \in Tasks
    BY <2>1, HoldersAreAbout
  <2> QED
    BY <2>1, <2>2 DEF TokenInv, HeldRow, Exists, Firm
<1>3. ASSUME NEW w \in Workers PROVE KnownTask(w)'
  <2>1. req[w].at \in TaskAwaits => req[w].t \in Tasks
    BY AboutTask
  <2> QED
    BY <2>1 DEF TokenInv, KnownTask, Loose, Firm
<1>4. \A t \in Tasks : AssignedRow(t)'
  BY DEF TokenInv, AssignedRow, Exists, Firm
<1> QED
  BY <1>1, <1>2, <1>3, <1>4 DEF TokenInv

\* One statement, firm for the row it matches, is firm for all.
LEMMA UpdateFirm ==
  ASSUME TypeInv, NEW t \in Tasks, NEW cond, NEW row,
         Exists(t) /\ cond => Firm(task[t], row), UpdateWhere(t, cond, row)
  PROVE  \A u \in Tasks : Firm(task[u], task'[u])
  BY DEF UpdateWhere, Firm, TypeInv, TypeOK

\* No statement at all is firm.
LEMMA SameRowsFirm == task' = task => \A t \in Tasks : Firm(task[t], task'[t])
  BY DEF Firm

\* A request that ends, goes on, or arrives, and takes hold of nothing.
LEMMA RequestsLoose ==
  ASSUME TypeInv, TokenInv, NEW w \in Workers,
         \/ End(w)
         \/ req[w].at \in TaskAwaits /\ \E a : ReleaseNext(w, a)
         \/ \E p \in Awaits \ (Undoing \cup {"move"}) :
              /\ Proceed(w, p)
              /\ p \in {"execute", "misrun", "putBack"} => Holds(req[w])
              /\ p \in TaskAwaits => req[w].at \in TaskAwaits
         \/ \E r \in Request :
              /\ Begin(w, r) /\ ~Holds(r) /\ r.at \notin Undoing
              /\ r.at \in TaskAwaits =>
                   r.t \in Tasks /\ task[r.t].status # "none"
              /\ r.at = "move" => r.step # "Assigned"
  PROVE  \A v \in Workers : Loose(v)
<1>1. Idle.at = "idle" /\ "idle" \notin TaskAwaits /\ "idle" \notin Undoing
  BY DEF Idle, TaskAwaits, Undoing
<1>2. ASSUME NEW v \in Workers, req'[v] = req[v] PROVE Loose(v)
  BY <1>2 DEF Loose, TokenInv, KnownTask
<1>3. CASE End(w)
  <2>1. \A v \in Workers : req'[v] = req[v] \/ req'[v] = Idle
    BY <1>3 DEF End, TypeInv, RequestsTyped
  <2> QED
    BY <1>1, <1>2, <2>1 DEF Loose, Holds
<1>4. CASE req[w].at \in TaskAwaits /\ \E a : ReleaseNext(w, a)
  <2>1. PICK a : ReleaseNext(w, a)
    BY <1>4
  <2>2. \A v \in Workers \ {w} : req'[v] = req[v]
    BY <2>1 DEF ReleaseNext, TypeInv, RequestsTyped
  <2>3. \/ req'[w] = Idle
        \/ req'[w].at = "release" /\ req'[w].t = req[w].t
    BY <2>1 DEF ReleaseNext, Idle, TypeInv, RequestsTyped
  <2>4. Loose(w)
    BY <1>1, <1>4, <2>3 DEF Loose, Holds, Undoing
  <2> QED
    BY <1>2, <2>2, <2>4
<1>5. ASSUME NEW p \in Awaits \ (Undoing \cup {"move"}), Proceed(w, p),
             p \in {"execute", "misrun", "putBack"} => Holds(req[w]),
             p \in TaskAwaits => req[w].at \in TaskAwaits
      PROVE  \A v \in Workers : Loose(v)
  <2>1. /\ \A v \in Workers \ {w} : req'[v] = req[v]
        /\ req'[w].at = p /\ req'[w].t = req[w].t
    BY <1>5 DEF Proceed, TypeInv, RequestsTyped, Request
  <2>2. Loose(w)
    BY <1>5, <2>1 DEF Loose, Holds
  <2> QED
    BY <1>2, <2>1, <2>2
<1>6. ASSUME NEW r \in Request, Begin(w, r), ~Holds(r), r.at \notin Undoing,
             r.at \in TaskAwaits => r.t \in Tasks /\ task[r.t].status # "none",
             r.at = "move" => r.step # "Assigned"
      PROVE  \A v \in Workers : Loose(v)
  <2>1. \A v \in Workers : req'[v] = req[v] \/ (v = w /\ req'[v] = r)
    BY <1>6 DEF Begin, TypeInv, RequestsTyped
  <2>2. req'[w] = r => Loose(w)
    BY <1>6 DEF Loose
  <2> QED
    BY <1>2, <2>1, <2>2
<1> QED
  BY <1>3, <1>4, <1>5, <1>6

\* The claimant gives the task back: it holds it no longer, and if the row is
\* at Assigned then with the agent it had.
LEMMA HolderReturns ==
  ASSUME TypeInv, TokenInv, NEW w \in Workers, Holds(req[w]),
         NEW row \in Row, NEW cond, UpdateWhere(req[w].t, cond, row),
         row.status # "none", row.agent = task[req[w].t].agent,
         \A v \in Workers : Loose(v), ~Holds(req'[w])
  PROVE  TokenInv'
<1>0. PICK t \in Tasks : t = req[w].t
  BY HoldersAreAbout
<1>1. /\ \A u \in Tasks \ {t} : task'[u] = task[u]
      /\ task'[t] = IF Exists(t) /\ cond THEN row ELSE task[t]
  BY <1>0 DEF UpdateWhere, TypeInv, TypeOK
<1>2. OneHolder'
  BY DEF TokenInv, OneHolder, Loose
<1>3. ASSUME NEW v \in Workers PROVE HeldRow(v)'
  <2> SUFFICES ASSUME Holds(req'[v]) PROVE HeldRow(v)'
    BY DEF HeldRow
  <2>1. v # w /\ Holds(req[v]) /\ req'[v].t = req[v].t
    BY DEF Loose
  <2>2. req[v].t \in Tasks \ {t}
    BY <1>0, <2>1, HoldersAreAbout DEF TokenInv, OneHolder
  <2> QED
    BY <1>1, <2>1, <2>2 DEF TokenInv, HeldRow, Exists
<1>4. ASSUME NEW v \in Workers PROVE KnownTask(v)'
  <2>1. \A u \in Tasks : task'[u].status = "none" => task[u].status = "none"
    BY <1>1
  <2>2. req[v].at \in TaskAwaits => req[v].t \in Tasks
    BY AboutTask
  <2> QED
    BY <2>1, <2>2 DEF TokenInv, KnownTask, Loose
<1>5. ASSUME NEW u \in Tasks PROVE AssignedRow(u)'
  <2>1. CASE u = t
    <3>1. Exists(t) => task[t].agent # NoAgent
      BY <1>0 DEF TokenInv, HeldRow
    <3> QED
      BY <1>0, <1>1, <2>1, <3>1 DEF TokenInv, AssignedRow, Exists
  <2>2. CASE u # t
    BY <1>1, <2>2 DEF TokenInv, AssignedRow, Exists
  <2> QED
    BY <2>1, <2>2
<1> QED
  BY <1>2, <1>3, <1>4, <1>5 DEF TokenInv

\* The claim: one request takes hold of a task nobody holds.
LEMMA ClaimToken ==
  ASSUME TypeInv, TokenInv, NEW w \in Workers, Claim(w)
  PROVE  TokenInv'
<1>0. PICK t \in Tasks : t = req[w].t
  BY AboutTask DEF Claim, TaskAwaits, Awaits
<1> DEFINE row == [task[t] EXCEPT !.step = "Executing", !.age = Fresh,
                                  !.result = "running", !.attempts = 0]
<1>1. /\ row.step = "Executing" /\ row.agent = task[t].agent
      /\ row.status = task[t].status /\ task[t] \in Row
  BY DEF TypeInv, TypeOK, Row
<1>2. CASE ~(Exists(t) /\ task[t].step = "Assigned")
  <2>1. task' = task
    BY <1>0, <1>2 DEF Claim, UpdateWhere, TypeInv, TypeOK
  <2>2. End(w)
    BY <1>0, <1>2 DEF Claim
  <2> QED
    BY <2>1, <2>2, SameRowsFirm, RequestsLoose, QuietToken
<1>3. CASE Exists(t) /\ task[t].step = "Assigned"
  <2>1. /\ \A u \in Tasks \ {t} : task'[u] = task[u]
        /\ task'[t] = row
    BY <1>0, <1>3 DEF Claim, UpdateWhere, TypeInv, TypeOK
  <2>2. /\ \A v \in Workers \ {w} : req'[v] = req[v]
        /\ req'[w].at \in {"execute", "misrun"} /\ req'[w].t = t
    BY <1>0, <1>3 DEF Claim, Proceed, TypeInv, RequestsTyped, Request
  <2>3. task[t].agent # NoAgent
    BY <1>3 DEF TokenInv, AssignedRow
  <2>4. \A v \in Workers : Holds(req[v]) => req[v].t # t
    BY <1>3 DEF TokenInv, HeldRow
  <2>5. OneHolder'
    BY <2>2, <2>4 DEF TokenInv, OneHolder
  <2>6. ASSUME NEW v \in Workers PROVE HeldRow(v)'
    <3>1. CASE v = w
      BY <1>1, <2>1, <2>2, <2>3, <3>1 DEF HeldRow
    <3>2. CASE v # w
      <4>1. Holds(req[v]) => req[v].t \in Tasks \ {t}
        BY <2>4, HoldersAreAbout
      <4> QED
        BY <2>1, <2>2, <3>2, <4>1 DEF TokenInv, HeldRow, Exists
    <3> QED
      BY <3>1, <3>2
  <2>7. ASSUME NEW v \in Workers PROVE KnownTask(v)'
    <3>1. \A u \in Tasks : task'[u].status = task[u].status
      BY <1>1, <2>1
    <3>2. req[v].at \in TaskAwaits => req[v].t \in Tasks
      BY AboutTask
    <3>3. task[t].status # "none"
      BY <1>3 DEF Exists
    <3> QED
      BY <2>2, <3>1, <3>2, <3>3 DEF TokenInv, KnownTask, Undoing
  <2>8. \A u \in Tasks : AssignedRow(u)'
    BY <1>1, <2>1 DEF TokenInv, AssignedRow, Exists
  <2> QED
    BY <2>5, <2>6, <2>7, <2>8 DEF TokenInv
<1> QED
  BY <1>2, <1>3

\* Storing a failure and putting the task back: the two ways a claimant gives
\* the task up with the row at Assigned again.
LEMMA RunFailsToken ==
  ASSUME TypeInv, TokenInv, NEW w \in Workers, NEW retryable \in BOOLEAN,
         RunFails(w, retryable)
  PROVE  TokenInv'
<1>0. PICK t \in Tasks : t = req[w].t
  BY AboutTask DEF RunFails, TaskAwaits, Awaits
<1> DEFINE attempts == req[w].attempts + 1
           terminal == ~retryable \/ attempts >= MaxAttempts
           row == FailedRow(task[t], attempts, terminal)
<1>1. /\ terminal \in BOOLEAN /\ attempts \in Nat
      /\ ~terminal => attempts <= MaxAttempts
  BY BoardAssumption DEF TypeInv, RequestsTyped, Request
<1>2. PersistFailure(w, "Executing", attempts, terminal)
  BY DEF RunFails
<1> HIDE DEF attempts, terminal
<1>3. task[t] \in Row
  BY DEF TypeInv, TypeOK
<1>4. row \in Row
  BY <1>1, <1>3, FailedRowTyped
<1>5. row.status # "none" /\ row.agent = task[t].agent
  BY <1>3 DEF FailedRow, Row
<1>6. \E cond \in BOOLEAN : UpdateWhere(t, cond, row)
  BY <1>0, <1>2, FailureWritten
<1>7. Holds(req[w]) /\ req[w].at \in TaskAwaits
  BY HoldersAreAbout DEF RunFails, Holds
<1>8. End(w) \/ ReleaseNext(w, req[w].a)
  BY <1>2 DEF PersistFailure
<1>9. \A v \in Workers : Loose(v)
  BY <1>7, <1>8, RequestsLoose
<1>10. ~Holds(req'[w])
  <2>1. CASE End(w)
    BY <2>1 DEF End, Holds, Idle, TypeInv, RequestsTyped
  <2>2. CASE ReleaseNext(w, req[w].a)
    <3>1. req'[w].at \in {"idle", "release"}
      BY <2>2 DEF ReleaseNext, Idle, TypeInv, RequestsTyped
    <3> QED
      BY <3>1 DEF Holds
  <2> QED
    BY <1>8, <2>1, <2>2
<1> HIDE DEF row
<1> QED
  BY <1>0, <1>4, <1>5, <1>6, <1>7, <1>9, <1>10, HolderReturns

\* Undoing the claim, when the result could not be stored.
LEMMA PutBackToken ==
  ASSUME TypeInv, TokenInv, NEW w \in Workers, PutBack(w)
  PROVE  TokenInv'
<1>0. PICK t \in Tasks : t = req[w].t
  BY AboutTask DEF PutBack, TaskAwaits, Awaits
<1> DEFINE row == [task[t] EXCEPT !.step = "Assigned", !.age = Fresh]
<1>1. CASE Exists(t)
  <2>1. task[t] \in Row
    BY DEF TypeInv, TypeOK
  <2>2. row \in Row /\ row.status # "none" /\ row.agent = task[t].agent
    BY <1>1, <2>1, Values DEF Row, Exists
  <2>3. Holds(req[w]) /\ UpdateWhere(t, task[t].step = "Executing", row)
    BY <1>0 DEF PutBack, Holds
  <2>4. \A v \in Workers : Loose(v)
    BY RequestsLoose DEF PutBack
  <2>5. ~Holds(req'[w])
    BY DEF PutBack, End, Holds, Idle, TypeInv, RequestsTyped
  <2> HIDE DEF row
  <2> QED
    BY <1>0, <2>2, <2>3, <2>4, <2>5, HolderReturns
<1>2. CASE ~Exists(t)
  <2>1. task' = task
    BY <1>0, <1>2 DEF PutBack, UpdateWhere, TypeInv, TypeOK
  <2> QED
    BY <2>1, SameRowsFirm, RequestsLoose, QuietToken DEF PutBack
<1> QED
  BY <1>1, <1>2

\* A hire assigns a task only while it has no agent, which a held task has.
LEMMA AssignToken ==
  ASSUME TypeInv, TokenInv, NEW w \in Workers, Assign(w)
  PROVE  TokenInv'
<1>0. PICK t \in Tasks : t = req[w].t
  BY AboutTask DEF Assign, TaskAwaits, Awaits
<1> DEFINE row == HiredRow(t, req[w].a)
<1>1. /\ task[t] \in Row /\ req[w].at \in TaskAwaits
      /\ req[w].a \in Agents /\ NoAgent \notin Agents
  BY BoardAssumption DEF Assign, TypeInv, TypeOK, RequestsTyped, Shaped,
     AgentAwaits, TaskAwaits, Awaits
<1>2. row.agent # NoAgent /\ row.status = task[t].status
  BY <1>1 DEF HiredRow, Row
<1>3. \A v \in Workers : Loose(v)
  <2>1. \/ Proceed(w, "record")
        \/ ReleaseNext(w, req[w].a)
    BY AssignGoesOn
  <2> QED
    BY <1>1, <2>1, RequestsLoose DEF Undoing, Awaits
<1>3a. PICK cond \in BOOLEAN :
         /\ cond => Active(t) /\ task[t].agent = NoAgent
         /\ UpdateWhere(t, cond, row)
  BY <1>0, AssignWritten
<1> HIDE DEF row
<1>4. CASE ~cond
  <2>1. task' = task
    BY <1>3a, <1>4 DEF UpdateWhere, TypeInv, TypeOK
  <2> QED
    BY <1>3, <2>1, SameRowsFirm, QuietToken
<1>5. CASE cond
  <2>0. Active(t) /\ task[t].agent = NoAgent
    BY <1>3a, <1>5
  <2>1. /\ \A u \in Tasks \ {t} : task'[u] = task[u]
        /\ task'[t] = row
    BY <1>3a, <1>5, <2>0 DEF UpdateWhere, Active, Exists, TypeInv, TypeOK
  <2>2. \A v \in Workers : Holds(req[v]) => req[v].t \in Tasks \ {t}
    BY <2>0, HoldersAreAbout DEF TokenInv, HeldRow, Active, Exists
  <2>3. OneHolder'
    BY <1>3 DEF TokenInv, OneHolder, Loose
  <2>4. ASSUME NEW v \in Workers PROVE HeldRow(v)'
    BY <1>3, <2>1, <2>2 DEF TokenInv, HeldRow, Loose, Exists
  <2>5. ASSUME NEW v \in Workers PROVE KnownTask(v)'
    <3>1. \A u \in Tasks : task'[u].status = task[u].status
      BY <1>2, <2>1
    <3>2. req[v].at \in TaskAwaits => req[v].t \in Tasks
      BY AboutTask
    <3> QED
      BY <1>3, <3>1, <3>2 DEF TokenInv, KnownTask, Loose
  <2>6. \A u \in Tasks : AssignedRow(u)'
    BY <1>2, <2>1 DEF TokenInv, AssignedRow, Exists
  <2> QED
    BY <2>3, <2>4, <2>5, <2>6 DEF TokenInv
<1> QED
  BY <1>4, <1>5

\* A task that moves on, or fails, keeps its agent and is not put back.
LEMMA MoveToken ==
  ASSUME TypeInv, TokenInv, NEW w \in Workers, Move(w)
  PROVE  TokenInv'
<1>0. PICK t \in Tasks : t = req[w].t
  BY AboutTask DEF Move, TaskAwaits, Awaits
<1>1. task[t] \in Row /\ req[w].at \in TaskAwaits /\ req[w].step # "Assigned"
  BY DEF Move, TypeInv, TypeOK, TaskAwaits, Awaits, TokenInv, KnownTask
<1>2. Exists(t) => Firm(task[t], MovedRow(task[t], req[w].step))
  BY <1>1 DEF Exists, Firm, MovedRow, Row
<1>3. \A u \in Tasks : Firm(task[u], task'[u])
  BY <1>0, <1>2, UpdateFirm DEF Move
<1>4. End(w) \/ ReleaseNext(w, task[t].agent)
  BY <1>0 DEF Move
<1> QED
  BY <1>1, <1>3, <1>4, RequestsLoose, QuietToken

\* Proving holds nothing; the move it leads to does not assign.
LEMMA ProveToken ==
  ASSUME TypeInv, TokenInv, NEW w \in Workers, Prove(w)
  PROVE  TokenInv'
<1>1. task' = task /\ req[w].at \in TaskAwaits
  BY DEF Prove, TaskAwaits, Awaits
<1>2. CASE End(w)
  BY <1>1, <1>2, SameRowsFirm, RequestsLoose, QuietToken
<1>3. CASE req' = [req EXCEPT ![w].at = "move", ![w].step = "Complete"]
  <2>1. /\ \A v \in Workers \ {w} : req'[v] = req[v]
        /\ req'[w].at = "move" /\ req'[w].t = req[w].t
        /\ req'[w].step = "Complete"
    BY <1>3 DEF TypeInv, RequestsTyped, Request
  <2>2. \A v \in Workers : Loose(v)
    BY <1>1, <2>1 DEF Loose, Holds, Undoing, TokenInv, KnownTask
  <2> QED
    BY <1>1, <2>2, SameRowsFirm, QuietToken
<1> QED
  BY <1>2, <1>3 DEF Prove

\* Storing a result leaves the row where it is.
LEMMA RunSucceedsToken ==
  ASSUME TypeInv, TokenInv, NEW w \in Workers, RunSucceeds(w)
  PROVE  TokenInv'
<1>0. PICK t \in Tasks : t = req[w].t
  BY AboutTask DEF RunSucceeds, TaskAwaits, Awaits
<1> DEFINE row == [task[t] EXCEPT !.result = "succeeded", !.attempts = 0]
<1>1. task[t] \in Row /\ req[w].at \in TaskAwaits /\ Holds(req[w])
  BY DEF RunSucceeds, TypeInv, TypeOK, TaskAwaits, Awaits, Holds
<1>2. /\ row.status = task[t].status /\ row.step = task[t].step
      /\ row.agent = task[t].agent
  BY <1>1 DEF Row
<1>3. \A u \in Tasks : Firm(task[u], task'[u])
  <2>1. CASE task' = [task EXCEPT ![t] = row] /\ Exists(t)
    BY <1>2, <2>1 DEF Firm, Exists, TypeInv, TypeOK
  <2>2. CASE task' = task
    BY <2>2, SameRowsFirm
  <2> QED
    BY <1>0, <2>1, <2>2 DEF RunSucceeds, SetRow
<1>4. End(w) \/ Proceed(w, "putBack")
  BY DEF RunSucceeds
<1>5. "putBack" \in Awaits \ (Undoing \cup {"move"})
  BY DEF Awaits, Undoing
<1> QED
  BY <1>1, <1>3, <1>4, <1>5, RequestsLoose, QuietToken

\* Every other write of a suspended request leaves each row no easier to
\* claim or to hire for.
LEMMA ResumeToken ==
  ASSUME TypeInv, TokenInv, "insert" \notin Faults,
         NEW w \in Workers, Resume(w)
  PROVE  TokenInv'
<1> USE DEF TaskAwaits, Awaits, Undoing
<1>1. ASSUME task' = task, \A v \in Workers : Loose(v) PROVE TokenInv'
  BY <1>1, SameRowsFirm, QuietToken
<1>2. ASSUME NEW t \in Tasks, NEW cond, NEW row, UpdateWhere(t, cond, row),
             Exists(t) /\ cond => Firm(task[t], row),
             \A v \in Workers : Loose(v)
      PROVE  TokenInv'
  BY <1>2, UpdateFirm, QuietToken
<1>3. req[w].at \notin Undoing
  BY DEF TokenInv, KnownTask
<1>4. CASE GiveUp(w)
  <2>1. PICK t \in Tasks : t = req[w].t
    BY <1>4, AboutTask DEF GiveUp
  <2>2. Exists(t) /\ task[t].step = "Assigned" =>
          Firm(task[t], FailedRow(task[t], 0, TRUE))
    BY DEF Exists, Firm, FailedRow, TypeInv, TypeOK, Row
  <2>3. /\ PersistFailure(w, "Assigned", 0, TRUE)
        /\ ReleaseNext(w, req[w].a) /\ req[w].at \in TaskAwaits
    BY <1>4, <2>1 DEF GiveUp, PersistFailure
  <2> DEFINE attempts == 0
             terminal == TRUE
             expected == "Assigned"
             row == FailedRow(task[t], attempts, terminal)
  <2>3a. PersistFailure(w, expected, attempts, terminal)
    BY <2>3
  <2> HIDE DEF attempts, terminal, expected
  <2>3b. \E cond \in BOOLEAN : /\ cond => task[t].step = expected
                              /\ UpdateWhere(t, cond, row)
    BY <2>1, <2>3a, FailureWritten
  <2>3c. Exists(t) /\ task[t].step = expected => Firm(task[t], row)
    BY <2>2 DEF expected, attempts, terminal
  <2> HIDE DEF row
  <2>4. \A v \in Workers : Loose(v)
    BY <2>3, RequestsLoose
  <2> QED
    BY <1>2, <2>3b, <2>3c, <2>4
<1>5. CASE Reserve(w) \/ CancelRelease(w) \/ SuspendWrite(w)
           \/ UnsuspendWrite(w) \/ ReleaseAgent(w)
  <2>1. task' = task
    BY <1>5 DEF Reserve, CancelRelease, SuspendWrite, UnsuspendWrite,
                ReleaseAgent, OnlyAgents
  <2>2. \/ End(w)
        \/ req[w].at = "reserve" /\ Proceed(w, "assign")
        \/ req[w].at = "cancelRelease" /\ Proceed(w, "cancel")
        \/ Proceed(w, "cascade")
    BY <1>5 DEF Reserve, CancelRelease, SuspendWrite, UnsuspendWrite,
                ReleaseAgent
  <2>3. \A v \in Workers : Loose(v)
    BY <2>2, RequestsLoose
  <2> QED
    BY <1>1, <2>1, <2>3
<1>6. CASE Record(w)
  BY <1>1, <1>6, RequestsLoose DEF Record, OnlyRequests
<1>7. ~ \/ RollbackAgent(w) \/ RollbackTask(w) \/ RetryWrite(w)
        \/ ReassignRelease(w) \/ ReassignWrite(w) \/ Occupy(w)
  BY <1>3 DEF RollbackAgent, RollbackTask, RetryWrite, ReassignRelease,
              ReassignWrite, Occupy
<1>8. CASE TimeoutFail(w)
  <2>1. PICK t \in Tasks : t = req[w].t
    BY <1>8, AboutTask DEF TimeoutFail
  <2> DEFINE row == [task[t] EXCEPT !.status = "failed", !.age = Fresh,
                                    !.result = "fatal", !.attempts = 0]
  <2>2. Exists(t) => Firm(task[t], row)
    BY DEF Exists, Firm, TypeInv, TypeOK, Row
  <2>3. UpdateWhere(t, Active(t), row) /\ ReleaseNext(w, req[w].a)
    BY <1>8, <2>1 DEF TimeoutFail
  <2>4. \A v \in Workers : Loose(v)
    BY <1>8, <2>3, RequestsLoose DEF TimeoutFail
  <2> QED
    BY <1>2, <2>2, <2>3, <2>4
<1>9. CASE DeleteWrite(w)
  <2>1. PICK t \in Tasks : t = req[w].t
    BY <1>9, AboutTask DEF DeleteWrite
  <2>2. Firm(task[t], [NoRow EXCEPT !.status = "deleted"])
    BY DEF Firm, NoRow
  <2>3. \A v \in Workers : Loose(v)
    BY <1>9, RequestsLoose DEF DeleteWrite
  <2> QED
    BY <1>2, <1>9, <2>1, <2>2, <2>3 DEF DeleteWrite
<1>10. CASE CancelWrite(w)
  <2>1. PICK t \in Tasks : t = req[w].t
    BY <1>10, AboutTask DEF CancelWrite
  <2>2. Exists(t) =>
          Firm(task[t], [task[t] EXCEPT !.status = "failed", !.age = Fresh])
    BY DEF Exists, Firm, TypeInv, TypeOK, Row
  <2>3. \A v \in Workers : Loose(v)
    BY <1>10, RequestsLoose DEF CancelWrite
  <2> QED
    BY <1>2, <1>10, <2>1, <2>2, <2>3 DEF CancelWrite
<1>11. CASE Cascade(w)
  <2>1. \A u \in Tasks : Firm(task[u], task'[u])
    BY <1>11 DEF Cascade, Active, Firm, TypeInv, TypeOK, Row
  <2>2. \A v \in Workers : Loose(v)
    BY <1>11, RequestsLoose DEF Cascade
  <2> QED
    BY <2>1, <2>2, QuietToken
<1>12. CASE ResolveWrite(w)
  <2>1. PICK t \in Tasks : t = req[w].t
    BY <1>12, AboutTask DEF ResolveWrite
  <2>2. /\ Exists(t) => Firm(task[t], Refunded(task[t]))
        /\ Exists(t) => Firm(task[t], Released(task[t]))
    BY DEF Exists, Firm, Refunded, Released, TypeInv, TypeOK, Row
  <2>3. \A v \in Workers : Loose(v)
    BY <1>12, RequestsLoose DEF ResolveWrite
  <2> QED
    BY <1>2, <1>12, <2>1, <2>2, <2>3 DEF ResolveWrite
<1> QED
  BY <1>4, <1>5, <1>6, <1>7, <1>8, <1>9, <1>10, <1>11, <1>12, ClaimToken,
     RunFailsToken, PutBackToken, AssignToken, MoveToken, ProveToken,
     RunSucceedsToken
     DEF Resume, AdvanceStep, HireStep, AdminStep

\* What arrives is about a task that exists, and holds nothing yet.
LEMMA ArriveToken ==
  ASSUME TypeInv, TokenInv, Handlers \cap {"retry", "reassign"} = {},
         NEW w \in Workers, Arrive(w)
  PROVE  TokenInv'
<1> USE DEF Undoing
<1>1. task' = task
  BY DEF Arrive, AdvanceRead, TimeoutRead, DeleteRead, CancelRead, RetryRead,
         ResolveRead, HireRead, ReassignRead, SuspendRead, UnsuspendRead, OnlyRequests
<1>2. ASSUME NEW r, Begin(w, r),
             r.at \in {"prove", "claim", "giveUp", "timeoutFail", "delete",
                       "cancel", "cancelRelease", "reserve", "move",
                       "resolveRefund", "resolveRelease"},
             r.t \in Tasks, task[r.t].status # "none",
             r.at = "move" => r.step # "Assigned"
      PROVE  TokenInv'
  <2>1. \A v \in Workers : req'[v] = req[v] \/ (v = w /\ req'[v] = r)
    BY <1>2 DEF Begin, TypeInv, RequestsTyped
  <2>2. \A v \in Workers : Loose(v)
    BY <1>2, <2>1 DEF Loose, Holds, TokenInv, KnownTask
  <2> QED
    BY <1>1, <2>2, SameRowsFirm, QuietToken
<1>3. ASSUME NEW a, NEW p \in {"suspend", "unsuspend"},
             Begin(w, [Idle EXCEPT !.at = p, !.a = a])
      PROVE  TokenInv'
  <2> DEFINE r == [Idle EXCEPT !.at = p, !.a = a]
  <2>1. r.at = p
    BY DEF Idle
  <2>2. \A v \in Workers : req'[v] = req[v] \/ (v = w /\ req'[v] = r)
    BY <1>3 DEF Begin, TypeInv, RequestsTyped
  <2> HIDE DEF r
  <2>3. \A v \in Workers : Loose(v)
    BY <2>1, <2>2 DEF Loose, Holds, TokenInv, KnownTask, TaskAwaits
  <2> QED
    BY <1>1, <2>3, SameRowsFirm, QuietToken
<1>4. ASSUME NEW t \in Tasks, AdvanceRead(w, t) PROVE TokenInv'
  <2> DEFINE row == task[t]
             moving == [About("move", t) EXCEPT !.step = NextStep[row.step]]
             claiming == [About("claim", t) EXCEPT !.a = row.agent,
                                                   !.attempts = row.attempts]
             closing == [About("giveUp", t) EXCEPT !.a = row.agent]
  <2>0. task[t].status # "none"
    BY <1>4 DEF AdvanceRead
  <2>1. CASE Begin(w, moving) /\ ReadyToMove(row)
    <3>1. NextStep[row.step] # "Assigned"
      BY <2>1 DEF ReadyToMove, NextStep
    <3>2. moving.at = "move" /\ moving.t = t /\ moving.step = NextStep[row.step]
      BY DEF About, Idle
    <3> HIDE DEF moving
    <3> QED
      BY <1>2, <2>0, <2>1, <3>1, <3>2
  <2>2. CASE Begin(w, About("prove", t))
    <3>1. About("prove", t).at = "prove" /\ About("prove", t).t = t
      BY DEF About, Idle
    <3> QED
      BY <1>2, <2>0, <2>2, <3>1
  <2>3. CASE Begin(w, claiming)
    <3>1. claiming.at = "claim" /\ claiming.t = t
      BY DEF About, Idle
    <3> HIDE DEF claiming
    <3> QED
      BY <1>2, <2>0, <2>3, <3>1
  <2>4. CASE Begin(w, closing)
    <3>1. closing.at = "giveUp" /\ closing.t = t
      BY DEF About, Idle
    <3> HIDE DEF closing
    <3> QED
      BY <1>2, <2>0, <2>4, <3>1
  <2> QED
    BY <1>4, <2>1, <2>2, <2>3, <2>4 DEF AdvanceRead
<1>5. ASSUME NEW t \in Tasks, TimeoutRead(w, t) PROVE TokenInv'
  <2> DEFINE r == [About("timeoutFail", t) EXCEPT !.a = task[t].agent,
                                                  !.step = task[t].step]
  <2>1. r.at = "timeoutFail" /\ r.t = t
    BY DEF About, Idle
  <2>2. Begin(w, r) /\ task[t].status # "none"
    BY <1>5 DEF TimeoutRead, Active
  <2> HIDE DEF r
  <2> QED
    BY <1>2, <2>1, <2>2
<1>6. ASSUME NEW t \in Tasks, Exists(t),
             NEW p \in {"delete", "cancel", "resolveRefund", "resolveRelease"},
             Begin(w, About(p, t))
      PROVE  TokenInv'
  <2>1. About(p, t).at = p /\ About(p, t).t = t
    BY DEF About, Idle
  <2> QED
    BY <1>2, <1>6, <2>1 DEF Exists
<1>7. ASSUME NEW t \in Tasks, CancelRead(w, t) PROVE TokenInv'
  <2> DEFINE r == [About("cancelRelease", t) EXCEPT !.a = task[t].agent]
  <2>1. r.at = "cancelRelease" /\ r.t = t
    BY DEF About, Idle
  <2>2. Exists(t) /\ (Begin(w, r) \/ Begin(w, About("cancel", t)))
    BY <1>7 DEF CancelRead, Overrulable
  <2> HIDE DEF r
  <2> QED
    BY <1>2, <1>6, <2>1, <2>2 DEF Exists
<1>8. ASSUME NEW t \in Tasks, NEW a \in Agents, HireRead(w, t, a)
      PROVE  TokenInv'
  <2> DEFINE r == [About("reserve", t) EXCEPT !.a = a, !.step = task[t].step,
                                              !.age = task[t].age]
  <2>1. r.at = "reserve" /\ r.t = t
    BY DEF About, Idle
  <2>2. Begin(w, r) /\ task[t].status # "none"
    BY <1>8 DEF HireRead, Active
  <2> HIDE DEF r
  <2> QED
    BY <1>2, <2>1, <2>2
<1>9. ~ \E t \in Tasks : \/ RetryRead(w, t)
                         \/ \E b \in Agents : ReassignRead(w, t, b)
  BY DEF RetryRead, ReassignRead
<1>10. ASSUME NEW a \in Agents, SuspendRead(w, a) \/ UnsuspendRead(w, a)
       PROVE  TokenInv'
  BY <1>3, <1>10 DEF SuspendRead, UnsuspendRead
<1> QED
  BY <1>4, <1>5, <1>6, <1>7, <1>8, <1>9, <1>10
     DEF Arrive, DeleteRead, ResolveRead

\* A created task is new: no request is about it.
LEMMA CreateToken ==
  ASSUME TypeInv, TokenInv, NEW t \in Tasks, CreateTask(t)
  PROVE  TokenInv'
<1>1. /\ task[t].status = "none" /\ req' = req
      /\ task' = [task EXCEPT ![t] = [NoRow EXCEPT !.status = "active"]]
  BY DEF CreateTask, SetRow
<1>2. LET row == [NoRow EXCEPT !.status = "active"]
      IN  row.status = "active" /\ row.step = "Submitted"
  BY DEF NoRow
<1>3. /\ \A u \in Tasks \ {t} : task'[u] = task[u]
      /\ task'[t].status = "active" /\ task'[t].step = "Submitted"
  BY <1>1, <1>2 DEF TypeInv, TypeOK
<1>4. \A w \in Workers : req[w].at \in TaskAwaits => req[w].t \in Tasks \ {t}
  BY <1>1, AboutTask DEF TokenInv, KnownTask
<1>5. OneHolder'
  BY <1>1 DEF TokenInv, OneHolder
<1>6. ASSUME NEW w \in Workers PROVE HeldRow(w)'
  <2>1. Holds(req[w]) => req[w].t \in Tasks \ {t}
    BY <1>4, HoldersAreAbout
  <2> QED
    BY <1>1, <1>3, <2>1 DEF TokenInv, HeldRow, Exists
<1>7. ASSUME NEW w \in Workers PROVE KnownTask(w)'
  BY <1>1, <1>3, <1>4 DEF TokenInv, KnownTask
<1>8. \A u \in Tasks : AssignedRow(u)'
  BY <1>3 DEF TokenInv, AssignedRow, Exists
<1> QED
  BY <1>5, <1>6, <1>7, <1>8 DEF TokenInv

\* Rows of an earlier release that are at Assigned have their agent.
LEMMA InitToken == Init => TokenInv
<1> SUFFICES ASSUME Init PROVE TokenInv
  OBVIOUS
<1>1. \A w \in Workers : req[w].at = "idle"
  BY DEF Init, BoardInit, Idle
<1>2. OneHolder /\ \A w \in Workers : HeldRow(w) /\ KnownTask(w)
  BY <1>1 DEF OneHolder, HeldRow, KnownTask, Holds, TaskAwaits, Undoing
<1>3. ASSUME NEW a \in Agents, NEW result
      PROVE  LegacyRow(a, result).agent # NoAgent
  BY BoardAssumption DEF LegacyRow, NoRow
<1>4. NoRow.status = "none"
  BY DEF NoRow
<1>5. \A t \in Tasks : AssignedRow(t)
  BY <1>3, <1>4 DEF Init, BoardInit, AssignedRow, Exists
<1> QED
  BY <1>2, <1>5 DEF TokenInv

\* Every step keeps a task with one holder, if it has any.
LEMMA TokenStep ==
  ASSUME Handlers \cap {"retry", "reassign"} = {}, "insert" \notin Faults
  PROVE  TypeInv /\ TokenInv /\ [Next]_vars => TokenInv'
<1> SUFFICES ASSUME TypeInv, TokenInv, [Next]_vars PROVE TokenInv'
  OBVIOUS
<1>1. ASSUME NEW t \in Tasks, Tick(t) PROVE TokenInv'
  <2>1. \A age : Firm(task[t], [task[t] EXCEPT !.age = age])
    BY <1>1 DEF Tick, Active, Firm, TypeInv, TypeOK, Row
  <2>2. \A u \in Tasks : Firm(task[u], task'[u])
    BY <1>1, <2>1 DEF Tick, SetRow, Firm, TypeInv, TypeOK
  <2>3. \A w \in Workers : Loose(w)
    BY <1>1 DEF Tick, Loose, TokenInv, KnownTask
  <2> QED
    BY <2>2, <2>3, QuietToken
<1>2. ASSUME NEW w \in Workers, Crash(w) PROVE TokenInv'
  BY <1>2, SameRowsFirm, RequestsLoose, QuietToken DEF Crash, OnlyRequests
<1>3. CASE UNCHANGED vars
  <2>1. \A w \in Workers : Loose(w)
    BY <1>3 DEF vars, Loose, TokenInv, KnownTask
  <2> QED
    BY <1>3, <2>1, SameRowsFirm, QuietToken DEF vars
<1> QED
  BY <1>1, <1>2, <1>3, CreateToken, ArriveToken, ResumeToken DEF Next

\* At most one request runs the model for a task at a time, for any number
\* of tasks, agents and requests in flight, whatever crashes or times out, as
\* long as neither override that puts a running task back is used and no hire
\* is undone.
THEOREM OneRun ==
  ASSUME Handlers \cap {"retry", "reassign"} = {}, "insert" \notin Faults
  PROVE  Spec => []OneRunAtATime
<1>1. TypeInv /\ TokenInv => OneRunAtATime
  BY DEF TokenInv, OneHolder, Holds, OneRunAtATime
<1>2. TypeInv /\ TokenInv /\ [Next]_vars => TypeInv' /\ TokenInv'
  BY TypeStep, TokenStep
<1>3. Init => TypeInv /\ TokenInv
  BY InitTyped, InitToken
<1> QED
  BY <1>1, <1>2, <1>3, PTL DEF Spec

\* The steps at which a task that exists has an agent.
Staffed == {"Assigned", "Executing"}

StaffedRow(t) ==
  Exists(t) /\ task[t].step \in Staffed => task[t].agent # NoAgent

\* Awaits of a hire, whose locals hold the step to go back to.
Hiring == {"reserve", "assign", "record", "rollback", "rollbackAgent",
           "rollbackTask"}

\* Requests that write a step read earlier write one that needs no agent.
Fit(r) == /\ r.at # "misrun"
          /\ r.at # "retry"
          /\ r.at \in Hiring \cup {"move"} => r.step \notin Staffed

StaffInv == /\ \A t \in Tasks : StaffedRow(t)
            /\ \A w \in Workers : Fit(req[w])

\* A row that a step leaves staffed if it has to be.
Kept(old, new) ==
  new.status \notin {"none", "deleted"} /\ new.step \in Staffed =>
    \/ new.agent # NoAgent
    \/ /\ old.status \notin {"none", "deleted"} /\ old.step \in Staffed
       /\ new.agent = old.agent

\* A step that keeps rows staffed, and requests fit, keeps the invariant.
LEMMA KeptStaff ==
  ASSUME StaffInv, \A t \in Tasks : Kept(task[t], task'[t]),
         \A w \in Workers : Fit(req'[w])
  PROVE  StaffInv'
<1>1. \A t \in Tasks : StaffedRow(t)'
  BY DEF StaffInv, StaffedRow, Kept, Exists
<1> QED
  BY <1>1 DEF StaffInv

\* One statement, keeping the row it matches, keeps all.
LEMMA UpdateKeeps ==
  ASSUME TypeInv, NEW t \in Tasks, NEW cond, NEW row,
         Exists(t) /\ cond => Kept(task[t], row), UpdateWhere(t, cond, row)
  PROVE  \A u \in Tasks : Kept(task[u], task'[u])
  BY DEF UpdateWhere, Kept, TypeInv, TypeOK

\* No statement at all keeps all rows.
LEMMA SameRowsKept == task' = task => \A t \in Tasks : Kept(task[t], task'[t])
  BY DEF Kept

\* A request that ends, goes on, or arrives, and stays fit.
LEMMA RequestsFit ==
  ASSUME TypeInv, StaffInv, NEW w \in Workers,
         \/ End(w)
         \/ \E a : ReleaseNext(w, a)
         \/ \E p \in Awaits \ {"misrun", "retry", "move"} :
              Proceed(w, p) /\ (p \in Hiring => req[w].at \in Hiring)
         \/ \E r \in Request : Begin(w, r) /\ Fit(r)
  PROVE  \A v \in Workers : Fit(req'[v])
<1>1. Fit(Idle)
  BY DEF Fit, Idle, Hiring
<1>2. \A v \in Workers : Fit(req[v])
  BY DEF StaffInv
<1>3. CASE End(w)
  BY <1>1, <1>2, <1>3 DEF End, TypeInv, RequestsTyped
<1>4. CASE \E a : ReleaseNext(w, a)
  <2>1. PICK a : ReleaseNext(w, a)
    BY <1>4
  <2>2. \A v \in Workers \ {w} : req'[v] = req[v]
    BY <2>1 DEF ReleaseNext, TypeInv, RequestsTyped
  <2>3. req'[w].at \in {"idle", "release"}
    BY <2>1 DEF ReleaseNext, Idle, TypeInv, RequestsTyped
  <2> QED
    BY <1>2, <2>2, <2>3 DEF Fit, Hiring
<1>5. ASSUME NEW p \in Awaits \ {"misrun", "retry", "move"}, Proceed(w, p),
             p \in Hiring => req[w].at \in Hiring
      PROVE  \A v \in Workers : Fit(req'[v])
  <2>1. /\ \A v \in Workers \ {w} : req'[v] = req[v]
        /\ req'[w].at = p /\ req'[w].step = req[w].step
    BY <1>5 DEF Proceed, TypeInv, RequestsTyped, Request
  <2> QED
    BY <1>2, <1>5, <2>1 DEF Fit
<1>6. ASSUME NEW r \in Request, Begin(w, r), Fit(r)
      PROVE  \A v \in Workers : Fit(req'[v])
  BY <1>2, <1>6 DEF Begin, TypeInv, RequestsTyped
<1> QED
  BY <1>3, <1>4, <1>5, <1>6

\* persistExecutionFailure matches the step that it expects, staffed already.
LEMMA PersistFailureStaff ==
  ASSUME TypeInv, StaffInv, NEW w \in Workers, NEW expected \in Staffed,
         NEW attempts, NEW terminal \in BOOLEAN, req[w].t \in Tasks,
         PersistFailure(w, expected, attempts, terminal)
  PROVE  StaffInv'
<1>0. PICK t \in Tasks : t = req[w].t
  OBVIOUS
<1> DEFINE row == FailedRow(task[t], attempts, terminal)
<1>1. row.agent = task[t].agent
  BY DEF FailedRow, TypeInv, TypeOK, Row
<1>2. Exists(t) /\ task[t].step = expected => Kept(task[t], row)
  BY <1>1 DEF Kept, Exists
<1>3. \E cond \in BOOLEAN : /\ cond => task[t].step = expected
                          /\ UpdateWhere(t, cond, row)
  BY <1>0, FailureWritten
<1>4. End(w) \/ ReleaseNext(w, req[w].a)
  BY DEF PersistFailure
<1> HIDE DEF row
<1>5. \A u \in Tasks : Kept(task[u], task'[u])
  BY <1>2, <1>3, UpdateKeeps
<1>6. \A v \in Workers : Fit(req'[v])
  BY <1>4, RequestsFit
<1> QED
  BY <1>5, <1>6, KeptStaff

\* What a suspended request does next.
LEMMA ResumeStaff ==
  ASSUME TypeInv, StaffInv, NEW w \in Workers, Resume(w)
  PROVE  StaffInv'
<1> USE DEF TaskAwaits, Awaits, Hiring
<1>0. Fit(req[w])
  BY DEF StaffInv
<1>1. ASSUME NEW t \in Tasks, NEW cond, NEW row, UpdateWhere(t, cond, row),
             Exists(t) /\ cond => Kept(task[t], row),
             \A v \in Workers : Fit(req'[v])
      PROVE  StaffInv'
  BY <1>1, UpdateKeeps, KeptStaff
<1>2. ASSUME task' = task, \A v \in Workers : Fit(req'[v]) PROVE StaffInv'
  BY <1>2, SameRowsKept, KeptStaff
<1>3. ASSUME NEW t \in Tasks PROVE task[t] \in Row
  BY DEF TypeInv, TypeOK
<1>4. CASE GiveUp(w)
  <2>1. req[w].t \in Tasks
    BY <1>4, AboutTask DEF GiveUp
  <2> QED
    BY <1>4, <2>1, PersistFailureStaff DEF GiveUp, Staffed
<1>5. CASE Claim(w)
  <2>1. PICK t \in Tasks : t = req[w].t
    BY <1>5, AboutTask DEF Claim
  <2> DEFINE row == [task[t] EXCEPT !.step = "Executing", !.age = Fresh,
                                    !.result = "running", !.attempts = 0]
  <2>2. row.agent = task[t].agent /\ UpdateWhere(t, task[t].step = "Assigned", row)
    BY <1>3, <1>5, <2>1 DEF Claim, Row
  <2>3. Exists(t) /\ task[t].step = "Assigned" =>
          task[t].agent # NoAgent /\ Kept(task[t], row)
    BY <2>2 DEF StaffInv, StaffedRow, Staffed, Kept
  <2>4. End(w) \/ Proceed(w, "execute")
    BY <1>5, <2>1, <2>3 DEF Claim
  <2>5. \A v \in Workers : Fit(req'[v])
    BY <2>4, RequestsFit
  <2> HIDE DEF row
  <2> QED
    BY <1>1, <2>2, <2>3, <2>5
<1>6. CASE RunSucceeds(w)
  <2>1. PICK t \in Tasks : t = req[w].t
    BY <1>6, AboutTask DEF RunSucceeds
  <2> DEFINE row == [task[t] EXCEPT !.result = "succeeded", !.attempts = 0]
  <2>2. /\ row.agent = task[t].agent /\ row.step = task[t].step
        /\ row.status = task[t].status
    BY <1>3 DEF Row
  <2>3. task' = task \/ task' = [task EXCEPT ![t] = row]
    BY <1>6, <2>1 DEF RunSucceeds, SetRow
  <2>4. \A u \in Tasks : Kept(task[u], task'[u])
    BY <2>2, <2>3 DEF Kept, TypeInv, TypeOK
  <2>5. \A v \in Workers : Fit(req'[v])
    BY <1>6, RequestsFit DEF RunSucceeds
  <2> QED
    BY <2>4, <2>5, KeptStaff
<1>7. ASSUME NEW retryable \in BOOLEAN, RunFails(w, retryable) PROVE StaffInv'
  <2> DEFINE attempts == req[w].attempts + 1
             terminal == ~retryable \/ attempts >= MaxAttempts
  <2>1. req[w].t \in Tasks /\ terminal \in BOOLEAN
    BY <1>7, AboutTask DEF RunFails
  <2>2. PersistFailure(w, "Executing", attempts, terminal)
    BY <1>7 DEF RunFails
  <2>3. "Executing" \in Staffed
    BY DEF Staffed
  <2> HIDE DEF attempts, terminal
  <2> QED
    BY <2>1, <2>2, <2>3, PersistFailureStaff
<1>8. CASE PutBack(w)
  <2>1. PICK t \in Tasks : t = req[w].t
    BY <1>8, AboutTask DEF PutBack
  <2> DEFINE row == [task[t] EXCEPT !.step = "Assigned", !.age = Fresh]
  <2>2. row.agent = task[t].agent
    BY <1>3 DEF Row
  <2>3. Exists(t) /\ task[t].step = "Executing" => Kept(task[t], row)
    BY <2>2 DEF Kept, Exists, Staffed
  <2>4. \A v \in Workers : Fit(req'[v])
    BY <1>8, RequestsFit DEF PutBack
  <2>5. UpdateWhere(t, task[t].step = "Executing", row)
    BY <1>8, <2>1 DEF PutBack
  <2> HIDE DEF row
  <2> QED
    BY <1>1, <2>3, <2>4, <2>5
<1>9. CASE Prove(w)
  <2>1. task' = task
    BY <1>9 DEF Prove
  <2>2. CASE End(w)
    BY <1>2, <2>1, <2>2, RequestsFit
  <2>3. CASE req' = [req EXCEPT ![w].at = "move", ![w].step = "Complete"]
    <3>1. /\ \A v \in Workers \ {w} : req'[v] = req[v]
          /\ req'[w].at = "move" /\ req'[w].step = "Complete"
      BY <2>3 DEF TypeInv, RequestsTyped, Request
    <3>2. \A v \in Workers : Fit(req'[v])
      BY <3>1 DEF Fit, Staffed, StaffInv
    <3> QED
      BY <1>2, <2>1, <3>2
  <2> QED
    BY <1>9, <2>2, <2>3 DEF Prove
<1>10. CASE Move(w)
  <2>1. PICK t \in Tasks : t = req[w].t
    BY <1>10, AboutTask DEF Move
  <2>2. req[w].step \notin Staffed
    BY <1>0, <1>10 DEF Move, Fit
  <2>3. MovedRow(task[t], req[w].step).step = req[w].step
    BY <1>3 DEF MovedRow, Row
  <2>4. UpdateWhere(t, TRUE, MovedRow(task[t], req[w].step))
    BY <1>10, <2>1 DEF Move
  <2>5. \A v \in Workers : Fit(req'[v])
    BY <1>10, RequestsFit DEF Move
  <2> QED
    BY <1>1, <2>2, <2>3, <2>4, <2>5 DEF Kept
<1>11. CASE \/ Reserve(w) \/ RollbackAgent(w) \/ CancelRelease(w)
            \/ ReassignRelease(w) \/ Occupy(w) \/ SuspendWrite(w)
            \/ UnsuspendWrite(w) \/ ReleaseAgent(w) \/ Record(w)
  <2>1. task' = task
    BY <1>11 DEF Reserve, RollbackAgent, CancelRelease, ReassignRelease, Occupy,
       SuspendWrite, UnsuspendWrite, ReleaseAgent, Record, OnlyAgents,
       OnlyRequests
  <2>2. \/ End(w)
        \/ req[w].at \in Hiring
             /\ \E p \in {"assign", "rollback", "rollbackTask"} : Proceed(w, p)
        \/ \E p \in {"cancel", "reassign", "cascade"} : Proceed(w, p)
    BY <1>11 DEF Reserve, RollbackAgent, CancelRelease, ReassignRelease, Occupy,
       SuspendWrite, UnsuspendWrite, ReleaseAgent, Record
  <2>3. \A v \in Workers : Fit(req'[v])
    BY <2>2, RequestsFit
  <2> QED
    BY <1>2, <2>1, <2>3
<1>12. CASE Assign(w)
  <2>1. PICK t \in Tasks : t = req[w].t
    BY <1>12, AboutTask DEF Assign
  <2> DEFINE row == HiredRow(t, req[w].a)
  <2>2. req[w].a # NoAgent
    BY <1>12, BoardAssumption DEF Assign, TypeInv, RequestsTyped, Shaped, AgentAwaits
  <2>3. row.agent # NoAgent
    BY <1>3, <2>2 DEF HiredRow, Row
  <2>4. \E cond \in BOOLEAN : UpdateWhere(t, cond, row)
    BY <1>12, <2>1, AssignWritten
  <2>5. \A v \in Workers : Fit(req'[v])
    BY <1>12, AssignGoesOn, RequestsFit
  <2> HIDE DEF row
  <2> QED
    BY <1>1, <2>3, <2>4, <2>5 DEF Kept
<1>13. CASE RollbackTask(w)
  <2>1. PICK t \in Tasks : t = req[w].t
    BY <1>13, AboutTask DEF RollbackTask
  <2> DEFINE row == [task[t] EXCEPT !.agent = NoAgent, !.step = req[w].step,
                                    !.age = req[w].age]
  <2>2. req[w].step \notin Staffed
    BY <1>0, <1>13 DEF RollbackTask, Fit
  <2>3. row.step = req[w].step
    BY <1>3 DEF Row
  <2>4. UpdateWhere(t, TRUE, row)
    BY <1>13, <2>1 DEF RollbackTask
  <2>5. \A v \in Workers : Fit(req'[v])
    BY <1>13, RequestsFit DEF RollbackTask
  <2> HIDE DEF row
  <2> QED
    BY <1>1, <2>2, <2>3, <2>4, <2>5 DEF Kept
<1>14. CASE TimeoutFail(w)
  <2>1. PICK t \in Tasks : t = req[w].t
    BY <1>14, AboutTask DEF TimeoutFail
  <2> DEFINE row == [task[t] EXCEPT !.status = "failed", !.age = Fresh,
                                    !.result = "fatal", !.attempts = 0]
  <2>2. Exists(t) => Kept(task[t], row)
    BY <1>3 DEF Exists, Kept, Row
  <2>3. UpdateWhere(t, Active(t), row)
    BY <1>14, <2>1 DEF TimeoutFail
  <2>4. \A v \in Workers : Fit(req'[v])
    BY <1>14, RequestsFit DEF TimeoutFail
  <2> QED
    BY <1>1, <2>2, <2>3, <2>4
<1>15. CASE DeleteWrite(w)
  <2>1. PICK t \in Tasks : t = req[w].t
    BY <1>15, AboutTask DEF DeleteWrite
  <2>2. Kept(task[t], [NoRow EXCEPT !.status = "deleted"])
    BY DEF Kept, NoRow
  <2>3. \A v \in Workers : Fit(req'[v])
    BY <1>15, RequestsFit DEF DeleteWrite
  <2> QED
    BY <1>1, <1>15, <2>1, <2>2, <2>3 DEF DeleteWrite
<1>16. CASE CancelWrite(w)
  <2>1. PICK t \in Tasks : t = req[w].t
    BY <1>16, AboutTask DEF CancelWrite
  <2>2. Exists(t) =>
          Kept(task[t], [task[t] EXCEPT !.status = "failed", !.age = Fresh])
    BY <1>3 DEF Exists, Kept, Row
  <2>3. \A v \in Workers : Fit(req'[v])
    BY <1>16, RequestsFit DEF CancelWrite
  <2> QED
    BY <1>1, <1>16, <2>1, <2>2, <2>3 DEF CancelWrite
<1>17. ~RetryWrite(w)
  BY <1>0 DEF RetryWrite, Fit
<1>18. CASE ReassignWrite(w)
  <2>1. PICK t \in Tasks : t = req[w].t
    BY <1>18, AboutTask DEF ReassignWrite
  <2>2. req[w].b # NoAgent
    BY <1>18, BoardAssumption
       DEF ReassignWrite, TypeInv, RequestsTyped, Shaped, TargetAwaits
  <2>3. Restarted(task[t], req[w].b).agent # NoAgent
    BY <1>3, <2>2 DEF Restarted, Row
  <2>4. \A v \in Workers : Fit(req'[v])
    BY <1>18, RequestsFit DEF ReassignWrite
  <2> QED
    BY <1>1, <1>18, <2>1, <2>3, <2>4 DEF ReassignWrite, Kept
<1>19. CASE Cascade(w)
  <2>1. \A u \in Tasks : Kept(task[u], task'[u])
    BY <1>19 DEF Cascade, Active, Kept, TypeInv, TypeOK, Row
  <2>2. \A v \in Workers : Fit(req'[v])
    BY <1>19, RequestsFit DEF Cascade
  <2> QED
    BY <2>1, <2>2, KeptStaff
<1>20. CASE ResolveWrite(w)
  <2>1. PICK t \in Tasks : t = req[w].t
    BY <1>20, AboutTask DEF ResolveWrite
  <2>2. /\ Exists(t) => Kept(task[t], Refunded(task[t]))
        /\ Kept(task[t], Released(task[t]))
    BY <1>3 DEF Exists, Kept, Refunded, Released, Staffed, Row
  <2>3. \A v \in Workers : Fit(req'[v])
    BY <1>20, RequestsFit DEF ResolveWrite
  <2> QED
    BY <1>1, <1>20, <2>1, <2>2, <2>3 DEF ResolveWrite
<1> QED
  BY <1>4, <1>5, <1>6, <1>7, <1>8, <1>9, <1>10, <1>11, <1>12, <1>13, <1>14,
     <1>15, <1>16, <1>17, <1>18, <1>19, <1>20
     DEF Resume, AdvanceStep, HireStep, AdminStep

\* What arrives: a hire reads a task that needs no agent yet.
LEMMA ArriveStaff ==
  ASSUME TypeInv, StaffInv, "retry" \notin Handlers,
         NEW w \in Workers, Arrive(w)
  PROVE  StaffInv'
<1> USE DEF Hiring
<1>1. task' = task
  BY DEF Arrive, AdvanceRead, TimeoutRead, DeleteRead, CancelRead, RetryRead,
         ResolveRead, HireRead, ReassignRead, SuspendRead, UnsuspendRead, OnlyRequests
<1>2. ASSUME NEW r, Begin(w, r), Fit(r) PROVE StaffInv'
  <2>1. \A v \in Workers : req'[v] = req[v] \/ req'[v] = r
    BY <1>2 DEF Begin, TypeInv, RequestsTyped
  <2>2. \A v \in Workers : Fit(req'[v])
    BY <1>2, <2>1 DEF StaffInv
  <2> QED
    BY <1>1, <2>2, SameRowsKept, KeptStaff
<1>3. ASSUME NEW r, Begin(w, r),
             r.at \in {"prove", "claim", "giveUp", "timeoutFail", "delete",
                       "cancel", "cancelRelease", "reassign",
                       "reassignRelease", "suspend", "unsuspend",
                       "resolveRefund", "resolveRelease"}
      PROVE  StaffInv'
  BY <1>2, <1>3 DEF Fit
<1>4. ASSUME NEW t \in Tasks, AdvanceRead(w, t) PROVE StaffInv'
  <2> DEFINE row == task[t]
             moving == [About("move", t) EXCEPT !.step = NextStep[row.step]]
             claiming == [About("claim", t) EXCEPT !.a = row.agent,
                                                   !.attempts = row.attempts]
             closing == [About("giveUp", t) EXCEPT !.a = row.agent]
  <2>1. /\ moving.at = "move" /\ moving.step = NextStep[row.step]
        /\ About("prove", t).at = "prove" /\ claiming.at = "claim"
        /\ closing.at = "giveUp"
    BY DEF About, Idle
  <2>2. ReadyToMove(row) => NextStep[row.step] \notin Staffed
    BY DEF ReadyToMove, NextStep, Staffed
  <2>3. \/ Begin(w, moving) /\ ReadyToMove(row)
        \/ Begin(w, About("prove", t)) \/ Begin(w, claiming)
        \/ Begin(w, closing)
    BY <1>4 DEF AdvanceRead
  <2> HIDE DEF moving, claiming, closing, row
  <2>4. Begin(w, moving) /\ ReadyToMove(row) => StaffInv'
    BY <1>2, <2>1, <2>2 DEF Fit
  <2> QED
    BY <1>3, <2>1, <2>3, <2>4
<1>5. ASSUME NEW t \in Tasks, TimeoutRead(w, t) PROVE StaffInv'
  <2> DEFINE r == [About("timeoutFail", t) EXCEPT !.a = task[t].agent,
                                                  !.step = task[t].step]
  <2>1. r.at = "timeoutFail"
    BY DEF About, Idle
  <2> QED
    BY <1>3, <1>5, <2>1 DEF TimeoutRead
<1>6. ASSUME NEW t \in Tasks,
             DeleteRead(w, t) \/ CancelRead(w, t) \/ ResolveRead(w, t)
      PROVE  StaffInv'
  <2> DEFINE r == [About("cancelRelease", t) EXCEPT !.a = task[t].agent]
  <2>1. /\ r.at = "cancelRelease" /\ About("cancel", t).at = "cancel"
        /\ \A p : About(p, t).at = p
    BY DEF About, Idle
  <2> QED
    BY <1>3, <1>6, <2>1 DEF DeleteRead, CancelRead, ResolveRead
<1>7. ASSUME NEW t \in Tasks, NEW a \in Agents, HireRead(w, t, a)
      PROVE  StaffInv'
  <2> DEFINE r == [About("reserve", t) EXCEPT !.a = a, !.step = task[t].step,
                                              !.age = task[t].age]
  <2>1. r.at = "reserve" /\ r.step = task[t].step
    BY DEF About, Idle
  <2>2. task[t].step \notin Staffed
    BY <1>7 DEF HireRead, Active, StaffInv, StaffedRow, Exists
  <2>3. Begin(w, r)
    BY <1>7 DEF HireRead
  <2> HIDE DEF r
  <2> QED
    BY <1>2, <2>1, <2>2, <2>3 DEF Fit
<1>8. ASSUME NEW t \in Tasks, NEW b \in Agents, ReassignRead(w, t, b)
      PROVE  StaffInv'
  <2> DEFINE a == task[t].agent
             p == IF a = NoAgent THEN "reassign" ELSE "reassignRelease"
             r == [About(p, t) EXCEPT !.a = a, !.b = b]
  <2>1. r.at \in {"reassign", "reassignRelease"}
    BY DEF About, Idle
  <2> QED
    BY <1>3, <1>8, <2>1 DEF ReassignRead
<1>9. ASSUME NEW a \in Agents, SuspendRead(w, a) \/ UnsuspendRead(w, a)
      PROVE  StaffInv'
  <2>1. \A p : [Idle EXCEPT !.at = p, !.a = a].at = p
    BY DEF Idle
  <2>2. \E p \in {"suspend", "unsuspend"} :
          Begin(w, [Idle EXCEPT !.at = p, !.a = a])
    BY <1>9 DEF SuspendRead, UnsuspendRead
  <2> QED
    BY <1>3, <2>1, <2>2
<1>10. ~ \E t \in Tasks : RetryRead(w, t)
  BY DEF RetryRead
<1> QED
  BY <1>4, <1>5, <1>6, <1>7, <1>8, <1>9, <1>10 DEF Arrive

\* No task of the initial database is staffed wrongly.
LEMMA InitStaff == Init => StaffInv
<1> SUFFICES ASSUME Init PROVE StaffInv
  OBVIOUS
<1>1. \A w \in Workers : Fit(req[w])
  BY DEF Init, BoardInit, Idle, Fit, Hiring
<1>2. ASSUME NEW a \in Agents, NEW result
      PROVE  LegacyRow(a, result).agent # NoAgent
  BY BoardAssumption DEF LegacyRow, NoRow
<1>3. NoRow.status = "none"
  BY DEF NoRow
<1>4. \A t \in Tasks : StaffedRow(t)
  BY <1>2, <1>3 DEF Init, BoardInit, StaffedRow, Exists
<1> QED
  BY <1>1, <1>4 DEF StaffInv

\* Every step keeps rows staffed.
LEMMA StaffStep ==
  ASSUME "retry" \notin Handlers
  PROVE  TypeInv /\ StaffInv /\ [Next]_vars => StaffInv'
<1> SUFFICES ASSUME TypeInv, StaffInv, [Next]_vars PROVE StaffInv'
  OBVIOUS
<1>1. ASSUME NEW t \in Tasks, CreateTask(t) PROVE StaffInv'
  <2>1. [NoRow EXCEPT !.status = "active"].step \notin Staffed
    BY DEF NoRow, Staffed
  <2>2. \A u \in Tasks : Kept(task[u], task'[u])
    BY <1>1, <2>1 DEF CreateTask, SetRow, Kept, TypeInv, TypeOK
  <2> QED
    BY <1>1, <2>2, KeptStaff DEF CreateTask, StaffInv
<1>2. ASSUME NEW t \in Tasks, Tick(t) PROVE StaffInv'
  <2>1. \A age : LET row == [task[t] EXCEPT !.age = age]
                 IN  /\ row.status = task[t].status
                     /\ row.step = task[t].step
                     /\ row.agent = task[t].agent
    BY DEF TypeInv, TypeOK, Row
  <2>2. \A u \in Tasks : Kept(task[u], task'[u])
    BY <1>2, <2>1 DEF Tick, SetRow, Kept, TypeInv, TypeOK
  <2> QED
    BY <1>2, <2>2, KeptStaff DEF Tick, StaffInv
<1>3. ASSUME NEW w \in Workers, Crash(w) PROVE StaffInv'
  BY <1>3, SameRowsKept, RequestsFit, KeptStaff DEF Crash, OnlyRequests
<1>4. CASE UNCHANGED vars
  BY <1>4, SameRowsKept, KeptStaff DEF vars, StaffInv
<1> QED
  BY <1>1, <1>2, <1>3, <1>4, ArriveStaff, ResumeStaff DEF Next

\* A request that claims a task finds its agent there, in every interleaving
\* of hires, their undoing, and every other route but retry.
THEOREM RunsAreStaffed ==
  ASSUME "retry" \notin Handlers
  PROVE  Spec => []RunHasAgent
<1>1. StaffInv => RunHasAgent
  BY DEF StaffInv, Fit, RunHasAgent
<1>2. TypeInv /\ StaffInv /\ [Next]_vars => TypeInv' /\ StaffInv'
  BY TypeStep, StaffStep
<1>3. Init => TypeInv /\ StaffInv
  BY InitTyped, InitStaff
<1> QED
  BY <1>1, <1>2, <1>3, PTL DEF Spec

-----------------------------------------------------------------------------
(* The serial board.  With Overlap = FALSE two requests are about one task  *)
(* only when both are hires of it, each past its reads.                     *)

Hires == {"reserve", "assign", "record", "release", "rollback",
          "rollbackAgent", "rollbackTask"}

Serial ==
  \A v, w \in Workers :
    /\ v # w /\ req[v] # Idle /\ req[w] # Idle
    /\ req[w].t \in Tasks /\ req[v].t = req[w].t
    => req[v].at \in Hires /\ req[w].at \in Hires

\* The awaits that follow one another in the handlers.
Flows(p, q) ==
  \/ p = "claim" /\ q \in {"execute", "misrun"}
  \/ p = "execute" /\ q = "putBack"
  \/ p = "prove" /\ q = "move"
  \/ p = "reserve" /\ q = "assign"
  \/ p = "assign" /\ q = "record"
  \/ p = "record" /\ q = "rollback"
  \/ p = "rollback" /\ q \in {"rollbackAgent", "rollbackTask"}
  \/ p = "cancelRelease" /\ q = "cancel"
  \/ p = "reassignRelease" /\ q = "reassign"
  \/ p = "reassign" /\ q = "occupy"
  \/ p = "suspend" /\ q = "cascade"
  \/ /\ p \in {"giveUp", "execute", "misrun", "move", "assign", "timeoutFail"}
     /\ q = "release"

\* Only the request in slot w goes on: it ends, or stays about its task.
Along(w) ==
  /\ \A v \in Workers \ {w} : req'[v] = req[v]
  /\ req[w] # Idle
  /\ \/ req'[w] = Idle
     \/ req'[w].t = req[w].t /\ Flows(req[w].at, req'[w].at)

\* The ways in which a request goes on.
LEMMA GoesAlong ==
  ASSUME TypeInv, NEW w \in Workers, req[w].at # "idle",
         \/ End(w)
         \/ \E a : ReleaseNext(w, a) /\ Flows(req[w].at, "release")
         \/ \E p \in Awaits : Proceed(w, p) /\ Flows(req[w].at, p)
  PROVE  Along(w)
<1>0. req[w] # Idle /\ req \in [Workers -> Request]
  BY DEF Idle, TypeInv, RequestsTyped
<1>1. CASE End(w)
  BY <1>0, <1>1 DEF End, Along
<1>2. ASSUME NEW a, ReleaseNext(w, a), Flows(req[w].at, "release") PROVE Along(w)
  BY <1>0, <1>2 DEF ReleaseNext, Along, Idle
<1>3. ASSUME NEW p \in Awaits, Proceed(w, p), Flows(req[w].at, p)
      PROVE  Along(w)
  <2>1. req'[w].t = req[w].t /\ req'[w].at = p
    BY <1>0, <1>3 DEF Proceed, Request
  <2> QED
    BY <1>0, <1>3, <2>1 DEF Proceed, Along
<1> QED
  BY <1>1, <1>2, <1>3

\* Every step of a suspended request is one of them.
LEMMA ResumeAlong ==
  ASSUME TypeInv, NEW w \in Workers, Resume(w)
  PROVE  Along(w)
<1> USE GoesAlong DEF Flows, Awaits
<1>1. CASE AdvanceStep(w)
  <2>1. CASE Prove(w)
    <3>1. CASE req' = [req EXCEPT ![w].at = "move", ![w].step = "Complete"]
      <4>1. /\ \A v \in Workers \ {w} : req'[v] = req[v]
            /\ req'[w].t = req[w].t /\ req'[w].at = "move"
        BY <3>1 DEF TypeInv, RequestsTyped, Request
      <4> QED
        BY <2>1, <4>1 DEF Prove, Along, Idle
    <3> QED
      BY <2>1, <3>1 DEF Prove
  <2>2. CASE Claim(w)
    BY <2>2 DEF Claim
  <2>3. CASE Move(w)
    BY <2>3 DEF Move
  <2>4. CASE GiveUp(w)
    BY <2>4 DEF GiveUp, PersistFailure
  <2>5. ASSUME NEW retryable \in BOOLEAN, RunFails(w, retryable) PROVE Along(w)
    BY <2>5 DEF RunFails, PersistFailure
  <2> QED
    BY <1>1, <2>1, <2>2, <2>3, <2>4, <2>5 DEF AdvanceStep, RunSucceeds, PutBack
<1>2. CASE HireStep(w)
  <2>1. CASE Reserve(w)
    BY <2>1 DEF Reserve
  <2>2. CASE Assign(w)
    BY <2>2 DEF Assign
  <2> QED
    BY <1>2, <2>1, <2>2 DEF HireStep, Record, RollbackAgent, RollbackTask
<1>3. CASE TimeoutFail(w) \/ ReleaseAgent(w)
  BY <1>3 DEF TimeoutFail, ReleaseAgent
<1>4. CASE AdminStep(w)
  BY <1>4 DEF AdminStep, DeleteWrite, CancelRelease, CancelWrite, RetryWrite,
     ReassignRelease, ReassignWrite, Occupy, ResolveWrite, SuspendWrite, Cascade,
     UnsuspendWrite
<1> QED
  BY <1>1, <1>2, <1>3, <1>4 DEF Resume

\* So is a crash.
LEMMA CrashAlong ==
  ASSUME TypeInv, NEW w \in Workers, Crash(w)
  PROVE  Along(w)
  BY DEF Crash, End, Along, TypeInv, RequestsTyped

\* A request that goes on keeps the board serial.
LEMMA AlongSerial ==
  ASSUME TypeInv, Serial, NEW w \in Workers, Along(w)
  PROVE  Serial'
  BY DEF Serial, Along, Flows, Hires

\* So does one that arrives, for it waits until its task is free.
LEMMA ArriveSerial ==
  ASSUME TypeInv, Serial, Overlap = FALSE, NEW w \in Workers, Arrive(w)
  PROVE  Serial'
<1> USE BoardAssumption
<1>1. ASSUME NEW r, Begin(w, r),
             \/ r.t \notin Tasks
             \/ Free(w, r.t)
             \/ FreeForHire(w, r.t) /\ r.at \in Hires
      PROVE  Serial'
  <2>1. /\ \A v \in Workers \ {w} : req'[v] = req[v]
        /\ req'[w] = r
    BY <1>1 DEF Begin, TypeInv, RequestsTyped
  <2> QED
    BY <1>1, <2>1 DEF Serial, Free, FreeForHire, Hires
<1>2. ASSUME NEW t \in Tasks, Free(w, t), NEW p, NEW r, Begin(w, r),
             r.t = t
      PROVE  Serial'
  BY <1>1, <1>2
<1>3. ASSUME NEW t \in Tasks, AdvanceRead(w, t) PROVE Serial'
  <2> DEFINE row == task[t]
             moving == [About("move", t) EXCEPT !.step = NextStep[row.step]]
             claiming == [About("claim", t) EXCEPT !.a = row.agent,
                                                   !.attempts = row.attempts]
             closing == [About("giveUp", t) EXCEPT !.a = row.agent]
  <2>1. /\ moving.t = t /\ claiming.t = t /\ closing.t = t
        /\ About("prove", t).t = t
    BY DEF About, Idle
  <2>2. /\ Free(w, t)
        /\ \/ Begin(w, moving) \/ Begin(w, About("prove", t))
           \/ Begin(w, claiming) \/ Begin(w, closing)
    BY <1>3 DEF AdvanceRead
  <2> HIDE DEF moving, claiming, closing
  <2> QED
    BY <1>2, <2>1, <2>2
<1>4. ASSUME NEW t \in Tasks, TimeoutRead(w, t) PROVE Serial'
  <2> DEFINE r == [About("timeoutFail", t) EXCEPT !.a = task[t].agent,
                                                  !.step = task[t].step]
  <2>1. r.t = t
    BY DEF About, Idle
  <2> QED
    BY <1>2, <1>4, <2>1 DEF TimeoutRead
<1>5. ASSUME NEW t \in Tasks,
             DeleteRead(w, t) \/ RetryRead(w, t) \/ ResolveRead(w, t)
      PROVE  Serial'
  <2>1. \A p : About(p, t).t = t
    BY DEF About, Idle
  <2> QED
    BY <1>2, <1>5, <2>1 DEF DeleteRead, RetryRead, ResolveRead
<1>6. ASSUME NEW t \in Tasks, CancelRead(w, t) PROVE Serial'
  <2> DEFINE r == [About("cancelRelease", t) EXCEPT !.a = task[t].agent]
  <2>1. r.t = t /\ About("cancel", t).t = t
    BY DEF About, Idle
  <2> QED
    BY <1>2, <1>6, <2>1 DEF CancelRead
<1>7. ASSUME NEW t \in Tasks, NEW a \in Agents, HireRead(w, t, a) PROVE Serial'
  <2> DEFINE r == [About("reserve", t) EXCEPT !.a = a, !.step = task[t].step,
                                              !.age = task[t].age]
  <2>1. r.t = t /\ r.at \in Hires
    BY DEF About, Idle, Hires
  <2> QED
    BY <1>1, <1>7, <2>1 DEF HireRead
<1>8. ASSUME NEW t \in Tasks, NEW b \in Agents, ReassignRead(w, t, b) PROVE Serial'
  <2> DEFINE a == task[t].agent
             r == [About(IF a = NoAgent THEN "reassign" ELSE "reassignRelease", t)
                     EXCEPT !.a = a, !.b = b]
  <2>1. r.t = t
    BY DEF About, Idle
  <2> QED
    BY <1>2, <1>8, <2>1 DEF ReassignRead
<1>9. ASSUME NEW a \in Agents, SuspendRead(w, a) \/ UnsuspendRead(w, a)
      PROVE  Serial'
  <2>1. \A p : [Idle EXCEPT !.at = p, !.a = a].t \notin Tasks
    BY DEF Idle
  <2> QED
    BY <1>1, <1>9, <2>1 DEF SuspendRead, UnsuspendRead
<1> QED
  BY <1>3, <1>4, <1>5, <1>6, <1>7, <1>8, <1>9 DEF Arrive

\* The board stays serial.
LEMMA SerialStep ==
  ASSUME Overlap = FALSE
  PROVE  TypeInv /\ Serial /\ [Next]_vars => Serial'
  BY ResumeAlong, CrashAlong, AlongSerial, ArriveSerial
     DEF Next, CreateTask, Tick, vars, Serial

\* It starts empty.
LEMMA InitSerial == Init => Serial
  BY DEF Init, BoardInit, Serial

-----------------------------------------------------------------------------
(* What a handler's reads leave in its slot.                                *)

\* The task is active, at the step, and held by the agent that was read.
Staffs(r, step) == /\ Active(r.t)
                   /\ task[r.t].step = step
                   /\ task[r.t].agent = r.a
                   /\ r.a # NoAgent

OwnerRoutes == {"create", "delete", "advance", "hire", "timeouts"}

\* Where a request about a task is suspended first, by the routes called.
FirstAwaits == {"move", "prove", "claim", "giveUp", "timeoutFail", "delete",
                "reserve"}

FirstOverrides == {"cancel", "cancelRelease", "retry", "reassign",
                   "reassignRelease", "resolveRefund", "resolveRelease",
                   "suspend", "unsuspend"}

\* What was read still holds.
Current(r) ==
  /\ r.at \in TaskAwaits => r.t \in Tasks /\ Exists(r.t)
  /\ r.at \in {"claim", "giveUp"} => Staffs(r, "Assigned")
  /\ r.at \in {"prove", "move", "reserve", "timeoutFail"} => Active(r.t)
  /\ r.at = "move" => /\ ReadyToMove(task[r.t])
                      /\ r.step = NextStep[task[r.t].step]
  /\ r.at = "delete" => task[r.t].step \in {"Submitted", "Decomposed"}
  /\ r.at = "prove" => task[r.t].step = "Verifying"
  /\ r.at = "reserve" => task[r.t].agent = NoAgent
  /\ r.at = "timeoutFail" => task[r.t].agent = r.a

\* The request is one that arrives.
First(r) ==
  /\ r.at \in FirstAwaits \cup FirstOverrides
  /\ Handlers \subseteq OwnerRoutes => r.at \in FirstAwaits
  /\ "retry" \notin Handlers => r.at # "retry"
  /\ "reassign" \notin Handlers => r.at \notin {"reassign", "reassignRelease"}

\* The request that arrives, by the routes that are called.
LEMMA ArriveReads ==
  ASSUME TypeInv, NEW w \in Workers, Arrive(w)
  PROVE  /\ OnlyRequests
         /\ req[w] = Idle
         /\ \E r : Begin(w, r) /\ Current(r) /\ First(r)
<1> USE DEF Current, Staffs, Exists, First
<1> DEFINE Fine(r) == Begin(w, r) /\ Current(r) /\ First(r)
<1>1. OnlyRequests /\ req[w] = Idle
  BY DEF Arrive, AdvanceRead, TimeoutRead, DeleteRead, CancelRead, RetryRead,
         ResolveRead, HireRead, ReassignRead, SuspendRead, UnsuspendRead, Free,
         FreeForHire, FreeForAll
<1>2. ASSUME NEW t \in Tasks, AdvanceRead(w, t) PROVE \E r : Fine(r)
  <2> DEFINE row == task[t]
             moving == [About("move", t) EXCEPT !.step = NextStep[row.step]]
             proving == About("prove", t)
             claiming == [About("claim", t) EXCEPT !.a = row.agent,
                                                   !.attempts = row.attempts]
             closing == [About("giveUp", t) EXCEPT !.a = row.agent]
  <2>1. /\ moving.at = "move" /\ moving.t = t
        /\ moving.step = NextStep[row.step]
        /\ proving.at = "prove" /\ proving.t = t
        /\ claiming.at = "claim" /\ claiming.t = t /\ claiming.a = row.agent
        /\ closing.at = "giveUp" /\ closing.t = t /\ closing.a = row.agent
    BY DEF About, Idle
  <2>2. /\ row.status = "active"
        /\ \/ Begin(w, moving) /\ ReadyToMove(row)
           \/ Begin(w, proving) /\ row.step = "Verifying"
           \/ /\ Begin(w, claiming) \/ Begin(w, closing)
              /\ row.step = "Assigned" /\ row.agent # NoAgent
    BY <1>2 DEF AdvanceRead
  <2> HIDE DEF moving, proving, claiming, closing
  <2>3. CASE Begin(w, moving) /\ ReadyToMove(row)
    <3>1. Fine(moving)
      BY <2>1, <2>2, <2>3 DEF Active, FirstAwaits
    <3> QED
      BY <3>1
  <2>4. CASE Begin(w, proving) /\ row.step = "Verifying"
    <3>1. Fine(proving)
      BY <2>1, <2>2, <2>4 DEF Active, FirstAwaits
    <3> QED
      BY <3>1
  <2>5. CASE Begin(w, claiming) /\ row.step = "Assigned" /\ row.agent # NoAgent
    <3>1. Fine(claiming)
      BY <2>1, <2>2, <2>5 DEF Active, FirstAwaits
    <3> QED
      BY <3>1
  <2>6. CASE Begin(w, closing) /\ row.step = "Assigned" /\ row.agent # NoAgent
    <3>1. Fine(closing)
      BY <2>1, <2>2, <2>6 DEF Active, FirstAwaits
    <3> QED
      BY <3>1
  <2> QED
    BY <2>2, <2>3, <2>4, <2>5, <2>6
<1>3. ASSUME NEW t \in Tasks, TimeoutRead(w, t) PROVE \E r : Fine(r)
  <2> DEFINE r == [About("timeoutFail", t) EXCEPT !.a = task[t].agent,
                                                  !.step = task[t].step]
  <2>1. r.at = "timeoutFail" /\ r.t = t /\ r.a = task[t].agent
    BY DEF About, Idle
  <2>2. Begin(w, r) /\ Active(t)
    BY <1>3 DEF TimeoutRead
  <2> HIDE DEF r
  <2>3. Fine(r)
    BY <2>1, <2>2 DEF Active, FirstAwaits
  <2> QED
    BY <2>3
<1>4. ASSUME NEW t \in Tasks, DeleteRead(w, t) PROVE \E r : Fine(r)
  <2>1. About("delete", t).at = "delete" /\ About("delete", t).t = t
    BY DEF About, Idle
  <2>2. /\ Begin(w, About("delete", t)) /\ Exists(t)
        /\ task[t].step \in {"Submitted", "Decomposed"}
    BY <1>4 DEF DeleteRead
  <2>3. Fine(About("delete", t))
    BY <2>1, <2>2 DEF FirstAwaits
  <2> QED
    BY <2>3
<1>5. ASSUME NEW t \in Tasks, NEW a \in Agents, HireRead(w, t, a)
      PROVE  \E r : Fine(r)
  <2> DEFINE r == [About("reserve", t) EXCEPT !.a = a, !.step = task[t].step,
                                              !.age = task[t].age]
  <2>1. r.at = "reserve" /\ r.t = t
    BY DEF About, Idle
  <2>2. Begin(w, r) /\ Active(t) /\ task[t].agent = NoAgent
    BY <1>5 DEF HireRead
  <2> HIDE DEF r
  <2>3. Fine(r)
    BY <2>1, <2>2 DEF Active, FirstAwaits
  <2> QED
    BY <2>3
<1>6. ASSUME NEW t \in Tasks, NEW b \in Agents, ReassignRead(w, t, b)
      PROVE  \E r : Fine(r)
  <2> DEFINE a == task[t].agent
             p == IF a = NoAgent THEN "reassign" ELSE "reassignRelease"
             r == [About(p, t) EXCEPT !.a = a, !.b = b]
  <2>1. r.at \in {"reassign", "reassignRelease"} /\ r.t = t
    BY DEF About, Idle
  <2>2. Begin(w, r) /\ Exists(t) /\ "reassign" \in Handlers
    BY <1>6 DEF ReassignRead, Overrulable
  <2>3. ~(Handlers \subseteq OwnerRoutes)
    BY <2>2 DEF OwnerRoutes
  <2> HIDE DEF r
  <2>4. Fine(r)
    BY <2>1, <2>2, <2>3 DEF FirstOverrides
  <2> QED
    BY <2>4
<1>7. ASSUME NEW a \in Agents, SuspendRead(w, a) \/ UnsuspendRead(w, a)
      PROVE  \E r : Fine(r)
  <2>1. PICK p \in {"suspend", "unsuspend"} :
          Begin(w, [Idle EXCEPT !.at = p, !.a = a])
    BY <1>7 DEF SuspendRead, UnsuspendRead
  <2> DEFINE r == [Idle EXCEPT !.at = p, !.a = a]
  <2>2. r.at = p
    BY DEF Idle
  <2>3. ~(Handlers \subseteq OwnerRoutes)
    BY <1>7 DEF SuspendRead, UnsuspendRead, OwnerRoutes
  <2>4. Begin(w, r)
    BY <2>1
  <2> HIDE DEF r
  <2>5. Fine(r)
    BY <2>2, <2>3, <2>4 DEF FirstOverrides, TaskAwaits
  <2> QED
    BY <2>5
<1>8. ASSUME NEW t \in Tasks, CancelRead(w, t) \/ RetryRead(w, t)
      PROVE  \E r : Fine(r)
  <2> DEFINE r == [About("cancelRelease", t) EXCEPT !.a = task[t].agent]
  <2>1. /\ r.at = "cancelRelease" /\ r.t = t
        /\ About("cancel", t).at = "cancel" /\ About("cancel", t).t = t
        /\ About("retry", t).at = "retry" /\ About("retry", t).t = t
    BY DEF About, Idle
  <2>2. /\ Exists(t)
        /\ \/ Begin(w, r) \/ Begin(w, About("cancel", t))
           \/ Begin(w, About("retry", t)) /\ "retry" \in Handlers
    BY <1>8 DEF CancelRead, RetryRead, Overrulable
  <2>3. ~(Handlers \subseteq OwnerRoutes)
    BY <1>8 DEF CancelRead, RetryRead, OwnerRoutes
  <2> HIDE DEF r
  <2>4. Begin(w, r) => Fine(r)
    BY <2>1, <2>2, <2>3 DEF FirstOverrides
  <2>5. Begin(w, About("cancel", t)) => Fine(About("cancel", t))
    BY <2>1, <2>2, <2>3 DEF FirstOverrides
  <2>6. Begin(w, About("retry", t)) /\ "retry" \in Handlers
          => Fine(About("retry", t))
    BY <2>1, <2>2, <2>3 DEF FirstOverrides
  <2> QED
    BY <2>2, <2>4, <2>5, <2>6
<1>8a. ASSUME NEW t \in Tasks, ResolveRead(w, t) PROVE \E r : Fine(r)
  <2>1. \A p : About(p, t).at = p /\ About(p, t).t = t
    BY DEF About, Idle
  <2>2. PICK p \in {"resolveRefund", "resolveRelease"} : Begin(w, About(p, t))
    BY <1>8a DEF ResolveRead
  <2>3. Exists(t) /\ ~(Handlers \subseteq OwnerRoutes)
    BY <1>8a DEF ResolveRead, OwnerRoutes
  <2>4. Fine(About(p, t))
    BY <2>1, <2>2, <2>3 DEF FirstOverrides
  <2> QED
    BY <2>4
<1>9. \E r : Fine(r)
  BY <1>2, <1>3, <1>4, <1>5, <1>6, <1>7, <1>8, <1>8a DEF Arrive
<1> QED
  BY <1>1, <1>9

-----------------------------------------------------------------------------
(* Completed is complete.  The handlers that write a step without a test of *)
(* the status, the move and the undoing of a hire, read a task that is not  *)
(* completed, and on a serial board nothing completes it before they write. *)

OpenAwaits == {"move", "prove", "reserve", "assign", "record", "rollback",
               "rollbackAgent", "rollbackTask"}

Unfinished(w) ==
  req[w].at \in OpenAwaits => task[req[w].t].status # "completed"

CompleteInv == CompletedIsComplete /\ \A w \in Workers : Unfinished(w)

\* A row that is not completed by the step, and moved by none once completed.
Calm(old, new) ==
  new.status = "completed" => old.status = "completed" /\ new.step = old.step

\* A request at one of those awaits was at one before.
Opens ==
  \A v \in Workers : req'[v].at \in OpenAwaits =>
    /\ req[v].at \in OpenAwaits
    /\ req'[v].t = req[v].t

\* A calm step completes nothing.
LEMMA CalmComplete ==
  ASSUME TypeInv, CompleteInv, Opens,
         \A t \in Tasks : Calm(task[t], task'[t])
  PROVE  CompleteInv'
<1>1. \A v \in Workers : req[v].at \in OpenAwaits => req[v].t \in Tasks
  BY AboutTask DEF OpenAwaits, TaskAwaits, Awaits
<1> QED
  BY <1>1 DEF CompleteInv, CompletedIsComplete, Unfinished, Opens, Calm

\* A request that goes on opens nothing.
LEMMA AlongOpens ==
  ASSUME TypeInv, NEW w \in Workers, Along(w)
  PROVE  Opens
  BY DEF Along, Flows, Opens, OpenAwaits, Idle

\* A calm statement.
LEMMA UpdateCalm ==
  ASSUME TypeInv, NEW t \in Tasks, NEW cond, NEW row,
         Exists(t) /\ cond => Calm(task[t], row), UpdateWhere(t, cond, row)
  PROVE  \A u \in Tasks : Calm(task[u], task'[u])
  BY DEF UpdateWhere, Calm, TypeInv, TypeOK

\* Storing a failure completes nothing.
LEMMA PersistFailureCalm ==
  ASSUME TypeInv, NEW w \in Workers, req[w].t \in Tasks,
         NEW expected, NEW attempts, NEW terminal \in BOOLEAN,
         PersistFailure(w, expected, attempts, terminal)
  PROVE  \A u \in Tasks : Calm(task[u], task'[u])
<1> DEFINE t == req[w].t
           row == FailedRow(task[t], attempts, terminal)
<1>1. row.status # "completed"
  BY DEF FailedRow, TypeInv, TypeOK, Row
<1>2. \E cond \in BOOLEAN : UpdateWhere(t, cond, row)
  BY FailureWritten
<1> HIDE DEF row
<1> QED
  BY <1>1, <1>2, UpdateCalm DEF Calm

\* Every step of a suspended request but the move, and a release decided by an
\* operator, is calm.
LEMMA ResumeCalm ==
  ASSUME TypeInv, CompleteInv, NEW w \in Workers, Resume(w), ~Move(w),
         req[w].at # "resolveRelease"
  PROVE  \A u \in Tasks : Calm(task[u], task'[u])
<1> USE DEF TaskAwaits, Awaits
<1> DEFINE t == req[w].t
<1>1. ASSUME NEW u \in Tasks PROVE task[u] \in Row
  BY DEF TypeInv, TypeOK
<1>2. ASSUME t \in Tasks, NEW cond, NEW row, UpdateWhere(t, cond, row),
             Exists(t) /\ cond => Calm(task[t], row)
      PROVE  \A u \in Tasks : Calm(task[u], task'[u])
  BY <1>2, UpdateCalm
<1>3. ASSUME t \in Tasks, task[t].step # "Complete"
      PROVE  task[t].status # "completed"
  BY <1>3 DEF CompleteInv, CompletedIsComplete
<1>4. CASE GiveUp(w)
  BY <1>4, AboutTask, PersistFailureCalm DEF GiveUp
<1>5. ASSUME NEW retryable \in BOOLEAN, RunFails(w, retryable)
      PROVE  \A u \in Tasks : Calm(task[u], task'[u])
  <2> DEFINE attempts == req[w].attempts + 1
             terminal == ~retryable \/ attempts >= MaxAttempts
  <2>1. t \in Tasks /\ terminal \in BOOLEAN
    BY <1>5, AboutTask DEF RunFails
  <2>2. PersistFailure(w, "Executing", attempts, terminal)
    BY <1>5 DEF RunFails
  <2> HIDE DEF attempts, terminal
  <2> QED
    BY <2>1, <2>2, PersistFailureCalm
<1>6. CASE Claim(w)
  <2>1. t \in Tasks
    BY <1>6, AboutTask DEF Claim
  <2> DEFINE row == [task[t] EXCEPT !.step = "Executing", !.age = Fresh,
                                    !.result = "running", !.attempts = 0]
  <2>2. row.status = task[t].status
    BY <1>1, <2>1 DEF Row
  <2>3. UpdateWhere(t, task[t].step = "Assigned", row)
    BY <1>6 DEF Claim
  <2>4. task[t].step = "Assigned" => Calm(task[t], row)
    BY <1>3, <2>1, <2>2 DEF Calm
  <2> HIDE DEF row
  <2> QED
    BY <1>2, <2>1, <2>3, <2>4
<1>7. CASE RunSucceeds(w)
  <2>1. t \in Tasks
    BY <1>7, AboutTask DEF RunSucceeds
  <2> DEFINE row == [task[t] EXCEPT !.result = "succeeded", !.attempts = 0]
  <2>2. row.status = task[t].status /\ row.step = task[t].step
    BY <1>1, <2>1 DEF Row
  <2>3. task' = task \/ task' = [task EXCEPT ![t] = row]
    BY <1>7 DEF RunSucceeds, SetRow
  <2> HIDE DEF row
  <2> QED
    BY <2>1, <2>2, <2>3 DEF Calm, TypeInv, TypeOK
<1>8. CASE PutBack(w)
  <2>1. t \in Tasks
    BY <1>8, AboutTask DEF PutBack
  <2> DEFINE row == [task[t] EXCEPT !.step = "Assigned", !.age = Fresh]
  <2>2. row.status = task[t].status
    BY <1>1, <2>1 DEF Row
  <2>3. UpdateWhere(t, task[t].step = "Executing", row)
    BY <1>8 DEF PutBack
  <2>4. task[t].step = "Executing" => Calm(task[t], row)
    BY <1>3, <2>1, <2>2 DEF Calm
  <2> HIDE DEF row
  <2> QED
    BY <1>2, <2>1, <2>3, <2>4
<1>9. CASE Prove(w) \/ Reserve(w) \/ Record(w) \/ RollbackAgent(w)
           \/ CancelRelease(w) \/ ReassignRelease(w) \/ Occupy(w)
           \/ SuspendWrite(w) \/ UnsuspendWrite(w) \/ ReleaseAgent(w)
  <2>1. task' = task
    BY <1>9 DEF Prove, Reserve, Record, RollbackAgent, CancelRelease,
       ReassignRelease, Occupy, SuspendWrite, UnsuspendWrite, ReleaseAgent,
       OnlyAgents, OnlyRequests
  <2> QED
    BY <2>1 DEF Calm
<1>10. CASE Assign(w)
  <2>1. t \in Tasks
    BY <1>10, AboutTask DEF Assign
  <2> DEFINE row == HiredRow(t, req[w].a)
  <2>2. row.status = task[t].status
    BY <1>1, <2>1 DEF HiredRow, Row
  <2>3. \E cond \in BOOLEAN : (cond => Active(t)) /\ UpdateWhere(t, cond, row)
    BY <1>10, AssignWritten
  <2> HIDE DEF row
  <2> QED
    BY <1>2, <2>1, <2>2, <2>3 DEF Active, Calm
<1>11. CASE RollbackTask(w)
  <2>1. t \in Tasks
    BY <1>11, AboutTask DEF RollbackTask
  <2> DEFINE row == [task[t] EXCEPT !.agent = NoAgent, !.step = req[w].step,
                                    !.age = req[w].age]
  <2>2. row.status = task[t].status /\ task[t].status # "completed"
    BY <1>1, <1>11, <2>1 DEF Row, RollbackTask, CompleteInv, Unfinished,
       OpenAwaits
  <2>3. UpdateWhere(t, TRUE, row)
    BY <1>11 DEF RollbackTask
  <2> HIDE DEF row
  <2> QED
    BY <1>2, <2>1, <2>2, <2>3 DEF Calm
<1>12. CASE TimeoutFail(w)
  <2>1. t \in Tasks
    BY <1>12, AboutTask DEF TimeoutFail
  <2> DEFINE row == [task[t] EXCEPT !.status = "failed", !.age = Fresh,
                                    !.result = "fatal", !.attempts = 0]
  <2>2. row.status = "failed"
    BY <1>1, <2>1 DEF Row
  <2>3. UpdateWhere(t, Active(t), row)
    BY <1>12 DEF TimeoutFail
  <2> HIDE DEF row
  <2> QED
    BY <1>2, <2>1, <2>2, <2>3 DEF Calm
<1>13. CASE DeleteWrite(w)
  <2>1. t \in Tasks
    BY <1>13, AboutTask DEF DeleteWrite
  <2>2. [NoRow EXCEPT !.status = "deleted"].status = "deleted"
    BY DEF NoRow
  <2> QED
    BY <1>2, <1>13, <2>1, <2>2 DEF Calm, DeleteWrite
<1>14. CASE CancelWrite(w)
  <2>1. t \in Tasks
    BY <1>14, AboutTask DEF CancelWrite
  <2> DEFINE row == [task[t] EXCEPT !.status = "failed", !.age = Fresh]
  <2>2. row.status = "failed"
    BY <1>1, <2>1 DEF Row
  <2>3. UpdateWhere(t, TRUE, row)
    BY <1>14 DEF CancelWrite
  <2> HIDE DEF row
  <2> QED
    BY <1>2, <2>1, <2>2, <2>3 DEF Calm
<1>15. CASE RetryWrite(w) \/ ReassignWrite(w)
  <2>1. t \in Tasks
    BY <1>15, AboutTask DEF RetryWrite, ReassignWrite
  <2>2. \A a : Restarted(task[t], a).status = "active"
    BY <1>1, <2>1 DEF Restarted, Row
  <2>3. \E a : UpdateWhere(t, TRUE, Restarted(task[t], a))
    BY <1>15 DEF RetryWrite, ReassignWrite
  <2> QED
    BY <1>2, <2>1, <2>2, <2>3 DEF Calm
<1>16. CASE Cascade(w)
  BY <1>16 DEF Cascade, Calm, TypeInv, TypeOK, Row
<1>17. CASE ResolveWrite(w)
  <2>1. t \in Tasks
    BY <1>17, AboutTask DEF ResolveWrite
  <2>2. Refunded(task[t]).status = "failed"
    BY <1>1, <2>1 DEF Refunded, Row
  <2>3. UpdateWhere(t, TRUE, Refunded(task[t]))
    BY <1>17 DEF ResolveWrite
  <2> QED
    BY <1>2, <2>1, <2>2, <2>3 DEF Calm
<1> QED
  BY <1>4, <1>5, <1>6, <1>7, <1>8, <1>9, <1>10, <1>11, <1>12, <1>13, <1>14,
     <1>15, <1>16, <1>17 DEF Resume, AdvanceStep, HireStep, AdminStep

\* A request that ends and completes its task does so at step Complete, and on
\* a serial board no hire of the task is under way.
LEMMA EndComplete ==
  ASSUME TypeInv, Serial, CompleteInv, NEW w \in Workers, Resume(w),
         NEW t \in Tasks, t = req[w].t,
         req[w].at \in {"move", "resolveRelease"},
         \A u \in Tasks \ {t} : task'[u] = task[u],
         task'[t].status = "completed" => task'[t].step = "Complete",
         req'[w] = Idle \/ req'[w].at = "release"
  PROVE  CompleteInv'
<1>4. CompletedIsComplete'
  BY DEF CompleteInv, CompletedIsComplete
<1>5. Opens
  BY ResumeAlong, AlongOpens
<1>6. ASSUME NEW v \in Workers, req'[v].at \in OpenAwaits PROVE Unfinished(v)'
  <2>1. v # w
    BY <1>6 DEF OpenAwaits, Idle
  <2>2. /\ req[v].at \in OpenAwaits /\ req'[v].t = req[v].t
        /\ req[v].t \in Tasks /\ req[v] # Idle
    BY <1>5, <1>6, AboutTask DEF Opens, OpenAwaits, TaskAwaits, Awaits, Idle
  <2>3. req[w] # Idle /\ req[w].at \notin Hires
    BY DEF Idle, Hires
  <2>4. req[v].t # t
    BY <2>1, <2>2, <2>3 DEF Serial
  <2> QED
    BY <2>2, <2>4 DEF CompleteInv, Unfinished
<1> QED
  BY <1>4, <1>6 DEF CompleteInv, Unfinished

\* The move completes the task as it sets its step to Complete.
LEMMA MoveComplete ==
  ASSUME TypeInv, Serial, CompleteInv, NEW w \in Workers, Move(w)
  PROVE  CompleteInv'
<1>0. PICK t \in Tasks : t = req[w].t
  BY AboutTask DEF Move, TaskAwaits, Awaits
<1>1. task[t] \in Row /\ task[t].status # "completed"
  BY <1>0 DEF TypeInv, TypeOK, Move, CompleteInv, Unfinished, OpenAwaits
<1>2. /\ \A u \in Tasks \ {t} : task'[u] = task[u]
      /\ task'[t] \in {task[t], MovedRow(task[t], req[w].step)}
  BY <1>0 DEF Move, UpdateWhere, TypeInv, TypeOK
<1>3. task'[t].status = "completed" => task'[t].step = "Complete"
  BY <1>1, <1>2 DEF MovedRow, Row
<1>4. req'[w] = Idle \/ req'[w].at = "release"
  BY DEF Move, End, ReleaseNext, Idle, TypeInv, RequestsTyped
<1>5. Resume(w) /\ req[w].at = "move"
  BY DEF Move, Resume, AdvanceStep
<1> QED
  BY <1>0, <1>2, <1>3, <1>4, <1>5, EndComplete

\* So does the operator's decision.
LEMMA ReleaseComplete ==
  ASSUME TypeInv, Serial, CompleteInv, NEW w \in Workers, Resume(w),
         req[w].at = "resolveRelease"
  PROVE  CompleteInv'
<1>0. PICK t \in Tasks : t = req[w].t
  BY AboutTask DEF TaskAwaits, Awaits
<1>1. ResolveWrite(w)
  BY DEF Resume, AdvanceStep, GiveUp, Claim, RunSucceeds, PutBack, Prove, RunFails,
     Move, HireStep, Reserve, Assign, Record, RollbackAgent, RollbackTask,
     TimeoutFail, AdminStep, DeleteWrite, CancelRelease, CancelWrite, RetryWrite,
     ReassignRelease, ReassignWrite, Occupy, SuspendWrite, Cascade,
     UnsuspendWrite, ReleaseAgent
<1>2. UpdateWhere(t, TRUE, Released(task[t])) /\ End(w)
  BY <1>0, <1>1 DEF ResolveWrite
<1>3. task[t] \in Row
  BY DEF TypeInv, TypeOK
<1>4. /\ \A u \in Tasks \ {t} : task'[u] = task[u]
      /\ \/ task'[t] = Released(task[t])
         \/ task'[t] = task[t] /\ ~Exists(t)
  BY <1>2 DEF UpdateWhere, TypeInv, TypeOK
<1>5. task'[t].status = "completed" => task'[t].step = "Complete"
  BY <1>3, <1>4 DEF Released, Row, CompleteInv, CompletedIsComplete
<1>6. req'[w] = Idle
  BY <1>2 DEF End, TypeInv, RequestsTyped
<1> QED
  BY <1>0, <1>4, <1>5, <1>6, EndComplete

\* Every step keeps the invariant.
LEMMA CompleteStep ==
  TypeInv /\ Serial /\ CompleteInv /\ [Next]_vars => CompleteInv'
<1> SUFFICES ASSUME TypeInv, Serial, CompleteInv, [Next]_vars
             PROVE  CompleteInv'
  OBVIOUS
<1>1. ASSUME NEW t \in Tasks, CreateTask(t) \/ Tick(t) PROVE CompleteInv'
  <2>1. CASE CreateTask(t)
    <3>1. [NoRow EXCEPT !.status = "active"].status = "active"
      BY DEF NoRow
    <3>2. \A u \in Tasks : Calm(task[u], task'[u])
      BY <2>1, <3>1 DEF CreateTask, SetRow, Calm, TypeInv, TypeOK
    <3> QED
      BY <2>1, <3>2, CalmComplete DEF CreateTask, Opens
  <2>2. CASE Tick(t)
    <3>1. \A age : LET row == [task[t] EXCEPT !.age = age]
                   IN  row.status = task[t].status /\ row.step = task[t].step
      BY DEF TypeInv, TypeOK, Row
    <3>2. \E age : task' = [task EXCEPT ![t] = [task[t] EXCEPT !.age = age]]
      BY <2>2 DEF Tick, SetRow
    <3>3. \A u \in Tasks : Calm(task[u], task'[u])
      BY <3>1, <3>2 DEF Calm, TypeInv, TypeOK
    <3> QED
      BY <2>2, <3>3, CalmComplete DEF Tick, Opens
  <2> QED
    BY <1>1, <2>1, <2>2
<1>3. ASSUME NEW w \in Workers, Arrive(w) PROVE CompleteInv'
  <2>1. task' = task
    BY <1>3, ArriveReads DEF OnlyRequests
  <2>2. PICK r : Begin(w, r) /\ Current(r)
                 /\ (r.at \in OpenAwaits => r.at \in {"prove", "move", "reserve"})
    BY <1>3, ArriveReads
       DEF OpenAwaits, First, FirstAwaits, FirstOverrides
  <2>3. \A v \in Workers : req'[v] = req[v] \/ req'[v] = r
    BY <2>2 DEF Begin, TypeInv, RequestsTyped
  <2>4. r.at \in OpenAwaits => task[r.t].status # "completed"
    BY <2>2 DEF Current, Active
  <2> QED
    BY <2>1, <2>3, <2>4 DEF CompleteInv, CompletedIsComplete, Unfinished
<1>4. ASSUME NEW w \in Workers, Resume(w) PROVE CompleteInv'
  BY <1>4, ResumeAlong, AlongOpens, ResumeCalm, CalmComplete, MoveComplete,
     ReleaseComplete
<1>5. ASSUME NEW w \in Workers, Crash(w) PROVE CompleteInv'
  <2>1. Opens /\ task' = task
    BY <1>5, CrashAlong, AlongOpens DEF Crash, OnlyRequests
  <2> QED
    BY <2>1, CalmComplete DEF Calm
<1>6. CASE UNCHANGED vars
  BY <1>6 DEF vars, CompleteInv, CompletedIsComplete, Unfinished
<1> QED
  BY <1>1, <1>3, <1>4, <1>5, <1>6 DEF Next

\* A completed task is at step Complete, where its escrow can be released,
\* under every handler and every fault, when the calls about one task do not
\* overlap but for hires of it (advance/route.ts, the final update; the hire
\* route's rollback).
THEOREM CompletedAtComplete ==
  ASSUME Overlap = FALSE
  PROVE  Spec => []CompletedIsComplete
<1>1. Init => TypeInv /\ Serial /\ CompleteInv
  <2>1. Init => CompleteInv
    <3> SUFFICES ASSUME Init PROVE CompleteInv
      OBVIOUS
    <3>1. \A w \in Workers : req[w].at = "idle"
      BY DEF Init, BoardInit, Idle
    <3>2. \A a, result : LegacyRow(a, result).status = "active"
      BY DEF LegacyRow, NoRow
    <3>3. \A t \in Tasks : task[t].status # "completed"
      BY <3>2 DEF Init, BoardInit, NoRow
    <3> QED
      BY <3>1, <3>3 DEF CompleteInv, CompletedIsComplete, Unfinished, OpenAwaits
  <2> QED
    BY <2>1, InitTyped, InitSerial
<1>2. TypeInv /\ Serial /\ CompleteInv /\ [Next]_vars
        => TypeInv' /\ Serial' /\ CompleteInv'
  BY TypeStep, SerialStep, CompleteStep
<1>3. CompleteInv => CompletedIsComplete
  BY DEF CompleteInv
<1> QED
  BY <1>1, <1>2, <1>3, PTL DEF Spec

-----------------------------------------------------------------------------
(* One task per agent.  An agent reserved by a hire that has not assigned it*)
(* yet, or that a handler is about to release, belongs to that one request; *)
(* any other busy one to at most one active task.  What a handler read of   *)
(* its task and its agent stays true until it writes, for on a serial board *)
(* nobody else writes the row.                                              *)

OwnerAwaits == {"idle", "release", "claim", "giveUp", "execute", "putBack",
                "prove", "move", "reserve", "assign", "record", "timeoutFail",
                "delete"}

\* What the request in slot w has read of its task is true.
Local(w) ==
  LET r == req[w] IN
  /\ r.at \in OwnerAwaits
  /\ r.at \in {"claim", "giveUp"} => Staffs(r, "Assigned")
  /\ r.at \in {"execute", "putBack"} => Staffs(r, "Executing")
  /\ r.at \in {"prove", "move"} => Active(r.t)
  /\ r.at = "timeoutFail" => Active(r.t) /\ task[r.t].agent = r.a

\* The request has the agent to itself.
Keeps(r) == r.at \in {"assign", "release"}

Sole(w) == Keeps(req[w]) =>
  /\ agent[req[w].a] = "busy"
  /\ \A t \in Tasks : Active(t) => task[t].agent # req[w].a
  /\ \A v \in Workers : v # w /\ Keeps(req[v]) => req[v].a # req[w].a

HiresAreSole == /\ NoDoubleHire
                /\ AssigneeIsBusy
                /\ \A w \in Workers : Sole(w)

HireInv == HiresAreSole /\ \A w \in Workers : Local(w)

\* A row that gets no agent, and is not made active with one.
TakesNobody(old, new) ==
  new.status = "active" /\ new.agent # NoAgent =>
    old.status = "active" /\ new.agent = old.agent

\* A step that reserves, assigns and releases nobody.
LEMMA QuietHires ==
  ASSUME TypeInv, HiresAreSole, agent' = agent,
         \A u \in Tasks : TakesNobody(task[u], task'[u]),
         \A v \in Workers : Keeps(req'[v]) =>
           Keeps(req[v]) /\ req'[v].a = req[v].a
  PROVE  HiresAreSole'
<1>1. \A v \in Workers : Keeps(req[v]) => req[v].a # NoAgent
  BY BoardAssumption
     DEF Keeps, TypeInv, RequestsTyped, Shaped, AgentAwaits
<1>2. NoDoubleHire'
  BY DEF HiresAreSole, NoDoubleHire, TakesNobody, Active
<1>3. AssigneeIsBusy'
  BY DEF HiresAreSole, AssigneeIsBusy, TakesNobody, Active
<1>4. ASSUME NEW w \in Workers PROVE Sole(w)'
  <2> SUFFICES ASSUME Keeps(req'[w]) PROVE Sole(w)'
    BY DEF Sole
  <2>1. Keeps(req[w]) /\ req'[w].a = req[w].a /\ req[w].a # NoAgent /\ Sole(w)
    BY <1>1 DEF HiresAreSole
  <2> QED
    BY <2>1 DEF Sole, TakesNobody, Active
<1> QED
  BY <1>2, <1>3, <1>4 DEF HiresAreSole

\* A step that takes a task its agent off, to release the agent next.
LEMMA DroppingHires ==
  ASSUME TypeInv, HiresAreSole, NEW w \in Workers, NEW t \in Tasks,
         Active(t), task[t].agent \in Agents, agent' = agent,
         \A u \in Tasks \ {t} : task'[u] = task[u],
         task'[t].status # "active",
         \A v \in Workers \ {w} : req'[v] = req[v],
         req'[w].a = task[t].agent
  PROVE  HiresAreSole'
<1> DEFINE a == task[t].agent
<1>0. a # NoAgent
  BY BoardAssumption
<1>1. agent[a] = "busy"
  BY <1>0 DEF HiresAreSole, AssigneeIsBusy
<1>2. \A u \in Tasks : u # t /\ Active(u) => task[u].agent # a
  BY <1>0 DEF HiresAreSole, NoDoubleHire
<1>3. \A v \in Workers : Keeps(req[v]) => req[v].a # a
  BY DEF HiresAreSole, Sole
<1>4. NoDoubleHire'
  BY DEF HiresAreSole, NoDoubleHire, Active
<1>5. AssigneeIsBusy'
  BY DEF HiresAreSole, AssigneeIsBusy, Active
<1>6. ASSUME NEW v \in Workers PROVE Sole(v)'
  <2>1. CASE v = w
    BY <1>1, <1>2, <1>3, <2>1 DEF Sole, Active
  <2>2. CASE v # w
    BY <1>3, <2>2 DEF HiresAreSole, Sole, Active
  <2> QED
    BY <2>1, <2>2
<1> QED
  BY <1>4, <1>5, <1>6 DEF HiresAreSole

\* The compare-and-set that reserves an agent takes one that is nobody's.
LEMMA ReserveHires ==
  ASSUME TypeInv, HiresAreSole, NEW w \in Workers, Reserve(w),
         agent[req[w].a] = "online"
  PROVE  HiresAreSole'
<1> DEFINE a == req[w].a
<1>0. a \in Agents /\ a # NoAgent
  BY BoardAssumption DEF Reserve, TypeInv, RequestsTyped, Shaped, AgentAwaits
<1>1. /\ agent' = [agent EXCEPT ![a] = "busy"]
      /\ task' = task
      /\ \A v \in Workers \ {w} : req'[v] = req[v]
      /\ req'[w].a = a
  BY DEF Reserve, SetAgent, OnlyAgents, Proceed, TypeInv, RequestsTyped, Request
<1>2. \A u \in Tasks : Active(u) => task[u].agent # a
  BY <1>0 DEF HiresAreSole, AssigneeIsBusy
<1>3. \A v \in Workers : Keeps(req[v]) => req[v].a # a
  BY DEF HiresAreSole, Sole
<1>3a. \A v \in Workers : Keeps(req[v]) => req[v].a \in Agents
  BY DEF Keeps, TypeInv, RequestsTyped, Shaped, AgentAwaits
<1>4. /\ agent'[a] = "busy"
      /\ \A b \in Agents : agent[b] = "busy" => agent'[b] = "busy"
  BY <1>0, <1>1 DEF TypeInv, TypeOK
<1>5. NoDoubleHire'
  BY <1>1 DEF HiresAreSole, NoDoubleHire, Active
<1>6. AssigneeIsBusy'
  <2>1. \A u \in Tasks : task[u].agent \in Agents \cup {NoAgent}
    BY DEF TypeInv, TypeOK, Row
  <2> QED
    BY <1>1, <1>4, <2>1 DEF HiresAreSole, AssigneeIsBusy, Active
<1>7. ASSUME NEW v \in Workers PROVE Sole(v)'
  <2>1. CASE v = w
    BY <1>1, <1>2, <1>3, <1>4, <2>1 DEF Sole, Active
  <2>2. CASE v # w
    BY <1>1, <1>3, <1>3a, <1>4, <2>2 DEF HiresAreSole, Sole, Active
  <2> QED
    BY <2>1, <2>2
<1> QED
  BY <1>5, <1>6, <1>7 DEF HiresAreSole

\* The compare-and-set that assigns the task passes the agent on to it.
LEMMA AssignHires ==
  ASSUME TypeInv, HiresAreSole, "dbwrite" \notin Faults, NEW w \in Workers, Assign(w)
  PROVE  HiresAreSole'
<1>0. PICK t \in Tasks : t = req[w].t
  BY AboutTask DEF Assign, TaskAwaits, Awaits
<1>1. PICK a \in Agents : a = req[w].a
  BY DEF Assign, TypeInv, RequestsTyped, Shaped, AgentAwaits
<1> DEFINE open == Active(t) /\ task[t].agent = NoAgent
           row == [task[t] EXCEPT !.agent = req[w].a, !.step = "Assigned",
                                  !.age = Fresh]
<1>2. agent' = agent /\ Keeps(req[w]) /\ Sole(w) /\ a # NoAgent
  BY BoardAssumption DEF Assign, OnlyTasks, Keeps, HiresAreSole
<1>3. CASE ~open
  <2>1. task' = task
    BY <1>0, <1>3 DEF Assign, UpdateWhere, TypeInv, TypeOK
  <2>2. /\ \A v \in Workers \ {w} : req'[v] = req[v]
        /\ req'[w].a = a
    BY <1>0, <1>1, <1>2, <1>3 DEF Assign, ReleaseNext, Idle, TypeInv, RequestsTyped
  <2> QED
    BY <1>1, <1>2, <2>1, <2>2, QuietHires DEF TakesNobody
<1>4. CASE open
  <2>1. /\ \A u \in Tasks \ {t} : task'[u] = task[u]
        /\ task'[t].status = "active" /\ task'[t].agent = a
    <3>1. row.status = "active" /\ row.agent = a
      BY <1>1, <1>4 DEF Active, TypeInv, TypeOK, Row
    <3> QED
      BY <1>0, <1>4, <3>1 DEF Assign, UpdateWhere, Active, Exists, TypeInv, TypeOK
  <2>2. /\ \A v \in Workers \ {w} : req'[v] = req[v]
        /\ req'[w].at = "record"
    BY <1>0, <1>4 DEF Assign, Proceed, TypeInv, RequestsTyped, Request
  <2>3. \A u \in Tasks : Active(u) => task[u].agent # a
    BY <1>1, <1>2 DEF Sole
  <2>4. NoDoubleHire'
    BY <2>1, <2>3 DEF HiresAreSole, NoDoubleHire, Active
  <2>5. AssigneeIsBusy'
    BY <1>1, <1>2, <2>1 DEF HiresAreSole, AssigneeIsBusy, Sole, Active
  <2>6. ASSUME NEW v \in Workers PROVE Sole(v)'
    <3>1. CASE v = w
      BY <2>2, <3>1 DEF Sole, Keeps
    <3>2. CASE v # w
      <4>1. req'[v] = req[v] /\ Sole(v)
        BY <2>2, <3>2 DEF HiresAreSole
      <4>2. Keeps(req[v]) => req[v].a # a
        BY <1>1, <1>2, <3>2 DEF Sole
      <4>3. \A x \in Workers : Keeps(req'[x]) => req'[x] = req[x]
        BY <2>2 DEF Keeps
      <4> QED
        BY <1>2, <2>1, <4>1, <4>2, <4>3 DEF Sole, Active
    <3> QED
      BY <3>1, <3>2
  <2> QED
    BY <2>4, <2>5, <2>6 DEF HiresAreSole
<1> QED
  BY <1>3, <1>4

\* The release frees an agent nobody else has.
LEMMA ReleaseHires ==
  ASSUME TypeInv, HiresAreSole, NEW w \in Workers, ReleaseAgent(w)
  PROVE  HiresAreSole'
<1>1. PICK a \in Agents : a = req[w].a
  BY DEF ReleaseAgent, TypeInv, RequestsTyped, Shaped, AgentAwaits
<1>2. /\ task' = task
      /\ \A b \in Agents \ {a} : agent'[b] = agent[b]
      /\ \A v \in Workers \ {w} : req'[v] = req[v]
      /\ ~Keeps(req'[w])
  BY <1>1 DEF ReleaseAgent, SetAgent, End, OnlyAgents, Idle, Keeps, TypeInv,
     TypeOK, RequestsTyped
<1>3. Keeps(req[w]) /\ Sole(w)
  BY DEF ReleaseAgent, Keeps, HiresAreSole
<1>4. \A u \in Tasks : Active(u) => task[u].agent # a
  BY <1>1, <1>3 DEF Sole
<1>5. \A u \in Tasks : task[u].agent \in Agents \cup {NoAgent}
  BY DEF TypeInv, TypeOK, Row
<1>6. \A v \in Workers : Keeps(req[v]) => req[v].a \in Agents
  BY DEF Keeps, TypeInv, RequestsTyped, Shaped, AgentAwaits
<1>7. NoDoubleHire' /\ AssigneeIsBusy'
  BY <1>2, <1>4, <1>5 DEF HiresAreSole, NoDoubleHire, AssigneeIsBusy, Active
<1>8. ASSUME NEW v \in Workers PROVE Sole(v)'
  <2> SUFFICES ASSUME Keeps(req'[v]) PROVE Sole(v)'
    BY DEF Sole
  <2>1. v # w /\ req'[v] = req[v] /\ Sole(v)
    BY <1>2 DEF HiresAreSole
  <2>2. req[v].a \in Agents \ {a}
    BY <1>1, <1>3, <1>6, <2>1 DEF Sole
  <2> QED
    BY <1>2, <2>1, <2>2 DEF Sole, Active
<1> QED
  BY <1>7, <1>8 DEF HiresAreSole

\* What the other requests have read stays true, whatever one of them does to
\* its own task.
LEMMA LocalOthers ==
  ASSUME TypeInv, Serial, NEW w \in Workers, Along(w), req[w].t \in Tasks,
         \A v \in Workers : Local(v),
         \A u \in Tasks \ {req[w].t} : task'[u] = task[u]
  PROVE  \A v \in Workers \ {w} : Local(v)'
<1> SUFFICES ASSUME NEW v \in Workers \ {w} PROVE Local(v)'
  OBVIOUS
<1>1. req'[v] = req[v] /\ req[w] # Idle /\ Local(v)
  BY DEF Along
<1>2. CASE req[v].at \in Hires \cup {"idle", "delete"}
  BY <1>1, <1>2 DEF Local, Hires
<1>3. CASE req[v].at \notin Hires \cup {"idle", "delete"}
  <2>1. req[v] # Idle /\ req[v].at \in TaskAwaits
    BY <1>1, <1>3 DEF Idle, Local, OwnerAwaits, TaskAwaits, Awaits
  <2>2. req[v].t \in Tasks \ {req[w].t}
    BY <1>1, <1>3, <2>1, AboutTask DEF Serial
  <2>3. task'[req[v].t] = task[req[v].t]
    BY <2>2
  <2> QED
    BY <1>1, <2>3 DEF Local, Staffs, Active
<1> QED
  BY <1>2, <1>3

\* A request that ends, or goes on to release an agent, has read all it will.
LEMMA LastReads ==
  ASSUME TypeInv, NEW w \in Workers, End(w) \/ \E a : ReleaseNext(w, a)
  PROVE  Local(w)'
<1>1. req'[w] = Idle \/ req'[w].at = "release"
  BY ZenonT(40) DEF End, ReleaseNext, Idle, TypeInv, RequestsTyped
<1> QED
  BY <1>1 DEF Local, OwnerAwaits, Idle

\* A statement about the task of the request in slot w, and what it goes on
\* to, when nobody is reserved, assigned or released.
LEMMA OwnStatement ==
  ASSUME TypeInv, Serial, HireInv, NEW w \in Workers, Resume(w),
         NEW t \in Tasks, t = req[w].t, agent' = agent,
         \A u \in Tasks \ {t} : task'[u] = task[u],
         TakesNobody(task[t], task'[t]),
         Keeps(req'[w]) => Keeps(req[w]) /\ req'[w].a = req[w].a,
         Local(w)'
  PROVE  HireInv'
<1>1. Along(w)
  BY ResumeAlong
<1>2. \A v \in Workers : Local(v)'
  BY <1>1, LocalOthers DEF HireInv
<1>3. \A v \in Workers : Keeps(req'[v]) => Keeps(req[v]) /\ req'[v].a = req[v].a
  BY <1>1 DEF Along
<1>4. \A u \in Tasks : TakesNobody(task[u], task'[u])
  BY DEF TakesNobody
<1> QED
  BY <1>2, <1>3, <1>4, QuietHires DEF HireInv

\* A task comes to its end, and its agent is released next, if it has one.
LEMMA TaskEnds ==
  ASSUME TypeInv, Serial, HireInv, NEW w \in Workers, Resume(w),
         NEW t \in Tasks, t = req[w].t, agent' = agent,
         Active(t), NEW row, row.status # "active",
         NEW cond, cond, UpdateWhere(t, cond, row),
         ReleaseNext(w, task[t].agent)
  PROVE  HireInv'
<1>1. /\ \A u \in Tasks \ {t} : task'[u] = task[u]
      /\ task'[t].status # "active"
  BY DEF UpdateWhere, Active, Exists, TypeInv, TypeOK
<1>2. Local(w)'
  BY LastReads
<1>3. task[t].agent \in Agents \cup {NoAgent}
  BY DEF TypeInv, TypeOK, Row
<1>4. CASE task[t].agent = NoAgent
  <2>1. ~Keeps(req'[w])
    BY <1>4 DEF ReleaseNext, Keeps, Idle, TypeInv, RequestsTyped
  <2> QED
    BY <1>1, <1>2, <2>1, OwnStatement DEF TakesNobody
<1>5. CASE task[t].agent # NoAgent
  <2>1. /\ req'[w].a = task[t].agent
        /\ \A v \in Workers \ {w} : req'[v] = req[v]
    BY <1>5 DEF ReleaseNext, Idle, TypeInv, RequestsTyped
  <2>2. HiresAreSole'
    BY <1>1, <1>3, <1>5, <2>1, DroppingHires DEF HireInv
  <2>3. \A v \in Workers : Local(v)'
    BY <1>1, <1>2, ResumeAlong, LocalOthers DEF HireInv
  <2> QED
    BY <2>2, <2>3 DEF HireInv
<1> QED
  BY <1>4, <1>5

\* Every step of a suspended request, when the routes are those of a task's
\* normal course and its deletion, and no hire has to be undone.
LEMMA ResumeHires ==
  ASSUME TypeInv, Serial, HireInv, Faults \cap {"insert", "dbwrite"} = {},
         NEW w \in Workers, Resume(w)
  PROVE  HireInv'
<1> USE DEF TaskAwaits, Awaits
<1>1. Local(w)
  BY DEF HireInv
<1>2. ASSUME NEW u \in Tasks PROVE task[u] \in Row
  BY DEF TypeInv, TypeOK
<1>3. ASSUME NEW t \in Tasks, NEW cond, NEW row, UpdateWhere(t, cond, row)
      PROVE  /\ \A u \in Tasks \ {t} : task'[u] = task[u]
             /\ task'[t] = IF Exists(t) /\ cond THEN row ELSE task[t]
  BY <1>3 DEF UpdateWhere, TypeInv, TypeOK
<1>4. ASSUME NEW p, Proceed(w, p)
      PROVE  req'[w].at = p /\ req'[w].t = req[w].t /\ req'[w].a = req[w].a
  BY <1>4 DEF Proceed, TypeInv, RequestsTyped, Request
<1>5. End(w) => ~Keeps(req'[w])
  BY DEF End, Keeps, Idle, TypeInv, RequestsTyped
<1>6. CASE GiveUp(w)
  <2>1. PICK t \in Tasks : t = req[w].t
    BY <1>6, AboutTask DEF GiveUp
  <2>2. Active(t) /\ task[t].step = "Assigned" /\ req[w].a = task[t].agent
    BY <1>1, <1>6, <2>1 DEF GiveUp, Local, Staffs
  <2>3. FailedRow(task[t], 0, TRUE).status # "active"
    BY <1>2 DEF FailedRow, Row
  <2>4. /\ UpdateWhere(t, task[t].step = "Assigned", FailedRow(task[t], 0, TRUE))
        /\ ReleaseNext(w, task[t].agent) /\ agent' = agent
    BY <1>6, <2>1, <2>2 DEF GiveUp, PersistFailure, OnlyTasks
  <2> QED
    BY <2>1, <2>2, <2>3, <2>4, TaskEnds
<1>7. CASE Claim(w)
  <2>1. PICK t \in Tasks : t = req[w].t
    BY <1>7, AboutTask DEF Claim
  <2> DEFINE row == [task[t] EXCEPT !.step = "Executing", !.age = Fresh,
                                    !.result = "running", !.attempts = 0]
  <2>2. /\ Active(t) /\ Exists(t) /\ task[t].step = "Assigned"
        /\ task[t].agent = req[w].a /\ req[w].a # NoAgent
    BY <1>1, <1>7, <2>1 DEF Claim, Local, Staffs, Active, Exists
  <2>3. row.status = "active" /\ row.step = "Executing" /\ row.agent = task[t].agent
    BY <1>2, <2>2 DEF Row, Active
  <2>4. /\ \A u \in Tasks \ {t} : task'[u] = task[u]
        /\ task'[t] = row
    BY <1>3, <1>7, <2>1, <2>2 DEF Claim
  <2>5. Proceed(w, "execute") /\ agent' = agent
    BY <1>7, <2>1, <2>2 DEF Claim, OnlyTasks
  <2> HIDE DEF row
  <2>6. Local(w)'
    BY <1>4, <2>1, <2>2, <2>3, <2>4, <2>5
       DEF Local, OwnerAwaits, Staffs, Active
  <2>7. ~Keeps(req'[w])
    BY <1>4, <2>5 DEF Keeps
  <2> QED
    BY <2>1, <2>2, <2>3, <2>4, <2>5, <2>6, <2>7, OwnStatement
       DEF TakesNobody, Active
<1>8. CASE RunSucceeds(w)
  <2>1. PICK t \in Tasks : t = req[w].t
    BY <1>8, AboutTask DEF RunSucceeds
  <2> DEFINE row == [task[t] EXCEPT !.result = "succeeded", !.attempts = 0]
  <2>2. Staffs(req[w], "Executing")
    BY <1>1, <1>8 DEF RunSucceeds, Local
  <2>3. /\ row.status = task[t].status /\ row.step = task[t].step
        /\ row.agent = task[t].agent
    BY <1>2 DEF Row
  <2>4. /\ task' = task \/ task' = [task EXCEPT ![t] = row]
        /\ agent' = agent
        /\ End(w) \/ Proceed(w, "putBack")
    BY <1>8, <2>1 DEF RunSucceeds, SetRow
  <2> HIDE DEF row
  <2>5. /\ \A u \in Tasks \ {t} : task'[u] = task[u]
        /\ task'[t].status = task[t].status
        /\ task'[t].step = task[t].step
        /\ task'[t].agent = task[t].agent
    BY <2>3, <2>4 DEF TypeInv, TypeOK
  <2>6. Local(w)'
    <3>1. CASE Proceed(w, "putBack")
      BY <1>4, <2>1, <2>2, <2>5, <3>1 DEF Local, OwnerAwaits, Staffs, Active
    <3> QED
      BY <2>4, <3>1, LastReads
  <2>7. ~Keeps(req'[w])
    BY <1>4, <1>5, <2>4 DEF Keeps
  <2> QED
    BY <2>1, <2>4, <2>5, <2>6, <2>7, OwnStatement DEF TakesNobody
<1>9. ASSUME NEW retryable \in BOOLEAN, RunFails(w, retryable) PROVE HireInv'
  <2>1. PICK t \in Tasks : t = req[w].t
    BY <1>9, AboutTask DEF RunFails
  <2> DEFINE attempts == req[w].attempts + 1
             terminal == ~retryable \/ attempts >= MaxAttempts
             row == FailedRow(task[t], attempts, terminal)
  <2>2. /\ Active(t) /\ Exists(t) /\ task[t].step = "Executing"
        /\ task[t].agent = req[w].a
    BY <1>1, <1>9, <2>1 DEF RunFails, Local, OwnerAwaits, Staffs, Active, Exists
  <2>3. terminal \in BOOLEAN /\ PersistFailure(w, "Executing", attempts, terminal)
    BY <1>9 DEF RunFails
  <2>4. /\ UpdateWhere(t, task[t].step = "Executing", row)
        /\ agent' = agent
        /\ terminal => ReleaseNext(w, task[t].agent)
        /\ ~terminal => End(w)
    BY <2>1, <2>2, <2>3 DEF PersistFailure, OnlyTasks
  <2>5. /\ row.agent = task[t].agent
        /\ terminal => row.status # "active"
    BY <1>2 DEF FailedRow, Row
  <2> HIDE DEF row, terminal, attempts
  <2>6. CASE terminal
    BY <2>1, <2>2, <2>4, <2>5, <2>6, TaskEnds
  <2>7. CASE ~terminal
    <3>1. /\ \A u \in Tasks \ {t} : task'[u] = task[u]
          /\ task'[t] = row
      BY <1>3, <2>2, <2>4
    <3> QED
      BY <1>5, <2>1, <2>2, <2>4, <2>5, <2>7, <3>1, LastReads, OwnStatement
         DEF TakesNobody, Active
  <2> QED
    BY <2>3, <2>6, <2>7
<1>10. CASE PutBack(w)
  <2>1. PICK t \in Tasks : t = req[w].t
    BY <1>10, AboutTask DEF PutBack
  <2> DEFINE row == [task[t] EXCEPT !.step = "Assigned", !.age = Fresh]
  <2>2. row.status = task[t].status /\ row.agent = task[t].agent
    BY <1>2 DEF Row
  <2>3. UpdateWhere(t, task[t].step = "Executing", row)
        /\ End(w) /\ agent' = agent
    BY <1>10, <2>1 DEF PutBack, OnlyTasks
  <2> HIDE DEF row
  <2>4. /\ \A u \in Tasks \ {t} : task'[u] = task[u]
        /\ TakesNobody(task[t], task'[t])
    BY <1>3, <2>2, <2>3 DEF TakesNobody
  <2> QED
    BY <1>5, <2>1, <2>3, <2>4, LastReads, OwnStatement
<1>11. CASE Prove(w)
  <2>1. PICK t \in Tasks : t = req[w].t
    BY <1>11, AboutTask DEF Prove
  <2>2. task' = task /\ agent' = agent /\ Active(t)
    BY <1>1, <1>11, <2>1 DEF Prove, Local
  <2>3. CASE req' = [req EXCEPT ![w].at = "move", ![w].step = "Complete"]
    <3>1. req'[w].at = "move" /\ req'[w].t = t
      BY <2>1, <2>3 DEF TypeInv, RequestsTyped, Request
    <3>2. Local(w)' /\ ~Keeps(req'[w])
      BY <2>2, <3>1 DEF Local, OwnerAwaits, Active, Keeps
    <3> QED
      BY <2>1, <2>2, <3>2, OwnStatement DEF TakesNobody
  <2>4. CASE End(w)
    BY <1>5, <2>1, <2>2, <2>4, LastReads, OwnStatement DEF TakesNobody
  <2> QED
    BY <1>11, <2>3, <2>4 DEF Prove
<1>12. CASE Move(w)
  <2>1. PICK t \in Tasks : t = req[w].t
    BY <1>12, AboutTask DEF Move
  <2> DEFINE row == MovedRow(task[t], req[w].step)
  <2>2. Active(t) /\ Exists(t)
    BY <1>1, <1>12, <2>1 DEF Move, Local, Active, Exists
  <2>3. UpdateWhere(t, TRUE, row) /\ agent' = agent
    BY <1>12, <2>1 DEF Move, OnlyTasks
  <2>4. CASE req[w].step = "Complete"
    <3>1. row.status # "active"
      BY <1>2, <2>4 DEF MovedRow, Row
    <3>2. ReleaseNext(w, task[t].agent)
      BY <1>12, <2>1, <2>2, <2>4 DEF Move
    <3> HIDE DEF row
    <3> QED
      BY <2>1, <2>2, <2>3, <3>1, <3>2, TaskEnds
  <2>5. CASE req[w].step # "Complete"
    <3>1. row.status = task[t].status /\ row.agent = task[t].agent
      BY <1>2, <2>5 DEF MovedRow, Row
    <3>2. End(w)
      BY <1>12, <2>5 DEF Move
    <3> HIDE DEF row
    <3>3. /\ \A u \in Tasks \ {t} : task'[u] = task[u]
          /\ TakesNobody(task[t], task'[t])
      BY <1>3, <2>3, <3>1 DEF TakesNobody
    <3> QED
      BY <1>5, <2>1, <2>3, <3>2, <3>3, LastReads, OwnStatement
  <2> QED
    BY <2>4, <2>5
<1>13. ASSUME NEW t \in Tasks, t = req[w].t, task' = task, Along(w),
              Local(w)', HiresAreSole'
       PROVE  HireInv'
  BY <1>13, LocalOthers DEF HireInv
<1>14. CASE Reserve(w)
  <2>1. PICK t \in Tasks : t = req[w].t
    BY <1>14, AboutTask DEF Reserve
  <2>2. task' = task
    BY <1>14 DEF Reserve, OnlyAgents
  <2>3. CASE agent[req[w].a] = "online"
    <3>1. req'[w].at = "assign"
      BY <1>4, <1>14, <2>3 DEF Reserve
    <3>2. Local(w)'
      BY <3>1 DEF Local, OwnerAwaits
    <3> QED
      BY <1>13, <1>14, <2>1, <2>2, <2>3, <3>2, ResumeAlong, ReserveHires
         DEF HireInv
  <2>4. CASE agent[req[w].a] # "online"
    <3>1. agent' = agent /\ End(w)
      BY <1>14, <2>4 DEF Reserve
    <3> QED
      BY <1>5, <2>1, <2>2, <3>1, LastReads, OwnStatement DEF TakesNobody
  <2> QED
    BY <2>3, <2>4
<1>15. CASE Assign(w)
  <2>1. PICK t \in Tasks : t = req[w].t
    BY <1>15, AboutTask DEF Assign
  <2>2. Local(w)'
    <3>1. CASE Proceed(w, "record")
      BY <1>4, <3>1 DEF Local, OwnerAwaits
    <3> QED
      BY <1>15, <3>1, LastReads DEF Assign
  <2>3. \A u \in Tasks \ {t} : task'[u] = task[u]
    BY <1>3, <1>15, <2>1 DEF Assign
  <2> QED
    BY <1>15, <2>1, <2>2, <2>3, ResumeAlong, LocalOthers, AssignHires DEF HireInv
<1>16. CASE Record(w)
  <2>1. PICK t \in Tasks : t = req[w].t
    BY <1>16, AboutTask DEF Record
  <2>2. End(w) /\ task' = task /\ agent' = agent
    BY <1>16 DEF Record, OnlyRequests
  <2> QED
    BY <1>5, <2>1, <2>2, LastReads, OwnStatement DEF TakesNobody
<1>17. CASE TimeoutFail(w)
  <2>1. PICK t \in Tasks : t = req[w].t
    BY <1>17, AboutTask DEF TimeoutFail
  <2> DEFINE row == [task[t] EXCEPT !.status = "failed", !.age = Fresh,
                                    !.result = "fatal", !.attempts = 0]
  <2>2. Active(t) /\ task[t].agent = req[w].a
    BY <1>1, <1>17, <2>1 DEF TimeoutFail, Local
  <2>3. row.status # "active"
    BY <1>2 DEF Row
  <2>4. /\ UpdateWhere(t, Active(t), row)
        /\ ReleaseNext(w, task[t].agent) /\ agent' = agent
    BY <1>17, <2>1, <2>2 DEF TimeoutFail, OnlyTasks
  <2> HIDE DEF row
  <2> QED
    BY <2>1, <2>2, <2>3, <2>4, TaskEnds
<1>18. CASE DeleteWrite(w)
  <2>1. PICK t \in Tasks : t = req[w].t
    BY <1>18, AboutTask DEF DeleteWrite
  <2>2. [NoRow EXCEPT !.status = "deleted"].status = "deleted"
    BY DEF NoRow
  <2>3. UpdateWhere(t, TRUE, [NoRow EXCEPT !.status = "deleted"])
        /\ End(w) /\ agent' = agent
    BY <1>18, <2>1 DEF DeleteWrite, OnlyTasks
  <2>4. /\ \A u \in Tasks \ {t} : task'[u] = task[u]
        /\ TakesNobody(task[t], task'[t])
    BY <1>3, <2>2, <2>3 DEF TakesNobody
  <2> QED
    BY <1>5, <2>1, <2>3, <2>4, LastReads, OwnStatement
<1>19. CASE ReleaseAgent(w)
  <2>1. PICK t \in Tasks : t = req[w].t
    BY <1>19, AboutTask DEF ReleaseAgent
  <2>2. End(w) /\ task' = task
    BY <1>19 DEF ReleaseAgent, OnlyAgents
  <2> QED
    BY <1>13, <1>19, <2>1, <2>2, ResumeAlong, LastReads, ReleaseHires DEF HireInv
<1>20. ~ \/ RollbackAgent(w) \/ RollbackTask(w) \/ CancelRelease(w)
         \/ CancelWrite(w) \/ RetryWrite(w) \/ ReassignRelease(w)
         \/ ReassignWrite(w) \/ Occupy(w) \/ SuspendWrite(w) \/ Cascade(w)
         \/ UnsuspendWrite(w) \/ ResolveWrite(w)
  BY <1>1 DEF Local, OwnerAwaits, RollbackAgent, RollbackTask, CancelRelease,
     CancelWrite, RetryWrite, ReassignRelease, ReassignWrite, Occupy, ResolveWrite,
     SuspendWrite, Cascade, UnsuspendWrite
<1> QED
  BY <1>6, <1>7, <1>8, <1>9, <1>10, <1>11, <1>12, <1>14, <1>15, <1>16, <1>17,
     <1>18, <1>19, <1>20 DEF Resume, AdvanceStep, HireStep, AdminStep

\* What arrives has read the truth and has no agent to itself yet.
LEMMA ArriveHires ==
  ASSUME TypeInv, HireInv, Handlers \subseteq OwnerRoutes,
         NEW w \in Workers, Arrive(w)
  PROVE  HireInv'
<1>1. task' = task /\ agent' = agent
  BY ArriveReads DEF OnlyRequests
<1>2. PICK r : Begin(w, r) /\ Current(r) /\ r.at \in FirstAwaits
  BY ArriveReads DEF First
<1>3. \A v \in Workers : req'[v] = req[v] \/ req'[v] = r
  BY <1>2 DEF Begin, TypeInv, RequestsTyped
<1>4. r.at \in OwnerAwaits \ {"execute", "putBack"} /\ ~Keeps(r)
  BY <1>2 DEF FirstAwaits, OwnerAwaits, Keeps
<1>5. \A v \in Workers : Local(v)'
  <2> SUFFICES ASSUME NEW v \in Workers PROVE Local(v)'
    OBVIOUS
  <2>1. CASE req'[v] = req[v]
    BY <1>1, <2>1 DEF HireInv, Local, Staffs, Active
  <2>2. CASE req'[v] = r
    BY <1>1, <1>2, <1>4, <2>2 DEF Local, Current, Staffs, Active
  <2> QED
    BY <1>3, <2>1, <2>2
<1>6. HiresAreSole'
  BY <1>1, <1>3, <1>4, QuietHires DEF HireInv, TakesNobody
<1> QED
  BY <1>5, <1>6 DEF HireInv

\* The initial database: the rows left by an earlier release each hold an
\* agent of their own, and it is busy.
LEMMA InitHires == Init => HireInv
<1> SUFFICES ASSUME Init PROVE HireInv
  OBVIOUS
<1>1. PICK holder \in [LegacyTasks -> Agents],
           result \in [LegacyTasks -> {"unflagged", "retryable"}] :
        /\ \A t, u \in LegacyTasks : holder[t] = holder[u] => t = u
        /\ task = [t \in Tasks |-> IF t \in LegacyTasks
                                   THEN LegacyRow(holder[t], result[t])
                                   ELSE NoRow]
        /\ agent = [a \in Agents |->
                      IF \E t \in LegacyTasks : holder[t] = a
                      THEN "busy" ELSE "online"]
  BY DEF Init, BoardInit
<1>2. \A a, rs : LegacyRow(a, rs).agent = a
  BY DEF LegacyRow, NoRow
<1>3. NoRow.status = "none"
  BY DEF NoRow
<1>4. \A t \in Tasks : Active(t) =>
        /\ t \in LegacyTasks
        /\ task[t].agent = holder[t]
        /\ agent[holder[t]] = "busy"
  BY <1>1, <1>2, <1>3 DEF Active
<1>5. NoDoubleHire /\ AssigneeIsBusy
  BY <1>1, <1>4 DEF NoDoubleHire, AssigneeIsBusy
<1>6. \A w \in Workers : req[w].at = "idle"
  BY DEF Init, BoardInit, Idle
<1> QED
  BY <1>5, <1>6 DEF HireInv, HiresAreSole, Sole, Keeps, Local, OwnerAwaits

\* Every step keeps the invariant.
LEMMA HireInvStep ==
  ASSUME Handlers \subseteq OwnerRoutes, Faults \cap {"insert", "dbwrite"} = {}
  PROVE  TypeInv /\ Serial /\ HireInv /\ [Next]_vars => HireInv'
<1> SUFFICES ASSUME TypeInv, Serial, HireInv, [Next]_vars PROVE HireInv'
  OBVIOUS
<1>1. ASSUME req' = req, agent' = agent, NEW t \in Tasks,
             \A u \in Tasks \ {t} : task'[u] = task[u],
             TakesNobody(task[t], task'[t]),
             Active(t) => /\ task'[t].status = "active"
                          /\ task'[t].step = task[t].step
                          /\ task'[t].agent = task[t].agent
      PROVE  HireInv'
  <2>1. HiresAreSole'
    BY <1>1, QuietHires DEF HireInv, TakesNobody
  <2>2. ASSUME NEW w \in Workers PROVE Local(w)'
    <3>1. req[w].at \in TaskAwaits => req[w].t \in Tasks
      BY AboutTask
    <3>2. Local(w)
      BY DEF HireInv
    <3>3. req[w].t \in Tasks /\ Active(req[w].t) =>
            /\ task'[req[w].t].status = "active"
            /\ task'[req[w].t].step = task[req[w].t].step
            /\ task'[req[w].t].agent = task[req[w].t].agent
      BY <1>1 DEF Active
    <3> QED
      BY <1>1, <3>1, <3>2, <3>3 DEF Local, Staffs, Active, TaskAwaits, Awaits
  <2> QED
    BY <2>1, <2>2 DEF HireInv
<1>2. ASSUME NEW t \in Tasks, CreateTask(t) PROVE HireInv'
  <2>1. [NoRow EXCEPT !.status = "active"].agent = NoAgent
    BY DEF NoRow
  <2> QED
    BY <1>1, <1>2, <2>1
       DEF CreateTask, SetRow, TakesNobody, Active, TypeInv, TypeOK
<1>3. ASSUME NEW t \in Tasks, Tick(t) PROVE HireInv'
  <2>1. \A age : LET row == [task[t] EXCEPT !.age = age]
                 IN  /\ row.status = task[t].status
                     /\ row.step = task[t].step
                     /\ row.agent = task[t].agent
    BY DEF TypeInv, TypeOK, Row
  <2>2. \E age : task' = [task EXCEPT ![t] = [task[t] EXCEPT !.age = age]]
    BY <1>3 DEF Tick, SetRow
  <2>3. /\ task'[t].status = task[t].status
        /\ task'[t].step = task[t].step
        /\ task'[t].agent = task[t].agent
        /\ \A u \in Tasks \ {t} : task'[u] = task[u]
    BY <2>1, <2>2 DEF TypeInv, TypeOK
  <2>4. req' = req /\ agent' = agent
    BY <1>3 DEF Tick
  <2> QED
    BY <1>1, <2>3, <2>4 DEF TakesNobody, Active
<1>4. ASSUME NEW w \in Workers, Crash(w) PROVE HireInv'
  <2>1. task' = task /\ agent' = agent /\ End(w)
    BY <1>4 DEF Crash, OnlyRequests
  <2>2. \A v \in Workers : req'[v] = req[v] \/ req'[v] = Idle
    BY <2>1 DEF End, TypeInv, RequestsTyped
  <2>3. \A v \in Workers : Local(v)'
    BY <2>1, <2>2 DEF HireInv, Local, Staffs, Active, OwnerAwaits, Idle
  <2>4. HiresAreSole'
    BY <2>1, <2>2, QuietHires DEF HireInv, TakesNobody, Keeps, Idle
  <2> QED
    BY <2>3, <2>4 DEF HireInv
<1>5. CASE UNCHANGED vars
  BY <1>5 DEF vars, HireInv, HiresAreSole, NoDoubleHire, AssigneeIsBusy, Sole,
     Keeps, Local, Staffs, Active
<1> QED
  BY <1>2, <1>3, <1>4, <1>5, ArriveHires, ResumeHires DEF Next

\* What the two theorems below rest on.
LEMMA HireInvariant ==
  ASSUME Overlap = FALSE, Handlers \subseteq OwnerRoutes,
         Faults \cap {"insert", "dbwrite"} = {}
  PROVE  Spec => []HireInv
<1>1. Init => TypeInv /\ Serial /\ HireInv
  BY InitTyped, InitSerial, InitHires
<1>2. TypeInv /\ Serial /\ HireInv /\ [Next]_vars
        => TypeInv' /\ Serial' /\ HireInv'
  BY TypeStep, SerialStep, HireInvStep
<1> QED
  BY <1>1, <1>2, PTL DEF Spec

\* No agent is ever hired for two active tasks at once, though any number of
\* hires race for it and for its task, as long as the other calls about one
\* task do not overlap, no operator overrules, and no database write reports an
\* error: advance and hire release the agent of a task that may still be
\* assigned to it when one does, and a hire has to be undone (hire/route.ts, the
\* two compare-and-sets that prevent a double hire).
THEOREM HiredOnce ==
  ASSUME Overlap = FALSE, Handlers \subseteq OwnerRoutes,
         Faults \cap {"insert", "dbwrite"} = {}
  PROVE  Spec => []NoDoubleHire
<1>1. HireInv => NoDoubleHire
  BY DEF HireInv, HiresAreSole
<1> QED
  BY <1>1, HireInvariant, PTL

\* Nor is it released under the task it is assigned to: every handler that
\* ends a task releases the agent it has read, and that is the agent the row
\* still names (on the conditions of HiredOnce).
THEOREM AssigneesAreBusy ==
  ASSUME Overlap = FALSE, Handlers \subseteq OwnerRoutes,
         Faults \cap {"insert", "dbwrite"} = {}
  PROVE  Spec => []AssigneeIsBusy
<1>1. HireInv => AssigneeIsBusy
  BY DEF HireInv, HiresAreSole
<1> QED
  BY <1>1, HireInvariant, PTL

=============================================================================
