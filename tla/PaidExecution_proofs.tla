------------------------- MODULE PaidExecution_proofs -------------------------
(***************************************************************************)
(* Theorems about PaidExecution: the tables stay well formed and completion*)
(* stays earned with paid requests among the others, no run is given away, *)
(* a paid run is the only one of its task, and with nothing in flight a    *)
(* reserved agent has an active task.                                      *)
(***************************************************************************)
EXTENDS PaidExecution, TaskLifecycle_proofs

\* A buyer that runs or has run has a task, one past the first read an agent,
\* and one past the settlement has paid.
BuyersTyped ==
  /\ buyer \in [Buyers -> PaidRequest]
  /\ \A p \in Buyers :
       /\ buyer[p].at # "idle" => buyer[p].a \in Agents
       /\ buyer[p].at \in {"payment", "run"} => buyer[p].t \in Tasks

HavePaid ==
  /\ settled \subseteq Buyers
  /\ \A p \in Buyers :
       buyer[p].at \in {"upsert", "insert", "payment", "run"} => p \in settled

PaidInv == TypeInv /\ EarnedInv /\ BuyersTyped /\ HavePaid

-----------------------------------------------------------------------------
(* The buyers' own variables.                                               *)

\* No buyer is on its way at first.
LEMMA BuyersInitial == PaidInit => BuyersTyped /\ HavePaid
  BY DEF PaidInit, BuyersTyped, HavePaid, NotBuying, PaidRequest, PaidAwaits

\* What one paid request does with its place and its payment.
LEMMA BuyersStep ==
  ASSUME BuyersTyped, HavePaid, NEW p \in Buyers,
         Buy(p) \/ \E a \in Agents : AskPrice(p, a)
  PROVE  BuyersTyped' /\ HavePaid'
<1> USE DEF BuyersTyped, HavePaid, PaidRequest, PaidAwaits, NotBuying
<1> USE DEF GoOn, GiveBack, Finish
<1>1. CASE \E a \in Agents : AskPrice(p, a)
  <2> PICK a \in Agents : AskPrice(p, a)
    BY <1>1
  <2>1. settled' = settled
        /\ buyer' = [buyer EXCEPT ![p].at = "verify", ![p].a = a]
    BY DEF AskPrice
  <2> QED
    BY <2>1, ZenonT(40)
<1>2. CASE VerifyPayment(p)
  BY <1>2 DEF VerifyPayment
<1>3. CASE ReserveForBuyer(p)
  BY <1>3 DEF ReserveForBuyer
<1>4. CASE Settle(p)
  BY <1>4 DEF Settle
<1>5. CASE UpsertSubmitter(p)
  BY <1>5 DEF UpsertSubmitter
<1>6. ASSUME NEW t \in Tasks, InsertPaidTask(p, t) PROVE BuyersTyped' /\ HavePaid'
  BY <1>6 DEF InsertPaidTask
<1>7. CASE InsertPayment(p)
  BY <1>7 DEF InsertPayment
<1>8. CASE PaidRunSucceeds(p) \/ PaidRunFails(p)
  BY <1>8, ZenonT(40) DEF PaidRunSucceeds, PaidRunFails
<1>9. CASE ReleaseBought(p)
  BY <1>9 DEF ReleaseBought
<1> QED
  BY <1>1, <1>2, <1>3, <1>4, <1>5, <1>6, <1>7, <1>8, <1>9 DEF Buy

-----------------------------------------------------------------------------
(* The tables.                                                              *)

\* A paid request's write to a row, with what it earns: the run that succeeds
\* has produced the result it stores.
LEMMA BoardStep ==
  ASSUME TypeInv, EarnedInv, BuyersTyped, NEW p \in Buyers,
         Buy(p) \/ \E a \in Agents : AskPrice(p, a)
  PROVE  TypeInv' /\ EarnedInv'
<1> DEFINE t == buyer[p].t
<1>1. ASSUME UNCHANGED <<task, verified, produced, req>>,
             agent' \in [Agents -> AgentStatuses]
      PROVE  TypeInv' /\ EarnedInv'
  BY <1>1 DEF TypeInv, TypeOK, RequestsTyped, EarnedInv, EarnedRow, Entitled
<1>2. CASE \E a \in Agents : AskPrice(p, a)
  BY <1>1, <1>2 DEF AskPrice, BoardIsKept, TypeInv, TypeOK
<1>3. CASE VerifyPayment(p) \/ Settle(p) \/ UpsertSubmitter(p) \/ InsertPayment(p)
  BY <1>1, <1>3 DEF VerifyPayment, Settle, UpsertSubmitter, InsertPayment,
     BoardIsKept, TypeInv, TypeOK
<1>4. CASE ReserveForBuyer(p) \/ ReleaseBought(p)
  BY <1>1, <1>4 DEF ReserveForBuyer, ReleaseBought, SetAgent, AgentStatuses,
     TypeInv, TypeOK
<1>5. ASSUME NEW u \in Tasks, InsertPaidTask(p, u) PROVE TypeInv' /\ EarnedInv'
  <2> DEFINE row == PaidRow(buyer[p].a)
  <2>1. row \in Row /\ row.status = "active" /\ row.proof = "null"
        /\ row.result = "running"
    BY <1>5, NoRowTyped, Values, BoardAssumption
       DEF InsertPaidTask, PaidRow, NoRow, Row, BuyersTyped, PaidRequest
  <2> HIDE DEF row
  <2>2. task' = task \/ task' = [task EXCEPT ![u] = row]
    BY <1>5 DEF InsertPaidTask, SetRow, row
  <2>3. UNCHANGED <<agent, verified, produced, req>>
    BY <1>5 DEF InsertPaidTask
  <2> QED
    BY <2>1, <2>2, <2>3
       DEF TypeInv, TypeOK, RequestsTyped, EarnedInv, EarnedRow, Entitled
<1>6. CASE PaidRunSucceeds(p)
  <2> DEFINE row == [task[t] EXCEPT !.step = "Verifying", !.age = Fresh,
                       !.result = "succeeded", !.attempts = 0]
  <2>1. t \in Tasks /\ task[t] \in Row
    BY <1>6 DEF PaidRunSucceeds, BuyersTyped, TypeInv, TypeOK
  <2>2. /\ row \in Row /\ row.status = task[t].status
        /\ row.proof = task[t].proof /\ row.ruled = task[t].ruled
    BY <2>1, Values DEF Row, Steps
  <2> HIDE DEF row
  <2>3. task' = [task EXCEPT ![t] = IF Exists(t) THEN row ELSE @]
    BY <1>6 DEF PaidRunSucceeds, UpdateWhere, row
  <2>4. produced' = [produced EXCEPT ![t] = @ \/ Exists(t)]
        /\ UNCHANGED <<agent, verified, req>>
    BY <1>6 DEF PaidRunSucceeds
  <2>5. Exists(t) \in BOOLEAN
    BY DEF Exists
  <2>6. produced' \in [Tasks -> BOOLEAN]
    BY <2>4, <2>5, Zenon DEF TypeInv, TypeOK
  <2>7. TypeInv'
    BY <2>1, <2>2, <2>3, <2>4, <2>6 DEF TypeInv, TypeOK, RequestsTyped
  <2>8. \A u \in Tasks : produced[u] => produced'[u]
    BY <2>4 DEF TypeInv, TypeOK
  <2>9. Exists(t) => produced'[t]
    BY <2>1, <2>4 DEF TypeInv, TypeOK
  <2>10. \A u \in Tasks : EarnedRow(u)'
    BY <2>1, <2>2, <2>3, <2>4, <2>8, <2>9 DEF EarnedInv, EarnedRow, TypeInv, TypeOK
  <2>11. \A w \in Workers : Entitled(w)'
    <3> SUFFICES ASSUME NEW w \in Workers PROVE Entitled(w)'
      OBVIOUS
    <3>1. req[w].at = "prove" => req[w].t \in Tasks
      BY DEF TypeInv, RequestsTyped, Shaped, TaskAwaits, Awaits
    <3> QED
      BY <2>4, <2>8, <3>1 DEF EarnedInv, Entitled
  <2> QED
    BY <2>7, <2>10, <2>11 DEF EarnedInv
<1>7. CASE PaidRunFails(p)
  <2> DEFINE row == [task[t] EXCEPT !.status = "failed", !.step = "Executing",
                       !.age = Fresh, !.result = "fatal", !.attempts = 0]
  <2>1. t \in Tasks /\ task[t] \in Row
    BY <1>7 DEF PaidRunFails, BuyersTyped, TypeInv, TypeOK
  <2>2. row \in Row /\ row.status = "failed" /\ row.proof = task[t].proof
        /\ row.result = "fatal"
    BY <2>1, Values DEF Row
  <2> HIDE DEF row
  <2>3. task' = [task EXCEPT ![t] = IF Exists(t) THEN row ELSE @]
    BY <1>7 DEF PaidRunFails, UpdateWhere, row
  <2>4. UNCHANGED <<agent, verified, produced, req>>
    BY <1>7 DEF PaidRunFails
  <2> QED
    BY <2>1, <2>2, <2>3, <2>4
       DEF TypeInv, TypeOK, RequestsTyped, EarnedInv, EarnedRow, Entitled
<1> QED
  BY <1>2, <1>3, <1>4, <1>5, <1>6, <1>7 DEF Buy

\* The invariant holds at first.
LEMMA PaidInitial == PaidInit => PaidInv
  BY BuyersInitial, InitTyped, InitEarned DEF PaidInit, PaidInv

\* Every step keeps it, a paid request's or another's.
LEMMA PaidInductive == PaidInv /\ [PaidNext]_pvars => PaidInv'
<1> SUFFICES ASSUME PaidInv, [PaidNext]_pvars PROVE PaidInv'
  OBVIOUS
<1>1. ASSUME [Next]_vars, UNCHANGED <<buyer, settled>> PROVE PaidInv'
  BY <1>1, TypeStep, EarnedStep DEF PaidInv, BuyersTyped, HavePaid
<1>2. ASSUME NEW p \in Buyers, Buy(p) \/ \E a \in Agents : AskPrice(p, a)
      PROVE  PaidInv'
  BY <1>2, BuyersStep, BoardStep DEF PaidInv
<1> QED
  BY <1>1, <1>2 DEF PaidNext, pvars

-----------------------------------------------------------------------------
\* The tables and the requests, paid or not, stay well formed
\* (execute/route.ts:188-361).
THEOREM PaidTypeCorrect == PaidSpec => []PaidTypeOK
<1>1. PaidInv => PaidTypeOK
  BY DEF PaidInv, TypeInv, BuyersTyped, HavePaid, PaidTypeOK
<1> QED
  BY <1>1, PaidInitial, PaidInductive, PTL DEF PaidSpec

\* No run is given away: the model runs for a buyer only when the payment was
\* taken, whatever fails (execute/route.ts:201-286).
THEOREM RunsArePaid == PaidSpec => []RunIsPaid
<1>1. PaidInv => RunIsPaid
  BY DEF PaidInv, HavePaid, RunIsPaid
<1> QED
  BY <1>1, PaidInitial, PaidInductive, PTL DEF PaidSpec

\* Paid tasks enter at Executing, past the steps that earn completion, and
\* still no task is completed that was not run, stored and proven, but for
\* those an operator's decision of a dispute completes (resolve/route.ts:100).
THEOREM PaidCompletionEarned == PaidSpec => []CompletionIsEarned
<1>1. PaidInv => CompletionIsEarned
  BY DEF PaidInv, EarnedInv, EarnedRow, CompletionIsEarned
<1> QED
  BY <1>1, PaidInitial, PaidInductive, PTL DEF PaidSpec

-----------------------------------------------------------------------------
(* A paid run is alone.  Its task is inserted at Executing, where no route  *)
(* claims, proves, moves or hires for a task whose result is not stored; a  *)
(* request that finds the task can only fail or delete it.                  *)

\* Awaits of requests that leave a run of their task alone.
Beside == {"release", "timeoutFail", "delete", "cancelRelease", "cancel",
           "resolveRefund", "resolveRelease"}

Runs(p) == buyer[p].at \in {"payment", "run"}

\* Requests and runs are about tasks that were created.
Known ==
  /\ \A w \in Workers :
       req[w].at \in TaskAwaits => task[req[w].t].status # "none"
  /\ \A p \in Buyers : Runs(p) => task[buyer[p].t].status # "none"

\* The row of a run, while it exists, waits for the run's result, although an
\* operator may have released it meanwhile.
Awaited(row) == row.status \notin {"none", "deleted"} =>
  /\ row.step \in {"Executing", "Complete"}
  /\ row.result # "succeeded"
  /\ row.agent # NoAgent

Alone(p) == Runs(p) =>
  /\ Awaited(task[buyer[p].t])
  /\ \A w \in Workers :
       req[w].at \in TaskAwaits /\ req[w].t = buyer[p].t => req[w].at \in Beside
  /\ \A q \in Buyers : q # p /\ Runs(q) => buyer[q].t # buyer[p].t

AloneInv == Known /\ \A p \in Buyers : Alone(p)

\* A row that a run still owns when it owned it before.
LeavesRun(old, new) ==
  /\ new.status = "none" => old.status = "none"
  /\ new.status \notin {"none", "deleted"} =>
       /\ old.status \notin {"none", "deleted"}
       /\ new.step \in {old.step, "Complete"}
       /\ new.agent = old.agent
       /\ new.result = "succeeded" => old.result = "succeeded"

\* A request touches its own task only, and from an await in Beside or about
\* an agent it leaves a run alone.
Touches(w) ==
  \A u \in Tasks :
    \/ LeavesRun(task[u], task'[u])
    \/ /\ u = req[w].t
       /\ req[w].at \in TaskAwaits \ Beside
       /\ task'[u].status = "none" => task[u].status = "none"

\* A statement about the request's task.
LEMMA UpdateTouches ==
  ASSUME TypeInv, NEW w \in Workers, req[w].at \in TaskAwaits,
         NEW t \in Tasks, t = req[w].t, NEW cond, NEW row,
         UpdateWhere(t, cond, row),
         Exists(t) /\ cond =>
           \/ LeavesRun(task[t], row)
           \/ req[w].at \notin Beside /\ row.status # "none"
  PROVE  Touches(w)
  BY DEF UpdateWhere, Exists, Touches, LeavesRun, TypeInv, TypeOK

\* A request that goes on past an await touches its own task only, and leaves
\* a run of it alone where it waits beside it.
LEMMA ResumeTouches ==
  ASSUME TypeInv, NEW w \in Workers, Resume(w)
  PROVE  Touches(w)
<1> USE DEF TaskAwaits, Awaits, Beside
<1>1. ASSUME NEW u \in Tasks PROVE task[u] \in Row
  BY DEF TypeInv, TypeOK
<1>2. ASSUME req[w].at \in TaskAwaits, NEW t \in Tasks, t = req[w].t,
             NEW cond, NEW row, UpdateWhere(t, cond, row),
             Exists(t) /\ cond =>
               \/ LeavesRun(task[t], row)
               \/ req[w].at \notin Beside /\ row.status # "none"
      PROVE  Touches(w)
  BY <1>2, UpdateTouches
<1>3. ASSUME task' = task PROVE Touches(w)
  BY <1>3 DEF Touches, LeavesRun
<1>4. ASSUME NEW expected, NEW attempts, NEW terminal \in BOOLEAN,
             req[w].at \in TaskAwaits \ Beside,
             PersistFailure(w, expected, attempts, terminal)
      PROVE  Touches(w)
  <2>1. PICK t \in Tasks : t = req[w].t
    BY <1>4, AboutTask
  <2> DEFINE row == FailedRow(task[t], attempts, terminal)
  <2>2. row.status # "none"
    BY <1>1 DEF FailedRow, Row
  <2>3. \E cond \in BOOLEAN :
          (cond => task[t].step = expected) /\ UpdateWhere(t, cond, row)
    BY <1>4, <2>1, FailureWritten
  <2> HIDE DEF row
  <2>4. PICK cond \in BOOLEAN : UpdateWhere(t, cond, row)
    BY <2>3
  <2> QED
    BY <1>2, <1>4, <2>1, <2>2, <2>4
<1>5. CASE GiveUp(w)
  BY <1>4, <1>5 DEF GiveUp
<1>6. ASSUME NEW retryable \in BOOLEAN, RunFails(w, retryable) PROVE Touches(w)
  <2> DEFINE attempts == req[w].attempts + 1
             terminal == ~retryable \/ attempts >= MaxAttempts
  <2>1. terminal \in BOOLEAN /\ req[w].at \in TaskAwaits \ Beside
    BY <1>6 DEF RunFails
  <2>2. PersistFailure(w, "Executing", attempts, terminal)
    BY <1>6 DEF RunFails
  <2> HIDE DEF attempts, terminal
  <2> QED
    BY <1>4, <2>1, <2>2
<1>7. CASE Claim(w)
  <2>1. PICK t \in Tasks : t = req[w].t
    BY <1>7, AboutTask DEF Claim
  <2> DEFINE row == [task[t] EXCEPT !.step = "Executing", !.age = Fresh,
                                    !.result = "running", !.attempts = 0]
  <2>2. row.status = task[t].status
    BY <1>1 DEF Row
  <2>3. UpdateWhere(t, task[t].step = "Assigned", row) /\ req[w].at = "claim"
    BY <1>7, <2>1 DEF Claim
  <2> HIDE DEF row
  <2> QED
    BY <1>2, <2>1, <2>2, <2>3 DEF Exists
<1>8. CASE RunSucceeds(w)
  <2>1. PICK t \in Tasks : t = req[w].t
    BY <1>8, AboutTask DEF RunSucceeds
  <2> DEFINE row == [task[t] EXCEPT !.result = "succeeded", !.attempts = 0]
  <2>2. row.status = task[t].status
    BY <1>1 DEF Row
  <2>3. /\ task' = task \/ task' = [task EXCEPT ![t] = row]
        /\ req[w].at = "execute"
    BY <1>8, <2>1 DEF RunSucceeds, SetRow
  <2> HIDE DEF row
  <2> QED
    BY <2>1, <2>2, <2>3 DEF Touches, LeavesRun, TypeInv, TypeOK
<1>9. CASE PutBack(w)
  <2>1. PICK t \in Tasks : t = req[w].t
    BY <1>9, AboutTask DEF PutBack
  <2> DEFINE row == [task[t] EXCEPT !.step = "Assigned", !.age = Fresh]
  <2>2. row.status = task[t].status
    BY <1>1 DEF Row
  <2>3. UpdateWhere(t, task[t].step = "Executing", row) /\ req[w].at = "putBack"
    BY <1>9, <2>1 DEF PutBack
  <2> HIDE DEF row
  <2> QED
    BY <1>2, <2>1, <2>2, <2>3 DEF Exists
<1>10. CASE Move(w)
  <2>1. PICK t \in Tasks : t = req[w].t
    BY <1>10, AboutTask DEF Move
  <2> DEFINE row == MovedRow(task[t], req[w].step)
  <2>2. row.status \in {task[t].status, "completed"}
    BY <1>1 DEF MovedRow, Row
  <2>3. UpdateWhere(t, TRUE, row) /\ req[w].at = "move"
    BY <1>10, <2>1 DEF Move
  <2> HIDE DEF row
  <2> QED
    BY <1>2, <2>1, <2>2, <2>3 DEF Exists
<1>11. CASE Assign(w)
  <2>1. PICK t \in Tasks : t = req[w].t
    BY <1>11, AboutTask DEF Assign
  <2> DEFINE row == HiredRow(t, req[w].a)
  <2>2. row.status = task[t].status
    BY <1>1 DEF HiredRow, Row
  <2>3. PICK cond \in BOOLEAN : UpdateWhere(t, cond, row)
    BY <1>11, <2>1, AssignWritten
  <2>4. req[w].at = "assign"
    BY <1>11, AssignGoesOn
  <2> HIDE DEF row
  <2> QED
    BY <1>2, <2>1, <2>2, <2>3, <2>4 DEF Exists
<1>12. CASE RollbackTask(w)
  <2>1. PICK t \in Tasks : t = req[w].t
    BY <1>12, AboutTask DEF RollbackTask
  <2> DEFINE row == [task[t] EXCEPT !.agent = NoAgent, !.step = req[w].step,
                                    !.age = req[w].age]
  <2>2. row.status = task[t].status
    BY <1>1 DEF Row
  <2>3. /\ UpdateWhere(t, TRUE, row)
        /\ req[w].at \in {"rollback", "rollbackTask"}
    BY <1>12, <2>1 DEF RollbackTask
  <2> HIDE DEF row
  <2> QED
    BY <1>2, <2>1, <2>2, <2>3 DEF Exists
<1>13. CASE TimeoutFail(w)
  <2>1. PICK t \in Tasks : t = req[w].t
    BY <1>13, AboutTask DEF TimeoutFail
  <2> DEFINE row == [task[t] EXCEPT !.status = "failed", !.age = Fresh,
                                    !.result = "fatal", !.attempts = 0]
  <2>2. Exists(t) => LeavesRun(task[t], row)
    BY <1>1 DEF LeavesRun, Exists, Row
  <2>3. UpdateWhere(t, Active(t), row) /\ req[w].at = "timeoutFail"
    BY <1>13, <2>1 DEF TimeoutFail
  <2> HIDE DEF row
  <2> QED
    BY <1>2, <2>1, <2>2, <2>3
<1>14. CASE DeleteWrite(w)
  <2>1. PICK t \in Tasks : t = req[w].t
    BY <1>14, AboutTask DEF DeleteWrite
  <2>2. LeavesRun(task[t], [NoRow EXCEPT !.status = "deleted"])
    BY DEF LeavesRun, NoRow
  <2>3. /\ UpdateWhere(t, TRUE, [NoRow EXCEPT !.status = "deleted"])
        /\ req[w].at = "delete"
    BY <1>14, <2>1 DEF DeleteWrite
  <2> QED
    BY <1>2, <2>1, <2>2, <2>3
<1>15. CASE CancelWrite(w)
  <2>1. PICK t \in Tasks : t = req[w].t
    BY <1>15, AboutTask DEF CancelWrite
  <2> DEFINE row == [task[t] EXCEPT !.status = "failed", !.age = Fresh]
  <2>2. Exists(t) => LeavesRun(task[t], row)
    BY <1>1 DEF LeavesRun, Exists, Row
  <2>3. UpdateWhere(t, TRUE, row) /\ req[w].at = "cancel"
    BY <1>15, <2>1 DEF CancelWrite
  <2> HIDE DEF row
  <2> QED
    BY <1>2, <2>1, <2>2, <2>3
<1>16. CASE RetryWrite(w) \/ ReassignWrite(w)
  <2>1. PICK t \in Tasks : t = req[w].t
    BY <1>16, AboutTask DEF RetryWrite, ReassignWrite
  <2>2. \A a : Restarted(task[t], a).status = "active"
    BY <1>1 DEF Restarted, Row
  <2>3. /\ \E a : UpdateWhere(t, TRUE, Restarted(task[t], a))
        /\ req[w].at \in {"retry", "reassign"}
    BY <1>16, <2>1 DEF RetryWrite, ReassignWrite
  <2> QED
    BY <1>2, <2>1, <2>2, <2>3
<1>17. CASE Cascade(w)
  <2>1. ASSUME NEW u \in Tasks PROVE LeavesRun(task[u], task'[u])
    <3>1. task'[u] \in {task[u], [task[u] EXCEPT !.status = "failed", !.age = Fresh]}
      BY <1>17 DEF Cascade
    <3>2. task'[u] # task[u] => Active(u)
      BY <1>17 DEF Cascade
    <3> QED
      BY <1>1, <3>1, <3>2 DEF Active, LeavesRun, Row
  <2> QED
    BY <2>1 DEF Touches
<1>18. CASE Prove(w) \/ Reserve(w) \/ Record(w) \/ RollbackAgent(w)
            \/ CancelRelease(w) \/ ReassignRelease(w) \/ Occupy(w)
            \/ SuspendWrite(w) \/ UnsuspendWrite(w) \/ ReleaseAgent(w)
  <2>1. task' = task
    BY <1>18 DEF Prove, Reserve, Record, RollbackAgent, CancelRelease,
       ReassignRelease, Occupy, SuspendWrite, UnsuspendWrite, ReleaseAgent,
       OnlyAgents, OnlyRequests
  <2> QED
    BY <1>3, <2>1
<1>19. CASE ResolveWrite(w)
  <2>1. PICK t \in Tasks : t = req[w].t
    BY <1>19, AboutTask DEF ResolveWrite
  <2>2. Exists(t) => /\ LeavesRun(task[t], Refunded(task[t]))
                     /\ LeavesRun(task[t], Released(task[t]))
    BY <1>1 DEF LeavesRun, Exists, Refunded, Released, Row
  <2>3. /\ \/ UpdateWhere(t, TRUE, Refunded(task[t]))
           \/ UpdateWhere(t, TRUE, Released(task[t]))
        /\ req[w].at \in {"resolveRefund", "resolveRelease"}
    BY <1>19, <2>1 DEF ResolveWrite
  <2> QED
    BY <1>2, <2>1, <2>2, <2>3
<1> QED
  BY <1>5, <1>6, <1>7, <1>8, <1>9, <1>10, <1>11, <1>12, <1>13, <1>14, <1>15,
     <1>16, <1>17, <1>18, <1>19 DEF Resume, AdvanceStep, HireStep, AdminStep

\* A request that goes on leaves every run alone.
LEMMA AlongAlone ==
  ASSUME TypeInv, BuyersTyped, AloneInv, NEW w \in Workers,
         Along(w), Touches(w), UNCHANGED buyer
  PROVE  AloneInv'
<1> USE DEF Along, Flows, Idle
<1>1. /\ \A v \in Workers : req[v].at \in TaskAwaits => req[v].t \in Tasks
      /\ \A p \in Buyers : Runs(p) => buyer[p].t \in Tasks
  BY AboutTask DEF BuyersTyped, Runs
<1>2. \A v \in Workers : req'[v].at \in TaskAwaits =>
        req[v].at \in TaskAwaits /\ req'[v].t = req[v].t
  BY DEF TaskAwaits, Awaits
<1>3. \A v \in Workers : req'[v].at \in TaskAwaits /\ req[v].at \in Beside
        => req'[v].at \in Beside
  BY DEF TaskAwaits, Awaits, Beside
<1>4. \A u \in Tasks : task'[u].status = "none" => task[u].status = "none"
  BY DEF Touches, LeavesRun
<1> HIDE DEF Along, Flows
<1>5. Known'
  BY <1>1, <1>2, <1>4 DEF AloneInv, Known, Runs
<1>6. ASSUME NEW p \in Buyers PROVE Alone(p)'
  <2> SUFFICES ASSUME Runs(p) PROVE Alone(p)'
    BY DEF Alone, Runs
  <2>1. PICK t \in Tasks : t = buyer[p].t
    BY <1>1
  <2>2. LeavesRun(task[t], task'[t])
    BY <2>1 DEF AloneInv, Alone, Touches
  <2>3. Awaited(task'[t])
    BY <2>1, <2>2 DEF AloneInv, Alone, LeavesRun, Awaited
  <2>4. \A v \in Workers : req'[v].at \in TaskAwaits /\ req'[v].t = t
          => req'[v].at \in Beside
    BY <1>2, <1>3, <2>1 DEF AloneInv, Alone
  <2> QED
    BY <2>1, <2>3, <2>4 DEF AloneInv, Alone, Runs
<1> QED
  BY <1>5, <1>6 DEF AloneInv

\* A request that arrives finds the row of a run to be failed or deleted.
LEMMA ArriveAlone ==
  ASSUME TypeInv, BuyersTyped, AloneInv, {"retry", "reassign"} \cap Handlers = {},
         NEW w \in Workers, Arrive(w), UNCHANGED buyer
  PROVE  AloneInv'
<1>1. task' = task
  BY ArriveReads DEF OnlyRequests
<1>2. PICK r : Begin(w, r) /\ Current(r) /\ First(r)
  BY ArriveReads
<1>3. \A v \in Workers : req'[v] = req[v] \/ req'[v] = r
  BY <1>2 DEF Begin, TypeInv, RequestsTyped
<1>4. r.at \in TaskAwaits => task[r.t].status # "none"
  BY <1>2 DEF Current, Exists
<1>5. ASSUME r.at \in TaskAwaits, Awaited(task[r.t]) PROVE r.at \in Beside
  <2>1. Exists(r.t)
    BY <1>2, <1>5 DEF Current
  <2>2. /\ task[r.t].step \in {"Executing", "Complete"}
        /\ task[r.t].result # "succeeded" /\ task[r.t].agent # NoAgent
    BY <1>5, <2>1 DEF Awaited, Exists
  <2>3. r.at \notin {"move", "prove", "claim", "giveUp", "reserve"}
    BY <1>2, <2>2 DEF Current, Staffs, ReadyToMove
  <2>4. r.at \notin {"retry", "reassign", "reassignRelease"}
    BY <1>2 DEF First
  <2> QED
    BY <1>2, <1>5, <2>3, <2>4 DEF First, FirstAwaits, FirstOverrides,
       TaskAwaits, Beside
<1>6. Known'
  BY <1>1, <1>3, <1>4 DEF AloneInv, Known, Runs
<1>7. ASSUME NEW p \in Buyers PROVE Alone(p)'
  BY <1>1, <1>3, <1>5 DEF AloneInv, Alone, Runs
<1> QED
  BY <1>6, <1>7 DEF AloneInv

\* So does any step of the other routes.
LEMMA NextAlone ==
  ASSUME {"retry", "reassign"} \cap Handlers = {}
  PROVE  /\ TypeInv /\ BuyersTyped /\ AloneInv
         /\ [Next]_vars /\ UNCHANGED buyer
         => AloneInv'
<1> SUFFICES ASSUME TypeInv, BuyersTyped, AloneInv, [Next]_vars, UNCHANGED buyer
             PROVE  AloneInv'
  OBVIOUS
<1>1. ASSUME req' = req, NEW t \in Tasks, task[t].status # "deleted",
             task'[t].status # "none",
             \A u \in Tasks \ {t} : task'[u] = task[u],
             LeavesRun(task[t], task'[t]) \/ task[t].status = "none"
      PROVE  AloneInv'
  <2>1. /\ \A v \in Workers : req[v].at \in TaskAwaits => req[v].t \in Tasks
        /\ \A p \in Buyers : Runs(p) => buyer[p].t \in Tasks
    BY AboutTask DEF BuyersTyped, Runs
  <2>2. \A u \in Tasks : task'[u].status = "none" => task[u].status = "none"
    BY <1>1
  <2>3. Known'
    BY <1>1, <2>1, <2>2 DEF AloneInv, Known, Runs
  <2>4. ASSUME NEW p \in Buyers PROVE Alone(p)'
    <3> SUFFICES ASSUME Runs(p) PROVE Alone(p)'
      BY DEF Alone, Runs
    <3>1. PICK u \in Tasks : u = buyer[p].t
      BY <2>1
    <3>2. task[u].status # "none" /\ Alone(p)
      BY <3>1 DEF AloneInv, Known
    <3>3. Awaited(task'[u])
      BY <1>1, <3>1, <3>2 DEF Alone, Awaited, LeavesRun
    <3> QED
      BY <1>1, <3>1, <3>2, <3>3 DEF Alone, Runs
  <2> QED
    BY <2>3, <2>4 DEF AloneInv
<1>2. ASSUME NEW t \in Tasks, CreateTask(t) PROVE AloneInv'
  <2>1. [NoRow EXCEPT !.status = "active"].status = "active"
    BY DEF NoRow
  <2> QED
    BY <1>1, <1>2, <2>1 DEF CreateTask, SetRow, TypeInv, TypeOK
<1>3. ASSUME NEW t \in Tasks, Tick(t) PROVE AloneInv'
  <2>1. \A age : LET row == [task[t] EXCEPT !.age = age]
                 IN  /\ row.status = task[t].status
                     /\ row.step = task[t].step
                     /\ row.agent = task[t].agent
                     /\ row.result = task[t].result
    BY DEF TypeInv, TypeOK, Row
  <2>2. \E age : task' = [task EXCEPT ![t] = [task[t] EXCEPT !.age = age]]
    BY <1>3 DEF Tick, SetRow
  <2>3. /\ LeavesRun(task[t], task'[t]) /\ task'[t].status = task[t].status
        /\ \A u \in Tasks \ {t} : task'[u] = task[u]
    BY <2>1, <2>2 DEF LeavesRun, TypeInv, TypeOK
  <2>4. req' = req /\ task[t].status = "active"
    BY <1>3 DEF Tick, Active
  <2> QED
    BY <1>1, <2>3, <2>4
<1>4. ASSUME NEW w \in Workers, Crash(w) PROVE AloneInv'
  <2>1. Touches(w)
    BY <1>4 DEF Crash, OnlyRequests, Touches, LeavesRun
  <2> QED
    BY <1>4, <2>1, CrashAlong, AlongAlone
<1>5. ASSUME NEW w \in Workers, Resume(w) PROVE AloneInv'
  BY <1>5, ResumeAlong, ResumeTouches, AlongAlone
<1>6. CASE UNCHANGED vars
  BY <1>6 DEF vars, AloneInv, Known, Alone, Runs
<1> QED
  BY <1>2, <1>3, <1>4, <1>5, <1>6, ArriveAlone DEF Next

\* The paid requests themselves: each inserts a task nobody knew, and stores
\* what came of it as its run ends.
LEMMA BuyersAlone ==
  ASSUME TypeInv, BuyersTyped, AloneInv, NEW p \in Buyers,
         Buy(p) \/ \E a \in Agents : AskPrice(p, a)
  PROVE  AloneInv'
<1> USE DEF GoOn, GiveBack, Finish, NotBuying, Runs
<1>0. /\ buyer \in [Buyers -> PaidRequest]
      /\ \A q \in Buyers : Runs(q) => buyer[q].t \in Tasks
      /\ \A v \in Workers : req[v].at \in TaskAwaits => req[v].t \in Tasks
  BY AboutTask DEF BuyersTyped
<1>1. ASSUME UNCHANGED <<task, req>>,
             \A q \in Buyers : Runs(q)' => Runs(q) /\ buyer'[q].t = buyer[q].t
      PROVE  AloneInv'
  BY <1>1 DEF AloneInv, Known, Alone
<1>2. CASE \E a \in Agents : AskPrice(p, a)
  <2>1. UNCHANGED <<task, req>>
        /\ \E a \in Agents :
             buyer' = [buyer EXCEPT ![p].at = "verify", ![p].a = a]
    BY <1>2 DEF AskPrice, BoardIsKept
  <2>2. \A q \in Buyers : Runs(q)' => Runs(q) /\ buyer'[q].t = buyer[q].t
    BY <1>0, <2>1 DEF PaidRequest
  <2> QED
    BY <1>1, <2>1, <2>2
<1>3. ASSUME NEW at, GoOn(p, at) \/ Finish(p), UNCHANGED <<task, req>>,
             at \in {"payment", "run"} => Runs(p)
      PROVE  AloneInv'
  <2>1. \A q \in Buyers : Runs(q)' => Runs(q) /\ buyer'[q].t = buyer[q].t
    BY <1>0, <1>3 DEF PaidRequest
  <2> QED
    BY <1>1, <1>3, <2>1
<1>4. CASE VerifyPayment(p) \/ ReserveForBuyer(p) \/ Settle(p)
           \/ UpsertSubmitter(p) \/ InsertPayment(p) \/ ReleaseBought(p)
  <2>1. /\ UNCHANGED <<task, req>>
        /\ \E at \in {"reserve", "release", "settle", "upsert", "insert", "run"} :
             /\ GoOn(p, at) \/ Finish(p)
             /\ at = "run" => Runs(p)
    BY <1>4 DEF VerifyPayment, ReserveForBuyer, Settle, UpsertSubmitter,
       InsertPayment, ReleaseBought, BoardIsKept
  <2> QED
    BY <1>3, <2>1
<1>5. ASSUME NEW u \in Tasks, InsertPaidTask(p, u) PROVE AloneInv'
  <2>1. CASE GiveBack(p) /\ UNCHANGED <<task, req>>
    <3>1. "release" \notin {"payment", "run"} /\ GoOn(p, "release")
      BY <2>1
    <3> QED
      BY <1>3, <2>1, <3>1
  <2>2. CASE /\ task[u] = NoRow /\ SetRow(u, PaidRow(buyer[p].a))
             /\ buyer' = [buyer EXCEPT ![p].at = "payment", ![p].t = u]
             /\ req' = req
    <3> DEFINE row == PaidRow(buyer[p].a)
    <3>1. task[u].status = "none"
      BY <2>2 DEF NoRow
    <3>2. Awaited(row) /\ row.status # "none"
      BY <1>5, BoardAssumption
         DEF InsertPaidTask, BuyersTyped, Awaited, PaidRow, NoRow
    <3> HIDE DEF row
    <3>3. /\ task'[u] = row
          /\ \A x \in Tasks \ {u} : task'[x] = task[x]
      BY <2>2 DEF SetRow, TypeInv, TypeOK, row
    <3>4. /\ buyer'[p].t = u /\ buyer'[p].at = "payment"
          /\ \A q \in Buyers \ {p} : buyer'[q] = buyer[q]
          /\ req' = req
      BY <1>0, <2>2 DEF PaidRequest
    <3>5. /\ \A q \in Buyers : Runs(q) => buyer[q].t \in Tasks \ {u}
          /\ \A v \in Workers : req[v].at \in TaskAwaits => req[v].t \in Tasks \ {u}
      BY <1>0, <3>1 DEF AloneInv, Known
    <3>6. Known'
      BY <3>2, <3>3, <3>4, <3>5 DEF AloneInv, Known
    <3>7. ASSUME NEW q \in Buyers PROVE Alone(q)'
      <4>1. CASE q = p
        BY <3>2, <3>3, <3>4, <3>5, <4>1 DEF Alone
      <4>2. CASE q # p
        BY <3>3, <3>4, <3>5, <4>2 DEF AloneInv, Alone
      <4> QED
        BY <4>1, <4>2
    <3> QED
      BY <3>6, <3>7 DEF AloneInv
  <2> QED
    BY <1>5, <2>1, <2>2 DEF InsertPaidTask
<1>6. CASE PaidRunSucceeds(p) \/ PaidRunFails(p)
  <2>1. PICK t \in Tasks : t = buyer[p].t
    BY <1>0, <1>6 DEF PaidRunSucceeds, PaidRunFails
  <2>2. /\ \A x \in Tasks \ {t} : task'[x] = task[x]
        /\ task'[t].status = "none" => task[t].status = "none"
    <3>1. task[t] \in Row
      BY DEF TypeInv, TypeOK
    <3>2. /\ [task[t] EXCEPT !.step = "Verifying", !.age = Fresh,
                !.result = "succeeded", !.attempts = 0].status = task[t].status
          /\ [task[t] EXCEPT !.status = "failed", !.step = "Executing",
                !.age = Fresh, !.result = "fatal", !.attempts = 0].status = "failed"
      BY <3>1 DEF Row
    <3> QED
      BY <1>6, <2>1, <3>2
         DEF PaidRunSucceeds, PaidRunFails, UpdateWhere, TypeInv, TypeOK
  <2>3. /\ ~Runs(p)' /\ req' = req /\ Runs(p)
        /\ \A q \in Buyers \ {p} : buyer'[q] = buyer[q]
    BY <1>0, <1>6 DEF PaidRunSucceeds, PaidRunFails, PaidRequest
  <2>4. \A q \in Buyers \ {p} : Runs(q) => buyer[q].t \in Tasks \ {t}
    BY <1>0, <2>1, <2>3 DEF AloneInv, Alone
  <2>5. Known'
    BY <1>0, <2>2, <2>3 DEF AloneInv, Known
  <2>6. ASSUME NEW q \in Buyers PROVE Alone(q)'
    BY <2>2, <2>3, <2>4 DEF AloneInv, Alone
  <2> QED
    BY <2>5, <2>6 DEF AloneInv
<1> QED
  BY <1>2, <1>4, <1>5, <1>6 DEF Buy

\* At first nothing runs.
LEMMA AloneInitial == PaidInit => AloneInv
  BY DEF PaidInit, Init, BoardInit, NotBuying, Idle, AloneInv, Known, Alone,
     Runs, TaskAwaits

\* A paid run is the only run of its task, whatever the advance route, the
\* timeouts and the operators do meanwhile, and whatever fails, when no
\* operator puts the task back to Assigned (execute/route.ts, the insert of the
\* task at Executing; advance/route.ts, the claim from Assigned).
THEOREM PaidRunsAreAlone ==
  ASSUME {"retry", "reassign"} \cap Handlers = {}
  PROVE  PaidSpec => []PaidRunIsAlone
<1>1. PaidInv /\ AloneInv => PaidRunIsAlone
  BY DEF AloneInv, Alone, Runs, Beside, TaskAwaits, Awaits, PaidRunIsAlone
<1>2. PaidInit => PaidInv /\ AloneInv
  BY PaidInitial, AloneInitial
<1>3. PaidInv /\ AloneInv /\ [PaidNext]_pvars => PaidInv' /\ AloneInv'
  <2> SUFFICES ASSUME PaidInv, AloneInv, [PaidNext]_pvars PROVE AloneInv'
    BY PaidInductive
  <2>1. TypeInv /\ BuyersTyped
    BY DEF PaidInv
  <2> QED
    BY <2>1, NextAlone, BuyersAlone DEF PaidNext, pvars
<1> QED
  BY <1>1, <1>2, <1>3, PTL DEF PaidSpec

-----------------------------------------------------------------------------
(* No agent is left reserved.  A busy agent is owed its release by somebody *)
(* at every moment: by its active task, by a request that has reserved it   *)
(* or is about to release it, or by a paid request.                         *)

\* Awaits of a paid request that has its agent reserved.
Reserving == {"settle", "upsert", "insert", "payment", "run", "release"}

\* Awaits of a hire that has assigned the agent and may take it back.
Assigners == {"record", "rollback", "rollbackTask"}

\* A request that has the agent in hand.
Carries(r) == r.at \in {"assign", "release", "rollbackAgent"}

\* The task keeps its agent reserved: it is active, and no hire that has put
\* the agent back online is still to take it off the row.
Owes(t) ==
  /\ Active(t)
  /\ \A w \in Workers : req[w].at = "rollbackTask" => req[w].t # t

Owned(a) ==
  \/ \E t \in Tasks : Owes(t) /\ task[t].agent = a
  \/ \E w \in Workers : Carries(req[w]) /\ req[w].a = a
  \/ \E p \in Buyers : buyer[p].at \in Reserving /\ buyer[p].a = a

BusyIsOwned == \A a \in Agents : agent[a] = "busy" => Owned(a)

\* A task before its hire has no agent.
Early == {"Submitted", "Decomposed"}

EarlyIsOpen == \A t \in Tasks : task[t].step \in Early => task[t].agent = NoAgent

\* Awaits of the routes that no operator calls.
CourseAwaits == {"idle", "release", "claim", "giveUp", "execute", "misrun",
                 "putBack", "prove", "move", "reserve", "assign", "record",
                 "rollback", "rollbackAgent", "rollbackTask", "timeoutFail",
                 "delete"}

\* Requests that will release, or take off the row, the agent the row names.
Enders == {"claim", "giveUp", "execute", "misrun", "timeoutFail"} \cup Assigners

\* Requests that write a row they take for one without an agent.
Opening(r) == r.at = "delete" \/ (r.at = "move" /\ r.step \in Early)

\* What a request knows of the agent of its row.
Remembers(w) ==
  /\ req[w].at \in CourseAwaits
  /\ req[w].at \in Enders => task[req[w].t].agent = req[w].a
  /\ Opening(req[w]) => task[req[w].t].agent = NoAgent

\* So does a paid request.
PaidRemembers(p) == Runs(p) => task[buyer[p].t].agent = buyer[p].a

OneAssigns ==
  \A v, w \in Workers :
    v # w /\ {req[v].at, req[w].at} \subseteq Assigners => req[v].t # req[w].t

StrayInv ==
  /\ BusyIsOwned
  /\ EarlyIsOpen
  /\ OneAssigns
  /\ \A w \in Workers : Remembers(w)
  /\ \A p \in Buyers : PaidRemembers(p)

\* A request that reserves, ends a task or releases passes the agent on.
LEMMA RequestPassesOn ==
  ASSUME BusyIsOwned, NEW w \in Workers, UNCHANGED buyer,
         \A v \in Workers \ {w} : req'[v] = req[v],
         \A a \in Agents : agent'[a] = "busy" =>
           agent[a] = "busy" \/ (Carries(req'[w]) /\ req'[w].a = a),
         \A u \in Tasks : Owes(u) /\ task[u].agent \in Agents =>
           \/ Owes(u)' /\ task'[u].agent = task[u].agent
           \/ Carries(req'[w]) /\ req'[w].a = task[u].agent
           \/ agent'[task[u].agent] # "busy",
         Carries(req[w]) =>
           \/ Carries(req'[w]) /\ req'[w].a = req[w].a
           \/ req[w].a \in Agents => agent'[req[w].a] # "busy"
           \/ \E u \in Tasks : Owes(u)' /\ task'[u].agent = req[w].a
  PROVE  BusyIsOwned'
<1> SUFFICES ASSUME NEW a \in Agents, agent'[a] = "busy" PROVE Owned(a)'
  BY DEF BusyIsOwned
<1> USE DEF Owned
<1>1. CASE Carries(req'[w]) /\ req'[w].a = a
  BY <1>1
<1>2. CASE Owned(a)
  <2>1. CASE \E t \in Tasks : Owes(t) /\ task[t].agent = a
    BY <1>1, <2>1
  <2>2. ASSUME NEW v \in Workers, Carries(req[v]), req[v].a = a
        PROVE  Owned(a)'
    <3>1. CASE v = w
      BY <1>1, <2>2, <3>1
    <3>2. CASE v # w
      BY <2>2, <3>2
    <3> QED
      BY <3>1, <3>2
  <2>3. CASE \E p \in Buyers : buyer[p].at \in Reserving /\ buyer[p].a = a
    BY <2>3
  <2> QED
    BY <1>2, <2>1, <2>2, <2>3
<1> QED
  BY <1>1, <1>2 DEF BusyIsOwned

\* So does a paid request.
LEMMA BuyerPassesOn ==
  ASSUME BusyIsOwned, NEW p \in Buyers, UNCHANGED req,
         \A q \in Buyers \ {p} : buyer'[q] = buyer[q],
         \A a \in Agents : agent'[a] = "busy" =>
           \/ agent[a] = "busy"
           \/ buyer'[p].at \in Reserving /\ buyer'[p].a = a,
         \A u \in Tasks : Active(u) =>
           \/ task'[u].status = "active" /\ task'[u].agent = task[u].agent
           \/ buyer'[p].at \in Reserving /\ buyer'[p].a = task[u].agent,
         buyer[p].at \in Reserving =>
           \/ buyer'[p].at \in Reserving /\ buyer'[p].a = buyer[p].a
           \/ buyer[p].a \in Agents => agent'[buyer[p].a] # "busy"
  PROVE  BusyIsOwned'
<1> SUFFICES ASSUME NEW a \in Agents, agent'[a] = "busy" PROVE Owned(a)'
  BY DEF BusyIsOwned
<1> USE DEF Owned, Owes, Active
<1>1. CASE buyer'[p].at \in Reserving /\ buyer'[p].a = a
  BY <1>1
<1>2. CASE Owned(a)
  <2>1. CASE \E t \in Tasks : Owes(t) /\ task[t].agent = a
    BY <1>1, <2>1
  <2>2. CASE \E v \in Workers : Carries(req[v]) /\ req[v].a = a
    BY <2>2
  <2>3. ASSUME NEW q \in Buyers, buyer[q].at \in Reserving, buyer[q].a = a
        PROVE  Owned(a)'
    <3>1. CASE q = p
      BY <1>1, <2>3, <3>1
    <3>2. CASE q # p
      BY <2>3, <3>2
    <3> QED
      BY <3>1, <3>2
  <2> QED
    BY <1>2, <2>1, <2>2, <2>3
<1> QED
  BY <1>1, <1>2 DEF BusyIsOwned

\* A task keeps its agent reserved while it stays active and its hire is not
\* taken back.
LEMMA OwesStays ==
  ASSUME NEW w \in Workers, Along(w), req[w].at # "rollback",
         NEW u \in Tasks, Owes(u), task'[u].status = "active"
  PROVE  Owes(u)'
<1>1. req'[w].at # "rollbackTask"
  BY DEF Along, Flows, Idle
<1> QED
  BY <1>1 DEF Owes, Active, Along

\* No second hire of a task gets past its assignment but by Assign.
LEMMA AssignersGoAlong ==
  ASSUME OneAssigns, NEW w \in Workers, Along(w),
         req[w].at = "assign" => req'[w].at # "record"
  PROVE  OneAssigns'
<1>1. /\ \A v \in Workers \ {w} : req'[v] = req[v]
      /\ req'[w].at \in Assigners =>
           req[w].at \in Assigners /\ req'[w].t = req[w].t
  BY DEF Along, Flows, Idle, Assigners
<1> QED
  BY <1>1 DEF OneAssigns

\* What requests remember of their rows stays true while the rows keep their
\* agents.
LEMMA RowsKeepAgents ==
  ASSUME BuyersTyped, AloneInv, TypeInv, StrayInv, UNCHANGED buyer,
         NEW w \in Workers, \A v \in Workers \ {w} : req'[v] = req[v],
         Remembers(w)',
         \A u \in Tasks : task[u].status # "none" =>
           task'[u].agent = task[u].agent
  PROVE  /\ \A v \in Workers : Remembers(v)'
         /\ \A p \in Buyers : PaidRemembers(p)'
<1>1. ASSUME NEW v \in Workers, v # w PROVE Remembers(v)'
  <2>1. req'[v] = req[v] /\ Remembers(v)
    BY <1>1 DEF StrayInv
  <2>2. CASE req[v].at \notin Enders /\ ~Opening(req[v])
    BY <2>1, <2>2 DEF Remembers
  <2>3. CASE req[v].at \in Enders \/ Opening(req[v])
    <3>1. req[v].at \in TaskAwaits
      BY <2>3 DEF Enders, Assigners, Opening, TaskAwaits, Awaits
    <3>2. req[v].t \in Tasks /\ task[req[v].t].status # "none"
      BY <3>1, AboutTask DEF AloneInv, Known
    <3> QED
      BY <2>1, <3>2 DEF Remembers
  <2> QED
    BY <2>2, <2>3
<1>2. ASSUME NEW p \in Buyers PROVE PaidRemembers(p)'
  <2> SUFFICES ASSUME Runs(p) PROVE PaidRemembers(p)'
    BY DEF PaidRemembers, Runs
  <2>1. buyer[p].t \in Tasks /\ task[buyer[p].t].status # "none"
    BY DEF Runs, BuyersTyped, AloneInv, Known
  <2>2. PaidRemembers(p)
    BY DEF StrayInv
  <2> QED
    BY <2>1, <2>2 DEF PaidRemembers, Runs
<1> QED
  BY <1>1, <1>2

\* A step of a request that writes its own row, reserves and frees nobody, and
\* goes on with the agent of a task it ends.
LEMMA RowStray ==
  ASSUME TypeInv, BuyersTyped, AloneInv, StrayInv, UNCHANGED buyer,
         NEW w \in Workers, Along(w), req[w].at # "rollback",
         agent' = agent, ~Carries(req[w]), Remembers(w)',
         NEW t \in Tasks, \A u \in Tasks \ {t} : task'[u] = task[u],
         task[t].status # "none" => task'[t].agent = task[t].agent,
         task'[t].step \in Early => task'[t].agent = NoAgent,
         Active(t) =>
           \/ task'[t].status = "active"
           \/ task[t].agent = NoAgent
           \/ Carries(req'[w]) /\ req'[w].a = task[t].agent
  PROVE  StrayInv'
<1>1. \A u \in Tasks : task[u].status # "none" => task'[u].agent = task[u].agent
  OBVIOUS
<1>2. ASSUME NEW u \in Tasks, Owes(u), task[u].agent \in Agents
      PROVE  \/ Owes(u)' /\ task'[u].agent = task[u].agent
             \/ Carries(req'[w]) /\ req'[w].a = task[u].agent
  <2>1. Active(u) /\ task[u].agent # NoAgent
    BY <1>2, BoardAssumption DEF Owes
  <2>2. task'[u].agent = task[u].agent
        /\ (u # t => task'[u].status = "active")
    BY <1>1, <2>1 DEF Active
  <2> QED
    BY <1>2, <2>1, <2>2, OwesStays
<1>3. BusyIsOwned /\ EarlyIsOpen /\ OneAssigns
      /\ \A v \in Workers \ {w} : req'[v] = req[v]
  BY DEF StrayInv, Along
<1>4. BusyIsOwned'
  BY <1>2, <1>3, RequestPassesOn
<1>5. /\ \A v \in Workers : Remembers(v)'
      /\ \A p \in Buyers : PaidRemembers(p)'
  BY <1>1, <1>3, RowsKeepAgents
<1>6. EarlyIsOpen'
  BY <1>3 DEF EarlyIsOpen
<1>7. OneAssigns'
  BY <1>3, AssignersGoAlong DEF Carries
<1> QED
  BY <1>4, <1>5, <1>6, <1>7 DEF StrayInv

\* A hire reserves the agent.
LEMMA ReserveStray ==
  ASSUME TypeInv, BuyersTyped, AloneInv, StrayInv, UNCHANGED buyer,
         NEW w \in Workers, Reserve(w), agent[req[w].a] = "online"
  PROVE  StrayInv'
<1>1. PICK a \in Agents : a = req[w].a
  BY DEF Reserve, TypeInv, RequestsTyped, Shaped, AgentAwaits
<1>2. /\ \A b \in Agents \ {a} : agent'[b] = agent[b]
      /\ task' = task
      /\ \A v \in Workers \ {w} : req'[v] = req[v]
      /\ req'[w].at = "assign" /\ req'[w].a = a /\ req[w].at = "reserve"
  BY <1>1 DEF Reserve, SetAgent, OnlyAgents, Proceed, TypeInv, TypeOK,
     RequestsTyped, Request
<1>3. Along(w)
  BY ResumeAlong DEF Resume, HireStep
<1>4. Remembers(w)'
  BY <1>2 DEF Remembers, CourseAwaits, Enders, Assigners, Opening
<1>5. /\ \A v \in Workers : Remembers(v)'
      /\ \A p \in Buyers : PaidRemembers(p)'
  BY <1>2, <1>4, RowsKeepAgents
<1>6. /\ Carries(req'[w]) /\ ~Carries(req[w])
      /\ BusyIsOwned /\ EarlyIsOpen /\ OneAssigns
  BY <1>2 DEF Carries, StrayInv
<1>7. ASSUME NEW u \in Tasks, Owes(u)
      PROVE  Owes(u)' /\ task'[u].agent = task[u].agent
  BY <1>2, <1>3, <1>7, OwesStays DEF Owes, Active
<1>8. \A b \in Agents : agent'[b] = "busy" =>
        agent[b] = "busy" \/ (Carries(req'[w]) /\ req'[w].a = b)
  BY <1>2, <1>6
<1>9. BusyIsOwned'
  BY <1>2, <1>6, <1>7, <1>8, RequestPassesOn
<1>10. EarlyIsOpen' /\ OneAssigns'
  BY <1>2, <1>3, <1>6, AssignersGoAlong DEF EarlyIsOpen
<1> QED
  BY <1>5, <1>9, <1>10 DEF StrayInv

\* Nobody but hires is about the task of a hire, and none of those past its
\* assignment when the task has no agent.
LEMMA NobodyRemembers ==
  ASSUME TypeInv, Serial, StrayInv, NEW w \in Workers, req[w].at \in Hires,
         NEW t \in Tasks, t = req[w].t, NEW v \in Workers, v # w,
         req[v].at \in Enders \/ Opening(req[v]),
         task[t].agent = NoAgent \/ req[w].at \in Assigners
  PROVE  req[v].t \in Tasks \ {t}
<1> USE DEF Hires, Enders, Assigners, Opening
<1>1. req[v].at \in TaskAwaits /\ req[v] # Idle /\ req[w] # Idle
  BY DEF TaskAwaits, Awaits, Idle
<1>2. req[v].t \in Tasks
  BY <1>1, AboutTask
<1>3. ASSUME req[v].t = t PROVE FALSE
  <2>1. req[v].at \in Assigners
    BY <1>1, <1>3 DEF Serial
  <2>2. req[v].a = task[t].agent /\ OneAssigns
    BY <1>3, <2>1 DEF StrayInv, Remembers
  <2>3. req[v].a \in Agents
    BY <2>1 DEF TypeInv, RequestsTyped, Shaped, AgentAwaits
  <2> QED
    BY <1>3, <2>1, <2>2, <2>3, BoardAssumption DEF OneAssigns
<1> QED
  BY <1>2, <1>3

\* A hire that writes the agent of its row surprises nobody who remembers it.
LEMMA HireRemembers ==
  ASSUME TypeInv, Serial, BuyersTyped, AloneInv, StrayInv, UNCHANGED buyer,
         NEW w \in Workers, req[w].at \in {"assign"} \cup Assigners,
         NEW t \in Tasks, t = req[w].t,
         task[t].agent = NoAgent \/ req[w].at \in Assigners,
         \A u \in Tasks \ {t} : task'[u] = task[u],
         \A v \in Workers \ {w} : req'[v] = req[v],
         Remembers(w)'
  PROVE  /\ \A v \in Workers : Remembers(v)'
         /\ \A p \in Buyers : PaidRemembers(p)'
<1>0. req[w].at \in (Hires \cap TaskAwaits) \ Beside
  BY DEF Assigners, Hires, TaskAwaits, Awaits, Beside
<1>1. ASSUME NEW v \in Workers, v # w PROVE Remembers(v)'
  <2>1. req'[v] = req[v] /\ Remembers(v)
    BY <1>1 DEF StrayInv
  <2>2. CASE req[v].at \notin Enders /\ ~Opening(req[v])
    BY <2>1, <2>2 DEF Remembers
  <2>3. CASE req[v].at \in Enders \/ Opening(req[v])
    <3>1. req[v].t \in Tasks \ {t}
      BY <1>0, <1>1, <2>3, NobodyRemembers
    <3>2. task'[req[v].t] = task[req[v].t]
      BY <3>1
    <3> QED
      BY <2>1, <3>2 DEF Remembers
  <2> QED
    BY <2>2, <2>3
<1>2. ASSUME NEW p \in Buyers PROVE PaidRemembers(p)'
  <2> SUFFICES ASSUME Runs(p) PROVE PaidRemembers(p)'
    BY DEF PaidRemembers, Runs
  <2>1. PICK u \in Tasks : u = buyer[p].t
    BY DEF Runs, BuyersTyped
  <2>2. u # t
    BY <1>0, <2>1 DEF AloneInv, Alone
  <2>3. task'[u] = task[u] /\ PaidRemembers(p)
    BY <2>2 DEF StrayInv
  <2> QED
    BY <2>1, <2>3 DEF PaidRemembers, Runs
<1> QED
  BY <1>1, <1>2

\* It passes the agent on to the task, or to its own release.
LEMMA AssignStray ==
  ASSUME TypeInv, Serial, BuyersTyped, AloneInv, StrayInv, UNCHANGED buyer,
         NEW w \in Workers, Assign(w)
  PROVE  StrayInv'
<1>0. PICK t \in Tasks : t = req[w].t
  BY AboutTask DEF Assign, TaskAwaits, Awaits
<1>1. PICK a \in Agents : a = req[w].a
  BY DEF Assign, TypeInv, RequestsTyped, Shaped, AgentAwaits
<1> DEFINE open == Active(t) /\ task[t].agent = NoAgent
           row == HiredRow(t, a)
<1>2. /\ agent' = agent /\ Carries(req[w]) /\ a # NoAgent
      /\ req[w].at = "assign"
      /\ BusyIsOwned /\ EarlyIsOpen /\ OneAssigns
  BY BoardAssumption DEF Assign, OnlyTasks, Carries, StrayInv
<1>3. Along(w) /\ \A v \in Workers \ {w} : req'[v] = req[v]
  BY ResumeAlong DEF Along, Resume, HireStep
<1>4. ASSUME ReleaseNext(w, a), task' = task PROVE StrayInv'
  <2>1. task' = task
    BY <1>4
  <2>2. req'[w].at = "release" /\ req'[w].a = a
    BY <1>2, <1>4 DEF ReleaseNext, Idle, TypeInv, RequestsTyped
  <2>3. Carries(req'[w]) /\ Remembers(w)'
    BY <2>2 DEF Carries, Remembers, CourseAwaits, Enders, Assigners, Opening
  <2>4. /\ \A v \in Workers : Remembers(v)'
        /\ \A p \in Buyers : PaidRemembers(p)'
    BY <1>3, <2>1, <2>3, RowsKeepAgents
  <2>5. ASSUME NEW u \in Tasks, Owes(u)
        PROVE  Owes(u)' /\ task'[u].agent = task[u].agent
    BY <1>2, <1>3, <2>1, <2>5, OwesStays DEF Owes, Active
  <2>6. BusyIsOwned'
    BY <1>1, <1>2, <1>3, <2>2, <2>3, <2>5, RequestPassesOn
  <2>7. EarlyIsOpen' /\ OneAssigns'
    BY <1>2, <1>3, <2>1, <2>2, AssignersGoAlong DEF EarlyIsOpen
  <2> QED
    BY <2>4, <2>6, <2>7 DEF StrayInv
<1>5. ASSUME open, UpdateWhere(t, TRUE, row),
             ReleaseNext(w, a) \/ Proceed(w, "record")
      PROVE  StrayInv'
  <2>1. /\ \A u \in Tasks \ {t} : task'[u] = task[u]
        /\ task'[t].status = "active" /\ task'[t].agent = a
        /\ task'[t].step = "Assigned"
    <3>1. row.status = "active" /\ row.agent = a /\ row.step = "Assigned"
      BY <1>5 DEF HiredRow, Active, TypeInv, TypeOK, Row
    <3> HIDE DEF row
    <3> QED
      BY <1>5, <3>1 DEF UpdateWhere, Active, Exists, TypeInv, TypeOK
  <2>2. /\ req'[w].at \in {"record", "release"}
        /\ req'[w].a = a /\ req'[w].t = t
    <3>1. req \in [Workers -> Request]
      BY DEF TypeInv, RequestsTyped
    <3>2. CASE ReleaseNext(w, a)
      BY <1>0, <1>2, <3>1, <3>2 DEF ReleaseNext, Idle
    <3>3. CASE Proceed(w, "record")
      BY <1>0, <1>1, <3>1, <3>3 DEF Proceed, Request
    <3> QED
      BY <1>5, <3>2, <3>3
  <2>3. ASSUME NEW v \in Workers \ {w},
               req[v].at \in Enders \/ Opening(req[v])
        PROVE  req[v].t # t
    BY <1>0, <1>2, <1>5, <2>3, NobodyRemembers DEF Hires
  <2>4. Owes(t)'
    BY <1>3, <2>1, <2>2, <2>3 DEF Owes, Active, Enders, Assigners
  <2>5. ASSUME NEW u \in Tasks, Owes(u), task[u].agent \in Agents
        PROVE  Owes(u)' /\ task'[u].agent = task[u].agent
    <3>1. u # t /\ Active(u)
      BY <1>5, <2>5, BoardAssumption DEF Owes
    <3> QED
      BY <1>2, <1>3, <2>1, <2>5, <3>1, OwesStays DEF Active
  <2>6. BusyIsOwned'
    BY <1>1, <1>2, <1>3, <2>1, <2>4, <2>5, RequestPassesOn
  <2>7. Remembers(w)'
    BY <2>1, <2>2 DEF Remembers, CourseAwaits, Enders, Assigners, Opening
  <2>8. /\ \A v \in Workers : Remembers(v)'
        /\ \A p \in Buyers : PaidRemembers(p)'
    BY <1>0, <1>2, <1>3, <1>5, <2>1, <2>7, HireRemembers
  <2>9. EarlyIsOpen'
    BY <1>2, <2>1 DEF EarlyIsOpen, Early
  <2>10. OneAssigns'
    BY <1>2, <1>3, <2>2, <2>3 DEF OneAssigns, Enders, Assigners
  <2> QED
    BY <2>6, <2>8, <2>9, <2>10 DEF StrayInv
<1>6. \/ ReleaseNext(w, a) /\ task' = task
      \/ /\ open /\ UpdateWhere(t, TRUE, row)
         /\ ReleaseNext(w, a) \/ Proceed(w, "record")
  <2>1. \/ /\ UpdateWhere(t, open, row)
           /\ IF open THEN Proceed(w, "record") ELSE ReleaseNext(w, a)
        \/ /\ UpdateWhere(t, open, row) \/ UNCHANGED task
           /\ ReleaseNext(w, a)
    BY <1>0, <1>1 DEF Assign, HiredRow
  <2> HIDE DEF row
  <2>2. UpdateWhere(t, open, row) =>
          task' = task \/ (open /\ UpdateWhere(t, TRUE, row))
    BY DEF UpdateWhere, TypeInv, TypeOK
  <2> QED
    BY <2>1, <2>2
<1> QED
  BY <1>4, <1>5, <1>6

\* The release puts the agent back online.
LEMMA ReleaseStray ==
  ASSUME TypeInv, BuyersTyped, AloneInv, StrayInv, UNCHANGED buyer,
         NEW w \in Workers, ReleaseAgent(w)
  PROVE  StrayInv'
<1>1. PICK a \in Agents : a = req[w].a
  BY DEF ReleaseAgent, TypeInv, RequestsTyped, Shaped, AgentAwaits
<1>2. /\ task' = task
      /\ \A b \in Agents \ {a} : agent'[b] = agent[b]
      /\ agent'[a] = "online"
      /\ \A v \in Workers \ {w} : req'[v] = req[v]
      /\ req'[w].at = "idle" /\ req[w].at = "release"
  BY <1>1 DEF ReleaseAgent, SetAgent, End, OnlyAgents, Idle, TypeInv, TypeOK,
     RequestsTyped
<1>3. Remembers(w)' /\ Along(w)
  BY <1>2, ResumeAlong
     DEF Remembers, CourseAwaits, Enders, Assigners, Opening, Resume
<1>4. /\ \A v \in Workers : Remembers(v)'
      /\ \A p \in Buyers : PaidRemembers(p)'
  BY <1>2, <1>3, RowsKeepAgents
<1>5. BusyIsOwned /\ EarlyIsOpen /\ OneAssigns
  BY DEF StrayInv
<1>6. ASSUME NEW u \in Tasks, Owes(u)
      PROVE  Owes(u)' /\ task'[u].agent = task[u].agent
  BY <1>2, <1>3, <1>6, OwesStays DEF Owes, Active
<1>7. /\ \A b \in Agents : agent'[b] = "busy" => agent[b] = "busy"
      /\ agent'[req[w].a] # "busy"
  BY <1>1, <1>2
<1>8. BusyIsOwned'
  BY <1>2, <1>5, <1>6, <1>7, RequestPassesOn
<1>9. EarlyIsOpen' /\ OneAssigns'
  BY <1>2, <1>3, <1>5, AssignersGoAlong DEF EarlyIsOpen
<1> QED
  BY <1>4, <1>8, <1>9 DEF StrayInv

\* A hire that is undone puts its agent back online.  If the row still names
\* the agent, it no longer holds it.
LEMMA RollbackAgentStray ==
  ASSUME TypeInv, BuyersTyped, AloneInv, StrayInv, UNCHANGED buyer,
         NEW w \in Workers, RollbackAgent(w)
  PROVE  StrayInv'
<1>1. PICK t \in Tasks : t = req[w].t
  BY AboutTask DEF RollbackAgent, TaskAwaits, Awaits
<1>2. PICK a \in Agents : a = req[w].a
  BY DEF RollbackAgent, TypeInv, RequestsTyped, Shaped, AgentAwaits
<1>3. /\ task' = task /\ agent'[a] = "online"
      /\ \A b \in Agents \ {a} : agent'[b] = agent[b]
  BY <1>2 DEF RollbackAgent, SetAgent, OnlyAgents, TypeInv, TypeOK
<1>4. /\ Along(w) /\ \A v \in Workers \ {w} : req'[v] = req[v]
      /\ BusyIsOwned /\ EarlyIsOpen /\ OneAssigns /\ Remembers(w)
  BY ResumeAlong DEF Along, Resume, HireStep, StrayInv
<1>5. \/ /\ req[w].at = "rollback" /\ req'[w].at = "rollbackTask"
         /\ req'[w].t = t /\ req'[w].a = a
      \/ req[w].at = "rollbackAgent" /\ req'[w].at = "idle"
  BY <1>1, <1>2 DEF RollbackAgent, Proceed, End, Idle, TypeInv, RequestsTyped,
     Request
<1>6. Remembers(w)'
  BY <1>1, <1>2, <1>3, <1>4, <1>5
     DEF Remembers, CourseAwaits, Enders, Assigners, Opening
<1>7. /\ \A v \in Workers : Remembers(v)'
      /\ \A p \in Buyers : PaidRemembers(p)'
  BY <1>3, <1>4, <1>6, RowsKeepAgents
<1>8. ASSUME NEW u \in Tasks, Owes(u)
      PROVE  \/ Owes(u)' /\ task'[u].agent = task[u].agent
             \/ agent'[task[u].agent] # "busy"
  <2>1. CASE req[w].at = "rollback" /\ u = t
    BY <1>1, <1>2, <1>3, <1>4, <2>1 DEF Remembers, Enders, Assigners
  <2>2. CASE req[w].at = "rollback" /\ u # t
    BY <1>3, <1>4, <1>5, <1>8, <2>2 DEF Owes, Active
  <2>3. CASE req[w].at # "rollback"
    BY <1>3, <1>4, <1>8, <2>3, OwesStays DEF Owes, Active
  <2> QED
    BY <2>1, <2>2, <2>3
<1>9. /\ \A b \in Agents : agent'[b] = "busy" => agent[b] = "busy"
      /\ agent'[req[w].a] # "busy"
  BY <1>2, <1>3
<1>10. BusyIsOwned'
  BY <1>4, <1>8, <1>9, RequestPassesOn
<1>11. EarlyIsOpen' /\ OneAssigns'
  BY <1>3, <1>4, <1>5, AssignersGoAlong DEF EarlyIsOpen
<1> QED
  BY <1>7, <1>10, <1>11 DEF StrayInv

\* It takes the agent off the row, and has it in hand if it is still busy.
LEMMA RollbackTaskStray ==
  ASSUME TypeInv, Serial, BuyersTyped, AloneInv, StrayInv, UNCHANGED buyer,
         NEW w \in Workers, RollbackTask(w)
  PROVE  StrayInv'
<1>1. PICK t \in Tasks : t = req[w].t
  BY AboutTask DEF RollbackTask, TaskAwaits, Awaits
<1> DEFINE row == [task[t] EXCEPT !.agent = NoAgent, !.step = req[w].step,
                                  !.age = req[w].age]
<1>2. row.agent = NoAgent
  BY DEF TypeInv, TypeOK, Row
<1>3. /\ \A u \in Tasks \ {t} : task'[u] = task[u]
      /\ task'[t] \in {row, task[t]} /\ agent' = agent
  BY <1>1 DEF RollbackTask, UpdateWhere, OnlyTasks, TypeInv, TypeOK
<1> HIDE DEF row
<1>4. /\ Along(w) /\ \A v \in Workers \ {w} : req'[v] = req[v]
      /\ BusyIsOwned /\ EarlyIsOpen /\ OneAssigns /\ Remembers(w)
  BY ResumeAlong DEF Along, Resume, HireStep, StrayInv
<1>5. \/ /\ req[w].at = "rollback" /\ req'[w].at = "rollbackAgent"
         /\ req'[w].a = req[w].a
      \/ req[w].at = "rollbackTask" /\ req'[w].at = "idle"
  BY <1>1 DEF RollbackTask, Proceed, End, Idle, TypeInv, RequestsTyped, Request
<1>6. Remembers(w)' /\ req[w].at \in Assigners
  BY <1>5 DEF Remembers, CourseAwaits, Enders, Assigners, Opening
<1>7. /\ \A v \in Workers : Remembers(v)'
      /\ \A p \in Buyers : PaidRemembers(p)'
  BY <1>1, <1>3, <1>4, <1>6, HireRemembers
<1>8. ASSUME NEW u \in Tasks, Owes(u)
      PROVE  \/ Owes(u)' /\ task'[u].agent = task[u].agent
             \/ Carries(req'[w]) /\ req'[w].a = task[u].agent
  <2>1. CASE u = t
    <3>1. req[w].at = "rollback"
      BY <1>1, <1>5, <1>8, <2>1 DEF Owes
    <3> QED
      BY <1>1, <1>4, <1>5, <2>1, <3>1 DEF Remembers, Enders, Assigners, Carries
  <2>2. CASE u # t
    BY <1>3, <1>4, <1>5, <1>8, <2>2 DEF Owes, Active
  <2> QED
    BY <2>1, <2>2
<1>9. ~Carries(req[w])
  BY <1>5 DEF Carries
<1>10. BusyIsOwned'
  BY <1>3, <1>4, <1>8, <1>9, RequestPassesOn
<1>11. EarlyIsOpen' /\ OneAssigns'
  BY <1>2, <1>3, <1>4, <1>5, AssignersGoAlong DEF EarlyIsOpen
<1> QED
  BY <1>7, <1>10, <1>11 DEF StrayInv

\* Every step of a suspended request.
LEMMA ResumeStray ==
  ASSUME TypeInv, Serial, BuyersTyped, AloneInv, StrayInv, UNCHANGED buyer,
         NEW w \in Workers, Resume(w)
  PROVE  StrayInv'
<1> USE DEF TaskAwaits, Awaits
<1>1. Remembers(w) /\ EarlyIsOpen
  BY DEF StrayInv
<1>2. ASSUME NEW u \in Tasks PROVE task[u] \in Row
  BY DEF TypeInv, TypeOK
<1>3. ASSUME NEW t \in Tasks, NEW cond, NEW row, UpdateWhere(t, cond, row)
      PROVE  /\ \A u \in Tasks \ {t} : task'[u] = task[u]
             /\ task'[t] = IF Exists(t) /\ cond THEN row ELSE task[t]
  BY <1>3 DEF UpdateWhere, TypeInv, TypeOK
<1>4. ASSUME NEW p, Proceed(w, p)
      PROVE  req'[w].at = p /\ req'[w].t = req[w].t /\ req'[w].a = req[w].a
  BY <1>4 DEF Proceed, TypeInv, RequestsTyped, Request
<1>5. Along(w)
  BY ResumeAlong
<1>6. ASSUME End(w) PROVE Remembers(w)'
  <2>1. req'[w].at = "idle"
    BY <1>6 DEF End, Idle, TypeInv, RequestsTyped
  <2> QED
    BY <2>1 DEF Remembers, CourseAwaits, Enders, Assigners, Opening
<1>7. ASSUME NEW a \in Agents \cup {NoAgent}, ReleaseNext(w, a)
      PROVE  /\ Remembers(w)'
             /\ a = NoAgent \/ (Carries(req'[w]) /\ req'[w].a = a)
  <2>1. \/ a = NoAgent /\ req'[w].at = "idle"
        \/ req'[w].at = "release" /\ req'[w].a = a
    BY <1>7 DEF ReleaseNext, Idle, TypeInv, RequestsTyped
  <2> QED
    BY <2>1 DEF Remembers, CourseAwaits, Enders, Assigners, Opening, Carries
<1>8. \A t \in Tasks : task[t].agent \in Agents \cup {NoAgent}
  BY DEF TypeInv, TypeOK, Row
<1>9. ASSUME NEW t \in Tasks, NEW cond, NEW row, UpdateWhere(t, cond, row),
             row.agent = task[t].agent, agent' = agent, ~Carries(req[w]),
             req[w].at # "rollback", Remembers(w)',
             row.step \in Early =>
               row.step = task[t].step \/ task[t].agent = NoAgent,
             Exists(t) /\ cond =>
               \/ row.status = task[t].status
               \/ task[t].agent = NoAgent
               \/ Carries(req'[w]) /\ req'[w].a = task[t].agent
      PROVE  StrayInv'
  <2>1. /\ \A u \in Tasks \ {t} : task'[u] = task[u]
        /\ task'[t].agent = task[t].agent
        /\ task'[t].step \in Early => task'[t].agent = NoAgent
        /\ \/ task'[t].status = task[t].status
           \/ task[t].agent = NoAgent
           \/ Carries(req'[w]) /\ req'[w].a = task[t].agent
    BY <1>1, <1>3, <1>9 DEF EarlyIsOpen
  <2> QED
    BY <1>5, <1>9, <2>1, RowStray DEF Active
<1>10. ASSUME NEW t \in Tasks, t = req[w].t, NEW expected, NEW attempts,
              NEW terminal \in BOOLEAN, ~Carries(req[w]),
              req[w].at # "rollback",
              PersistFailure(w, expected, attempts, terminal),
              req[w].a = task[t].agent
       PROVE  StrayInv'
  <2> DEFINE row == FailedRow(task[t], attempts, terminal)
  <2>1. /\ row.agent = task[t].agent /\ row.step \notin Early
        /\ ~terminal /\ task[t].status = "active" => row.status = "active"
    BY <1>2 DEF FailedRow, Row, Early
  <2>2. /\ agent' = agent
        /\ terminal => ReleaseNext(w, task[t].agent)
        /\ ~terminal => End(w)
    BY <1>10 DEF PersistFailure, OnlyTasks
  <2>6. \E cond \in BOOLEAN :
          (cond => task[t].step = expected) /\ UpdateWhere(t, cond, row)
    BY <1>10, FailureWritten
  <2> HIDE DEF row
  <2>7. PICK cond \in BOOLEAN : UpdateWhere(t, cond, row)
    BY <2>6
  <2>3. Remembers(w)'
    BY <1>6, <1>7, <1>8, <2>2
  <2>4. terminal => \/ task[t].agent = NoAgent
                    \/ Carries(req'[w]) /\ req'[w].a = task[t].agent
    BY <1>7, <1>8, <2>2
  <2>5. /\ \A u \in Tasks \ {t} : task'[u] = task[u]
        /\ task'[t].agent = task[t].agent
        /\ task'[t].step \in Early => task'[t].agent = NoAgent
        /\ Active(t) => \/ task'[t].status = "active"
                        \/ task[t].agent = NoAgent
                        \/ Carries(req'[w]) /\ req'[w].a = task[t].agent
    BY <1>1, <1>3, <2>1, <2>7, <2>4 DEF Active, EarlyIsOpen
  <2> QED
    BY <1>5, <1>10, <2>2, <2>3, <2>5, RowStray
<1>11. CASE GiveUp(w)
  <2>1. PICK t \in Tasks : t = req[w].t
    BY <1>11, AboutTask DEF GiveUp
  <2>2. req[w].a = task[t].agent /\ ~Carries(req[w]) /\ req[w].at # "rollback"
    BY <1>1, <1>11, <2>1 DEF GiveUp, Remembers, Enders, Carries
  <2> QED
    BY <1>10, <1>11, <2>1, <2>2 DEF GiveUp
<1>12. ASSUME NEW retryable \in BOOLEAN, RunFails(w, retryable) PROVE StrayInv'
  <2>1. PICK t \in Tasks : t = req[w].t
    BY <1>12, AboutTask DEF RunFails
  <2>2. req[w].a = task[t].agent /\ ~Carries(req[w]) /\ req[w].at # "rollback"
    BY <1>1, <1>12, <2>1 DEF RunFails, Remembers, Enders, Carries
  <2> DEFINE attempts == req[w].attempts + 1
             terminal == ~retryable \/ attempts >= MaxAttempts
  <2>3. terminal \in BOOLEAN /\ PersistFailure(w, "Executing", attempts, terminal)
    BY <1>12 DEF RunFails
  <2> HIDE DEF attempts, terminal
  <2> QED
    BY <1>10, <2>1, <2>2, <2>3
<1>13. CASE Claim(w)
  <2>1. PICK t \in Tasks : t = req[w].t
    BY <1>13, AboutTask DEF Claim
  <2> DEFINE row == [task[t] EXCEPT !.step = "Executing", !.age = Fresh,
                                    !.result = "running", !.attempts = 0]
  <2>2. /\ row.status = task[t].status /\ row.agent = task[t].agent
        /\ row.step \notin Early
    BY <1>2 DEF Row, Early
  <2>3. /\ UpdateWhere(t, task[t].step = "Assigned", row)
        /\ agent' = agent /\ req[w].at = "claim"
        /\ End(w) \/ \E p \in {"execute", "misrun"} : Proceed(w, p)
    BY <1>13, <2>1 DEF Claim, OnlyTasks
  <2> HIDE DEF row
  <2>4. ~Carries(req[w]) /\ req[w].a = task[t].agent
    BY <1>1, <2>1, <2>3 DEF Carries, Remembers, Enders
  <2>5. task'[t].agent = task[t].agent
    BY <1>3, <2>2, <2>3
  <2>6. ASSUME NEW p \in {"execute", "misrun"}, Proceed(w, p)
        PROVE  Remembers(w)'
    BY <1>4, <2>1, <2>4, <2>5, <2>6 DEF Remembers, CourseAwaits, Opening
  <2>7. Remembers(w)'
    BY <1>6, <2>3, <2>6
  <2> QED
    BY <1>9, <2>2, <2>3, <2>4, <2>7
<1>14. CASE RunSucceeds(w)
  <2>1. PICK t \in Tasks : t = req[w].t
    BY <1>14, AboutTask DEF RunSucceeds
  <2> DEFINE row == [task[t] EXCEPT !.result = "succeeded", !.attempts = 0]
  <2>2. /\ row.status = task[t].status /\ row.agent = task[t].agent
        /\ row.step = task[t].step
    BY <1>2 DEF Row
  <2>3. /\ task' = task \/ task' = [task EXCEPT ![t] = row]
        /\ agent' = agent /\ req[w].at = "execute"
        /\ End(w) \/ Proceed(w, "putBack")
    BY <1>14, <2>1 DEF RunSucceeds, SetRow
  <2> HIDE DEF row
  <2>4. /\ \A u \in Tasks \ {t} : task'[u] = task[u]
        /\ task'[t].status = task[t].status
        /\ task'[t].agent = task[t].agent
        /\ task'[t].step \in Early => task'[t].agent = NoAgent
    BY <1>1, <2>2, <2>3 DEF TypeInv, TypeOK, EarlyIsOpen
  <2>5. Proceed(w, "putBack") => Remembers(w)'
    BY <1>4 DEF Remembers, CourseAwaits, Enders, Assigners, Opening
  <2>6. ~Carries(req[w]) /\ Remembers(w)'
    BY <1>6, <2>3, <2>5 DEF Carries
  <2> QED
    BY <1>5, <2>3, <2>4, <2>6, RowStray DEF Active
<1>15. CASE PutBack(w)
  <2>1. PICK t \in Tasks : t = req[w].t
    BY <1>15, AboutTask DEF PutBack
  <2> DEFINE row == [task[t] EXCEPT !.step = "Assigned", !.age = Fresh]
  <2>2. /\ row.status = task[t].status /\ row.agent = task[t].agent
        /\ row.step \notin Early
    BY <1>2 DEF Row, Early
  <2>3. /\ UpdateWhere(t, task[t].step = "Executing", row)
        /\ End(w) /\ agent' = agent /\ ~Carries(req[w])
        /\ req[w].at # "rollback"
    BY <1>15, <2>1 DEF PutBack, OnlyTasks, Carries
  <2> HIDE DEF row
  <2> QED
    BY <1>6, <1>9, <2>2, <2>3
<1>16. CASE Move(w)
  <2>1. PICK t \in Tasks : t = req[w].t
    BY <1>16, AboutTask DEF Move
  <2> DEFINE row == MovedRow(task[t], req[w].step)
  <2>2. /\ row.agent = task[t].agent /\ row.step = req[w].step
        /\ req[w].step # "Complete" => row.status = task[t].status
    BY <1>2 DEF MovedRow, Row
  <2>3. /\ UpdateWhere(t, TRUE, row) /\ agent' = agent /\ ~Carries(req[w])
        /\ req[w].at = "move"
    BY <1>16, <2>1 DEF Move, OnlyTasks, Carries
  <2>4. row.step \in Early => task[t].agent = NoAgent
    BY <1>1, <2>1, <2>2, <2>3 DEF Remembers, Opening
  <2> HIDE DEF row
  <2>5. CASE Exists(t) /\ req[w].step = "Complete"
    <3>1. ReleaseNext(w, task[t].agent)
      BY <1>16, <2>1, <2>5 DEF Move
    <3> QED
      BY <1>7, <1>8, <1>9, <2>2, <2>3, <2>4, <3>1
  <2>6. CASE ~(Exists(t) /\ req[w].step = "Complete")
    <3>1. End(w)
      BY <1>16, <2>1, <2>6 DEF Move
    <3> QED
      BY <1>6, <1>9, <2>2, <2>3, <2>6, <2>4, <3>1
  <2> QED
    BY <2>5, <2>6
<1>17. CASE TimeoutFail(w)
  <2>1. PICK t \in Tasks : t = req[w].t
    BY <1>17, AboutTask DEF TimeoutFail
  <2> DEFINE row == [task[t] EXCEPT !.status = "failed", !.age = Fresh,
                                    !.result = "fatal", !.attempts = 0]
  <2>2. row.agent = task[t].agent /\ row.step = task[t].step
    BY <1>2 DEF Row
  <2>3. /\ UpdateWhere(t, Active(t), row)
        /\ ReleaseNext(w, task[t].agent) /\ agent' = agent /\ ~Carries(req[w])
        /\ req[w].at # "rollback"
    BY <1>1, <1>17, <2>1 DEF TimeoutFail, OnlyTasks, Remembers, Enders, Carries
  <2> HIDE DEF row
  <2> QED
    BY <1>7, <1>8, <1>9, <2>2, <2>3
<1>18. ASSUME NEW t \in Tasks, t = req[w].t, task' = task, agent' = agent,
              ~Carries(req[w]), req[w].at # "rollback", Remembers(w)'
       PROVE  StrayInv'
  BY <1>1, <1>5, <1>18, RowStray DEF Active, EarlyIsOpen
<1>19. CASE Prove(w)
  <2>1. PICK t \in Tasks : t = req[w].t
    BY <1>19, AboutTask DEF Prove
  <2>2. task' = task /\ agent' = agent /\ ~Carries(req[w]) /\ req[w].at = "prove"
    BY <1>19 DEF Prove, Carries
  <2>3. CASE req' = [req EXCEPT ![w].at = "move", ![w].step = "Complete"]
    <3>1. req'[w].at = "move" /\ req'[w].step = "Complete"
      BY <2>3 DEF TypeInv, RequestsTyped, Request
    <3>2. Remembers(w)'
      BY <3>1 DEF Remembers, CourseAwaits, Enders, Assigners, Opening, Early
    <3> QED
      BY <1>18, <2>1, <2>2, <3>2
  <2> QED
    BY <1>6, <1>18, <1>19, <2>1, <2>2, <2>3 DEF Prove
<1>20. CASE Record(w)
  <2>1. PICK t \in Tasks : t = req[w].t
    BY <1>20, AboutTask DEF Record
  <2>2. /\ End(w) \/ Proceed(w, "rollback")
        /\ task' = task /\ agent' = agent /\ ~Carries(req[w])
        /\ req[w].at = "record"
    BY <1>20 DEF Record, OnlyRequests, Carries
  <2>3. ASSUME Proceed(w, "rollback") PROVE Remembers(w)'
    <3>1. req'[w].at = "rollback" /\ req'[w].t = t /\ req'[w].a = req[w].a
      BY <1>4, <2>1, <2>3
    <3>2. task[t].agent = req[w].a
      BY <1>1, <2>1, <2>2 DEF Remembers, Enders, Assigners
    <3> QED
      BY <2>2, <3>1, <3>2 DEF Remembers, CourseAwaits, Opening
  <2> QED
    BY <1>6, <1>18, <2>1, <2>2, <2>3
<1>21. CASE Reserve(w)
  <2>1. PICK t \in Tasks : t = req[w].t
    BY <1>21, AboutTask DEF Reserve
  <2>2. task' = task /\ ~Carries(req[w]) /\ req[w].at = "reserve"
    BY <1>21 DEF Reserve, OnlyAgents, Carries
  <2>3. CASE agent[req[w].a] = "online"
    BY <1>21, <2>3, ReserveStray
  <2>4. CASE agent[req[w].a] # "online"
    <3>1. agent' = agent /\ End(w)
      BY <1>21, <2>4 DEF Reserve
    <3> QED
      BY <1>6, <1>18, <2>1, <2>2, <3>1
  <2> QED
    BY <2>3, <2>4
<1>22. CASE DeleteWrite(w)
  <2>1. PICK t \in Tasks : t = req[w].t
    BY <1>22, AboutTask DEF DeleteWrite
  <2> DEFINE row == [NoRow EXCEPT !.status = "deleted"]
  <2>2. row.agent = NoAgent
    BY DEF NoRow
  <2>3. /\ UpdateWhere(t, TRUE, row) /\ End(w) /\ agent' = agent
        /\ ~Carries(req[w]) /\ req[w].at = "delete"
    BY <1>22, <2>1 DEF DeleteWrite, OnlyTasks, Carries
  <2> HIDE DEF row
  <2>4. task[t].agent = NoAgent
    BY <1>1, <2>1, <2>3 DEF Remembers, Opening
  <2> QED
    BY <1>6, <1>9, <2>2, <2>3, <2>4
<1>23. CASE Assign(w)
  BY <1>23, AssignStray
<1>24. CASE ReleaseAgent(w)
  BY <1>24, ReleaseStray
<1>25. CASE RollbackAgent(w) \/ RollbackTask(w)
  BY <1>25, RollbackAgentStray, RollbackTaskStray
<1>26. ~ \/ CancelRelease(w) \/ CancelWrite(w) \/ RetryWrite(w)
         \/ ReassignRelease(w) \/ ReassignWrite(w) \/ Occupy(w)
         \/ ResolveWrite(w)
         \/ SuspendWrite(w) \/ Cascade(w) \/ UnsuspendWrite(w)
  BY <1>1 DEF Remembers, CourseAwaits, CancelRelease, CancelWrite, RetryWrite,
     ReassignRelease, ReassignWrite, Occupy, ResolveWrite, SuspendWrite, Cascade,
     UnsuspendWrite
<1> QED
  BY <1>11, <1>12, <1>13, <1>14, <1>15, <1>16, <1>17, <1>19, <1>20, <1>21,
     <1>22, <1>23, <1>24, <1>25, <1>26
     DEF Resume, AdvanceStep, HireStep, AdminStep

\* What arrives remembers the agent it has just read, and reserves nobody.
LEMMA ArriveStray ==
  ASSUME TypeInv, BuyersTyped, AloneInv, StrayInv, UNCHANGED buyer,
         Handlers \subseteq OwnerRoutes, NEW w \in Workers, Arrive(w)
  PROVE  StrayInv'
<1>1. task' = task /\ agent' = agent /\ req[w].at = "idle"
  BY ArriveReads DEF OnlyRequests, Idle
<1>2. PICK r : Begin(w, r) /\ Current(r) /\ First(r)
  BY ArriveReads
<1>3. req'[w] = r /\ \A v \in Workers \ {w} : req'[v] = req[v]
  BY <1>2 DEF Begin, TypeInv, RequestsTyped
<1>4. r.at \in FirstAwaits
  BY <1>2 DEF First
<1>5. r.at \in Enders => task[r.t].agent = r.a
  BY <1>2, <1>4 DEF Current, Staffs, Enders, Assigners, FirstAwaits
<1>6. ASSUME Opening(r) PROVE task[r.t].agent = NoAgent
  <2>1. r.t \in Tasks
    BY <1>2, <1>6 DEF Current, Opening, TaskAwaits, Awaits
  <2>2. task[r.t].step \in Early
    BY <1>2, <1>6 DEF Current, Opening, ReadyToMove, NextStep, Early
  <2> QED
    BY <2>1, <2>2 DEF StrayInv, EarlyIsOpen
<1>7. Remembers(w)'
  BY <1>1, <1>3, <1>4, <1>5, <1>6 DEF Remembers, CourseAwaits, FirstAwaits
<1>8. /\ \A v \in Workers : Remembers(v)'
      /\ \A p \in Buyers : PaidRemembers(p)'
  BY <1>1, <1>3, <1>7, RowsKeepAgents
<1>9. /\ BusyIsOwned /\ EarlyIsOpen /\ OneAssigns /\ ~Carries(req[w])
      /\ r.at \notin Assigners \cup {"rollbackTask"}
  BY <1>1, <1>4 DEF StrayInv, Carries, Assigners, FirstAwaits
<1>10. \A u \in Tasks : Owes(u) => Owes(u)'
  BY <1>1, <1>3, <1>9 DEF Owes, Active
<1>11. BusyIsOwned'
  BY <1>1, <1>3, <1>9, <1>10, RequestPassesOn
<1>12. EarlyIsOpen' /\ OneAssigns'
  BY <1>1, <1>3, <1>9 DEF EarlyIsOpen, OneAssigns
<1> QED
  BY <1>8, <1>11, <1>12 DEF StrayInv

\* Any step of the other routes, when no instance dies.
LEMMA NextStray ==
  ASSUME Handlers \subseteq OwnerRoutes, "crash" \notin Faults
  PROVE  /\ TypeInv /\ Serial /\ BuyersTyped /\ AloneInv /\ StrayInv
         /\ [Next]_vars /\ UNCHANGED buyer
         => StrayInv'
<1> SUFFICES ASSUME TypeInv, Serial, BuyersTyped, AloneInv, StrayInv,
                    [Next]_vars, UNCHANGED buyer
             PROVE  StrayInv'
  OBVIOUS
<1>1. ASSUME req' = req, agent' = agent, NEW t \in Tasks,
             \A u \in Tasks \ {t} : task'[u] = task[u],
             task[t].status # "none" => task'[t].agent = task[t].agent,
             Active(t) => task'[t].status = "active"
                          /\ task'[t].agent = task[t].agent,
             task'[t].step \in Early => task'[t].agent = NoAgent
      PROVE  StrayInv'
  <2>1. BusyIsOwned'
    BY <1>1 DEF StrayInv, BusyIsOwned, Owned, Owes, Active
  <2>2. EarlyIsOpen' /\ OneAssigns'
    BY <1>1 DEF StrayInv, EarlyIsOpen, OneAssigns
  <2>3. ASSUME NEW w \in Workers PROVE Remembers(w)'
    <3>1. Remembers(w)
      BY DEF StrayInv
    <3>2. CASE req[w].at \in TaskAwaits
      <4>1. req[w].t \in Tasks /\ task[req[w].t].status # "none"
        BY <3>2, AboutTask DEF AloneInv, Known
      <4>2. task'[req[w].t].agent = task[req[w].t].agent
        BY <1>1, <4>1
      <4> QED
        BY <1>1, <3>1, <4>2 DEF Remembers
    <3>3. CASE req[w].at \notin TaskAwaits
      BY <1>1, <3>1, <3>3
         DEF Remembers, TaskAwaits, Awaits, Enders, Assigners, Opening
    <3> QED
      BY <3>2, <3>3
  <2>4. ASSUME NEW p \in Buyers PROVE PaidRemembers(p)'
    <3> SUFFICES ASSUME Runs(p) PROVE PaidRemembers(p)'
      BY DEF PaidRemembers, Runs
    <3>1. buyer[p].t \in Tasks /\ task[buyer[p].t].status # "none"
      BY DEF Runs, BuyersTyped, AloneInv, Known
    <3>2. task'[buyer[p].t].agent = task[buyer[p].t].agent /\ PaidRemembers(p)
      BY <1>1, <3>1 DEF StrayInv
    <3> QED
      BY <3>2 DEF PaidRemembers, Runs
  <2> QED
    BY <2>1, <2>3, <2>4, <2>2 DEF StrayInv
<1>2. ASSUME NEW t \in Tasks, CreateTask(t) PROVE StrayInv'
  <2>1. task[t].status = "none" /\ task'[t].agent = NoAgent
    BY <1>2 DEF CreateTask, SetRow, NoRow, TypeInv, TypeOK
  <2>2. \A u \in Tasks \ {t} : task'[u] = task[u]
    BY <1>2 DEF CreateTask, SetRow, TypeInv, TypeOK
  <2>3. req' = req /\ agent' = agent
    BY <1>2 DEF CreateTask
  <2> QED
    BY <1>1, <2>1, <2>2, <2>3 DEF Active
<1>3. ASSUME NEW t \in Tasks, Tick(t) PROVE StrayInv'
  <2>1. \A age : LET row == [task[t] EXCEPT !.age = age]
                 IN  /\ row.status = task[t].status
                     /\ row.agent = task[t].agent
                     /\ row.step = task[t].step
    BY DEF TypeInv, TypeOK, Row
  <2>2. \E age : task' = [task EXCEPT ![t] = [task[t] EXCEPT !.age = age]]
    BY <1>3 DEF Tick, SetRow
  <2>3. /\ task'[t].status = task[t].status
        /\ task'[t].agent = task[t].agent
        /\ task'[t].step = task[t].step
        /\ \A u \in Tasks \ {t} : task'[u] = task[u]
    BY <2>1, <2>2 DEF TypeInv, TypeOK
  <2>4. req' = req /\ agent' = agent
    BY <1>3 DEF Tick
  <2> QED
    BY <1>1, <2>3, <2>4 DEF Active, StrayInv, EarlyIsOpen
<1>4. \A w \in Workers : ~Crash(w)
  BY DEF Crash
<1>5. CASE UNCHANGED vars
  BY <1>5 DEF vars, StrayInv, BusyIsOwned, Owned, Owes, Active, EarlyIsOpen,
     OneAssigns, Remembers, PaidRemembers, Runs
<1> QED
  BY <1>2, <1>3, <1>4, <1>5, ArriveStray, ResumeStray DEF Next

\* The paid requests themselves: what one reserves it has in hand until its
\* last write.
LEMMA BuyersStray ==
  ASSUME TypeInv, BuyersTyped, AloneInv, StrayInv, NEW p \in Buyers,
         Buy(p) \/ \E a \in Agents : AskPrice(p, a)
  PROVE  StrayInv'
<1> USE DEF GoOn, GiveBack, Finish, NotBuying
<1>0. /\ buyer \in [Buyers -> PaidRequest]
      /\ \A q \in Buyers : Runs(q) => buyer[q].t \in Tasks
      /\ \A v \in Workers : req[v].at \in TaskAwaits => req[v].t \in Tasks
      /\ BusyIsOwned /\ EarlyIsOpen /\ OneAssigns
  BY AboutTask DEF BuyersTyped, Runs, StrayInv
<1>1. ASSUME req' = req,
             \A u \in Tasks : task[u].status # "none" =>
               task'[u].agent = task[u].agent
      PROVE  /\ \A w \in Workers : Remembers(w)'
             /\ \A q \in Buyers : Runs(q) /\ buyer'[q].t = buyer[q].t
                                  /\ buyer'[q].a = buyer[q].a
                  => PaidRemembers(q)'
  <2>1. ASSUME NEW w \in Workers PROVE Remembers(w)'
    <3>1. Remembers(w)
      BY DEF StrayInv
    <3>2. CASE req[w].at \in TaskAwaits
      <4>1. req[w].t \in Tasks /\ task[req[w].t].status # "none"
        BY <1>0, <3>2 DEF AloneInv, Known
      <4>2. task'[req[w].t].agent = task[req[w].t].agent
        BY <1>1, <4>1
      <4> QED
        BY <1>1, <3>1, <4>2 DEF Remembers
    <3>3. CASE req[w].at \notin TaskAwaits
      BY <1>1, <3>1, <3>3
         DEF Remembers, TaskAwaits, Awaits, Enders, Assigners, Opening
    <3> QED
      BY <3>2, <3>3
  <2>2. ASSUME NEW q \in Buyers, Runs(q), buyer'[q].t = buyer[q].t,
               buyer'[q].a = buyer[q].a
        PROVE  PaidRemembers(q)'
    <3>1. buyer[q].t \in Tasks /\ task[buyer[q].t].status # "none"
      BY <1>0, <2>2 DEF AloneInv, Known
    <3>2. task'[buyer[q].t].agent = task[buyer[q].t].agent /\ PaidRemembers(q)
      BY <1>1, <3>1 DEF StrayInv
    <3> QED
      BY <2>2, <3>2 DEF PaidRemembers
  <2> QED
    BY <2>1, <2>2
<1>2. ASSUME req' = req, task' = task, NEW x, x = buyer'[p],
             \A q \in Buyers \ {p} : buyer'[q] = buyer[q],
             x.at \in {"payment", "run"} =>
               Runs(p) /\ x.t = buyer[p].t /\ x.a = buyer[p].a,
             \A a \in Agents : agent'[a] = "busy" =>
               agent[a] = "busy" \/ (x.at \in Reserving /\ x.a = a),
             buyer[p].at \in Reserving =>
               \/ x.at \in Reserving /\ x.a = buyer[p].a
               \/ buyer[p].a \in Agents => agent'[buyer[p].a] # "busy"
      PROVE  StrayInv'
  <2>1. /\ \A w \in Workers : Remembers(w)'
        /\ \A q \in Buyers : Runs(q) /\ buyer'[q].t = buyer[q].t
                             /\ buyer'[q].a = buyer[q].a
             => PaidRemembers(q)'
    BY <1>1, <1>2
  <2>2. ASSUME NEW q \in Buyers PROVE PaidRemembers(q)'
    BY <1>2, <2>1 DEF PaidRemembers, Runs
  <2>3. \A u \in Tasks : Active(u) =>
          task'[u].status = "active" /\ task'[u].agent = task[u].agent
    BY <1>2 DEF Active
  <2>4. BusyIsOwned'
    BY <1>0, <1>2, <2>3, BuyerPassesOn
  <2>5. EarlyIsOpen' /\ OneAssigns'
    BY <1>0, <1>2 DEF EarlyIsOpen, OneAssigns
  <2> QED
    BY <2>1, <2>2, <2>4, <2>5 DEF StrayInv
<1>3. ASSUME NEW at, GoOn(p, at), UNCHANGED <<task, req>>
      PROVE  /\ buyer'[p].at = at /\ buyer'[p].a = buyer[p].a
             /\ buyer'[p].t = buyer[p].t
             /\ \A q \in Buyers \ {p} : buyer'[q] = buyer[q]
  BY <1>0, <1>3 DEF PaidRequest
<1>4. ASSUME NEW at, GoOn(p, at), UNCHANGED <<task, req, agent>>,
             buyer[p].at \in Reserving => at \in Reserving,
             at = "run" => Runs(p), at # "payment"
      PROVE  StrayInv'
  <2>1. /\ buyer'[p].at = at /\ buyer'[p].a = buyer[p].a
        /\ buyer'[p].t = buyer[p].t
        /\ \A q \in Buyers \ {p} : buyer'[q] = buyer[q]
    BY <1>3, <1>4
  <2>2. req' = req /\ task' = task /\ agent' = agent
    BY <1>4
  <2> QED
    BY <1>2, <1>4, <2>1, <2>2 DEF Active
<1>5. ASSUME Finish(p)
      PROVE  /\ buyer'[p].at = "idle"
             /\ \A q \in Buyers \ {p} : buyer'[q] = buyer[q]
  BY <1>0, <1>5
<1>6. ASSUME Finish(p), UNCHANGED <<task, req, agent>>,
             buyer[p].at \notin Reserving
      PROVE  StrayInv'
  BY <1>2, <1>5, <1>6 DEF Active
<1>7. CASE \E a \in Agents : AskPrice(p, a)
  <2>1. PICK a \in Agents : AskPrice(p, a)
    BY <1>7
  <2>2. /\ buyer'[p].at = "verify" /\ buyer[p].at = "idle"
        /\ \A q \in Buyers \ {p} : buyer'[q] = buyer[q]
    <3>1. /\ buyer' = [buyer EXCEPT ![p].at = "verify", ![p].a = a]
          /\ buyer[p].at = "idle"
      BY <2>1 DEF AskPrice
    <3> QED
      BY <1>0, <3>1 DEF PaidRequest
  <2>3. UNCHANGED <<task, req, agent>>
    BY <2>1 DEF AskPrice, BoardIsKept
  <2> QED
    BY <1>2, <2>2, <2>3 DEF Active, Reserving
<1>8. CASE VerifyPayment(p)
  <2>1. /\ UNCHANGED <<task, req, agent>> /\ buyer[p].at \notin Reserving
        /\ Finish(p) \/ GoOn(p, "reserve") \/ GoOn(p, "release")
    BY <1>8 DEF VerifyPayment, BoardIsKept, Reserving
  <2> QED
    BY <1>4, <1>6, <2>1
<1>9. CASE ReserveForBuyer(p)
  <2>1. PICK a \in Agents : a = buyer[p].a
    BY <1>9 DEF ReserveForBuyer, BuyersTyped
  <2>2. UNCHANGED <<task, req>> /\ buyer[p].at = "reserve"
    BY <1>9 DEF ReserveForBuyer
  <2>3. CASE agent[a] = "online"
    <3>1. GoOn(p, "settle") /\ \A b \in Agents \ {a} : agent'[b] = agent[b]
      BY <1>9, <2>1, <2>3 DEF ReserveForBuyer, SetAgent, TypeInv, TypeOK
    <3>2. /\ buyer'[p].at = "settle" /\ buyer'[p].a = a
          /\ \A q \in Buyers \ {p} : buyer'[q] = buyer[q]
      BY <1>3, <2>1, <2>2, <3>1
    <3> QED
      BY <1>2, <2>2, <3>1, <3>2, ZenonT(40) DEF Active, Reserving
  <2>4. CASE agent[a] # "online"
    BY <1>6, <1>9, <2>1, <2>2, <2>4 DEF ReserveForBuyer, Reserving
  <2> QED
    BY <2>3, <2>4
<1>10. CASE Settle(p) \/ UpsertSubmitter(p) \/ InsertPayment(p)
  <2>1. /\ UNCHANGED <<task, req, agent>>
        /\ \E at \in {"upsert", "insert", "run", "release"} :
             GoOn(p, at) /\ (at = "run" => Runs(p))
    BY <1>10 DEF Settle, UpsertSubmitter, InsertPayment, BoardIsKept, Runs
  <2> QED
    BY <1>4, <2>1 DEF Reserving
<1>11. ASSUME NEW u \in Tasks, InsertPaidTask(p, u) PROVE StrayInv'
  <2>1. CASE GiveBack(p) /\ UNCHANGED task
    <3>1. GoOn(p, "release") /\ UNCHANGED <<task, req, agent>>
      BY <1>11, <2>1 DEF InsertPaidTask
    <3> HIDE DEF GoOn
    <3> QED
      BY <1>4, <3>1 DEF Reserving
  <2>2. CASE /\ task[u] = NoRow /\ SetRow(u, PaidRow(buyer[p].a))
             /\ buyer' = [buyer EXCEPT ![p].at = "payment", ![p].t = u]
    <3>1. /\ task[u].status = "none" /\ PaidRow(buyer[p].a).agent = buyer[p].a
          /\ PaidRow(buyer[p].a).step = "Executing"
      BY <2>2 DEF NoRow, PaidRow
    <3>2. /\ task'[u].agent = buyer[p].a /\ task'[u].step = "Executing"
          /\ \A v \in Tasks \ {u} : task'[v] = task[v]
          /\ req' = req /\ agent' = agent /\ buyer[p].at = "insert"
      BY <1>11, <2>2, <3>1 DEF InsertPaidTask, SetRow, TypeInv, TypeOK
    <3>3. /\ buyer'[p].t = u /\ buyer'[p].at = "payment"
          /\ buyer'[p].a = buyer[p].a
          /\ \A q \in Buyers \ {p} : buyer'[q] = buyer[q]
      BY <1>0, <2>2 DEF PaidRequest
    <3>4. /\ \A w \in Workers : Remembers(w)'
          /\ \A q \in Buyers : Runs(q) /\ buyer'[q].t = buyer[q].t
                               /\ buyer'[q].a = buyer[q].a
               => PaidRemembers(q)'
      BY <1>1, <3>1, <3>2
    <3>5. ASSUME NEW q \in Buyers PROVE PaidRemembers(q)'
      BY <3>2, <3>3, <3>4 DEF PaidRemembers, Runs
    <3>6. \A v \in Tasks : Active(v) =>
            task'[v].status = "active" /\ task'[v].agent = task[v].agent
      BY <3>1, <3>2 DEF Active
    <3>7. buyer'[p].at \in Reserving
      BY <3>3 DEF Reserving
    <3>8. BusyIsOwned'
      BY <1>0, <3>2, <3>3, <3>6, <3>7, BuyerPassesOn
    <3>9. EarlyIsOpen' /\ OneAssigns'
      BY <1>0, <3>2 DEF EarlyIsOpen, OneAssigns, Early
    <3> QED
      BY <3>4, <3>5, <3>8, <3>9 DEF StrayInv
  <2> QED
    BY <1>11, <2>1, <2>2 DEF InsertPaidTask
<1>12. CASE PaidRunSucceeds(p) \/ PaidRunFails(p)
  <2>1. PICK t \in Tasks : t = buyer[p].t
    BY <1>0, <1>12 DEF PaidRunSucceeds, PaidRunFails, Runs
  <2>2. Runs(p) /\ PaidRemembers(p) /\ GoOn(p, "release")
        /\ req' = req /\ agent' = agent
    BY <1>12 DEF PaidRunSucceeds, PaidRunFails, Runs, StrayInv
  <2>3. /\ \A x \in Tasks \ {t} : task'[x] = task[x]
        /\ task'[t].agent = task[t].agent
        /\ task'[t].step \in Early => task'[t] = task[t]
    <3>1. task[t] \in Row
      BY DEF TypeInv, TypeOK
    <3> DEFINE done == [task[t] EXCEPT !.step = "Verifying", !.age = Fresh,
                                       !.result = "succeeded", !.attempts = 0]
               failed == [task[t] EXCEPT !.status = "failed", !.step = "Executing",
                                         !.age = Fresh, !.result = "fatal",
                                         !.attempts = 0]
    <3>2. /\ done.agent = task[t].agent /\ done.step \notin Early
          /\ failed.agent = task[t].agent /\ failed.step \notin Early
      BY <3>1 DEF Row, Early
    <3> QED
      BY <1>12, <2>1, <3>2
         DEF PaidRunSucceeds, PaidRunFails, UpdateWhere, TypeInv, TypeOK
  <2>4. /\ buyer'[p].at = "release" /\ buyer'[p].a = task[t].agent
        /\ buyer[p].a = task[t].agent
        /\ \A q \in Buyers \ {p} : buyer'[q] = buyer[q]
    BY <1>0, <2>1, <2>2 DEF PaidRequest, PaidRemembers
  <2>5. /\ \A w \in Workers : Remembers(w)'
        /\ \A q \in Buyers : Runs(q) /\ buyer'[q].t = buyer[q].t
                             /\ buyer'[q].a = buyer[q].a
             => PaidRemembers(q)'
    BY <1>1, <2>2, <2>3
  <2>6. ASSUME NEW q \in Buyers PROVE PaidRemembers(q)'
    BY <2>4, <2>5 DEF PaidRemembers, Runs
  <2>7. /\ buyer'[p].at \in Reserving
        /\ \A v \in Tasks : Active(v) =>
             \/ task'[v].status = "active" /\ task'[v].agent = task[v].agent
             \/ buyer'[p].at \in Reserving /\ buyer'[p].a = task[v].agent
    BY <2>3, <2>4 DEF Active, Reserving
  <2>8. BusyIsOwned'
    BY <1>0, <2>2, <2>4, <2>7, BuyerPassesOn
  <2>9. EarlyIsOpen' /\ OneAssigns'
    BY <1>0, <2>2, <2>3 DEF EarlyIsOpen, OneAssigns
  <2> QED
    BY <2>5, <2>6, <2>8, <2>9 DEF StrayInv
<1>13. CASE ReleaseBought(p)
  <2>1. PICK a \in Agents : a = buyer[p].a
    BY <1>13 DEF ReleaseBought, BuyersTyped
  <2>2. /\ UNCHANGED <<task, req>> /\ Finish(p)
        /\ agent'[a] = "online" /\ \A b \in Agents \ {a} : agent'[b] = agent[b]
    BY <1>13, <2>1 DEF ReleaseBought, SetAgent, TypeInv, TypeOK
  <2> QED
    BY <1>2, <1>5, <2>1, <2>2 DEF Active
<1> QED
  BY <1>7, <1>8, <1>9, <1>10, <1>11, <1>12, <1>13 DEF Buy

\* At first an agent is busy only with a row left by an earlier release.
LEMMA StrayInitial == PaidInit => StrayInv
<1> SUFFICES ASSUME PaidInit PROVE StrayInv
  OBVIOUS
<1>1. PICK holder \in [LegacyTasks -> Agents],
           result \in [LegacyTasks -> {"unflagged", "retryable"}] :
        /\ task = [t \in Tasks |-> IF t \in LegacyTasks
                                   THEN LegacyRow(holder[t], result[t])
                                   ELSE NoRow]
        /\ agent = [a \in Agents |->
                      IF \E t \in LegacyTasks : holder[t] = a
                      THEN "busy" ELSE "online"]
  BY DEF PaidInit, Init, BoardInit
<1>2. /\ \A a, rs : /\ LegacyRow(a, rs).agent = a
                     /\ LegacyRow(a, rs).status = "active"
                     /\ LegacyRow(a, rs).step \notin Early
      /\ NoRow.agent = NoAgent
  BY DEF LegacyRow, NoRow, Early
<1>3. LegacyTasks \subseteq Tasks
  BY BoardAssumption
<1>4. /\ \A w \in Workers : req[w].at = "idle"
      /\ \A p \in Buyers : buyer[p].at = "idle"
  BY DEF PaidInit, Init, BoardInit, Idle, NotBuying
<1>5. BusyIsOwned
  BY <1>1, <1>2, <1>3, <1>4 DEF BusyIsOwned, Owned, Owes, Active
<1>6. EarlyIsOpen
  BY <1>1, <1>2, <1>3 DEF EarlyIsOpen
<1>7. OneAssigns
  BY <1>4 DEF OneAssigns, Assigners
<1> QED
  BY <1>4, <1>5, <1>6, <1>7 DEF StrayInv, Remembers, CourseAwaits, Enders,
     Assigners, Opening, PaidRemembers, Runs

\* With nothing in flight a busy agent has an active task: along the course of
\* a task no handler, on any of its ways out, leaves an agent reserved for
\* nothing, whatever fails and is undone, as long as no instance dies and the
\* calls about one task do not overlap, its hires and its paid run apart
\* (execute/route.ts:201-361, releaseAgent on every way out; hire/route.ts, the
\* release of a hire that lost its task and the two writes that undo one;
\* advance/route.ts, the release that follows the last write).
THEOREM ReservationsAreOwned ==
  ASSUME Overlap = FALSE, Handlers \subseteq OwnerRoutes, "crash" \notin Faults
  PROVE  PaidSpec => []NoStrayReservation
<1> DEFINE Inv == PaidInv /\ Serial /\ AloneInv /\ StrayInv
<1>1. Inv => NoStrayReservation
  BY DEF StrayInv, BusyIsOwned, Owned, Owes, Carries, Reserving,
     NoStrayReservation, Idle, NotBuying
<1>2. PaidInit => Inv
  BY PaidInitial, AloneInitial, StrayInitial, InitSerial DEF PaidInit
<1>3. Inv /\ [PaidNext]_pvars => Inv'
  <2> SUFFICES ASSUME Inv, [PaidNext]_pvars PROVE Inv'
    OBVIOUS
  <2>1. TypeInv /\ BuyersTyped /\ {"retry", "reassign"} \cap Handlers = {}
    BY DEF PaidInv, OwnerRoutes
  <2>2. PaidInv'
    BY PaidInductive
  <2>3. ASSUME [Next]_vars, UNCHANGED buyer
        PROVE  Serial' /\ AloneInv' /\ StrayInv'
    BY <2>1, <2>3, SerialStep, NextAlone, NextStray
  <2>4. ASSUME NEW p \in Buyers, Buy(p) \/ \E a \in Agents : AskPrice(p, a)
        PROVE  Serial' /\ AloneInv' /\ StrayInv'
    <3>1. req' = req
      BY <2>4 DEF Buy, AskPrice, VerifyPayment, ReserveForBuyer, Settle,
         UpsertSubmitter, InsertPaidTask, InsertPayment, PaidRunSucceeds,
         PaidRunFails, ReleaseBought, BoardIsKept
    <3> QED
      BY <2>1, <2>4, <3>1, BuyersAlone, BuyersStray DEF Serial
  <2> QED
    BY <2>2, <2>3, <2>4 DEF PaidNext, pvars
<1> QED
  BY <1>1, <1>2, <1>3, PTL DEF PaidSpec

=============================================================================
