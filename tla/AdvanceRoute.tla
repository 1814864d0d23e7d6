----------------------------- MODULE AdvanceRoute ----------------------------
(***************************************************************************)
(* POST /api/tasks/[id]/advance: the handler that moves a task one step on,*)
(* runs its agent and has the result proven on chain.  It is called by the *)
(* cron job, by the submitter and by admins, so several calls for one task *)
(* may be in flight.                                                       *)
(***************************************************************************)
EXTENDS TaskBoard

\* Mutant: a step name the tasks table does not have.
NextStepMisnamed ==
  [Submitted |-> "Decomposed", Assigned |-> "Executing",
   Executing |-> "Verifying",  Verifying |-> "Completed"]

NextStep == [Submitted |-> "Decomposed", Assigned |-> "Executing",
             Executing |-> "Verifying",  Verifying |-> "Complete"]

\* The failure recorded in the row, as the handler reads it.
RetryableFailure(row) == row.result = "retryable"
Exhausted(row)        == RetryableFailure(row) /\ row.attempts >= MaxAttempts
CoolingDown(row)      == RetryableFailure(row) /\ row.age < Cooled

\* The task may be claimed for a run: no failure is recorded, or one that is
\* retryable, has attempts left and is past its cooldown.
Runnable(row) == /\ row.result \notin {"fatal", "unflagged"}
                 /\ ~Exhausted(row)
                 /\ ~CoolingDown(row)

\* The row has what the step after the current one needs besides an agent.
ReadyToMove(row) ==
  \/ row.step = "Submitted"
  \/ row.step = "Executing" /\ row.result = "succeeded"
  \/ row.step = "Verifying" /\ row.proof = "hash"

-----------------------------------------------------------------------------
\* The read of the row and the checks on it, up to the first write.
AdvanceRead(w, t) ==
  LET row == task[t] IN
  /\ "advance" \in Handlers
  /\ Free(w, t)
  /\ row.status = "active"
  /\ row.age >= Ripe
  /\ \/ /\ ReadyToMove(row)
        /\ Begin(w, [About("move", t) EXCEPT !.step = NextStep[row.step]])
     \/ /\ row.step = "Verifying" /\ row.proof = "null"
        /\ row.result = "succeeded"
        /\ Begin(w, About("prove", t))
     \/ /\ row.step = "Assigned" /\ row.agent # NoAgent /\ Runnable(row)
        /\ Begin(w, [About("claim", t) EXCEPT !.a = row.agent,
                                              !.attempts = row.attempts])
     \/ /\ row.step = "Assigned" /\ row.agent # NoAgent
        /\ row.result = "unflagged" \/ Exhausted(row)
        /\ Begin(w, [About("giveUp", t) EXCEPT !.a = row.agent])
  /\ OnlyRequests

\* Mutant: a failure takes the agent off the task.
FailedRowUnassigned(row, attempts, terminal) ==
  [row EXCEPT !.status = IF terminal THEN "failed" ELSE "active",
              !.step = "Assigned",
              !.agent = NoAgent,
              !.age = Fresh,
              !.result = IF terminal THEN "fatal" ELSE "retryable",
              !.attempts = IF terminal THEN 0 ELSE attempts]

\* persistExecutionFailure's write to the task.
FailedRow(row, attempts, terminal) ==
  [row EXCEPT !.status = IF terminal THEN "failed" ELSE "active",
              !.step = "Assigned",
              !.age = Fresh,
              !.result = IF terminal THEN "fatal" ELSE "retryable",
              !.attempts = IF terminal THEN 0 ELSE attempts]

\* Mutant: a terminal failure does not release the agent.
PersistFailureKeeping(w, expected, attempts, terminal) ==
  LET t == req[w].t IN
  /\ UpdateWhere(t, task[t].step = expected,
                 FailedRow(task[t], attempts, terminal))
  /\ End(w)
  /\ OnlyTasks

\* persistExecutionFailure: the write matches on the step alone; a terminal
\* failure then releases the agent, whether or not the write matched, and even
\* when it failed: its error is not looked at.
PersistFailure(w, expected, attempts, terminal) ==
  LET t == req[w].t IN
  /\ \/ UpdateWhere(t, task[t].step = expected,
                    FailedRow(task[t], attempts, terminal))
     \/ "dbwrite" \in Faults /\ UNCHANGED task
  /\ IF terminal THEN ReleaseNext(w, req[w].a) ELSE End(w)
  /\ OnlyTasks

\* A failure that must not be retried was on record: close the task.
GiveUp(w) ==
  /\ req[w].at = "giveUp"
  /\ PersistFailure(w, "Assigned", 0, TRUE)

\* Mutant: the claim matches on the id alone.
ClaimUnguarded(w) ==
  LET t == req[w].t IN
  /\ req[w].at = "claim"
  /\ UpdateWhere(t, TRUE, [task[t] EXCEPT !.step = "Executing", !.age = Fresh,
                                          !.result = "running", !.attempts = 0])
  /\ Proceed(w, "execute")
  /\ OnlyTasks

\* Claim the run.  The statement matches on the step, and the caller that
\* matches no row leaves the task to whoever did.
Claim(w) ==
  LET t == req[w].t IN
  /\ req[w].at = "claim"
  /\ UpdateWhere(t, task[t].step = "Assigned",
                 [task[t] EXCEPT !.step = "Executing", !.age = Fresh,
                                 !.result = "running", !.attempts = 0])
  /\ IF Exists(t) /\ task[t].step = "Assigned"
     THEN Proceed(w, IF task[t].agent = NoAgent THEN "misrun" ELSE "execute")
     ELSE End(w)
  /\ OnlyTasks

\* The model call returned a result: store it, if the task is still at
\* Executing.  A statement that matches no row, or that reports an error
\* (applied or not), sends the handler on to undo the claim.
RunSucceeds(w) ==
  LET t == req[w].t
      matches == Exists(t) /\ task[t].step = "Executing"
  IN
  /\ req[w].at = "execute"
  /\ \/ /\ matches
        /\ SetRow(t, [task[t] EXCEPT !.result = "succeeded", !.attempts = 0])
        /\ produced' = [produced EXCEPT ![t] = TRUE]
        /\ End(w) \/ ("dbwrite" \in Faults /\ Proceed(w, "putBack"))
     \/ /\ ~matches \/ "dbwrite" \in Faults
        /\ Proceed(w, "putBack")
        /\ UNCHANGED <<task, produced>>
  /\ UNCHANGED <<agent, verified>>

\* Mutant: one attempt too many is retried.
RunFailsLate(w, retryable) ==
  LET attempts == req[w].attempts + 1 IN
  /\ req[w].at = "execute" \/ (req[w].at = "misrun" /\ ~retryable)
  /\ PersistFailure(w, "Executing", attempts,
                    ~retryable \/ attempts > MaxAttempts)

\* The model call failed, or the claimed row had no agent to run.
RunFails(w, retryable) ==
  LET attempts == req[w].attempts + 1 IN
  /\ req[w].at = "execute" \/ (req[w].at = "misrun" /\ ~retryable)
  /\ PersistFailure(w, "Executing", attempts,
                    ~retryable \/ attempts >= MaxAttempts)

PutBack(w) ==
  LET t == req[w].t IN
  /\ req[w].at = "putBack"
  /\ UpdateWhere(t, task[t].step = "Executing",
                 [task[t] EXCEPT !.step = "Assigned", !.age = Fresh])
  /\ End(w)
  /\ OnlyTasks

\* Mutant: a submission that failed or reverted is taken for a success.
ProveUnchecked(w) ==
  LET t == req[w].t IN
  /\ req[w].at = "prove"
  /\ verified' = [verified EXCEPT ![t] = "chain" \notin Faults]
  /\ req' = [req EXCEPT ![w].at = "move", ![w].step = "Complete"]
  /\ UNCHANGED <<task, agent, produced>>

\* submitProofOnChain.  The verifier reverts for a task it has recorded, and
\* a submission can fail before it is mined or lose its receipt after; in
\* each case the handler gives up and the task stays where it is.
Prove(w) ==
  LET t == req[w].t IN
  /\ req[w].at = "prove"
  /\ \/ /\ ~verified[t]
        /\ verified' = [verified EXCEPT ![t] = TRUE]
        /\ \/ req' = [req EXCEPT ![w].at = "move", ![w].step = "Complete"]
           \/ "chain" \in Faults /\ End(w)
     \/ /\ verified[t] \/ "chain" \in Faults
        /\ End(w)
        /\ UNCHANGED verified
  /\ UNCHANGED <<task, agent, produced>>

\* Mutant: the status is completed one step early.
MovedRowEarly(row, step) ==
  [row EXCEPT !.step = step, !.age = Fresh,
              !.status = IF step \in {"Verifying", "Complete"}
                         THEN "completed" ELSE @,
              !.proof = IF step = "Complete" THEN "hash" ELSE @]

\* The handler's own step change: it matches on the id alone.
MovedRow(row, step) ==
  IF step = "Complete"
  THEN [row EXCEPT !.step = step, !.age = Fresh, !.status = "completed",
                   !.proof = "hash"]
  ELSE [row EXCEPT !.step = step, !.age = Fresh]

\* Mutant: completion does not release the agent.
MoveKeeping(w) ==
  LET t == req[w].t IN
  /\ req[w].at = "move"
  /\ UpdateWhere(t, TRUE, MovedRow(task[t], req[w].step))
  /\ End(w)
  /\ OnlyTasks

Move(w) ==
  LET t == req[w].t IN
  /\ req[w].at = "move"
  /\ UpdateWhere(t, TRUE, MovedRow(task[t], req[w].step))
  /\ IF Exists(t) /\ req[w].step = "Complete"
     THEN ReleaseNext(w, task[t].agent) ELSE End(w)
  /\ OnlyTasks

AdvanceStep(w) ==
  \/ GiveUp(w) \/ Claim(w) \/ RunSucceeds(w) \/ PutBack(w) \/ Prove(w)
  \/ \E retryable \in BOOLEAN : RunFails(w, retryable)
  \/ Move(w)

=============================================================================
