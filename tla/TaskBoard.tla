------------------------------ MODULE TaskBoard ------------------------------
(***************************************************************************)
(* The state the task routes of the Next.js app share: the tasks and agents*)
(* tables of the database, the on-chain verifier's record of proven tasks, *)
(* and the requests in flight.                                             *)
(*                                                                         *)
(* A route handler is a sequence of awaits.  Each database statement or    *)
(* outside call is one atomic step, and between two of them any other      *)
(* request may run, so a request in flight is a slot holding the name of   *)
(* the await it is suspended at and what its earlier reads left in its     *)
(* local variables.  A handler whose next statement only logs has ended.   *)
(***************************************************************************)
EXTENDS Naturals, FiniteSets

CONSTANTS
  Tasks,        \* task ids
  Agents,       \* agent ids
  Workers,      \* request slots: how many requests can be in flight
  NoTask,       \* an idle slot's task
  NoAgent,      \* null in assigned_agent
  MaxAttempts,  \* MAX_RETRYABLE_EXECUTION_ATTEMPTS
  Handlers,     \* the routes that are called
  Faults,       \* the failures that happen
  Overlap,      \* may any two requests for one task be in flight at once?
  LegacyTasks   \* rows left by an earlier release of the app

AllHandlers == {"create", "delete", "advance", "hire", "timeouts", "cancel",
                "retry", "reassign", "resolve", "suspend", "unsuspend"}

AllFaults == {"crash",    \* a request stops between two awaits
              "insert",   \* an INSERT into transactions fails
              "dbwrite",  \* an UPDATE reports an error and the route goes on
              "chain"}    \* a proof submission fails, before or after mining

ASSUME BoardAssumption ==
  /\ MaxAttempts \in Nat \ {0}
  /\ NoAgent \notin Agents
  /\ NoTask \notin Tasks
  /\ Handlers \subseteq AllHandlers
  /\ Faults \subseteq AllFaults
  /\ Overlap \in BOOLEAN
  /\ LegacyTasks \subseteq Tasks

VARIABLES
  task,      \* the tasks table
  agent,     \* agents.status
  verified,  \* EliosProofVerifier.taskVerified
  produced,  \* history: tasks for which a successful run was ever stored
  req        \* the request slots

vars == <<task, agent, verified, produced, req>>

-----------------------------------------------------------------------------
(* Rows.                                                                    *)

Statuses == {"none", "active", "completed", "failed", "deleted"}

Steps == {"Submitted", "Decomposed", "Assigned", "Executing", "Verifying",
          "Complete"}

\* execution_result: null, running, succeeded, or failed with a failure that
\* is retryable, fatal (flagged terminal), or non-retryable and not flagged.
Results == {"null", "running", "succeeded", "retryable", "fatal", "unflagged"}

\* The age of a row is how far now is past step_changed_at, told apart as
\* finely as the code does: below the minimum a step must last; past it; past
\* the retry cooldown too; past the timeout of the step.  The constants of
\* the code order the four for every step (15 < 60..120 < 900 for Assigned).
Fresh   == 0
Ripe    == 1
Cooled  == 2
Overdue == 3
Ages    == 0..3

\* ruled is a history field: an operator's decision completed the task.
\* zk_verify_tx_hash: null, or the hash of the transaction that proved the task.
Proofs == {"null", "hash"}

Row == [status: Statuses, step: Steps, agent: Agents \cup {NoAgent},
        result: Results, attempts: 0..MaxAttempts, age: Ages, proof: Proofs,
        ruled: BOOLEAN]

NoRow == [status |-> "none", step |-> "Submitted", agent |-> NoAgent,
          result |-> "null", attempts |-> 0, age |-> Fresh, proof |-> "null",
          ruled |-> FALSE]

AgentStatuses == {"online", "busy", "offline", "suspended"}

Exists(t) == task[t].status \notin {"none", "deleted"}
Active(t) == task[t].status = "active"

-----------------------------------------------------------------------------
(* Requests in flight.                                                      *)

Awaits == {"idle", "release",
           "claim", "giveUp", "execute", "misrun", "putBack", "prove", "move",
           "reserve", "assign", "record",
           "rollback", "rollbackAgent", "rollbackTask",
           "timeoutFail", "delete", "cancelRelease", "cancel", "retry",
           "reassignRelease", "reassign", "occupy",
           "resolveRefund", "resolveRelease",
           "suspend", "cascade", "unsuspend"}

Request == [at: Awaits, t: Tasks \cup {NoTask}, a: Agents \cup {NoAgent},
            b: Agents \cup {NoAgent}, step: Steps, attempts: 0..MaxAttempts,
            age: Ages]

Idle == [at |-> "idle", t |-> NoTask, a |-> NoAgent, b |-> NoAgent,
         step |-> "Submitted", attempts |-> 0, age |-> Fresh]

\* The local variables a request keeps about task t, suspended at p.
About(p, t) == [Idle EXCEPT !.at = p, !.t = t]

\* A request for task t may start in slot w.
Free(w, t) ==
  /\ req[w] = Idle
  /\ \/ Overlap
     \/ \A v \in Workers : req[v] = Idle \/ req[v].t \notin {t, NoTask}

\* A hire may always overlap other hires of the task.
FreeForHire(w, t) ==
  /\ req[w] = Idle
  /\ \/ Overlap
     \/ \A v \in Workers : \/ req[v] = Idle \/ req[v].t \notin {t, NoTask}
                           \/ req[v].at \in {"reserve", "assign"}

\* A request for an agent, which may touch any task, may start in slot w.
FreeForAll(w) == req[w] = Idle /\ (Overlap \/ \A v \in Workers : req[v] = Idle)

Begin(w, r)   == req' = [req EXCEPT ![w] = r]
Proceed(w, p) == req' = [req EXCEPT ![w].at = p]
End(w)        == req' = [req EXCEPT ![w] = Idle]

\* The request's last write: put agent a back online, when there is one.
ReleaseNext(w, a) ==
  req' = [req EXCEPT ![w] = IF a = NoAgent THEN Idle
                            ELSE [Idle EXCEPT !.at = "release",
                                              !.t = req[w].t, !.a = a]]

-----------------------------------------------------------------------------
(* Statements.                                                              *)

SetRow(t, row)    == task' = [task EXCEPT ![t] = row]
SetAgent(a, s)    == agent' = [agent EXCEPT ![a] = s]
OnlyRequests      == UNCHANGED <<task, agent, verified, produced>>
OnlyTasks         == UNCHANGED <<agent, verified, produced>>
OnlyAgents        == UNCHANGED <<task, verified, produced>>

\* UPDATE tasks SET ... WHERE id = t AND cond: no row, or a row that does not
\* match, is left alone and is not an error.
UpdateWhere(t, cond, row) ==
  task' = [task EXCEPT ![t] = IF Exists(t) /\ cond THEN row ELSE @]

\* agents.status := 'online' for the agent the request holds in a, whatever
\* the status is by now; the last write of every handler that ends in it.
ReleaseAgent(w) ==
  /\ req[w].at = "release"
  /\ SetAgent(req[w].a, "online")
  /\ End(w)
  /\ OnlyAgents

\* The function instance dies, or a database error the route answers with an
\* error status, having changed nothing, ends it.
Crash(w) ==
  /\ "crash" \in Faults
  /\ req[w] # Idle
  /\ End(w)
  /\ OnlyRequests

\* Time passes for an active row, to the next age the code tells apart.
Tick(t) ==
  /\ Active(t)
  /\ task[t].age < Overdue
  /\ LET later == IF task[t].age = Ripe /\ task[t].step # "Assigned"
                  THEN Overdue ELSE task[t].age + 1
     IN  SetRow(t, [task[t] EXCEPT !.age = later])
  /\ UNCHANGED <<agent, verified, produced, req>>

\* A row an earlier release could have left: assigned and failed, either
\* non-retryable without the terminal flag or with its attempts used up.
LegacyRow(a, result) ==
  [NoRow EXCEPT !.status = "active", !.step = "Assigned", !.agent = a,
                !.result = result,
                !.attempts = IF result = "retryable" THEN MaxAttempts ELSE 0]

BoardInit ==
  /\ verified = [t \in Tasks |-> FALSE]
  /\ produced = [t \in Tasks |-> FALSE]
  /\ req = [w \in Workers |-> Idle]
  /\ \E holder \in [LegacyTasks -> Agents],
        result \in [LegacyTasks -> {"unflagged", "retryable"}] :
       /\ \A t, u \in LegacyTasks : holder[t] = holder[u] => t = u
       /\ task = [t \in Tasks |-> IF t \in LegacyTasks
                                  THEN LegacyRow(holder[t], result[t])
                                  ELSE NoRow]
       /\ agent = [a \in Agents |->
                     IF \E t \in LegacyTasks : holder[t] = a
                     THEN "busy" ELSE "online"]

=============================================================================
