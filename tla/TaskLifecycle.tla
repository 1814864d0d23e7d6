---------------------------- MODULE TaskLifecycle ----------------------------
(***************************************************************************)
(* The task routes together: any of them may be called at any time, and    *)
(* their awaits interleave.                                                *)
(***************************************************************************)
EXTENDS AdvanceRoute, HireRoute, TimeoutCron, AdminRoutes

Init == BoardInit

\* A request for a task or an agent arrives in slot w.
Arrive(w) ==
  \/ \E t \in Tasks :
       \/ AdvanceRead(w, t) \/ TimeoutRead(w, t) \/ DeleteRead(w, t)
       \/ CancelRead(w, t) \/ RetryRead(w, t)
       \/ ResolveRead(w, t)
       \/ \E a \in Agents : HireRead(w, t, a) \/ ReassignRead(w, t, a)
  \/ \E a \in Agents : SuspendRead(w, a) \/ UnsuspendRead(w, a)

\* The request in slot w passes the await it is suspended at.
Resume(w) ==
  \/ AdvanceStep(w) \/ HireStep(w) \/ TimeoutFail(w) \/ AdminStep(w)
  \/ ReleaseAgent(w)

Next ==
  \/ \E t \in Tasks : CreateTask(t) \/ Tick(t)
  \/ \E w \in Workers : Arrive(w) \/ Resume(w) \/ Crash(w)

Spec == Init /\ [][Next]_vars

(***************************************************************************)
(* Fairness.  Time passes.  A request that does not crash runs to its end: *)
(* every outside call has a timeout of its own.  The cron job keeps        *)
(* calling advance and detect-timeouts for every active task; its calls    *)
(* get an instance of their own, so that the slots being taken by others   *)
(* whenever it fires is an artefact of the bound on slots, and it is not   *)
(* forever that the call, or the write it leads to, crashes.               *)
(***************************************************************************)
CronRuns(t) ==
  /\ SF_vars(\E w \in Workers : AdvanceRead(w, t))
  /\ SF_vars(\E w \in Workers : TimeoutRead(w, t))
  /\ SF_vars(\E w \in Workers : TimeoutFail(w) /\ req[w].t = t)

FairSpec ==
  /\ Spec
  /\ \A w \in Workers : WF_vars(Resume(w))
  /\ \A t \in Tasks : WF_vars(Tick(t)) /\ CronRuns(t)

-----------------------------------------------------------------------------
(* Properties.                                                              *)

\* Rows, agents, proofs and requests have the shape the schema and the
\* handlers give them.
TypeOK ==
  /\ task \in [Tasks -> Row]
  /\ agent \in [Agents -> AgentStatuses]
  /\ verified \in [Tasks -> BOOLEAN]
  /\ produced \in [Tasks -> BOOLEAN]
  /\ req \in [Workers -> Request]

\* A task is completed only when the verifier has recorded its proof, unless
\* an operator decided a dispute for its release, and a proof is only ever
\* submitted for a task whose agent's result was stored, however the calls that
\* store, prove and complete interleave, crash or are overruled
\* (advance/route.ts, the order execute, persist, prove, complete).
CompletionIsEarned ==
  \A t \in Tasks :
    /\ task[t].status = "completed" => verified[t] \/ task[t].ruled
    /\ task[t].proof = "hash" => verified[t]
    /\ verified[t] => produced[t]

\* At most one request runs the model for a task at a time: the claim is a
\* compare-and-set, and nothing but the claimant takes the task back to
\* Assigned (advance/route.ts, "Task execution is already in progress").
OneRunAtATime ==
  \A v, w \in Workers :
    /\ v # w
    /\ {req[v].at, req[w].at} \subseteq {"execute", "misrun"}
    => req[v].t # req[w].t

\* The agent is set and the run has it: a claimed row has an assigned agent
\* (advance/route.ts asserts claimedTask.assigned_agent!).
RunHasAgent == \A w \in Workers : req[w].at # "misrun"

\* A failure stored as retryable leaves an attempt to retry with, so that
\* three failures in a row end the task (the retry budget of advance).
RetryHasBudget ==
  \A t \in Tasks \ LegacyTasks :
    task[t].result = "retryable" => task[t].attempts < MaxAttempts

\* No agent has two active tasks (hire/route.ts, "prevents double-hire"), as
\* long as no write reports an error and no operator overrules.
NoDoubleHire ==
  \A t, u \in Tasks :
    t # u /\ Active(t) /\ Active(u) /\ task[t].agent # NoAgent
      => task[t].agent # task[u].agent

\* An active task's agent is kept reserved for it, on the same condition.
AssigneeIsBusy ==
  \A t \in Tasks :
    Active(t) /\ task[t].agent # NoAgent => agent[task[t].agent] = "busy"

\* Every active task comes to an end (detect-timeouts/route.ts, "nothing can
\* sit stuck forever").
EveryTaskSettles == \A t \in Tasks : Active(t) ~> ~Active(t)

\* An agent reserved by a hire becomes available again.
EveryAgentReturns == \A a \in Agents : agent[a] = "busy" ~> agent[a] # "busy"

\* A completed task is at step Complete, where its escrow can be released.
CompletedIsComplete ==
  \A t \in Tasks : task[t].status = "completed" => task[t].step = "Complete"

=============================================================================
