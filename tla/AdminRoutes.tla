----------------------------- MODULE AdminRoutes -----------------------------
(***************************************************************************)
(* The routes that create and delete tasks, and those by which operators   *)
(* overrule the normal course: cancel, retry and reassign a task, decide a *)
(* dispute about it, suspend an agent and take the suspension back.        *)
(***************************************************************************)
EXTENDS TaskBoard

\* POST /api/tasks.  Ids are generated and never used again.
CreateTask(t) ==
  /\ "create" \in Handlers
  /\ task[t].status = "none"
  /\ SetRow(t, [NoRow EXCEPT !.status = "active"])
  /\ UNCHANGED <<agent, verified, produced, req>>

\* DELETE /api/tasks/[id]: the step is read, the row is deleted by its id.
DeleteRead(w, t) ==
  /\ "delete" \in Handlers
  /\ Free(w, t)
  /\ Exists(t)
  /\ task[t].step \in {"Submitted", "Decomposed"}
  /\ Begin(w, About("delete", t))
  /\ OnlyRequests

DeleteWrite(w) ==
  LET t == req[w].t IN
  /\ req[w].at = "delete"
  /\ UpdateWhere(t, TRUE, [NoRow EXCEPT !.status = "deleted"])
  /\ End(w)
  /\ OnlyTasks

-----------------------------------------------------------------------------
\* The reads of cancel, retry and reassign: the task is not completed.
Overrulable(t) == Exists(t) /\ task[t].status # "completed"

\* Put agent a back online; an error of this statement goes unnoticed.
LooseRelease(a) ==
  \/ SetAgent(a, "online")
  \/ "dbwrite" \in Faults /\ UNCHANGED agent

CancelRead(w, t) ==
  LET a == task[t].agent IN
  /\ "cancel" \in Handlers
  /\ Free(w, t)
  /\ Overrulable(t)
  /\ Begin(w, IF a = NoAgent THEN About("cancel", t)
              ELSE [About("cancelRelease", t) EXCEPT !.a = a])
  /\ OnlyRequests

CancelRelease(w) ==
  /\ req[w].at = "cancelRelease"
  /\ LooseRelease(req[w].a)
  /\ Proceed(w, "cancel")
  /\ OnlyAgents

CancelWrite(w) ==
  LET t == req[w].t IN
  /\ req[w].at = "cancel"
  /\ UpdateWhere(t, TRUE, [task[t] EXCEPT !.status = "failed", !.age = Fresh])
  /\ End(w)
  /\ OnlyTasks

RetryRead(w, t) ==
  /\ "retry" \in Handlers
  /\ Free(w, t)
  /\ Overrulable(t)
  /\ task[t].agent # NoAgent
  /\ Begin(w, About("retry", t))
  /\ OnlyRequests

\* The row made active again, at Assigned, with no result on record.
Restarted(row, a) ==
  [row EXCEPT !.status = "active", !.step = "Assigned", !.agent = a,
              !.result = "null", !.attempts = 0, !.age = Fresh]

RetryWrite(w) ==
  LET t == req[w].t IN
  /\ req[w].at = "retry"
  /\ UpdateWhere(t, TRUE, Restarted(task[t], task[t].agent))
  /\ End(w)
  /\ OnlyTasks

\* Reassign to agent b, which must not be busy when it is read.
ReassignRead(w, t, b) ==
  LET a == task[t].agent IN
  /\ "reassign" \in Handlers
  /\ Free(w, t)
  /\ Overrulable(t)
  /\ agent[b] # "busy"
  /\ Begin(w, [About(IF a = NoAgent THEN "reassign" ELSE "reassignRelease", t)
                 EXCEPT !.a = a, !.b = b])
  /\ OnlyRequests

ReassignRelease(w) ==
  /\ req[w].at = "reassignRelease"
  /\ LooseRelease(req[w].a)
  /\ Proceed(w, "reassign")
  /\ OnlyAgents

ReassignWrite(w) ==
  LET t == req[w].t IN
  /\ req[w].at = "reassign"
  /\ UpdateWhere(t, TRUE, Restarted(task[t], req[w].b))
  /\ Proceed(w, "occupy")
  /\ OnlyTasks

Occupy(w) ==
  /\ req[w].at = "occupy"
  /\ SetAgent(req[w].b, "busy")
  /\ End(w)
  /\ OnlyAgents

-----------------------------------------------------------------------------
\* POST /api/admin/disputes/[alertId]/resolve, with what it does to the task
\* (Disputes has the alert): the submitter may dispute any task, a completed
\* one is not refunded, and a dismissal leaves the task alone.
ResolveRead(w, t) ==
  /\ "resolve" \in Handlers
  /\ Free(w, t)
  /\ Exists(t)
  /\ \/ Begin(w, About("resolveRelease", t))
     \/ task[t].status # "completed" /\ Begin(w, About("resolveRefund", t))
  /\ OnlyRequests

\* The row as the decision leaves it; neither its result nor its proof is
\* looked at.
Refunded(row) == [row EXCEPT !.status = "failed", !.age = Fresh]
Released(row) == [row EXCEPT !.status = "completed", !.step = "Complete",
                             !.age = Fresh, !.ruled = TRUE]

ResolveWrite(w) ==
  LET t == req[w].t IN
  /\ \/ /\ req[w].at = "resolveRefund"
        /\ UpdateWhere(t, TRUE, Refunded(task[t]))
     \/ /\ req[w].at = "resolveRelease"
        /\ UpdateWhere(t, TRUE, Released(task[t]))
  /\ End(w)
  /\ OnlyTasks

-----------------------------------------------------------------------------
\* POST and DELETE /api/admin/agents/[id]/suspend.
SuspendRead(w, a) ==
  /\ "suspend" \in Handlers
  /\ FreeForAll(w)
  /\ agent[a] # "suspended"
  /\ Begin(w, [Idle EXCEPT !.at = "suspend", !.a = a])
  /\ OnlyRequests

SuspendWrite(w) ==
  /\ req[w].at = "suspend"
  /\ SetAgent(req[w].a, "suspended")
  /\ Proceed(w, "cascade")
  /\ OnlyAgents

\* One statement fails every active task assigned to the agent.
Cascade(w) ==
  LET hit(t) == Active(t) /\ task[t].agent = req[w].a IN
  /\ req[w].at = "cascade"
  /\ task' = [t \in Tasks |->
                IF hit(t) THEN [task[t] EXCEPT !.status = "failed",
                                               !.age = Fresh]
                ELSE task[t]]
  /\ End(w)
  /\ OnlyTasks

UnsuspendRead(w, a) ==
  /\ "unsuspend" \in Handlers
  /\ FreeForAll(w)
  /\ agent[a] = "suspended"
  /\ Begin(w, [Idle EXCEPT !.at = "unsuspend", !.a = a])
  /\ OnlyRequests

UnsuspendWrite(w) ==
  /\ req[w].at = "unsuspend"
  /\ SetAgent(req[w].a, "offline")
  /\ End(w)
  /\ OnlyAgents

AdminStep(w) ==
  \/ DeleteWrite(w) \/ CancelRelease(w) \/ CancelWrite(w) \/ RetryWrite(w)
  \/ ReassignRelease(w) \/ ReassignWrite(w) \/ Occupy(w)
  \/ ResolveWrite(w)
  \/ SuspendWrite(w) \/ Cascade(w) \/ UnsuspendWrite(w)

=============================================================================
