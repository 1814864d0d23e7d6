------------------------------- MODULE Disputes -------------------------------
(***************************************************************************)
(* Disputes about a task: alerts in security_alerts, opened by the         *)
(* submitter, closed by an operator's decision, which also moves the task, *)
(* by an operator's flag alone, or by a refund.  The task may be deleted   *)
(* under all of them.                                                      *)
(***************************************************************************)
EXTENDS Ledger

CONSTANTS
  Alerts,   \* alert ids
  NoAlert,
  Slots     \* requests that may be in flight at once

ASSUME NoAlert \notin Alerts

VARIABLES
  task,      \* status and step of each task
  verified,  \* EliosProofVerifier.isVerified
  alert,     \* security_alerts
  req        \* the requests in flight

dvars == <<task, verified, alert, req>>

\* A deleted task has no row.
TaskRow == [status: {"active", "completed", "failed", "deleted"}, complete: BOOLEAN]

Resolutions == {"none", "refund", "release", "dismiss"}

\* decided: there is a resolution; which one is not read again.
Alert == [t: Tasks \cup {NoTask}, resolved: BOOLEAN, decided: BOOLEAN]

NoRow == [t |-> NoTask, resolved |-> FALSE, decided |-> FALSE]

Awaits == {"idle", "disputes", "failedDisputes", "verify", "insert", "close",
           "refuse",
           "openDispute", "readTask", "resolveTask", "resolveAlert"}

Routes == {"none", "release", "refund", "override", "sync", "dispute",
           "resolve"}

\* What a handler's reads left it with.
Request == [at: Awaits, route: Routes, t: Tasks \cup {NoTask},
            h: Hashes \cup {NoHash}, d: Alerts \cup {NoAlert},
            resolution: Resolutions, disputed: BOOLEAN,
            status: {"pending", "confirmed"}]

Idle == [at |-> "idle", route |-> "none", t |-> NoTask, h |-> NoHash,
         d |-> NoAlert, resolution |-> "none", disputed |-> FALSE,
         status |-> "pending"]

DisputesInit ==
  /\ task = [t \in Tasks |-> [status |-> "active", complete |-> FALSE]]
  /\ verified = [t \in Tasks |-> FALSE]
  /\ alert = [d \in Alerts |-> NoRow]
  /\ req = [w \in Slots |-> Idle]

Proceed(w, p) == req' = [req EXCEPT ![w].at = p]
End(w)        == req' = [req EXCEPT ![w] = Idle]

Exists(t) == task[t].status # "deleted"

OpenDisputes(t) == {d \in Alerts : alert[d].t = t /\ ~alert[d].resolved}

OnlyRequests == UNCHANGED <<lvars, task, verified, alert>>

-----------------------------------------------------------------------------
\* POST /tasks/[id]/dispute: open one if there is none.
DisputeRead(w, t) ==
  /\ req[w] = Idle
  /\ Exists(t)
  /\ OpenDisputes(t) = {}
  /\ req' = [req EXCEPT ![w] = [Idle EXCEPT !.at = "openDispute",
                                            !.route = "dispute", !.t = t]]
  /\ OnlyRequests

DisputeInsert(w) ==
  /\ req[w].at = "openDispute"
  /\ \E d \in Alerts :
       /\ alert[d] = NoRow
       /\ alert' = [alert EXCEPT ![d].t = req[w].t]
  /\ End(w)
  /\ UNCHANGED <<lvars, task, verified>>

\* POST /admin/disputes/[alertId]/resolve, on an alert that was open.
ResolveRead(w, d, resolution) ==
  /\ req[w] = Idle
  /\ alert[d].t # NoTask
  /\ ~alert[d].resolved
  /\ req' = [req EXCEPT ![w] =
               [Idle EXCEPT !.at = "readTask", !.route = "resolve", !.d = d,
                            !.t = alert[d].t, !.resolution = resolution]]
  /\ OnlyRequests

\* A completed task is not refunded, one that is gone not decided about; a
\* dismissal leaves the task alone.
ResolveReadTask(w) ==
  LET t == req[w].t IN
  /\ req[w].at = "readTask"
  /\ IF ~Exists(t) \/ (task[t].status = "completed" /\ req[w].resolution = "refund")
     THEN End(w)
     ELSE Proceed(w, IF req[w].resolution = "dismiss" THEN "resolveAlert"
                     ELSE "resolveTask")
  /\ OnlyRequests

\* Mutant: the row is given the resolution for a status.
ResolveTaskNamed(w) ==
  /\ req[w].at = "resolveTask"
  /\ task' = [task EXCEPT ![req[w].t].status = req[w].resolution]
  /\ Proceed(w, "resolveAlert")
  /\ UNCHANGED <<lvars, verified, alert>>

\* The task is written first, by id, whatever its status is by now; when it
\* was deleted since, the update matches no row and reports no error.
ResolveTask(w) ==
  LET t == req[w].t
      row == IF req[w].resolution = "release"
             THEN [status |-> "completed", complete |-> TRUE]
             ELSE [task[t] EXCEPT !.status = "failed"]
  IN
  /\ req[w].at = "resolveTask"
  /\ \/ /\ task' = IF Exists(t) THEN [task EXCEPT ![t] = row] ELSE task
        /\ Proceed(w, "resolveAlert")
     \/ /\ "dbwrite" \in Faults
        /\ End(w)
        /\ UNCHANGED task
  /\ UNCHANGED <<lvars, verified, alert>>

\* The alert second, also by id; when this fails the dispute stays open.
ResolveAlert(w) ==
  /\ req[w].at = "resolveAlert"
  /\ \/ alert' = [alert EXCEPT ![req[w].d].resolved = TRUE,
                               ![req[w].d].decided = TRUE]
     \/ "dbwrite" \in Faults /\ UNCHANGED alert
  /\ End(w)
  /\ UNCHANGED <<lvars, task, verified>>

\* PATCH /security/alerts/[id] closes an alert, as the app has it do, or opens
\* it again: the flag alone.
PatchAlert(d) ==
  /\ alert[d].t # NoTask
  /\ \E resolved \in BOOLEAN : alert' = [alert EXCEPT ![d].resolved = resolved]
  /\ UNCHANGED <<lvars, task, verified, req>>

-----------------------------------------------------------------------------
(* The life of the task, as TaskLifecycle has it.                           *)

\* The last step of advance: the proof is recorded first, and the row is
\* written by id, even if the task was failed while the proof was made.
TaskCompletes(t) ==
  /\ task[t].status \in {"active", "failed"}
  /\ verified' = [verified EXCEPT ![t] = TRUE]
  /\ task' = [task EXCEPT ![t] = [status |-> "completed", complete |-> TRUE]]
  /\ UNCHANGED <<lvars, alert, req>>

\* A timeout, a fatal failure or a cancellation.
TaskFails(t) ==
  /\ task[t].status = "active"
  /\ task' = [task EXCEPT ![t].status = "failed"]
  /\ UNCHANGED <<lvars, verified, alert, req>>

\* An operator has a task that is not completed run again.
TaskRestarts(t) ==
  /\ task[t].status = "failed"
  /\ task' = [task EXCEPT ![t] = [status |-> "active", complete |-> FALSE]]
  /\ UNCHANGED <<lvars, verified, alert, req>>

\* DELETE read the task before it was hired, and deletes it by id now.
TaskDeleted(t) ==
  /\ Exists(t)
  /\ task' = [task EXCEPT ![t] = [status |-> "deleted", complete |-> FALSE]]
  /\ UNCHANGED <<lvars, verified, alert, req>>

=============================================================================
