----------------------------- MODULE TimeoutCron -----------------------------
(***************************************************************************)
(* GET /api/cron/detect-timeouts: fails the active tasks that have been in *)
(* one step for too long.  The job reads all active tasks once and then    *)
(* works through them, so each task it fails is judged by a row read       *)
(* earlier; here every such task is a request of its own.                  *)
(***************************************************************************)
EXTENDS TaskBoard

\* Mutant: a task waiting to be hired never times out.
HasTimeoutOnceHired(step) == step \notin {"Decomposed", "Complete"}

\* STEP_TIMEOUT_SECONDS has an entry for the step.
HasTimeout(step) == step # "Complete"

TimeoutRead(w, t) ==
  /\ "timeouts" \in Handlers
  /\ Free(w, t)
  /\ Active(t)
  /\ HasTimeout(task[t].step)
  /\ task[t].age = Overdue
  /\ Begin(w, [About("timeoutFail", t) EXCEPT !.a = task[t].agent,
                                              !.step = task[t].step])
  /\ OnlyRequests

\* The statement matches active rows, whatever step they are in by now; the
\* agent read earlier is released next even when it matched none.
TimeoutFail(w) ==
  LET t == req[w].t IN
  /\ req[w].at = "timeoutFail"
  /\ UpdateWhere(t, Active(t),
                 [task[t] EXCEPT !.status = "failed", !.age = Fresh,
                                 !.result = "fatal", !.attempts = 0])
  /\ ReleaseNext(w, req[w].a)
  /\ OnlyTasks

=============================================================================
