------------------------------ MODULE HireRoute ------------------------------
(***************************************************************************)
(* POST /api/agents/[id]/hire: the submitter, having locked the escrow,    *)
(* reserves an agent and assigns it to the task.                           *)
(***************************************************************************)
EXTENDS TaskBoard

\* The reads of the agent and the task, and the check of the lock
\* transaction (a transaction without a receipt yet passes it).  The first
\* write repeats the test of the agent's status, so the order of the reads
\* does not show.
HireRead(w, t, a) ==
  /\ "hire" \in Handlers
  /\ FreeForHire(w, t)
  /\ agent[a] = "online"
  /\ Active(t)
  /\ task[t].agent = NoAgent
  /\ Begin(w, [About("reserve", t) EXCEPT !.a = a, !.step = task[t].step,
                                          !.age = task[t].age])
  /\ OnlyRequests

\* Mutant: the reservation matches on the id alone.
ReserveUnguarded(w) ==
  /\ req[w].at = "reserve"
  /\ SetAgent(req[w].a, "busy")
  /\ Proceed(w, "assign")
  /\ OnlyAgents

\* Mutant: the agent is checked and not reserved.
ReserveUnwritten(w) ==
  /\ req[w].at = "reserve"
  /\ IF agent[req[w].a] = "online" THEN Proceed(w, "assign") ELSE End(w)
  /\ UNCHANGED agent
  /\ OnlyAgents

\* Compare-and-set of the agent from online to busy.
Reserve(w) ==
  LET a == req[w].a IN
  /\ req[w].at = "reserve"
  /\ IF agent[a] = "online"
     THEN SetAgent(a, "busy") /\ Proceed(w, "assign")
     ELSE UNCHANGED agent /\ End(w)
  /\ OnlyAgents

\* Compare-and-set of the task: still active and not assigned.  When no row
\* matched, or an error is reported, of a statement that was applied or not,
\* the agent is released.
Assign(w) ==
  LET t == req[w].t
      a == req[w].a
      open == Active(t) /\ task[t].agent = NoAgent
      assigned == [task[t] EXCEPT !.agent = a, !.step = "Assigned", !.age = Fresh]
  IN
  /\ req[w].at = "assign"
  /\ \/ /\ UpdateWhere(t, open, assigned)
        /\ IF open THEN Proceed(w, "record") ELSE ReleaseNext(w, a)
     \/ /\ "dbwrite" \in Faults
        /\ UpdateWhere(t, open, assigned) \/ UNCHANGED task
        /\ ReleaseNext(w, a)
  /\ OnlyTasks

\* Insert the escrow_lock transaction.  When the insert fails the handler
\* undoes the two writes above with two statements sent together.
Record(w) ==
  /\ req[w].at = "record"
  /\ End(w) \/ ("insert" \in Faults /\ Proceed(w, "rollback"))
  /\ OnlyRequests

RollbackAgent(w) ==
  /\ req[w].at \in {"rollback", "rollbackAgent"}
  /\ SetAgent(req[w].a, "online")
  /\ IF req[w].at = "rollback" THEN Proceed(w, "rollbackTask") ELSE End(w)
  /\ OnlyAgents

RollbackTask(w) ==
  LET t == req[w].t IN
  /\ req[w].at \in {"rollback", "rollbackTask"}
  /\ UpdateWhere(t, TRUE, [task[t] EXCEPT !.agent = NoAgent,
                                          !.step = req[w].step,
                                          !.age = req[w].age])
  /\ IF req[w].at = "rollback" THEN Proceed(w, "rollbackAgent") ELSE End(w)
  /\ OnlyTasks

HireStep(w) ==
  \/ Reserve(w) \/ Assign(w) \/ Record(w)
  \/ RollbackAgent(w) \/ RollbackTask(w)

=============================================================================
