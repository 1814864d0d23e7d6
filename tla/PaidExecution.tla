---------------------------- MODULE PaidExecution ----------------------------
(***************************************************************************)
(* POST /api/agents/[id]/execute: anyone pays an agent over x402 and has it*)
(* run at once.  One request reserves the agent, settles the payment,      *)
(* inserts a task that is already at Executing, runs the model and releases*)
(* the agent, while the other routes work on the same two tables; the task *)
(* is proven and completed by the advance route like any other.            *)
(***************************************************************************)
EXTENDS TaskLifecycle

CONSTANTS
  Buyers,      \* paid requests that may be in flight at once
  PaidFaults   \* what may go wrong in them

AllPaidFaults == {"throw",    \* an outside call throws before the reservation
                  "upsert",   \* the submitter cannot be stored
                  "task",     \* the task cannot be inserted
                  "payment"}  \* the payment record cannot be inserted

ASSUME PaidAssumption == PaidFaults \subseteq AllPaidFaults

VARIABLES
  buyer,    \* the paid requests
  settled   \* history: the buyers whose payment was taken, of the open request

pvars == <<vars, buyer, settled>>

PaidAwaits == {"idle", "verify", "reserve", "settle", "upsert", "insert",
               "payment", "run", "release"}

PaidRequest == [at: PaidAwaits, t: Tasks \cup {NoTask}, a: Agents \cup {NoAgent}]

NotBuying == [at |-> "idle", t |-> NoTask, a |-> NoAgent]

PaidInit ==
  /\ Init
  /\ buyer = [p \in Buyers |-> NotBuying]
  /\ settled = {}

GoOn(p, at)  == buyer' = [buyer EXCEPT ![p].at = at]
GiveBack(p)  == GoOn(p, "release")
Finish(p)    == buyer' = [buyer EXCEPT ![p] = NotBuying]
BoardIsKept  == UNCHANGED <<task, agent, verified, produced, req>>

-----------------------------------------------------------------------------
\* The agent's price and address are read; only an offline one is refused.
AskPrice(p, a) ==
  /\ buyer[p] = NotBuying
  /\ agent[a] # "offline"
  /\ buyer' = [buyer EXCEPT ![p].at = "verify", ![p].a = a]
  /\ BoardIsKept /\ UNCHANGED settled

\* The facilitator accepts the payment, or not; when the call throws, the
\* outer catch releases an agent this request has not reserved.
VerifyPayment(p) ==
  /\ buyer[p].at = "verify"
  /\ \/ GoOn(p, "reserve") \/ Finish(p)
     \/ "throw" \in PaidFaults /\ GiveBack(p)
  /\ BoardIsKept /\ UNCHANGED settled

ReserveForBuyer(p) ==
  LET a == buyer[p].a IN
  /\ buyer[p].at = "reserve"
  /\ IF agent[a] = "online"
     THEN SetAgent(a, "busy") /\ GoOn(p, "settle")
     ELSE UNCHANGED agent /\ Finish(p)
  /\ UNCHANGED <<task, verified, produced, req, settled>>

\* Mutant: the agent stays reserved when the payment fails.
SettleKeeping(p) ==
  /\ buyer[p].at = "settle"
  /\ \/ settled' = settled \cup {p} /\ GoOn(p, "upsert")
     \/ UNCHANGED settled /\ Finish(p)
  /\ BoardIsKept

\* Mutant: a payment that failed is not noticed.
SettleUnchecked(p) ==
  /\ buyer[p].at = "settle"
  /\ settled' \in {settled, settled \cup {p}}
  /\ GoOn(p, "upsert")
  /\ BoardIsKept

Settle(p) ==
  /\ buyer[p].at = "settle"
  /\ \/ settled' = settled \cup {p} /\ GoOn(p, "upsert")
     \/ UNCHANGED settled /\ GiveBack(p)
  /\ BoardIsKept

UpsertSubmitter(p) ==
  /\ buyer[p].at = "upsert"
  /\ GoOn(p, "insert") \/ ("upsert" \in PaidFaults /\ GiveBack(p))
  /\ BoardIsKept /\ UNCHANGED settled

\* Mutant: the task starts where a hired one does.
PaidRowAssigned(a) ==
  [NoRow EXCEPT !.status = "active", !.step = "Assigned", !.agent = a]

\* Mutant: a result the stored ones do not include.
PaidRowQueued(a) ==
  [NoRow EXCEPT !.status = "active", !.step = "Executing", !.agent = a,
                !.result = "queued"]

PaidRow(a) ==
  [NoRow EXCEPT !.status = "active", !.step = "Executing", !.agent = a,
                !.result = "running"]

InsertPaidTask(p, t) ==
  /\ buyer[p].at = "insert"
  /\ \/ /\ task[t] = NoRow
        /\ SetRow(t, PaidRow(buyer[p].a))
        /\ buyer' = [buyer EXCEPT ![p].at = "payment", ![p].t = t]
     \/ /\ "task" \in PaidFaults
        /\ GiveBack(p)
        /\ UNCHANGED task
  /\ UNCHANGED <<agent, verified, produced, req, settled>>

\* When the record cannot be stored the agent is released, and the task stays
\* at Executing with nobody to run it.  An insert of the task that is reported
\* as failed and a result that cannot be stored come to the same.
InsertPayment(p) ==
  /\ buyer[p].at = "payment"
  /\ GoOn(p, "run") \/ ("payment" \in PaidFaults /\ GiveBack(p))
  /\ BoardIsKept /\ UNCHANGED settled

\* The result is stored by id, whatever became of the task; its status is
\* left alone.
PaidRunSucceeds(p) ==
  LET t == buyer[p].t IN
  /\ buyer[p].at = "run"
  /\ UpdateWhere(t, TRUE, [task[t] EXCEPT !.step = "Verifying", !.age = Fresh,
                             !.result = "succeeded", !.attempts = 0])
  /\ produced' = [produced EXCEPT ![t] = @ \/ Exists(t)]
  /\ GiveBack(p)
  /\ UNCHANGED <<agent, verified, req, settled>>

PaidRunFails(p) ==
  LET t == buyer[p].t IN
  /\ buyer[p].at = "run"
  /\ UpdateWhere(t, TRUE, [task[t] EXCEPT !.status = "failed",
                             !.step = "Executing", !.age = Fresh,
                             !.result = "fatal", !.attempts = 0])
  /\ GiveBack(p)
  /\ UNCHANGED <<agent, verified, produced, req, settled>>

\* releaseAgent, with the answer: by id, whatever the status is by now.
ReleaseBought(p) ==
  /\ buyer[p].at = "release"
  /\ SetAgent(buyer[p].a, "online")
  /\ Finish(p)
  /\ settled' = settled \ {p}
  /\ UNCHANGED <<task, verified, produced, req>>

Buy(p) ==
  \/ VerifyPayment(p) \/ ReserveForBuyer(p) \/ Settle(p) \/ UpsertSubmitter(p)
  \/ \E t \in Tasks : InsertPaidTask(p, t)
  \/ InsertPayment(p) \/ PaidRunSucceeds(p) \/ PaidRunFails(p)
  \/ ReleaseBought(p)

PaidNext ==
  \/ Next /\ UNCHANGED <<buyer, settled>>
  \/ \E p \in Buyers : Buy(p) \/ \E a \in Agents : AskPrice(p, a)

PaidSpec == PaidInit /\ [][PaidNext]_pvars

\* A paid request that found its agent free runs to its end; the rest is the
\* fairness of TaskLifecycle.
PaidFairSpec ==
  /\ PaidSpec
  /\ \A p \in Buyers : WF_pvars(Buy(p))
  /\ \A w \in Workers : WF_pvars(Resume(w) /\ UNCHANGED <<buyer, settled>>)
  /\ \A t \in Tasks :
       /\ WF_pvars(Tick(t) /\ UNCHANGED <<buyer, settled>>)
       /\ SF_pvars(\E w \in Workers : AdvanceRead(w, t) /\ UNCHANGED <<buyer, settled>>)
       /\ SF_pvars(\E w \in Workers : TimeoutRead(w, t) /\ UNCHANGED <<buyer, settled>>)

-----------------------------------------------------------------------------
(* Properties.                                                              *)

\* The tables, the requests and the paid requests in flight are well formed
\* (execute/route.ts keeps its progress in local variables).
PaidTypeOK ==
  /\ TypeOK
  /\ buyer \in [Buyers -> PaidRequest]
  /\ settled \subseteq Buyers

\* The model runs for a buyer only after the payment was taken.
RunIsPaid == \A p \in Buyers : buyer[p].at = "run" => p \in settled

\* A paid run is the only one of its task, though the advance route, the
\* timeouts and the operators see the task while it goes on.
PaidRunIsAlone ==
  \A p \in Buyers : buyer[p].at = "run" =>
    /\ \A w \in Workers :
         req[w].at \in {"execute", "misrun"} => req[w].t # buyer[p].t
    /\ \A q \in Buyers \ {p} : buyer[q].at = "run" => buyer[q].t # buyer[p].t

\* With no request in flight, paid or not, a busy agent has an active task:
\* no handler, on any of its ways out, leaves an agent reserved for nothing.
NoStrayReservation ==
  /\ \A w \in Workers : req[w] = Idle
  /\ \A p \in Buyers : buyer[p] = NotBuying
  => \A a \in Agents :
       agent[a] = "busy" => \E t \in Tasks : Active(t) /\ task[t].agent = a

=============================================================================
