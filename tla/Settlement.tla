------------------------------ MODULE Settlement ------------------------------
(***************************************************************************)
(* How the escrow of a task is settled and recorded: TaskCard.tsx sends    *)
(* the release or the refund from the submitter's wallet, waits for it to  *)
(* be mined and reports its hash to the release or refund route; operators *)
(* settle from their own wallet and report through release-escrow; a       *)
(* withdrawal is reported to the sync route.                               *)
(***************************************************************************)
EXTENDS Disputes

VARIABLE card   \* card[t][f]: the release and the refund of each task card

svars == <<lvars, dvars, card>>

Flows == {"release", "refund"}

\* posted: the transaction is mined, the route has been called and has not
\* answered yet.  After an error the button is offered again, as at idle.
Stages == {"idle", "signing", "mining", "posted", "done"}

Flow == [at: Stages, h: Hashes \cup {NoHash}]
NoFlow == [at |-> "idle", h |-> NoHash]
Done   == [at |-> "done", h |-> NoHash]

Init ==
  /\ LedgerInit
  /\ DisputesInit
  /\ card = [t \in Tasks |-> [f \in Flows |-> NoFlow]]

CardGoes(t, f, from, to) ==
  /\ card[t][f].at = from
  /\ card' = [card EXCEPT ![t][f].at = to]

-----------------------------------------------------------------------------
(* The card.  It reads the escrow once and may go on taking it for locked.  *)

CanRelease(t) == OpenDisputes(t) = {} /\ task[t].complete /\ verified[t]

CanRefund(t) == task[t].status = "failed" \/ OpenDisputes(t) # {}

Click(t, f) ==
  /\ card[t][f].at = "idle"
  /\ Exists(t)
  /\ IF f = "release" THEN CanRelease(t) ELSE CanRefund(t)
  /\ card' = [card EXCEPT ![t][f] = [at |-> "signing", h |-> NoHash]]
  /\ UNCHANGED <<lvars, dvars>>

Sign(t, f, h) ==
  /\ card[t][f].at = "signing"
  /\ card' = [card EXCEPT ![t][f] = [at |-> "mining", h |-> h]]
  /\ Send(h, f, t)
  /\ UNCHANGED dvars

Decline(t, f) ==
  /\ CardGoes(t, f, "signing", "idle")
  /\ UNCHANGED <<lvars, dvars>>

\* Mutant: after a lost answer the same hash is reported again.
LoseAnswerRetrying(t, f) ==
  /\ "answer" \in Faults
  /\ CardGoes(t, f, "posted", "mining")
  /\ UNCHANGED <<lvars, dvars>>

\* The call fails on its way, and the hash is not tried again.
LoseAnswer(t, f) ==
  /\ "answer" \in Faults
  /\ card[t][f].at = "posted"
  /\ card' = [card EXCEPT ![t][f] = NoFlow]
  /\ UNCHANGED <<lvars, dvars>>

\* The page is loaded anew.
Reload(t) ==
  /\ card' = [card EXCEPT ![t] = [f \in Flows |-> NoFlow]]
  /\ UNCHANGED <<lvars, dvars>>

UseCard(t) ==
  \/ \E f \in Flows :
       \/ Click(t, f) \/ Decline(t, f) \/ LoseAnswer(t, f)
       \/ \E h \in Hashes : Sign(t, f, h)
  \/ Reload(t)

\* The route has answered the card that called it and still waits for it.
Answer(w, ok) ==
  LET t == req[w].t
      f == req[w].route
  IN
  IF f \in Flows /\ card[t][f] = [at |-> "posted", h |-> req[w].h]
  THEN card' = [card EXCEPT ![t][f] = IF ok THEN Done ELSE NoFlow]
  ELSE UNCHANGED card

-----------------------------------------------------------------------------
(* The routes.                                                              *)

Call(w, route, t, h, at) ==
  /\ req[w] = Idle
  /\ req' = [req EXCEPT ![w] = [Idle EXCEPT !.at = at, !.route = route,
                                            !.t = t, !.h = h]]

\* The card sees its transaction mined and calls the route; one that reverted
\* is not reported, and leaves the card at mining.
Report(w, t, f, at) ==
  LET h == card[t][f].h IN
  /\ CardGoes(t, f, "mining", "posted")
  /\ tx[h].status = "success"
  /\ Call(w, f, t, h, at)
  /\ OnlyRequests

\* The first read of the release route; when it refuses nothing is changed.
PostRelease(w, t) ==
  Report(w, t, "release",
         IF task[t].status = "completed" /\ task[t].complete
         THEN "verify" ELSE "refuse")

PostRefund(w, t) ==
  Report(w, t, "refund",
         CASE task[t].status = "failed"  -> "failedDisputes"
           [] task[t].status = "deleted" -> "refuse"
           [] OTHER                      -> "disputes")

\* The refund route's second read, kept for its last write.
RefundReadsDisputes(w) ==
  LET disputed == OpenDisputes(req[w].t) # {} IN
  /\ req[w].at \in {"disputes", "failedDisputes"}
  /\ req' = [req EXCEPT ![w].disputed = disputed,
                        ![w].at = IF req[w].at = "failedDisputes" \/ disputed
                                  THEN "verify" ELSE "refuse"]
  /\ OnlyRequests /\ UNCHANGED card

\* The answer is an error; nothing was changed.
Refuse(w) ==
  /\ req[w].at = "refuse"
  /\ End(w) /\ Answer(w, FALSE)
  /\ OnlyRequests

\* An operator releases as the owner of the contract, and reports a hash,
\* perhaps a wrong one.
OperatorSends(h, t) == Send(h, "release", t) /\ UNCHANGED <<dvars, card>>

PostOverride(w, t, h) ==
  /\ Exists(t)
  /\ tx[h].status # "unsent"
  /\ Call(w, "override", t, h, "verify")
  /\ OnlyRequests /\ UNCHANGED card

\* WalletTransferCard: a withdrawal, reported when it is mined.
WalletSends(h) == Send(h, "payment", NoTask) /\ UNCHANGED <<dvars, card>>

PostSync(w, h) ==
  /\ tx[h].kind = "payment"
  /\ tx[h].status = "success"
  /\ Call(w, "sync", NoTask, h, "verify")
  /\ OnlyRequests /\ UNCHANGED card

\* The kind of record a route stores.
Stores(route) == CASE route = "refund" -> "refund"
                   [] route = "sync"   -> "payment"
                   [] OTHER            -> "release"

\* The proof, which is never withdrawn, and the transaction are looked up.
Verify(w) ==
  LET r == req[w]
      verdicts == IF r.route = "sync" THEN TransferVerdicts(r.h)
                  ELSE EscrowVerdicts(r.h, Stores(r.route), r.t)
      allowed == IF r.route = "release" /\ ~verified[r.t] THEN {} ELSE verdicts
  IN
  /\ r.at = "verify"
  /\ \/ \E v \in allowed :
          req' = [req EXCEPT ![w].at = "insert", ![w].status = v]
     \/ allowed = {} /\ Proceed(w, "refuse")
  /\ OnlyRequests /\ UNCHANGED card

\* Mutant: disputes are closed for a refund that is not known to be mined.
InsertRecordClosing(w) ==
  LET r == req[w] IN
  /\ r.at = "insert"
  /\ Insert(Stores(r.route), r.t, r.h, r.status, r.route)
  /\ IF r.route = "refund" /\ r.disputed
     THEN Proceed(w, "close") /\ UNCHANGED card
     ELSE End(w) /\ Answer(w, TRUE)
  /\ UNCHANGED <<task, verified, alert>>

InsertRecord(w) ==
  LET r == req[w] IN
  /\ r.at = "insert"
  /\ Insert(Stores(r.route), r.t, r.h, r.status, r.route)
  /\ IF r.route = "refund" /\ r.status = "confirmed" /\ r.disputed
     THEN Proceed(w, "close") /\ UNCHANGED card
     ELSE End(w) /\ Answer(w, TRUE)
  /\ UNCHANGED <<task, verified, alert>>

\* Every dispute open by now is closed, without a decision; whether the update
\* went through is not looked at.
CloseDisputes(w) ==
  /\ req[w].at = "close"
  /\ \/ alert' = [d \in Alerts |-> IF d \in OpenDisputes(req[w].t)
                                   THEN [alert[d] EXCEPT !.resolved = TRUE]
                                   ELSE alert[d]]
     \/ "dbwrite" \in Faults /\ UNCHANGED alert
  /\ End(w) /\ Answer(w, TRUE)
  /\ UNCHANGED <<lvars, task, verified>>

Crash(w) ==
  /\ "crash" \in Faults
  /\ req[w] # Idle
  /\ End(w) /\ Answer(w, FALSE)
  /\ OnlyRequests

-----------------------------------------------------------------------------
Serve(w) ==
  \/ RefundReadsDisputes(w) \/ Verify(w) \/ InsertRecord(w) \/ CloseDisputes(w)
  \/ Refuse(w) \/ Crash(w)
  \/ /\ DisputeInsert(w) \/ ResolveReadTask(w) \/ ResolveTask(w)
        \/ ResolveAlert(w)
     /\ UNCHANGED card

Arrive(w) ==
  \/ \E t \in Tasks : PostRelease(w, t) \/ PostRefund(w, t)
  \/ \E t \in Tasks, h \in Hashes : PostOverride(w, t, h)
  \/ \E h \in Hashes : PostSync(w, h)
  \/ /\ \/ \E t \in Tasks : DisputeRead(w, t)
        \/ \E d \in Alerts, resolution \in Resolutions \ {"none"} :
             ResolveRead(w, d, resolution)
     /\ UNCHANGED card

Chain ==
  \/ \E h \in Hashes : Mine(h) /\ UNCHANGED <<dvars, card>>
  \/ \E t \in Tasks : Expire(t) /\ UNCHANGED <<dvars, card>>
  \/ \E h \in Hashes : WalletSends(h) \/ \E t \in Tasks : OperatorSends(h, t)

Sync == \E i \in 1..MaxRecords : SyncRecord(i) /\ UNCHANGED <<dvars, card>>

Next ==
  \/ Chain \/ Sync
  \/ \E w \in Slots : Arrive(w) \/ Serve(w)
  \/ \E t \in Tasks : UseCard(t)
  \/ /\ \/ \E t \in Tasks :
             TaskCompletes(t) \/ TaskFails(t) \/ TaskRestarts(t) \/ TaskDeleted(t)
        \/ \E d \in Alerts : PatchAlert(d)
     /\ UNCHANGED card

Spec == Init /\ [][Next]_svars

-----------------------------------------------------------------------------
(* Properties.                                                              *)

\* The table, the chain, the alerts, the requests and the cards have the
\* shape the schema and the code give them.
TypeOK ==
  /\ escrow \in [Tasks -> {"Locked", "Released", "Refunded"}]
  /\ tx \in [Hashes -> Tx]
  /\ ledger \in Seq(Record)
  /\ task \in [Tasks -> TaskRow]
  /\ verified \in [Tasks -> BOOLEAN]
  /\ alert \in [Alerts -> Alert]
  /\ req \in [Slots -> Request]
  /\ card \in [Tasks -> [Flows -> Flow]]

\* The table says what happened on the chain: a confirmed record's transaction
\* succeeded, a failed one's reverted, and where the handler saw the receipt,
\* or the card did, the escrow of that very task was settled in that very way.
LedgerIsTrue ==
  \A i \in DOMAIN ledger :
    LET r == ledger[i] IN
    /\ r.status = "confirmed" => tx[r.h].status = "success"
    /\ r.status = "failed" => tx[r.h].status = "reverted"
    /\ r.kind # "payment" /\ (r.checked \/ r.route \in Flows)
         => escrow[r.t] = IF r.kind = "release" THEN "Released" ELSE "Refunded"

\* A settlement the card made is recorded once, however its calls fail, are
\* repeated or overlap: tx_hash is not unique in the table.
OneRecordPerHash ==
  \A i, j \in DOMAIN ledger :
    i # j /\ ledger[i].h = ledger[j].h /\ {ledger[i].route, ledger[j].route} \subseteq Flows
      => FALSE

\* A dispute nobody decided is closed by a request, PATCH apart, which holds
\* none, only when the escrow of its task went back to the depositor and the
\* table says so, whatever became of the receipt, of the dispute and of the task
\* after the refund route looked (refund/route.ts, 97-103).
ClosedByRefund ==
  [][\A d \in Alerts :
       /\ ~alert[d].resolved /\ alert'[d].resolved
       /\ ~alert'[d].decided
       /\ req' # req
       => /\ escrow[alert[d].t] = "Refunded"
          /\ \E i \in DOMAIN ledger :
               /\ ledger[i].kind = "refund" /\ ledger[i].t = alert[d].t
               /\ ledger[i].status = "confirmed"]_svars

=============================================================================
