-------------------------- MODULE Settlement_proofs --------------------------
(***************************************************************************)
(* Theorems about Settlement: the ledger tells the truth about the chain,  *)
(* it has what a card settled once, and a dispute nobody decided is only   *)
(* closed for a refund that happened and is recorded, for any tasks,       *)
(* transactions, alerts and requests in flight.                            *)
(***************************************************************************)
EXTENDS Settlement, TLAPS

USE LedgerAssumption

\* The chain.  Only one of an escrow's settlements succeeds.
ChainOK ==
  \A h \in Hashes :
    /\ tx[h].kind # "payment" => tx[h].t \in Tasks
    /\ tx[h].kind = "payment" => tx[h].t = NoTask
    /\ tx[h].status = "success" /\ tx[h].kind # "payment" =>
         escrow[tx[h].t] = IF tx[h].kind = "release" THEN "Released"
                           ELSE "Refunded"

\* A record's claim, in terms of its transaction.
RecordOK(r) ==
  /\ r.status = "confirmed" => tx[r.h].status = "success"
  /\ r.status = "failed" => tx[r.h].status = "reverted"
  /\ r.kind # "payment" /\ (r.checked \/ r.route \in Flows) =>
       EscrowEvent(r.h, r.kind, r.t)

RecordsOK == \A i \in 1..Len(ledger) : RecordOK(ledger[i])

Reports == {"release", "refund", "override", "sync"}

\* What a request knows by where it is: a card's report is about a settlement
\* of its task that succeeded, and a confirmed verdict about the event.
RequestOK(r) ==
  /\ r.at \in {"disputes", "failedDisputes", "verify", "insert"} => r.route \in Reports
  /\ r.at \in {"disputes", "failedDisputes", "verify", "insert", "close", "refuse"}
       => r.h \in Hashes
  /\ r.route \in Flows => r.t \in Tasks /\ r.h \in Hashes
  /\ r.route \in Flows => EscrowEvent(r.h, r.route, r.t)
  /\ r.at = "insert" /\ r.status = "confirmed" /\ r.route = "sync"
       => SeenSucceeded(r.h)
  /\ r.at = "insert" /\ r.status = "confirmed" /\ r.route = "override"
       => EscrowEvent(r.h, "release", r.t)

RequestsOK == \A w \in Slots : RequestOK(req[w])

\* A card waits for a settlement of its own task and kind.
CardsOK ==
  \A t \in Tasks, f \in Flows :
    card[t][f].at \in {"mining", "posted"} =>
      LET h == card[t][f].h IN
      /\ h \in Hashes
      /\ tx[h].kind = f /\ tx[h].t = t /\ tx[h].status # "unsent"

SettleInv == TypeOK /\ ChainOK /\ RecordsOK /\ RequestsOK /\ CardsOK

-----------------------------------------------------------------------------
(* Parts of steps.                                                          *)

\* A transaction that was sent stays what it is, and a final one stays final.
Stable ==
  \A h \in Hashes :
    /\ tx[h].status # "unsent" =>
         tx'[h].kind = tx[h].kind /\ tx'[h].t = tx[h].t /\ tx'[h].status # "unsent"
    /\ tx[h].status \in {"success", "reverted"} => tx'[h] = tx[h]

\* A record stays right while the chain only moves on.
LEMMA StableRecord ==
  ASSUME TypeOK, Stable, NEW r \in Record, RecordOK(r) PROVE RecordOK(r)'
  BY DEF Stable, RecordOK, EscrowEvent, SeenSucceeded, Record

\* So do the requests in flight.
LEMMA StableRequests == TypeOK /\ RequestsOK /\ Stable /\ req' = req => RequestsOK'
  BY DEF RequestsOK, RequestOK, Stable, EscrowEvent, SeenSucceeded, TypeOK, Request

\* And the pages.
LEMMA StableCards == CardsOK /\ Stable /\ card' = card => CardsOK'
  BY DEF CardsOK, Stable

\* A step that keeps the chain and the ledger.
LEMMA BoardStep ==
  ASSUME SettleInv, UNCHANGED lvars
  PROVE  ChainOK' /\ RecordsOK' /\ Stable
  BY DEF SettleInv, ChainOK, RecordsOK, RecordOK, Stable, EscrowEvent,
         SeenSucceeded, lvars

\* A request that goes on to r.
LEMMA RequestStep ==
  ASSUME SettleInv, UNCHANGED lvars, NEW w \in Slots, NEW r \in Request,
         RequestOK(r), req' = [req EXCEPT ![w] = r]
  PROVE  req' \in [Slots -> Request] /\ RequestsOK'
<1>1. req' \in [Slots -> Request]
  BY DEF SettleInv, TypeOK
<1>2. ASSUME NEW v \in Slots PROVE RequestOK(req[v])'
  <2>1. RequestOK(r) /\ RequestOK(req[v])
    BY DEF SettleInv, RequestsOK
  <2>2. req'[v] = IF v = w THEN r ELSE req[v]
    BY DEF SettleInv, TypeOK
  <2>3. tx' = tx
    BY DEF lvars
  <2> QED
    BY <2>1, <2>2, <2>3 DEF RequestOK, EscrowEvent, SeenSucceeded
<1> QED
  BY <1>1, <1>2 DEF RequestsOK

\* A free slot relies on nothing.
LEMMA IdleOK == Idle \in Request /\ RequestOK(Idle)
  BY DEF Idle, Request, Awaits, Routes, Resolutions, RequestOK, Flows

\* A request that ends relies on nothing.
LEMMA EndStep ==
  ASSUME SettleInv, UNCHANGED lvars, NEW w \in Slots, End(w)
  PROVE  req' \in [Slots -> Request] /\ RequestsOK'
  BY IdleOK, RequestStep DEF End

\* A request that only goes on to another await.
LEMMA ProceedStep ==
  ASSUME SettleInv, UNCHANGED lvars, NEW w \in Slots, NEW p \in Awaits,
         Proceed(w, p), RequestOK([req[w] EXCEPT !.at = p])
  PROVE  req' \in [Slots -> Request] /\ RequestsOK'
<1>1. [req[w] EXCEPT !.at = p] \in Request
  <2>1. req[w] \in Request
    BY DEF SettleInv, TypeOK
  <2> QED
    BY <2>1 DEF Request
<1>2. req' = [req EXCEPT ![w] = [req[w] EXCEPT !.at = p]]
  BY DEF Proceed, SettleInv, TypeOK, Request
<1> QED
  BY <1>1, <1>2, RequestStep

\* A flow of a card that goes on to another stage, with the hash it has.
LEMMA CardStep ==
  ASSUME SettleInv, NEW t \in Tasks, NEW f \in Flows, NEW flow \in Flow,
         tx' = tx,
         card' = [card EXCEPT ![t][f] = flow],
         flow.at \in {"mining", "posted"} =>
           flow.h = card[t][f].h /\ card[t][f].at \in {"mining", "posted"}
  PROVE  card' \in [Tasks -> [Flows -> Flow]] /\ CardsOK'
<1>1. card' \in [Tasks -> [Flows -> Flow]]
  BY DEF SettleInv, TypeOK
<1>2. \A u \in Tasks, g \in Flows :
        card'[u][g] = IF u = t /\ g = f THEN flow ELSE card[u][g]
  BY DEF SettleInv, TypeOK
<1> QED
  BY <1>1, <1>2 DEF SettleInv, CardsOK

\* A page told of its transaction knows no more than the chain does.
LEMMA AnswerStep ==
  ASSUME SettleInv, tx' = tx, NEW w \in Slots, NEW ok \in BOOLEAN, Answer(w, ok)
  PROVE  card' \in [Tasks -> [Flows -> Flow]] /\ CardsOK'
<1> DEFINE t == req[w].t
           f == req[w].route
           flow == IF ok THEN Done ELSE NoFlow
<1>1. CASE card' = card
  BY <1>1 DEF SettleInv, TypeOK, CardsOK
<1>2. CASE card' # card
  <2>1. f \in Flows /\ card' = [card EXCEPT ![t][f] = flow]
    BY <1>2 DEF Answer
  <2>2. t \in Tasks
    BY <2>1 DEF SettleInv, RequestsOK, RequestOK
  <2>3. flow \in Flow /\ flow.at \notin {"mining", "posted"}
    BY DEF Flow, Stages, Done, NoFlow
  <2> QED
    BY <2>1, <2>2, <2>3, CardStep
<1> QED
  BY <1>1, <1>2

\* A step that keeps the chain and the ledger, put together.
LEMMA Together ==
  ASSUME SettleInv, UNCHANGED lvars,
         task' \in [Tasks -> TaskRow], verified' \in [Tasks -> BOOLEAN],
         alert' \in [Alerts -> Alert],
         req' \in [Slots -> Request], RequestsOK',
         card' \in [Tasks -> [Flows -> Flow]], CardsOK'
  PROVE  SettleInv'
  BY BoardStep DEF SettleInv, TypeOK, lvars

\* The same when only the requests change.
LEMMA RequestsAlone ==
  ASSUME SettleInv, OnlyRequests, UNCHANGED card,
         req' \in [Slots -> Request], RequestsOK'
  PROVE  SettleInv'
<1>1. CardsOK' /\ card' \in [Tasks -> [Flows -> Flow]]
  BY DEF SettleInv, TypeOK, CardsOK, OnlyRequests, lvars
<1> QED
  BY <1>1, Together DEF OnlyRequests, SettleInv, TypeOK

\* The same when only the cards change.
LEMMA CardsAlone ==
  ASSUME SettleInv, UNCHANGED <<lvars, dvars>>,
         card' \in [Tasks -> [Flows -> Flow]], CardsOK'
  PROVE  SettleInv'
<1>1. RequestsOK'
  BY BoardStep, StableRequests DEF SettleInv, dvars
<1> QED
  BY <1>1, Together DEF dvars, SettleInv, TypeOK

-----------------------------------------------------------------------------
(* The chain and the ledger.                                                *)

\* A step that changes the chain and keeps the ledger.
LEMMA ChainMoves ==
  ASSUME SettleInv, Stable, ChainOK',
         escrow' \in [Tasks -> {"Locked", "Released", "Refunded"}],
         tx' \in [Hashes -> Tx], UNCHANGED <<ledger, dvars>>,
         card' \in [Tasks -> [Flows -> Flow]], CardsOK'
  PROVE  SettleInv'
<1>1. RequestsOK'
  BY StableRequests DEF SettleInv, dvars
<1>2. ASSUME NEW i \in 1..Len(ledger) PROVE RecordOK(ledger[i])'
  <2>1. ledger[i] \in Record /\ RecordOK(ledger[i]) /\ ledger' = ledger
    BY DEF SettleInv, TypeOK, RecordsOK
  <2> QED
    BY <2>1 DEF SettleInv, TypeOK, Stable, RecordOK, EscrowEvent, SeenSucceeded,
       Record
<1>3. RecordsOK'
  BY <1>2 DEF RecordsOK
<1> QED
  BY <1>1, <1>3 DEF SettleInv, TypeOK, dvars

\* A transaction is sent before it is mined.
LEMMA SendStep ==
  ASSUME SettleInv, NEW h \in Hashes, NEW kind \in Kinds,
         NEW t \in Tasks \cup {NoTask}, kind = "payment" <=> t = NoTask,
         Send(h, kind, t)
  PROVE  /\ Stable /\ ChainOK' /\ tx' \in [Hashes -> Tx]
         /\ tx'[h] = [kind |-> kind, t |-> t, status |-> "sent"]
  BY DEF Send, SettleInv, TypeOK, Tx, Kinds, Stable, ChainOK, Unsent

\* A mined transaction changes the escrow its kind allows, once.
LEMMA MineStep == ASSUME SettleInv, NEW h \in Hashes, Mine(h), UNCHANGED <<dvars, card>>
                  PROVE  SettleInv'
<1> DEFINE t == tx[h].t
           final == CASE tx[h].kind = "release" -> "Released"
                      [] tx[h].kind = "refund" -> "Refunded"
                      [] OTHER -> "none"
<1>1. tx[h] \in Tx /\ tx[h].status = "sent" /\ ledger' = ledger
  BY DEF Mine, SettleInv, TypeOK
<1>2. CASE t # NoTask /\ escrow[t] = "Locked"
  <2>1. t \in Tasks /\ tx[h].kind \in {"release", "refund"}
    BY <1>1, <1>2 DEF Tx, Kinds, SettleInv, ChainOK
  <2>2. tx' = [tx EXCEPT ![h].status = "success"]
        /\ escrow' = [escrow EXCEPT ![t] = final]
    BY <1>2 DEF Mine
  <2>3. final = IF tx[h].kind = "release" THEN "Released" ELSE "Refunded"
    BY <2>1
  <2> HIDE DEF final
  <2>4. escrow' \in [Tasks -> {"Locked", "Released", "Refunded"}]
        /\ tx' \in [Hashes -> Tx]
    BY <2>2, <2>3, ZenonT(40) DEF SettleInv, TypeOK, Tx
  <2>5. Stable /\ tx'[h] = [kind |-> tx[h].kind, t |-> t, status |-> "success"]
        /\ \A g \in Hashes \ {h} : tx'[g] = tx[g]
    BY <1>1, <2>2 DEF SettleInv, TypeOK, Stable, Tx
  <2>6. \A u \in Tasks : u # t => escrow'[u] = escrow[u]
    BY <2>2 DEF SettleInv, TypeOK
  <2>7. escrow'[t] = final
    BY <2>1, <2>2 DEF SettleInv, TypeOK
  <2>8. ASSUME NEW g \in Hashes
        PROVE  /\ tx'[g].kind # "payment" => tx'[g].t \in Tasks
               /\ tx'[g].kind = "payment" => tx'[g].t = NoTask
               /\ tx'[g].status = "success" /\ tx'[g].kind # "payment" =>
                    escrow'[tx'[g].t] = IF tx'[g].kind = "release" THEN "Released"
                                        ELSE "Refunded"
    <3>1. CASE g = h
      BY <2>1, <2>3, <2>5, <2>7, <3>1
    <3>2. CASE g # h
      BY <1>2, <2>5, <2>6, <3>2 DEF SettleInv, ChainOK
    <3> QED
      BY <3>1, <3>2
  <2>9. ChainOK'
    BY <2>8 DEF ChainOK
  <2>10. CardsOK'
    BY <2>5, StableCards DEF SettleInv
  <2> QED
    BY <1>1, <2>4, <2>5, <2>9, <2>10, ChainMoves DEF SettleInv, TypeOK
<1>3. CASE t = NoTask
  <2>1. tx' = [tx EXCEPT ![h].status = "success"] /\ escrow' = escrow
    BY <1>3 DEF Mine
  <2>2. tx[h].kind = "payment"
    BY <1>3 DEF SettleInv, ChainOK
  <2>3. Stable /\ ChainOK' /\ tx' \in [Hashes -> Tx]
    BY <1>1, <2>1, <2>2 DEF SettleInv, TypeOK, Stable, Tx, ChainOK
  <2> QED
    BY <1>1, <2>1, <2>3, ChainMoves, StableCards DEF SettleInv, TypeOK
<1>4. CASE t # NoTask /\ escrow[t] # "Locked"
  <2>1. tx' = [tx EXCEPT ![h].status = "reverted"] /\ escrow' = escrow
    BY <1>4 DEF Mine
  <2>2. Stable /\ ChainOK' /\ tx' \in [Hashes -> Tx]
    BY <1>1, <2>1 DEF SettleInv, TypeOK, Stable, Tx, ChainOK
  <2> QED
    BY <1>1, <2>1, <2>2, ChainMoves, StableCards DEF SettleInv, TypeOK
<1> QED
  BY <1>2, <1>3, <1>4

\* The chain moves on by itself.
LEMMA ChainStep == ASSUME SettleInv, Chain PROVE SettleInv'
<1>1. ASSUME NEW t \in Tasks, Expire(t), UNCHANGED <<dvars, card>> PROVE SettleInv'
  <2>1. tx' = tx /\ ledger' = ledger /\ escrow[t] = "Locked"
        /\ escrow' = [escrow EXCEPT ![t] = "Refunded"]
    BY <1>1 DEF Expire
  <2>2. Stable /\ ChainOK'
        /\ escrow' \in [Tasks -> {"Locked", "Released", "Refunded"}]
    BY <2>1 DEF SettleInv, TypeOK, Stable, ChainOK
  <2> QED
    BY <1>1, <2>1, <2>2, ChainMoves, StableCards DEF SettleInv, TypeOK
<1>2. ASSUME NEW h \in Hashes, WalletSends(h) PROVE SettleInv'
  <2>1. "payment" \in Kinds /\ NoTask \notin Tasks
    BY DEF Kinds
  <2>2. Send(h, "payment", NoTask)
    BY <1>2 DEF WalletSends
  <2>3. Stable /\ ChainOK' /\ tx' \in [Hashes -> Tx]
    BY <2>1, <2>2, SendStep
  <2> QED
    BY <1>2, <2>3, ChainMoves, StableCards DEF WalletSends, Send, SettleInv, TypeOK
<1>3. ASSUME NEW h \in Hashes, NEW t \in Tasks, OperatorSends(h, t) PROVE SettleInv'
  <2>1. "release" \in Kinds /\ t # NoTask
    BY DEF Kinds
  <2>2. Send(h, "release", t)
    BY <1>3 DEF OperatorSends
  <2>3. Stable /\ ChainOK' /\ tx' \in [Hashes -> Tx]
    BY <2>1, <2>2, SendStep
  <2> QED
    BY <1>3, <2>3, ChainMoves, StableCards DEF OperatorSends, Send, SettleInv, TypeOK
<1> QED
  BY <1>1, <1>2, <1>3, MineStep DEF Chain

\* The polled sync settles a record as its receipt says.
LEMMA SyncStep == ASSUME SettleInv, Sync PROVE SettleInv'
<1> PICK i \in 1..MaxRecords : SyncRecord(i) /\ UNCHANGED <<dvars, card>>
  BY DEF Sync
<1> DEFINE s == SettledStatus(ledger[i].h)
<1>1. ledger \in Seq(Record) /\ i \in 1..Len(ledger) /\ ledger[i] \in Record
  BY DEF SyncRecord, SettleInv, TypeOK
<1>2. s \in {"confirmed", "failed"}
      /\ (s = "confirmed" => tx[ledger[i].h].status = "success")
      /\ (s = "failed" => tx[ledger[i].h].status = "reverted")
  BY DEF SyncRecord, SettledStatus
<1>3. ledger' = [ledger EXCEPT ![i].status = s] /\ escrow' = escrow /\ tx' = tx
  BY DEF SyncRecord
<1> HIDE DEF s
<1>4. [ledger[i] EXCEPT !.status = s] \in Record
  BY <1>1, <1>2 DEF Record
<1>5. ledger' \in Seq(Record) /\ Len(ledger') = Len(ledger)
      /\ ledger'[i] = [ledger[i] EXCEPT !.status = s]
      /\ \A j \in 1..Len(ledger) : j # i => ledger'[j] = ledger[j]
  BY <1>1, <1>3, <1>4
<1>6. ASSUME NEW j \in 1..Len(ledger) PROVE RecordOK(ledger[j])'
  <2>1. RecordOK(ledger[j])
    BY DEF SettleInv, RecordsOK
  <2>2. CASE j = i
    BY <1>1, <1>2, <1>3, <1>5, <2>1, <2>2
       DEF RecordOK, EscrowEvent, SeenSucceeded, Record
  <2>3. CASE j # i
    BY <1>3, <1>5, <2>1, <2>3 DEF RecordOK, EscrowEvent, SeenSucceeded
  <2> QED
    BY <2>2, <2>3
<1>7. RecordsOK'
  BY <1>5, <1>6 DEF RecordsOK
<1>8. ChainOK' /\ Stable
  BY <1>3 DEF SettleInv, ChainOK, Stable
<1>9. RequestsOK' /\ CardsOK'
  BY <1>8, StableRequests, StableCards DEF SettleInv, dvars
<1> QED
  BY <1>3, <1>5, <1>7, <1>8, <1>9 DEF SettleInv, TypeOK, dvars

\* The invariant holds at first.
LEMMA SettleInitial == Init => SettleInv
<1> SUFFICES ASSUME Init PROVE SettleInv
  OBVIOUS
<1>1. escrow \in [Tasks -> {"Locked", "Released", "Refunded"}]
      /\ tx \in [Hashes -> Tx] /\ ledger \in Seq(Record)
  BY DEF Init, LedgerInit, Tx, Kinds, Unsent
<1>2. task \in [Tasks -> TaskRow] /\ verified \in [Tasks -> BOOLEAN]
      /\ alert \in [Alerts -> Alert]
  BY DEF Init, DisputesInit, TaskRow, Alert, NoRow, Resolutions
<1>3. req \in [Slots -> Request] /\ RequestsOK
  BY IdleOK DEF Init, DisputesInit, RequestsOK
<1>4. card \in [Tasks -> [Flows -> Flow]] /\ CardsOK
  BY DEF Init, NoFlow, Flow, Stages, CardsOK
<1>5. ChainOK /\ RecordsOK
  BY DEF Init, LedgerInit, Unsent, ChainOK, RecordsOK
<1> QED
  BY <1>1, <1>2, <1>3, <1>4, <1>5 DEF SettleInv, TypeOK

-----------------------------------------------------------------------------
(* The cards.                                                               *)

\* A page goes on to its next stage.
LEMMA CardGoesStep ==
  ASSUME SettleInv, NEW t \in Tasks, NEW f \in Flows, NEW from, NEW to \in Stages,
         CardGoes(t, f, from, to), tx' = tx,
         to \in {"mining", "posted"} => from \in {"mining", "posted"}
  PROVE  card' \in [Tasks -> [Flows -> Flow]] /\ CardsOK'
<1> DEFINE flow == [at |-> to, h |-> card[t][f].h]
<1>1. card[t][f] \in Flow /\ card[t][f].at = from
  BY DEF SettleInv, TypeOK, CardGoes
<1>2. flow \in Flow /\ [card[t][f] EXCEPT !.at = to] = flow
  BY <1>1 DEF Flow
<1>3. card' = [card EXCEPT ![t][f] = flow]
  BY <1>2 DEF CardGoes
<1> QED
  BY <1>1, <1>2, <1>3, CardStep

\* A page signs a transaction the escrow may take.
LEMMA SignStep ==
  ASSUME SettleInv, NEW t \in Tasks, NEW f \in Flows, NEW h \in Hashes, Sign(t, f, h)
  PROVE  SettleInv'
<1>1. Send(h, f, t) /\ f \in Kinds /\ f # "payment" /\ t # NoTask
  BY DEF Sign, Flows, Kinds
<1>2. Stable /\ ChainOK' /\ tx' \in [Hashes -> Tx]
      /\ tx'[h] = [kind |-> f, t |-> t, status |-> "sent"]
  BY <1>1, SendStep
<1>3. card' = [card EXCEPT ![t][f] = [at |-> "mining", h |-> h]]
  BY DEF Sign
<1>4. card' \in [Tasks -> [Flows -> Flow]]
  BY <1>3 DEF SettleInv, TypeOK, Flow, Stages
<1>5. \A u \in Tasks, g \in Flows :
        card'[u][g] = IF u = t /\ g = f THEN [at |-> "mining", h |-> h] ELSE card[u][g]
  BY <1>3 DEF SettleInv, TypeOK
<1>6. CardsOK'
  BY <1>2, <1>5 DEF SettleInv, CardsOK, Stable
<1> QED
  BY <1>1, <1>2, <1>4, <1>6, ChainMoves DEF Sign, Send, SettleInv, TypeOK, dvars

\* Every move of a page keeps the invariant.
LEMMA CardMoves == ASSUME SettleInv, NEW t \in Tasks, UseCard(t) PROVE SettleInv'
<1>1. ASSUME NEW f \in Flows, Click(t, f) PROVE SettleInv'
  <2>1. [at |-> "signing", h |-> NoHash] \in Flow
    BY DEF Flow, Stages
  <2>2. card' = [card EXCEPT ![t][f] = [at |-> "signing", h |-> NoHash]] /\ tx' = tx
    BY <1>1 DEF Click, lvars
  <2> QED
    BY <1>1, <2>1, <2>2, CardStep, CardsAlone DEF Click
<1>2. ASSUME NEW f \in Flows, Decline(t, f) PROVE SettleInv'
  <2>1. "idle" \in Stages /\ "signing" \in Stages /\ tx' = tx
        /\ UNCHANGED <<lvars, dvars>> /\ CardGoes(t, f, "signing", "idle")
    BY <1>2 DEF Decline, Stages, lvars
  <2> QED
    BY <2>1, CardGoesStep, CardsAlone
<1>3. ASSUME NEW f \in Flows, LoseAnswer(t, f) PROVE SettleInv'
  <2>1. NoFlow \in Flow /\ NoFlow.at \notin {"mining", "posted"}
    BY DEF NoFlow, Flow, Stages
  <2>2. card' = [card EXCEPT ![t][f] = NoFlow] /\ tx' = tx
    BY <1>3 DEF LoseAnswer, lvars
  <2> QED
    BY <1>3, <2>1, <2>2, CardStep, CardsAlone DEF LoseAnswer
<1>4. CASE Reload(t)
  <2>1. card' \in [Tasks -> [Flows -> Flow]] /\ CardsOK'
    BY <1>4 DEF Reload, NoFlow, Flow, Stages, SettleInv, TypeOK, CardsOK, lvars
  <2> QED
    BY <1>4, <2>1, CardsAlone DEF Reload
<1> QED
  BY <1>1, <1>2, <1>3, <1>4, SignStep DEF UseCard

-----------------------------------------------------------------------------
(* Requests that arrive.                                                    *)

\* A request for t, with the hash h, that begins at the await at.
LEMMA CallStep ==
  ASSUME SettleInv, OnlyRequests, NEW w \in Slots, NEW route \in Reports,
         NEW t \in Tasks \cup {NoTask}, NEW h \in Hashes,
         NEW at \in {"verify", "refuse", "disputes", "failedDisputes"},
         Call(w, route, t, h, at),
         route \in Flows => t \in Tasks /\ EscrowEvent(h, route, t)
  PROVE  req' \in [Slots -> Request] /\ RequestsOK'
<1> DEFINE r == [Idle EXCEPT !.at = at, !.route = route, !.t = t, !.h = h]
<1>1. req' = [req EXCEPT ![w] = r]
  BY DEF Call
<1>2. r \in Request /\ RequestOK(r)
  BY DEF Idle, Request, Awaits, Routes, Reports, Resolutions, RequestOK, Flows
<1> HIDE DEF r
<1> QED
  BY <1>1, <1>2, RequestStep DEF OnlyRequests

\* A page reports the transaction it saw mined.
LEMMA ReportStep ==
  ASSUME SettleInv, NEW w \in Slots, NEW t \in Tasks, NEW f \in Flows,
         NEW at \in {"verify", "refuse", "disputes", "failedDisputes"},
         Report(w, t, f, at)
  PROVE  SettleInv'
<1> DEFINE h == card[t][f].h
<1>1. CardGoes(t, f, "mining", "posted") /\ tx[h].status = "success"
      /\ Call(w, f, t, h, at) /\ OnlyRequests
  BY DEF Report
<1>2. h \in Hashes /\ EscrowEvent(h, f, t)
  BY <1>1 DEF CardGoes, SettleInv, CardsOK, EscrowEvent, SeenSucceeded
<1>3. f \in Reports /\ t \in Tasks \cup {NoTask}
  BY DEF Flows, Reports
<1> HIDE DEF h
<1>4. req' \in [Slots -> Request] /\ RequestsOK'
  BY <1>1, <1>2, <1>3, CallStep
<1>5. card' \in [Tasks -> [Flows -> Flow]] /\ CardsOK'
  BY <1>1, CardGoesStep DEF Stages, OnlyRequests, lvars
<1> QED
  BY <1>1, <1>4, <1>5, Together DEF OnlyRequests, SettleInv, TypeOK

\* A request arrives with what its page or operator read.
LEMMA ArriveStep == ASSUME SettleInv, NEW w \in Slots, Arrive(w) PROVE SettleInv'
<1>1. ASSUME NEW t \in Tasks, PostRelease(w, t) \/ PostRefund(w, t) PROVE SettleInv'
  BY <1>1, ReportStep DEF PostRelease, PostRefund, Flows
<1>2. ASSUME NEW t \in Tasks, NEW h \in Hashes, PostOverride(w, t, h) PROVE SettleInv'
  <2>1. OnlyRequests /\ UNCHANGED card /\ Call(w, "override", t, h, "verify")
        /\ "override" \in Reports /\ "override" \notin Flows
    BY <1>2 DEF PostOverride, Reports, Flows
  <2> QED
    BY <2>1, CallStep, RequestsAlone
<1>3. ASSUME NEW h \in Hashes, PostSync(w, h) PROVE SettleInv'
  <2>1. OnlyRequests /\ UNCHANGED card /\ Call(w, "sync", NoTask, h, "verify")
        /\ "sync" \in Reports /\ "sync" \notin Flows
    BY <1>3 DEF PostSync, Reports, Flows
  <2> QED
    BY <2>1, CallStep, RequestsAlone
<1>4. ASSUME NEW t \in Tasks, DisputeRead(w, t), UNCHANGED card PROVE SettleInv'
  <2> DEFINE r == [Idle EXCEPT !.at = "openDispute", !.route = "dispute", !.t = t]
  <2>1. OnlyRequests /\ req' = [req EXCEPT ![w] = r]
    BY <1>4 DEF DisputeRead
  <2>2. r \in Request /\ RequestOK(r)
    BY DEF Idle, Request, Awaits, Routes, Resolutions, RequestOK, Flows
  <2> HIDE DEF r
  <2> QED
    BY <1>4, <2>1, <2>2, RequestStep, RequestsAlone DEF OnlyRequests
<1>5. ASSUME NEW d \in Alerts, NEW resolution \in Resolutions \ {"none"},
             ResolveRead(w, d, resolution), UNCHANGED card
      PROVE  SettleInv'
  <2> DEFINE r == [Idle EXCEPT !.at = "readTask", !.route = "resolve", !.d = d,
                               !.t = alert[d].t, !.resolution = resolution]
  <2>1. OnlyRequests /\ req' = [req EXCEPT ![w] = r]
    BY <1>5 DEF ResolveRead
  <2>2. alert[d].t \in Tasks \cup {NoTask}
    BY DEF SettleInv, TypeOK, Alert
  <2>3. r \in Request /\ RequestOK(r)
    BY <2>2 DEF Idle, Request, Awaits, Routes, RequestOK, Flows
  <2> HIDE DEF r
  <2> QED
    BY <1>5, <2>1, <2>3, RequestStep, RequestsAlone DEF OnlyRequests
<1> QED
  BY <1>1, <1>2, <1>3, <1>4, <1>5 DEF Arrive

-----------------------------------------------------------------------------
(* Requests that go on.                                                     *)

\* The refund route reads the task it is about to refund.
LEMMA RefundReadStep ==
  ASSUME SettleInv, NEW w \in Slots, RefundReadsDisputes(w) PROVE SettleInv'
<1> DEFINE disputed == OpenDisputes(req[w].t) # {}
           next == IF req[w].at = "failedDisputes" \/ disputed THEN "verify"
                   ELSE "refuse"
           r == [req[w] EXCEPT !.disputed = disputed, !.at = next]
<1>1. req[w] \in Request /\ RequestOK(req[w])
  BY DEF SettleInv, TypeOK, RequestsOK
<1>2. req' = [req EXCEPT ![w] = r]
  BY <1>1 DEF RefundReadsDisputes, Request
<1>3. req[w].at \in {"disputes", "failedDisputes"} /\ OnlyRequests /\ UNCHANGED card
  BY DEF RefundReadsDisputes
<1>4. disputed \in BOOLEAN /\ next \in {"verify", "refuse"}
  BY Zenon
<1> HIDE DEF disputed, next
<1>5. r \in Request
  BY <1>1, <1>4 DEF Request, Awaits
<1>6. r.route = req[w].route /\ r.t = req[w].t /\ r.h = req[w].h /\ r.at = next
  BY <1>1 DEF Request
<1>7. RequestOK(r)
  BY <1>1, <1>3, <1>4, <1>6 DEF RequestOK
<1> HIDE DEF r
<1> QED
  BY <1>2, <1>3, <1>5, <1>7, RequestStep, RequestsAlone DEF OnlyRequests

\* The verification asks the chain for the event the route needs.
LEMMA VerifyStep ==
  ASSUME SettleInv, NEW w \in Slots, Verify(w) PROVE SettleInv'
<1> DEFINE q == req[w]
           verdicts == IF q.route = "sync" THEN TransferVerdicts(q.h)
                       ELSE EscrowVerdicts(q.h, Stores(q.route), q.t)
<1>1. q \in Request /\ RequestOK(q) /\ q.at = "verify" /\ OnlyRequests /\ UNCHANGED card
  BY DEF SettleInv, TypeOK, RequestsOK, Verify
<1>2. ASSUME NEW v \in verdicts, req' = [req EXCEPT ![w].at = "insert", ![w].status = v]
      PROVE  SettleInv'
  <2> DEFINE r == [q EXCEPT !.at = "insert", !.status = v]
  <2>1. v \in {"pending", "confirmed"}
    BY DEF TransferVerdicts, EscrowVerdicts
  <2>2. r \in Request /\ req' = [req EXCEPT ![w] = r]
    BY <1>1, <1>2, <2>1 DEF Request, Awaits
  <2>3. r.route = q.route /\ r.t = q.t /\ r.h = q.h /\ r.at = "insert" /\ r.status = v
    BY <1>1 DEF Request
  <2>4. v = "confirmed" /\ q.route = "sync" => SeenSucceeded(q.h)
    BY DEF TransferVerdicts
  <2>5. v = "confirmed" /\ q.route = "override" => EscrowEvent(q.h, "release", q.t)
    BY DEF EscrowVerdicts, Stores
  <2>6. RequestOK(r)
    BY <1>1, <2>3, <2>4, <2>5 DEF RequestOK
  <2> HIDE DEF r, verdicts
  <2> QED
    BY <1>1, <2>2, <2>6, RequestStep, RequestsAlone DEF OnlyRequests
<1>3. CASE Proceed(w, "refuse")
  <2>1. RequestOK([q EXCEPT !.at = "refuse"]) /\ "refuse" \in Awaits
    BY <1>1 DEF RequestOK, Request, Awaits
  <2> QED
    BY <1>1, <1>3, <2>1, ProceedStep, RequestsAlone DEF OnlyRequests
<1> QED
  BY <1>2, <1>3 DEF Verify

\* A record is inserted once the event was seen, or was there already.
LEMMA InsertStep ==
  ASSUME SettleInv, NEW w \in Slots, InsertRecord(w) PROVE SettleInv'
<1> DEFINE q == req[w]
           kind == Stores(q.route)
<1>1. q \in Request /\ RequestOK(q) /\ q.at = "insert"
  BY DEF SettleInv, TypeOK, RequestsOK, InsertRecord
<1>2. q.route \in Reports /\ q.h \in Hashes
  BY <1>1 DEF RequestOK
<1>3. escrow' = escrow /\ tx' = tx /\ UNCHANGED <<task, verified, alert>>
  BY DEF InsertRecord, Insert
<1>4. kind \in Kinds /\ (kind # "payment" => q.route # "sync")
      /\ (q.route \in Flows => kind = q.route)
      /\ (q.route = "override" => kind = "release")
  BY <1>2 DEF Kinds, Stores, Reports, Flows
<1>5. PICK new \in Record :
        /\ new = [kind |-> kind, t |-> q.t, h |-> q.h, status |-> q.status,
                  route |-> q.route, checked |-> q.status = "confirmed"]
        /\ ledger' = Append(ledger, new)
  <2> DEFINE row == [kind |-> kind, t |-> q.t, h |-> q.h, status |-> q.status,
                     route |-> q.route, checked |-> q.status = "confirmed"]
  <2>1. ledger' = Append(ledger, row)
    BY DEF InsertRecord, Insert
  <2> HIDE DEF kind
  <2>2. row \in Record
    BY <1>1, <1>2, <1>4 DEF Record, Request, Reports
  <2> QED
    BY <2>1, <2>2
<1> HIDE DEF kind
<1>6. (q.status = "confirmed" => SeenSucceeded(q.h))
      /\ (kind # "payment" /\ (q.status = "confirmed" \/ q.route \in Flows)
            => EscrowEvent(q.h, kind, q.t))
  BY <1>1, <1>2, <1>4 DEF RequestOK, EscrowEvent, Reports, Flows
<1>7. RecordOK(new)'
  <2>1. RecordOK(new)
    BY <1>1, <1>5, <1>6 DEF RecordOK, SeenSucceeded, Request
  <2> QED
    BY <1>3, <2>1 DEF RecordOK, EscrowEvent, SeenSucceeded
<1>8. ledger' \in Seq(Record) /\ Len(ledger') = Len(ledger) + 1
      /\ ledger'[Len(ledger) + 1] = new
      /\ \A i \in 1..Len(ledger) : ledger'[i] = ledger[i]
  BY <1>5 DEF SettleInv, TypeOK
<1>9. ASSUME NEW i \in 1..Len(ledger) PROVE RecordOK(ledger[i])'
  BY <1>3, <1>8 DEF SettleInv, RecordsOK, RecordOK, EscrowEvent, SeenSucceeded
<1>10. RecordsOK'
  <2>1. Len(ledger) \in Nat
    BY DEF SettleInv, TypeOK
  <2>2. ASSUME NEW i \in 1..Len(ledger') PROVE RecordOK(ledger[i])'
    <3>1. i \in 1..Len(ledger) \/ i = Len(ledger) + 1
      BY <1>8, <2>1
    <3> QED
      BY <1>7, <1>8, <1>9, <3>1
  <2> QED
    BY <2>2 DEF RecordsOK
<1>11. Stable /\ ChainOK'
  BY <1>3 DEF Stable, SettleInv, ChainOK
<1>12. CASE Proceed(w, "close") /\ UNCHANGED card
  <2> DEFINE r == [q EXCEPT !.at = "close"]
  <2>1. r \in Request /\ RequestOK(r) /\ req' = [req EXCEPT ![w] = r]
    BY <1>1, <1>12 DEF Proceed, RequestOK, Request, Awaits, SettleInv, TypeOK
  <2> HIDE DEF r
  <2>2. req' \in [Slots -> Request] /\ RequestsOK'
    BY <1>3, <2>1 DEF SettleInv, TypeOK, RequestsOK, RequestOK, EscrowEvent,
       SeenSucceeded
  <2> QED
    BY <1>3, <1>8, <1>10, <1>11, <1>12, <2>2, StableCards DEF SettleInv, TypeOK
<1>13. CASE End(w) /\ Answer(w, TRUE)
  <2>1. req' \in [Slots -> Request] /\ RequestsOK'
    BY <1>3, <1>13, IdleOK DEF End, SettleInv, TypeOK, RequestsOK, RequestOK,
       EscrowEvent, SeenSucceeded
  <2>2. card' \in [Tasks -> [Flows -> Flow]] /\ CardsOK'
    BY <1>3, <1>13, AnswerStep
  <2> QED
    BY <1>3, <1>8, <1>10, <1>11, <2>1, <2>2 DEF SettleInv, TypeOK
<1> QED
  BY <1>12, <1>13 DEF InsertRecord

\* The disputes a settlement answers are closed.
LEMMA CloseStep ==
  ASSUME SettleInv, NEW w \in Slots, CloseDisputes(w) PROVE SettleInv'
<1>1. UNCHANGED lvars /\ End(w) /\ Answer(w, TRUE) /\ UNCHANGED <<task, verified>>
  BY DEF CloseDisputes
<1>2. alert' \in [Alerts -> Alert]
  <2>1. CASE UNCHANGED alert
    BY <2>1 DEF SettleInv, TypeOK
  <2>2. CASE alert' = [d \in Alerts |-> IF d \in OpenDisputes(req[w].t)
                                       THEN [alert[d] EXCEPT !.resolved = TRUE]
                                       ELSE alert[d]]
    BY <2>2 DEF SettleInv, TypeOK, Alert
  <2> QED
    BY <2>1, <2>2 DEF CloseDisputes
<1>3. card' \in [Tasks -> [Flows -> Flow]] /\ CardsOK'
  BY <1>1, AnswerStep DEF lvars
<1>4. req' \in [Slots -> Request] /\ RequestsOK'
  BY <1>1, EndStep
<1> QED
  BY <1>1, <1>2, <1>3, <1>4, Together DEF SettleInv, TypeOK

\* A refusal and a crash write nothing.
LEMMA EndsStep ==
  ASSUME SettleInv, NEW w \in Slots, Refuse(w) \/ Crash(w) PROVE SettleInv'
<1>1. OnlyRequests /\ End(w) /\ Answer(w, FALSE)
  BY DEF Refuse, Crash
<1>2. card' \in [Tasks -> [Flows -> Flow]] /\ CardsOK'
  BY <1>1, AnswerStep DEF OnlyRequests, lvars
<1>3. req' \in [Slots -> Request] /\ RequestsOK'
  BY <1>1, EndStep DEF OnlyRequests
<1> QED
  BY <1>1, <1>2, <1>3, Together DEF OnlyRequests, SettleInv, TypeOK

\* A dispute is filed.
LEMMA DisputeInsertStep ==
  ASSUME SettleInv, NEW w \in Slots, DisputeInsert(w), UNCHANGED card PROVE SettleInv'
<1>1. UNCHANGED <<lvars, task, verified, card>> /\ End(w)
  BY DEF DisputeInsert
<1>2. CASE req[w].t \in Tasks \cup {NoTask}
  <2>1. alert' \in [Alerts -> Alert]
    BY <1>2 DEF DisputeInsert, SettleInv, TypeOK, Alert
  <2> QED
    BY <1>1, <2>1, EndStep, Together, StableCards, BoardStep
       DEF SettleInv, TypeOK
<1> QED
  BY <1>2 DEF SettleInv, TypeOK, Request

\* The resolution reads the task the dispute is about.
LEMMA ResolveReadTaskStep ==
  ASSUME SettleInv, NEW w \in Slots, ResolveReadTask(w), UNCHANGED card PROVE SettleInv'
<1>1. OnlyRequests /\ req[w] \in Request /\ RequestOK(req[w]) /\ req[w].at = "readTask"
  BY DEF ResolveReadTask, SettleInv, TypeOK, RequestsOK
<1>2. CASE End(w)
  BY <1>1, <1>2, EndStep, RequestsAlone DEF OnlyRequests
<1>3. ASSUME NEW p \in Awaits, Proceed(w, p),
             p = IF req[w].resolution = "dismiss" THEN "resolveAlert" ELSE "resolveTask"
      PROVE  SettleInv'
  <2>1. RequestOK([req[w] EXCEPT !.at = p])
    BY <1>1, <1>3 DEF RequestOK, Request
  <2> QED
    BY <1>1, <1>3, <2>1, ProceedStep, RequestsAlone DEF OnlyRequests
<1> QED
  BY <1>2, <1>3 DEF ResolveReadTask, Awaits

\* The resolution writes the task, if it is still there.
LEMMA ResolveTaskStep ==
  ASSUME SettleInv, NEW w \in Slots, ResolveTask(w), UNCHANGED card PROVE SettleInv'
<1> DEFINE t == req[w].t
           row == IF req[w].resolution = "release"
                  THEN [status |-> "completed", complete |-> TRUE]
                  ELSE [task[t] EXCEPT !.status = "failed"]
<1>1. req[w] \in Request /\ RequestOK(req[w]) /\ req[w].at = "resolveTask"
      /\ UNCHANGED <<lvars, verified, alert, card>>
  BY DEF ResolveTask, SettleInv, TypeOK, RequestsOK
<1>2. task' \in [Tasks -> TaskRow]
  <2>1. CASE task' = task
    BY <2>1 DEF SettleInv, TypeOK
  <2>2. CASE task' = [task EXCEPT ![t] = row]
    BY <2>2, ZenonT(40) DEF SettleInv, TypeOK, TaskRow
  <2> QED
    BY <2>1, <2>2 DEF ResolveTask
<1>3. req' \in [Slots -> Request] /\ RequestsOK'
  <2>1. CASE End(w)
    BY <1>1, <2>1, EndStep
  <2>2. CASE Proceed(w, "resolveAlert")
    <3>1. RequestOK([req[w] EXCEPT !.at = "resolveAlert"])
      BY <1>1 DEF RequestOK, Request
    <3>2. "resolveAlert" \in Awaits
      BY DEF Awaits
    <3> QED
      BY <1>1, <2>2, <3>1, <3>2, ProceedStep
  <2> QED
    BY <2>1, <2>2 DEF ResolveTask
<1> QED
  BY <1>1, <1>2, <1>3, Together, StableCards, BoardStep DEF SettleInv, TypeOK

\* The resolution closes the alert.
LEMMA ResolveAlertStep ==
  ASSUME SettleInv, NEW w \in Slots, ResolveAlert(w), UNCHANGED card PROVE SettleInv'
<1>1. UNCHANGED <<lvars, task, verified, card>> /\ End(w)
  BY DEF ResolveAlert
<1>2. ASSUME NEW d \in Alerts PROVE alert'[d] \in Alert
  <2>1. alert[d] \in Alert
    BY DEF SettleInv, TypeOK
  <2>2. CASE alert' = alert
    BY <2>1, <2>2
  <2>3. CASE alert' = [alert EXCEPT ![req[w].d].resolved = TRUE,
                                    ![req[w].d].decided = TRUE]
    <3>1. \/ alert'[d] = alert[d]
          \/ alert'[d] = [alert[d] EXCEPT !.resolved = TRUE, !.decided = TRUE]
      BY <2>3 DEF SettleInv, TypeOK
    <3> QED
      BY <2>1, <3>1 DEF Alert
  <2> QED
    BY <2>2, <2>3 DEF ResolveAlert
<1>3. alert' \in [Alerts -> Alert]
  <2>1. DOMAIN alert' = Alerts /\ alert' = [d \in Alerts |-> alert'[d]]
    BY DEF ResolveAlert, SettleInv, TypeOK
  <2> QED
    BY <1>2, <2>1
<1> QED
  BY <1>1, <1>3, EndStep, Together, StableCards, BoardStep DEF SettleInv, TypeOK

\* Every step of a request in flight keeps the invariant.
LEMMA ServeStep == ASSUME SettleInv, NEW w \in Slots, Serve(w) PROVE SettleInv'
  BY RefundReadStep, VerifyStep, InsertStep, CloseStep, EndsStep, DisputeInsertStep,
     ResolveReadTaskStep, ResolveTaskStep, ResolveAlertStep DEF Serve

\* The life of the task.
LEMMA TaskMoves ==
  ASSUME SettleInv, UNCHANGED card, NEW t \in Tasks,
         TaskCompletes(t) \/ TaskFails(t) \/ TaskRestarts(t) \/ TaskDeleted(t)
  PROVE  SettleInv'
<1>1. UNCHANGED <<lvars, alert, req>>
  BY DEF TaskCompletes, TaskFails, TaskRestarts, TaskDeleted
<1>2. verified' \in [Tasks -> BOOLEAN]
  BY DEF TaskCompletes, TaskFails, TaskRestarts, TaskDeleted, SettleInv, TypeOK
<1>3. task' \in [Tasks -> TaskRow]
  <2>1. CASE TaskCompletes(t)
    BY <2>1 DEF TaskCompletes, SettleInv, TypeOK, TaskRow
  <2>2. CASE TaskFails(t)
    BY <2>2 DEF TaskFails, SettleInv, TypeOK, TaskRow
  <2>3. CASE TaskRestarts(t)
    BY <2>3 DEF TaskRestarts, SettleInv, TypeOK, TaskRow
  <2>4. CASE TaskDeleted(t)
    BY <2>4 DEF TaskDeleted, SettleInv, TypeOK, TaskRow
  <2> QED
    BY <2>1, <2>2, <2>3, <2>4
<1> QED
  BY <1>1, <1>2, <1>3, BoardStep, StableRequests, StableCards, Together
     DEF SettleInv, TypeOK

\* An alert closed or opened again by hand.
LEMMA AlertMoves ==
  ASSUME SettleInv, UNCHANGED card, NEW d \in Alerts, PatchAlert(d)
  PROVE  SettleInv'
<1>1. UNCHANGED <<lvars, task, verified, req>>
  BY DEF PatchAlert
<1>2. alert' \in [Alerts -> Alert]
  BY SMTT(30) DEF PatchAlert, SettleInv, TypeOK, Alert
<1> QED
  BY <1>1, <1>2, BoardStep, StableRequests, StableCards, Together
     DEF SettleInv, TypeOK

\* Every step keeps it.
LEMMA SettleStep == SettleInv /\ [Next]_svars => SettleInv'
<1> SUFFICES ASSUME SettleInv, [Next]_svars PROVE SettleInv'
  OBVIOUS
<1>1. CASE UNCHANGED svars
  <2>1. card' \in [Tasks -> [Flows -> Flow]] /\ CardsOK'
    BY <1>1 DEF svars, SettleInv, TypeOK, CardsOK, lvars
  <2> QED
    BY <1>1, <2>1, CardsAlone DEF svars
<1>2. CASE Next
  BY <1>2, ChainStep, SyncStep, ArriveStep, ServeStep, CardMoves, TaskMoves,
     AlertMoves DEF Next
<1> QED
  BY <1>1, <1>2

\* It holds in every state.
LEMMA SettleAlways == Spec => []SettleInv
  BY SettleInitial, SettleStep, PTL DEF Spec

-----------------------------------------------------------------------------
(* One record per settlement.  The hash of a card's settlement is a token:  *)
(* it is with the card until the card reports it, then with that request    *)
(* until it is recorded, and nobody hands it back.                          *)

\* Requests that may still record what a card reported.
Carries(r) ==
  r.route \in Flows /\ r.at \in {"disputes", "failedDisputes", "verify", "insert"}

RecordedIn(rows, h) ==
  \E i \in 1..Len(rows) : rows[i].route \in Flows /\ rows[i].h = h

TokenInv ==
  /\ \A t \in Tasks, f \in Flows : card[t][f].at = "mining" =>
       /\ ~RecordedIn(ledger, card[t][f].h)
       /\ \A w \in Slots : Carries(req[w]) => req[w].h # card[t][f].h
  /\ \A w \in Slots : Carries(req[w]) => ~RecordedIn(ledger, req[w].h)
  /\ \A v, w \in Slots :
       v # w /\ Carries(req[v]) /\ Carries(req[w]) => req[v].h # req[w].h
  /\ \A i \in 1..Len(ledger) : ledger[i].route \in Flows => ledger[i].kind # "payment"
  /\ \A i, j \in 1..Len(ledger) :
       i # j /\ {ledger[i].route, ledger[j].route} \subseteq Flows
         => ledger[i].h # ledger[j].h

\* No card, request or record takes a token that it had not.
SameRecords ==
  /\ Len(ledger') = Len(ledger)
  /\ \A i \in 1..Len(ledger) :
       /\ ledger'[i].route = ledger[i].route
       /\ ledger'[i].h = ledger[i].h
       /\ ledger'[i].kind = ledger[i].kind

NoNewCarrier ==
  \A w \in Slots : Carries(req'[w]) => Carries(req[w]) /\ req'[w].h = req[w].h

NoNewMining ==
  \A t \in Tasks, f \in Flows : card'[t][f].at = "mining" => card'[t][f] = card[t][f]

\* A step that makes no new carrier of a token keeps the tokens apart.
LEMMA TokensStay ==
  TokenInv /\ SameRecords /\ NoNewCarrier /\ NoNewMining => TokenInv'
<1> SUFFICES ASSUME TokenInv, SameRecords, NoNewCarrier, NoNewMining PROVE TokenInv'
  OBVIOUS
<1>1. \A h : RecordedIn(ledger', h) => RecordedIn(ledger, h)
  BY DEF SameRecords, RecordedIn
<1>2. \A w \in Slots : Carries(req[w])' <=> Carries(req'[w])
  BY DEF Carries
<1>3. /\ \A t \in Tasks, f \in Flows : card'[t][f].at = "mining" =>
           /\ ~RecordedIn(ledger', card'[t][f].h)
           /\ \A w \in Slots : Carries(req[w])' => req'[w].h # card'[t][f].h
      /\ \A w \in Slots : Carries(req[w])' => ~RecordedIn(ledger', req'[w].h)
      /\ \A v, w \in Slots :
           v # w /\ Carries(req[v])' /\ Carries(req[w])' => req'[v].h # req'[w].h
  BY <1>1, <1>2 DEF TokenInv, NoNewCarrier, NoNewMining
<1>4. /\ \A i \in 1..Len(ledger') : ledger'[i].route \in Flows => ledger'[i].kind # "payment"
      /\ \A i, j \in 1..Len(ledger') :
           i # j /\ {ledger'[i].route, ledger'[j].route} \subseteq Flows
             => ledger'[i].h # ledger'[j].h
  BY DEF TokenInv, SameRecords
<1> QED
  BY <1>2, <1>3, <1>4 DEF TokenInv

\* Only w's request changes, and does not come to carry anything.
LEMMA OneRequestChanges ==
  ASSUME SettleInv, NEW w \in Slots, NEW r,
         req' = [req EXCEPT ![w] = r],
         Carries(r) => Carries(req[w]) /\ r.h = req[w].h
  PROVE  NoNewCarrier
  BY DEF NoNewCarrier, SettleInv, TypeOK

\* A request that ends carries no token on.
LEMMA EndCarriesNothing ==
  ASSUME SettleInv, NEW w \in Slots, End(w) PROVE NoNewCarrier
  BY OneRequestChanges DEF End, Idle, Carries, Flows

\* One that goes on carries the token it had.
LEMMA ProceedCarriesOn ==
  ASSUME SettleInv, NEW w \in Slots, NEW p, Proceed(w, p),
         p \in {"disputes", "failedDisputes", "verify", "insert"} => Carries(req[w])
                                                 \/ req[w].route \notin Flows
  PROVE  NoNewCarrier
<1> DEFINE r == [req[w] EXCEPT !.at = p]
<1>1. req[w] \in Request
  BY DEF SettleInv, TypeOK
<1>2. r.at = p /\ r.route = req[w].route /\ r.h = req[w].h
  BY <1>1 DEF Request
<1>3. req' = [req EXCEPT ![w] = r]
  BY <1>1 DEF Proceed, Request
<1> HIDE DEF r
<1> QED
  BY <1>2, <1>3, OneRequestChanges DEF Carries

\* Requests that stay carry what they carried.
LEMMA RequestsKept == req' = req => NoNewCarrier
  BY DEF NoNewCarrier

\* A ledger that stays holds the records it held.
LEMMA RecordsKept == ledger' = ledger => SameRecords
  BY DEF SameRecords

\* Pages that stay mine nothing.
LEMMA CardsKept == card' = card => NoNewMining
  BY DEF NoNewMining

\* Nor does a page that is answered.
LEMMA AnswerMinesNothing ==
  ASSUME SettleInv, NEW w \in Slots, NEW ok \in BOOLEAN, Answer(w, ok)
  PROVE  NoNewMining
<1> DEFINE t == req[w].t
           f == req[w].route
           flow == IF ok THEN Done ELSE NoFlow
<1>1. CASE card' = card
  BY <1>1, CardsKept
<1>2. CASE card' # card
  <2>1. f \in Flows /\ card' = [card EXCEPT ![t][f] = flow]
    BY <1>2 DEF Answer
  <2>2. flow.at # "mining"
    BY DEF Done, NoFlow
  <2> HIDE DEF flow
  <2> QED
    BY <2>1, <2>2 DEF NoNewMining, SettleInv, TypeOK
<1> QED
  BY <1>1, <1>2

\* The wallet's new transaction has a hash that nobody has reported yet.
LEMMA SignToken ==
  ASSUME SettleInv, TokenInv, NEW t \in Tasks, NEW f \in Flows, NEW h \in Hashes,
         Sign(t, f, h)
  PROVE  TokenInv'
<1>1. tx[h].status = "unsent" /\ ledger' = ledger /\ req' = req
      /\ card' = [card EXCEPT ![t][f] = [at |-> "mining", h |-> h]]
  BY DEF Sign, Send, Unsent, dvars
<1>2. \A w \in Slots : Carries(req[w]) => req[w].h # h
  BY <1>1 DEF SettleInv, RequestsOK, RequestOK, Carries, EscrowEvent, SeenSucceeded
<1>3. ~RecordedIn(ledger, h)
  BY <1>1 DEF SettleInv, RecordsOK, RecordOK, RecordedIn, TokenInv, EscrowEvent,
     SeenSucceeded
<1>4. \A u \in Tasks, g \in Flows :
        card'[u][g] = IF u = t /\ g = f THEN [at |-> "mining", h |-> h] ELSE card[u][g]
  BY <1>1 DEF SettleInv, TypeOK
<1>5. \A g : RecordedIn(ledger', g) <=> RecordedIn(ledger, g)
  BY <1>1 DEF RecordedIn
<1>6. \A u \in Tasks, g \in Flows : card'[u][g].at = "mining" =>
        /\ ~RecordedIn(ledger, card'[u][g].h)
        /\ \A w \in Slots : Carries(req[w]) => req[w].h # card'[u][g].h
  BY <1>2, <1>3, <1>4 DEF TokenInv
<1> QED
  BY <1>1, <1>6 DEF TokenInv, Carries, RecordedIn

\* The card hands the token to its request.
LEMMA ReportToken ==
  ASSUME SettleInv, TokenInv, NEW w \in Slots, NEW t \in Tasks, NEW f \in Flows,
         NEW at, Report(w, t, f, at)
  PROVE  TokenInv'
<1> DEFINE h == card[t][f].h
           r == [Idle EXCEPT !.at = at, !.route = f, !.t = t, !.h = h]
<1>1. card[t][f].at = "mining" /\ ledger' = ledger /\ req' = [req EXCEPT ![w] = r]
      /\ card' = [card EXCEPT ![t][f].at = "posted"] /\ req[w] = Idle
  BY DEF Report, CardGoes, Call, OnlyRequests, lvars
<1>2. \A u \in Tasks, g \in Flows : card'[u][g].at = "mining" =>
        card'[u][g] = card[u][g] /\ ~(u = t /\ g = f)
  BY <1>1 DEF SettleInv, TypeOK, Flow
<1>3. \A u \in Tasks, g \in Flows : card'[u][g].at = "mining" => card[u][g].h # h
  BY <1>1, <1>2 DEF SettleInv, CardsOK
<1>4. r.h = h
  BY DEF Idle
<1> HIDE DEF r
<1>5. \A v \in Slots : req'[v] = IF v = w THEN r ELSE req[v]
  BY <1>1 DEF SettleInv, TypeOK
<1>6. ~RecordedIn(ledger, h) /\ \A v \in Slots : Carries(req[v]) => req[v].h # h
  BY <1>1 DEF TokenInv
<1> HIDE DEF h
<1>7. \A u \in Tasks, g \in Flows : card'[u][g].at = "mining" =>
        /\ ~RecordedIn(ledger, card'[u][g].h)
        /\ \A v \in Slots : Carries(req'[v]) => req'[v].h # card'[u][g].h
  BY <1>2, <1>3, <1>4, <1>5 DEF TokenInv
<1>8. \A v \in Slots : Carries(req'[v]) => ~RecordedIn(ledger, req'[v].h)
  BY <1>4, <1>5, <1>6 DEF TokenInv
<1>9. \A u, v \in Slots :
        u # v /\ Carries(req'[u]) /\ Carries(req'[v]) => req'[u].h # req'[v].h
  BY <1>4, <1>5, <1>6 DEF TokenInv
<1> QED
  BY <1>1, <1>7, <1>8, <1>9 DEF TokenInv, Carries, RecordedIn

\* The request turns the token into a record.
LEMMA InsertToken ==
  ASSUME SettleInv, TokenInv, NEW w \in Slots, InsertRecord(w)
  PROVE  TokenInv'
<1> DEFINE q == req[w]
           n == Len(ledger) + 1
<1>1. q \in Request /\ q.at = "insert" /\ ledger \in Seq(Record) /\ Len(ledger) \in Nat
  BY DEF SettleInv, TypeOK, InsertRecord
<1>2. Len(ledger') = n /\ ledger'[n].route = q.route /\ ledger'[n].h = q.h
      /\ ledger'[n].kind = Stores(q.route)
      /\ \A i \in 1..Len(ledger) : ledger'[i] = ledger[i]
  BY <1>1 DEF InsertRecord, Insert
<1>3. NoNewMining
  BY AnswerMinesNothing, CardsKept DEF InsertRecord
<1>4. \A v \in Slots : Carries(req'[v]) => v # w /\ req'[v] = req[v]
  <2>1. CASE Proceed(w, "close")
    BY <1>1, <2>1 DEF Proceed, SettleInv, TypeOK, Carries, Request
  <2>2. CASE End(w)
    BY <2>2 DEF End, Idle, SettleInv, TypeOK, Carries, Flows
  <2> QED
    BY <2>1, <2>2 DEF InsertRecord
<1>5. q.route \in Flows => Carries(q) /\ Stores(q.route) # "payment"
  BY <1>1 DEF Carries, Flows, Stores
<1>6. \A i \in 1..Len(ledger') : i \in 1..Len(ledger) \/ i = n
  BY <1>1, <1>2
<1>7. \A h : RecordedIn(ledger', h) => RecordedIn(ledger, h) \/ (q.route \in Flows /\ h = q.h)
  BY <1>2, <1>6 DEF RecordedIn
<1> HIDE DEF q, n
<1>8. \A t \in Tasks, f \in Flows : card'[t][f].at = "mining" =>
        /\ ~RecordedIn(ledger', card'[t][f].h)
        /\ \A v \in Slots : Carries(req'[v]) => req'[v].h # card'[t][f].h
  BY <1>3, <1>4, <1>5, <1>7 DEF TokenInv, NoNewMining, q
<1>9. \A v \in Slots : Carries(req'[v]) => ~RecordedIn(ledger', req'[v].h)
  BY <1>4, <1>5, <1>7 DEF TokenInv, q
<1>10. \A u, v \in Slots :
         u # v /\ Carries(req'[u]) /\ Carries(req'[v]) => req'[u].h # req'[v].h
  BY <1>4 DEF TokenInv
<1>11. \A i \in 1..Len(ledger') : ledger'[i].route \in Flows => ledger'[i].kind # "payment"
  BY <1>2, <1>5, <1>6 DEF TokenInv
<1>12. \A i \in 1..Len(ledger) :
         q.route \in Flows /\ ledger[i].route \in Flows => ledger[i].h # q.h
  BY <1>5 DEF TokenInv, RecordedIn, q
<1>13. \A i, j \in 1..Len(ledger') :
         i # j /\ {ledger'[i].route, ledger'[j].route} \subseteq Flows
           => ledger'[i].h # ledger'[j].h
  BY <1>2, <1>6, <1>12 DEF TokenInv
<1>14. \A v \in Slots : Carries(req[v])' <=> Carries(req'[v])
  BY DEF Carries
<1> QED
  BY <1>8, <1>9, <1>10, <1>11, <1>13, <1>14 DEF TokenInv

\* A request in flight spends its token once.
LEMMA ServeToken ==
  ASSUME SettleInv, TokenInv, NEW w \in Slots, Serve(w) PROVE TokenInv'
<1> DEFINE q == req[w]
<1>0. q \in Request
  BY DEF SettleInv, TypeOK
<1>1. CASE RefundReadsDisputes(w)
  <2> DEFINE disputed == OpenDisputes(q.t) # {}
             next == IF q.at = "failedDisputes" \/ disputed THEN "verify" ELSE "refuse"
             r == [q EXCEPT !.disputed = disputed, !.at = next]
  <2>1. req' = [req EXCEPT ![w] = r] /\ ledger' = ledger /\ card' = card
        /\ q.at \in {"disputes", "failedDisputes"}
    BY <1>0, <1>1 DEF RefundReadsDisputes, Request, OnlyRequests, lvars
  <2>2. r.route = q.route /\ r.h = q.h
    BY <1>0 DEF Request
  <2> HIDE DEF r
  <2>3. NoNewCarrier
    BY <2>1, <2>2, OneRequestChanges DEF Carries
  <2> QED
    BY <2>1, <2>3, RecordsKept, CardsKept, TokensStay
<1>2. CASE Verify(w)
  <2>1. ledger' = ledger /\ card' = card /\ q.at = "verify"
    BY <1>2 DEF Verify, OnlyRequests, lvars
  <2>2. ASSUME NEW v, req' = [req EXCEPT ![w].at = "insert", ![w].status = v]
        PROVE  NoNewCarrier
    <3> DEFINE r == [q EXCEPT !.at = "insert", !.status = v]
    <3>1. req' = [req EXCEPT ![w] = r]
      BY <1>0, <2>2 DEF Request
    <3>2. r.route = q.route /\ r.h = q.h
      BY <1>0 DEF Request
    <3> HIDE DEF r
    <3> QED
      BY <2>1, <3>1, <3>2, OneRequestChanges DEF Carries
  <2>3. ASSUME Proceed(w, "refuse") PROVE NoNewCarrier
    BY <2>3, ProceedCarriesOn
  <2>4. NoNewCarrier
    BY <1>2, <2>2, <2>3 DEF Verify
  <2> QED
    BY <2>1, <2>4, RecordsKept, CardsKept, TokensStay
<1>3. CASE CloseDisputes(w)
  <2>1. ledger' = ledger /\ End(w) /\ Answer(w, TRUE)
    BY <1>3 DEF CloseDisputes, lvars
  <2> QED
    BY <2>1, RecordsKept, AnswerMinesNothing, EndCarriesNothing, TokensStay
<1>4. CASE Refuse(w) \/ Crash(w)
  <2>1. ledger' = ledger /\ End(w) /\ Answer(w, FALSE)
    BY <1>4 DEF Refuse, Crash, OnlyRequests, lvars
  <2> QED
    BY <2>1, RecordsKept, AnswerMinesNothing, EndCarriesNothing, TokensStay
<1>5. CASE (DisputeInsert(w) \/ ResolveReadTask(w) \/ ResolveTask(w) \/ ResolveAlert(w))
           /\ UNCHANGED card
  <2>1. ledger' = ledger /\ card' = card
    BY <1>5 DEF DisputeInsert, ResolveReadTask, ResolveTask, ResolveAlert,
       OnlyRequests, lvars
  <2>2. ASSUME End(w) PROVE NoNewCarrier
    BY <2>2, EndCarriesNothing
  <2>3. ASSUME NEW p \in {"resolveAlert", "resolveTask"}, Proceed(w, p)
        PROVE  NoNewCarrier
    BY <2>3, ProceedCarriesOn
  <2>4. NoNewCarrier
    BY <1>5, <2>2, <2>3 DEF DisputeInsert, ResolveReadTask, ResolveTask,
       ResolveAlert
  <2> QED
    BY <2>1, <2>4, RecordsKept, CardsKept, TokensStay
<1> QED
  BY <1>1, <1>2, <1>3, <1>4, <1>5, InsertToken DEF Serve

\* A request that arrives takes over the token of its page.
LEMMA ArriveToken ==
  ASSUME SettleInv, TokenInv, NEW w \in Slots, Arrive(w) PROVE TokenInv'
<1>1. ASSUME NEW t \in Tasks, PostRelease(w, t) \/ PostRefund(w, t) PROVE TokenInv'
  BY <1>1, ReportToken DEF PostRelease, PostRefund, Flows
<1>2. ASSUME NEW route, NEW t, NEW h, NEW at, Call(w, route, t, h, at),
             route \notin Flows, ledger' = ledger, card' = card
      PROVE  TokenInv'
  <2> DEFINE r == [Idle EXCEPT !.at = at, !.route = route, !.t = t, !.h = h]
  <2>1. req' = [req EXCEPT ![w] = r] /\ ~Carries(r)
    BY <1>2 DEF Call, Carries, Idle
  <2> HIDE DEF r
  <2> QED
    BY <1>2, <2>1, OneRequestChanges, RecordsKept, CardsKept, TokensStay
<1>3. ASSUME NEW t \in Tasks, NEW h \in Hashes, PostOverride(w, t, h) PROVE TokenInv'
  BY <1>2, <1>3 DEF PostOverride, OnlyRequests, lvars, Flows
<1>4. ASSUME NEW h \in Hashes, PostSync(w, h) PROVE TokenInv'
  BY <1>2, <1>4 DEF PostSync, OnlyRequests, lvars, Flows
<1>5. ASSUME NEW t \in Tasks, DisputeRead(w, t), UNCHANGED card PROVE TokenInv'
  <2>1. ledger' = ledger /\ card' = card
    BY <1>5 DEF DisputeRead, OnlyRequests, lvars
  <2>2. NoNewCarrier
    BY <1>5, OneRequestChanges DEF DisputeRead, Carries, Idle, Flows
  <2> QED
    BY <2>1, <2>2, RecordsKept, CardsKept, TokensStay
<1>6. ASSUME NEW d \in Alerts, NEW resolution, ResolveRead(w, d, resolution),
             UNCHANGED card
      PROVE  TokenInv'
  <2>1. ledger' = ledger /\ card' = card
    BY <1>6 DEF ResolveRead, OnlyRequests, lvars
  <2>2. NoNewCarrier
    BY <1>6, OneRequestChanges DEF ResolveRead, Carries, Idle, Flows
  <2> QED
    BY <2>1, <2>2, RecordsKept, CardsKept, TokensStay
<1> QED
  BY <1>1, <1>3, <1>4, <1>5, <1>6 DEF Arrive

\* A page makes a token for a transaction of its own.
LEMMA CardToken ==
  ASSUME SettleInv, TokenInv, NEW t \in Tasks, UseCard(t) PROVE TokenInv'
<1>1. ASSUME NEW f \in Flows, Click(t, f) \/ Decline(t, f) \/ LoseAnswer(t, f)
      PROVE  TokenInv'
  <2>1. ledger' = ledger /\ req' = req
    BY <1>1 DEF Click, Decline, LoseAnswer, lvars, dvars
  <2>2. \E flow : card' = [card EXCEPT ![t][f] = flow] /\ flow.at # "mining"
    <3>1. card[t][f] \in Flow
      BY DEF SettleInv, TypeOK
    <3>2. CASE Click(t, f)
      <4>1. [at |-> "signing", h |-> NoHash].at # "mining"
        OBVIOUS
      <4> QED
        BY <3>2, <4>1 DEF Click
    <3>3. CASE Decline(t, f)
      <4>1. [card[t][f] EXCEPT !.at = "idle"].at # "mining"
        BY <3>1 DEF Flow
      <4> QED
        BY <3>3, <4>1 DEF Decline, CardGoes
    <3>4. CASE LoseAnswer(t, f)
      <4>1. NoFlow.at # "mining"
        BY DEF NoFlow
      <4> QED
        BY <3>4, <4>1 DEF LoseAnswer
    <3> QED
      BY <1>1, <3>2, <3>3, <3>4
  <2>3. NoNewMining
    BY <2>2 DEF NoNewMining, SettleInv, TypeOK
  <2> QED
    BY <2>1, <2>3, RecordsKept, RequestsKept, TokensStay
<1>2. CASE Reload(t)
  <2>1. ledger' = ledger /\ req' = req
    BY <1>2 DEF Reload, lvars, dvars
  <2>2. NoNewMining
    BY <1>2 DEF Reload, NoFlow, NoNewMining, SettleInv, TypeOK
  <2> QED
    BY <2>1, <2>2, RecordsKept, RequestsKept, TokensStay
<1> QED
  BY <1>1, <1>2, SignToken DEF UseCard

\* Steps outside the app's requests and cards.
LEMMA OthersToken ==
  ASSUME SettleInv, TokenInv, card' = card, req' = req,
         ledger' = ledger \/ Sync
  PROVE  TokenInv'
<1>1. CASE ledger' = ledger
  BY <1>1, RecordsKept, RequestsKept, CardsKept, TokensStay
<1>2. CASE Sync
  <2>1. SameRecords
    BY <1>2 DEF Sync, SyncRecord, SameRecords, SettleInv, TypeOK, Record
  <2> QED
    BY <2>1, RequestsKept, CardsKept, TokensStay
<1> QED
  BY <1>1, <1>2

\* No token is about at first.
LEMMA TokenInitial == Init => TokenInv
  BY DEF Init, LedgerInit, DisputesInit, NoFlow, Idle, TokenInv, Carries, RecordedIn, Flows

\* Every step keeps the tokens apart.
LEMMA TokenStep == SettleInv /\ TokenInv /\ [Next]_svars => TokenInv'
<1> SUFFICES ASSUME SettleInv, TokenInv, [Next]_svars PROVE TokenInv'
  OBVIOUS
<1>1. CASE UNCHANGED svars
  BY <1>1, OthersToken DEF svars, lvars, dvars
<1>2. CASE Chain
  BY <1>2, OthersToken DEF Chain, Mine, Expire, WalletSends, OperatorSends, Send, dvars
<1>3. CASE Sync
  BY <1>3, OthersToken DEF Sync, dvars
<1>4. ASSUME NEW t \in Tasks, UNCHANGED card,
             TaskCompletes(t) \/ TaskFails(t) \/ TaskRestarts(t) \/ TaskDeleted(t)
      PROVE  TokenInv'
  BY <1>4, OthersToken DEF TaskCompletes, TaskFails, TaskRestarts, TaskDeleted, lvars
<1>5. ASSUME NEW d \in Alerts, UNCHANGED card, PatchAlert(d) PROVE TokenInv'
  BY <1>5, OthersToken DEF PatchAlert, lvars
<1> QED
  BY <1>1, <1>2, <1>3, <1>4, <1>5, ArriveToken, ServeToken, CardToken DEF Next

\* They are apart in every state.
LEMMA TokenAlways == Spec => []TokenInv
  BY TokenInitial, SettleAlways, TokenStep, PTL DEF Spec

-----------------------------------------------------------------------------
(* The theorems.                                                            *)

\* The tables, the requests and the cards keep the shape the schema and the
\* handlers give them.
THEOREM SettleTypes == Spec => []TypeOK
<1>1. SettleInv => TypeOK
  BY DEF SettleInv
<1> QED
  BY <1>1, SettleAlways, PTL

\* A confirmed row of the transactions table succeeded on the chain, and a row
\* a handler checked or a card reported settled its own task in its own way,
\* though receipts come late, answers are lost and requests die.
THEOREM LedgerTrue == Spec => []LedgerIsTrue
<1>1. SettleInv => LedgerIsTrue
  <2> SUFFICES ASSUME SettleInv, NEW i \in DOMAIN ledger
               PROVE  LET r == ledger[i] IN
                      /\ r.status = "confirmed" => tx[r.h].status = "success"
                      /\ r.status = "failed" => tx[r.h].status = "reverted"
                      /\ r.kind # "payment" /\ (r.checked \/ r.route \in Flows)
                           => escrow[r.t] = IF r.kind = "release" THEN "Released"
                                            ELSE "Refunded"
    BY DEF LedgerIsTrue
  <2>1. ledger[i] \in Record /\ RecordOK(ledger[i])
    BY DEF SettleInv, TypeOK, RecordsOK
  <2> QED
    BY <2>1 DEF SettleInv, ChainOK, RecordOK, EscrowEvent, SeenSucceeded, Record
<1> QED
  BY <1>1, SettleAlways, PTL

\* A settlement that a card reports is recorded once: the hash passes from the
\* card to one request and from that to one record, whichever answers are lost
\* and whichever requests die or overlap (TaskCard.tsx asks again only with a
\* new transaction).
THEOREM OneRecord == Spec => []OneRecordPerHash
<1>1. SettleInv /\ TokenInv => OneRecordPerHash
  BY DEF TokenInv, OneRecordPerHash, SettleInv, TypeOK
<1> QED
  BY <1>1, SettleAlways, TokenAlways, PTL

\* The table says that the task was refunded.
RefundIn(rows, t) ==
  \E i \in DOMAIN rows :
    /\ rows[i].kind = "refund" /\ rows[i].t = t
    /\ rows[i].status = "confirmed"

\* A request about to close disputes has recorded a refund.
ClosingOK ==
  \A w \in Slots : req[w].at = "close" =>
    req[w].route = "refund" /\ RefundIn(ledger, req[w].t)

\* A refund that is recorded stays so: records are appended, and only pending
\* ones are settled.
LEMMA RecordedStays ==
  ASSUME SettleInv, [Next]_svars, NEW t, RefundIn(ledger, t)
  PROVE  RefundIn(ledger', t)
<1>1. PICK i \in DOMAIN ledger : ledger[i].kind = "refund" /\ ledger[i].t = t
                                 /\ ledger[i].status = "confirmed"
  BY DEF RefundIn
<1>2. CASE ledger' = ledger
  BY <1>1, <1>2 DEF RefundIn
<1>3. ASSUME NEW w \in Slots, InsertRecord(w) PROVE RefundIn(ledger', t)
  <2>1. i \in DOMAIN ledger' /\ ledger'[i] = ledger[i]
    BY <1>1, <1>3 DEF InsertRecord, Insert, SettleInv, TypeOK
  <2> QED
    BY <1>1, <2>1 DEF RefundIn
<1>4. ASSUME NEW j \in 1..MaxRecords, SyncRecord(j) PROVE RefundIn(ledger', t)
  <2>1. i # j
    BY <1>1, <1>4 DEF SyncRecord
  <2>2. i \in DOMAIN ledger' /\ ledger'[i] = ledger[i]
    BY <1>1, <1>4, <2>1 DEF SyncRecord, SettleInv, TypeOK
  <2> QED
    BY <1>1, <2>2 DEF RefundIn
<1>5. CASE Chain \/ UNCHANGED svars
  BY <1>2, <1>5 DEF Chain, Mine, Expire, WalletSends, OperatorSends, Send, svars, lvars
<1>6. CASE Sync
  BY <1>4, <1>6 DEF Sync
<1>7. ASSUME NEW w \in Slots, Serve(w) PROVE RefundIn(ledger', t)
  BY <1>2, <1>3, <1>7 DEF Serve, RefundReadsDisputes, Verify, CloseDisputes, Refuse,
     Crash, DisputeInsert, ResolveReadTask, ResolveTask, ResolveAlert, OnlyRequests, lvars
<1>8. ASSUME NEW w \in Slots, Arrive(w) PROVE ledger' = ledger
  BY <1>8 DEF Arrive, PostRelease, PostRefund, Report, PostOverride, PostSync,
     DisputeRead, ResolveRead, OnlyRequests, lvars
<1>9. ASSUME NEW u \in Tasks, UseCard(u) PROVE ledger' = ledger
  BY <1>9 DEF UseCard, Click, Decline, LoseAnswer, Sign, Send, Reload, lvars
<1>10. ASSUME NEW u \in Tasks,
              TaskCompletes(u) \/ TaskFails(u) \/ TaskRestarts(u) \/ TaskDeleted(u)
       PROVE  ledger' = ledger
  BY <1>10 DEF TaskCompletes, TaskFails, TaskRestarts, TaskDeleted, lvars
<1>11. ASSUME NEW d \in Alerts, PatchAlert(d) PROVE ledger' = ledger
  BY <1>11 DEF PatchAlert, lvars
<1> QED
  BY <1>2, <1>5, <1>6, <1>7, <1>8, <1>9, <1>10, <1>11 DEF Next

\* A step brings w's request to closing.
ComesToClose(w) == req'[w].at = "close" /\ req'[w] # req[w]

\* Only the insertion of a confirmed refund brings a request to closing.
LEMMA OnlyInsertCloses ==
  ASSUME SettleInv, [Next]_svars, NEW w \in Slots, ComesToClose(w)
  PROVE  InsertRecord(w)
<1>1. ASSUME req' = req PROVE FALSE
  BY <1>1 DEF ComesToClose
<1>2. ASSUME NEW v \in Slots, NEW r, r.at # "close", req' = [req EXCEPT ![v] = r]
      PROVE  FALSE
  BY <1>2 DEF ComesToClose, SettleInv, TypeOK
<1>3. ASSUME NEW v \in Slots, End(v) PROVE FALSE
  BY <1>2, <1>3 DEF End, Idle
<1>4. ASSUME NEW v \in Slots, NEW p \in Awaits \ {"close"}, Proceed(v, p) PROVE FALSE
  <2>1. req[v] \in Request
    BY DEF SettleInv, TypeOK
  <2>2. [req[v] EXCEPT !.at = p].at # "close"
    BY <2>1 DEF Request
  <2> QED
    BY <1>2, <1>4, <2>2 DEF Proceed
<1>5. ASSUME NEW v \in Slots, InsertRecord(v) PROVE InsertRecord(w)
  <2>1. CASE v = w
    BY <1>5, <2>1
  <2>2. CASE v # w
    <3>1. CASE Proceed(v, "close")
      BY <2>2, <3>1 DEF Proceed, ComesToClose, SettleInv, TypeOK
    <3> QED
      BY <1>3, <1>5, <3>1 DEF InsertRecord
  <2> QED
    BY <2>1, <2>2
<1>6. ASSUME NEW v \in Slots, RefundReadsDisputes(v) PROVE FALSE
  <2> DEFINE disputed == OpenDisputes(req[v].t) # {}
             next == IF req[v].at = "failedDisputes" \/ disputed THEN "verify" ELSE "refuse"
             r == [req[v] EXCEPT !.disputed = disputed, !.at = next]
  <2>1. req[v] \in Request
    BY DEF SettleInv, TypeOK
  <2>2. req' = [req EXCEPT ![v] = r] /\ r.at # "close"
    BY <1>6, <2>1 DEF RefundReadsDisputes, Request
  <2> HIDE DEF r
  <2> QED
    BY <1>2, <2>2
<1>7. ASSUME NEW v \in Slots, Verify(v) PROVE FALSE
  <2>1. req[v] \in Request
    BY DEF SettleInv, TypeOK
  <2>2. ASSUME NEW s, req' = [req EXCEPT ![v].at = "insert", ![v].status = s]
        PROVE  FALSE
    <3> DEFINE r == [req[v] EXCEPT !.at = "insert", !.status = s]
    <3>1. req' = [req EXCEPT ![v] = r] /\ r.at # "close"
      BY <2>1, <2>2 DEF Request
    <3> HIDE DEF r
    <3> QED
      BY <1>2, <3>1
  <2>3. "refuse" \in Awaits \ {"close"}
    BY DEF Awaits
  <2> QED
    BY <1>4, <1>7, <2>2, <2>3 DEF Verify
<1>8. ASSUME NEW v \in Slots,
             CloseDisputes(v) \/ Refuse(v) \/ Crash(v) \/ DisputeInsert(v)
             \/ ResolveReadTask(v) \/ ResolveTask(v) \/ ResolveAlert(v)
      PROVE  FALSE
  <2>1. {"resolveAlert", "resolveTask"} \subseteq Awaits \ {"close"}
    BY DEF Awaits
  <2> QED
    BY <1>3, <1>4, <1>8, <2>1 DEF CloseDisputes, Refuse, Crash, DisputeInsert,
       ResolveReadTask, ResolveTask, ResolveAlert
<1>9. ASSUME NEW v \in Slots, NEW route, NEW t, NEW h, NEW at, Call(v, route, t, h, at),
             at # "close"
      PROVE  FALSE
  <2>1. [Idle EXCEPT !.at = at, !.route = route, !.t = t, !.h = h].at # "close"
    BY <1>9 DEF Idle
  <2> QED
    BY <1>2, <1>9, <2>1 DEF Call
<1>10. ASSUME NEW v \in Slots, Arrive(v) PROVE FALSE
  <2>1. ASSUME NEW t \in Tasks, PostRelease(v, t) \/ PostRefund(v, t) PROVE FALSE
    BY <1>9, <2>1 DEF PostRelease, PostRefund, Report
  <2>2. ASSUME NEW t \in Tasks, NEW h \in Hashes, PostOverride(v, t, h) PROVE FALSE
    BY <1>9, <2>2 DEF PostOverride
  <2>3. ASSUME NEW h \in Hashes, PostSync(v, h) PROVE FALSE
    BY <1>9, <2>3 DEF PostSync
  <2>4. ASSUME NEW t \in Tasks, DisputeRead(v, t) PROVE FALSE
    <3>1. [Idle EXCEPT !.at = "openDispute", !.route = "dispute", !.t = t].at # "close"
      BY DEF Idle
    <3> QED
      BY <1>2, <2>4, <3>1 DEF DisputeRead
  <2>5. ASSUME NEW d \in Alerts, NEW resolution, ResolveRead(v, d, resolution) PROVE FALSE
    <3>1. [Idle EXCEPT !.at = "readTask", !.route = "resolve", !.d = d,
                       !.t = alert[d].t, !.resolution = resolution].at # "close"
      BY DEF Idle
    <3> QED
      BY <1>2, <2>5, <3>1 DEF ResolveRead
  <2> QED
    BY <1>10, <2>1, <2>2, <2>3, <2>4, <2>5 DEF Arrive
<1>11. CASE Chain \/ Sync \/ UNCHANGED svars \/ \E t \in Tasks : UseCard(t)
  BY <1>1, <1>11 DEF Chain, Sync, WalletSends, OperatorSends, UseCard, Click, Decline,
     LoseAnswer, Sign, Reload, dvars, svars
<1>12. ASSUME NEW t \in Tasks,
              TaskCompletes(t) \/ TaskFails(t) \/ TaskRestarts(t) \/ TaskDeleted(t)
       PROVE  FALSE
  BY <1>1, <1>12 DEF TaskCompletes, TaskFails, TaskRestarts, TaskDeleted
<1>13. ASSUME NEW d \in Alerts, PatchAlert(d) PROVE FALSE
  BY <1>1, <1>13 DEF PatchAlert
<1> QED
  BY <1>5, <1>6, <1>7, <1>8, <1>10, <1>11, <1>12, <1>13 DEF Next, Serve

\* Every step keeps it.
LEMMA ClosingStep == SettleInv /\ ClosingOK /\ [Next]_svars => ClosingOK'
<1> SUFFICES ASSUME SettleInv, ClosingOK, [Next]_svars, NEW w \in Slots,
                    req'[w].at = "close"
             PROVE  req'[w].route = "refund" /\ RefundIn(ledger', req'[w].t)
  BY DEF ClosingOK, RefundIn
<1>1. CASE req'[w] = req[w]
  BY <1>1, RecordedStays DEF ClosingOK, RefundIn
<1>2. CASE req'[w] # req[w]
  <2> DEFINE r == req[w]
             n == Len(ledger) + 1
  <2>1. InsertRecord(w)
    BY <1>2, OnlyInsertCloses DEF ComesToClose
  <2>2. r.route = "refund" /\ r.status = "confirmed" /\ Proceed(w, "close")
    <3>1. CASE End(w)
      BY <3>1 DEF End, Idle, SettleInv, TypeOK
    <3> QED
      BY <2>1, <3>1 DEF InsertRecord
  <2>3. req'[w].route = "refund" /\ req'[w].t = r.t
    BY <2>2 DEF Proceed, SettleInv, TypeOK, Request
  <2>4. n \in DOMAIN ledger' /\ ledger'[n].kind = "refund" /\ ledger'[n].t = r.t
        /\ ledger'[n].status = "confirmed"
    BY <2>1, <2>2 DEF InsertRecord, Insert, Stores, SettleInv, TypeOK
  <2> QED
    BY <2>3, <2>4 DEF RefundIn
<1> QED
  BY <1>1, <1>2

\* No request is there at first.
LEMMA ClosingAlways == Spec => []ClosingOK
<1>1. Init => ClosingOK
  BY DEF Init, DisputesInit, Idle, ClosingOK
<1> QED
  BY <1>1, SettleAlways, ClosingStep, PTL DEF Spec

\* An alert that a step of a request closes without a decision is closed by
\* the refund route.
LEMMA UndecidedCloser ==
  ASSUME SettleInv, [Next]_svars, NEW d \in Alerts, ~alert[d].resolved,
         alert'[d].resolved, ~alert'[d].decided, req' # req
  PROVE  \E w \in Slots : CloseDisputes(w) /\ alert[d].t = req[w].t
<1>1. ASSUME alert' = alert PROVE FALSE
  BY <1>1
<1>2. ASSUME NEW w \in Slots, CloseDisputes(w)
      PROVE  alert[d].t = req[w].t
  BY <1>2 DEF CloseDisputes, OpenDisputes, SettleInv, TypeOK
<1>3. ASSUME NEW w \in Slots, ResolveAlert(w) PROVE FALSE
  BY <1>3 DEF ResolveAlert, SettleInv, TypeOK, Alert
<1>4. ASSUME NEW w \in Slots, DisputeInsert(w) PROVE FALSE
  BY <1>4 DEF DisputeInsert, SettleInv, TypeOK, Alert
<1>5. ASSUME NEW e \in Alerts, PatchAlert(e) PROVE FALSE
  BY <1>5 DEF PatchAlert
<1>6. ASSUME Chain \/ Sync \/ (\E w \in Slots : Arrive(w))
             \/ (\E t \in Tasks : UseCard(t)) \/ UNCHANGED svars
      PROVE  FALSE
  BY <1>1, <1>6 DEF Chain, Sync, Arrive, UseCard, WalletSends, OperatorSends, PostRelease,
     PostRefund, Report, PostOverride, PostSync, DisputeRead, ResolveRead,
     OnlyRequests, Click, Decline, LoseAnswer, Sign, Reload, dvars, svars
<1>7. ASSUME NEW w \in Slots,
             RefundReadsDisputes(w) \/ Verify(w) \/ InsertRecord(w) \/ Refuse(w)
             \/ Crash(w) \/ ResolveReadTask(w) \/ ResolveTask(w)
      PROVE  FALSE
  BY <1>1, <1>7 DEF RefundReadsDisputes, Verify, InsertRecord, Refuse, Crash,
     ResolveReadTask, ResolveTask, OnlyRequests
<1>8. ASSUME NEW t \in Tasks,
             TaskCompletes(t) \/ TaskFails(t) \/ TaskRestarts(t) \/ TaskDeleted(t)
      PROVE  FALSE
  BY <1>1, <1>8 DEF TaskCompletes, TaskFails, TaskRestarts, TaskDeleted
<1> QED
  BY <1>2, <1>3, <1>4, <1>5, <1>6, <1>7, <1>8 DEF Next, Serve

\* A dispute that nobody decided is closed by a request only once the escrow
\* of its task went back to the depositor and the table says so: what the
\* refund route read of the dispute and of the receipt may be old by the time
\* it writes, and the task may be gone (refund/route.ts, 97-103).
THEOREM UndecidedCloseIsRefunded == Spec => ClosedByRefund
<1>1. ASSUME SettleInv, ClosingOK, [Next]_svars, NEW d \in Alerts,
             ~alert[d].resolved, alert'[d].resolved, ~alert'[d].decided, req' # req
      PROVE  escrow[alert[d].t] = "Refunded" /\ RefundIn(ledger, alert[d].t)
  <2>1. PICK w \in Slots : CloseDisputes(w) /\ alert[d].t = req[w].t
    BY <1>1, UndecidedCloser
  <2>2. req[w].route = "refund" /\ RefundIn(ledger, req[w].t)
    BY <1>1, <2>1 DEF CloseDisputes, ClosingOK
  <2>3. RequestOK(req[w])
    BY <1>1 DEF SettleInv, RequestsOK
  <2>4. req[w].h \in Hashes /\ EscrowEvent(req[w].h, "refund", req[w].t)
    BY <2>2, <2>3 DEF RequestOK, Flows
  <2>5. escrow[req[w].t] = "Refunded"
    BY <1>1, <2>4 DEF SettleInv, ChainOK, EscrowEvent, SeenSucceeded
  <2> QED
    BY <2>1, <2>2, <2>5
<1>2. SettleInv /\ ClosingOK /\ [Next]_svars =>
        [\A d \in Alerts :
           /\ ~alert[d].resolved /\ alert'[d].resolved
           /\ ~alert'[d].decided
           /\ req' # req
           => /\ escrow[alert[d].t] = "Refunded"
              /\ \E i \in DOMAIN ledger :
                   /\ ledger[i].kind = "refund" /\ ledger[i].t = alert[d].t
                   /\ ledger[i].status = "confirmed"]_svars
  BY <1>1 DEF RefundIn
<1> QED
  BY <1>2, SettleAlways, ClosingAlways, PTL DEF Spec, ClosedByRefund

=============================================================================
