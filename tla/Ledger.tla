-------------------------------- MODULE Ledger --------------------------------
(***************************************************************************)
(* The transactions table and the chain it is about: lib/transactions.ts,  *)
(* lib/transactionVerification.ts and /api/transactions/sync.  A record is *)
(* inserted with what the receipt says at that time, or as pending when    *)
(* there is none to be seen, and the clients' polling settles it later.    *)
(***************************************************************************)
EXTENDS Naturals, Sequences

CONSTANTS
  Tasks, Hashes,      \* tasks with a locked escrow; hashes of transactions
  NoTask, NoHash,
  MaxRecords,         \* bound: rows of the table
  Faults              \* the failures that happen

AllFaults == {"crash",   \* a request stops between two awaits
              "dbwrite", \* an UPDATE fails
              "lag",     \* the server's node does not show a receipt yet
              "answer"}  \* an answer does not reach the browser

ASSUME LedgerAssumption ==
  /\ NoTask \notin Tasks
  /\ NoHash \notin Hashes
  /\ MaxRecords \in Nat
  /\ Faults \subseteq AllFaults

VARIABLES
  escrow,  \* the state of each task's escrow
  tx,      \* the transactions by hash
  ledger   \* the transactions table

lvars == <<escrow, tx, ledger>>

Kinds == {"release", "refund", "payment"}

Tx == [kind: Kinds, t: Tasks \cup {NoTask},
       status: {"unsent", "sent", "success", "reverted"}]

Unsent == [kind |-> "payment", t |-> NoTask, status |-> "unsent"]

\* route is the handler that stored the record; checked, a history field,
\* whether it saw the receipt.
Record == [kind: Kinds, t: Tasks \cup {NoTask}, h: Hashes,
           status: {"pending", "confirmed", "failed"},
           route: {"release", "refund", "override", "sync"}, checked: BOOLEAN]

LedgerInit ==
  /\ escrow = [t \in Tasks |-> "Locked"]
  /\ tx = [h \in Hashes |-> Unsent]
  /\ ledger = << >>

-----------------------------------------------------------------------------
(* The chain.                                                               *)

Send(h, kind, t) ==
  /\ tx[h] = Unsent
  /\ tx' = [tx EXCEPT ![h] = [kind |-> kind, t |-> t, status |-> "sent"]]
  /\ UNCHANGED <<escrow, ledger>>

\* A release or a refund of an escrow that is no longer locked reverts.
Mine(h) ==
  LET t == tx[h].t
      final == CASE tx[h].kind = "release" -> "Released"
                 [] tx[h].kind = "refund"  -> "Refunded"
                 [] OTHER                  -> "none"
  IN
  /\ tx[h].status = "sent"
  /\ IF t = NoTask \/ escrow[t] = "Locked"
     THEN /\ tx' = [tx EXCEPT ![h].status = "success"]
          /\ escrow' = IF t = NoTask THEN escrow
                       ELSE [escrow EXCEPT ![t] = final]
     ELSE /\ tx' = [tx EXCEPT ![h].status = "reverted"]
          /\ UNCHANGED escrow
  /\ UNCHANGED ledger

\* Anyone recovers an expired escrow for its depositor.
Expire(t) ==
  /\ escrow[t] = "Locked"
  /\ escrow' = [escrow EXCEPT ![t] = "Refunded"]
  /\ UNCHANGED <<tx, ledger>>

-----------------------------------------------------------------------------
(* What a handler makes of a hash.                                          *)

\* readTransactionState: any trouble with the receipt but a revert is taken
\* for a transaction that is pending.
NoReceipt(h) == tx[h].status = "sent" \/ (tx[h].status # "unsent" /\ "lag" \in Faults)

SeenSucceeded(h) == tx[h].status = "success"

\* The receipt holds the escrow's event of that kind for the task.
EscrowEvent(h, kind, t) ==
  SeenSucceeded(h) /\ tx[h].kind = kind /\ tx[h].t = t

\* The statuses verifyEscrowActionTransaction may answer; none when it throws.
EscrowVerdicts(h, kind, t) ==
  (IF NoReceipt(h) THEN {"pending"} ELSE {}) \cup
  (IF EscrowEvent(h, kind, t) THEN {"confirmed"} ELSE {})

\* verifyOnchainTransaction: the sender matches, that of a wallet's own
\* transfer.
TransferVerdicts(h) ==
  (IF NoReceipt(h) THEN {"pending"} ELSE {}) \cup
  (IF SeenSucceeded(h) THEN {"confirmed"} ELSE {})

\* insertTransactionRecord.  The types are kept apart by normalizeTransaction-
\* Type, though a refund is stored under the type of a release.
Insert(kind, t, h, status, route) ==
  /\ Len(ledger) < MaxRecords
  /\ ledger' = Append(ledger,
       [kind |-> kind, t |-> t, h |-> h, status |-> status, route |-> route,
        checked |-> status = "confirmed"])
  /\ UNCHANGED <<escrow, tx>>

-----------------------------------------------------------------------------
(* GET /api/transactions/sync, polled by useTransactionSync.                *)

\* Mutant: no receipt yet counts as a failure.
SettledStatusEager(h) ==
  IF tx[h].status = "success" THEN "confirmed" ELSE "failed"

SettledStatus(h) ==
  CASE tx[h].status = "success"  -> "confirmed"
    [] tx[h].status = "reverted" -> "failed"
    [] OTHER                     -> "pending"

\* One record of the batch: its receipt is final, so that reading it and the
\* update by id are one step however batches overlap.  No event is looked for.
SyncRecord(i) ==
  /\ i \in DOMAIN ledger
  /\ ledger[i].status = "pending"
  /\ SettledStatus(ledger[i].h) # "pending"
  /\ ledger' = [ledger EXCEPT ![i].status = SettledStatus(ledger[i].h)]
  /\ UNCHANGED <<escrow, tx>>

=============================================================================
