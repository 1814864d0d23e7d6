---------------------------- MODULE AgentWallets ----------------------------
(***************************************************************************)
(* The wallet of one agent: a Safe, the row that describes it, and the     *)
(* transfers asked of it.  The routes under api/agents/[id]/wallet request,*)
(* approve and execute transfers, migrate the Safe to the policy contracts *)
(* and give it session keys.  Each of them reads rows, sends transactions  *)
(* and then writes rows: the steps of one request are actions of their own,*)
(* a request may end between any two of them, and other requests run       *)
(* meanwhile.                                                              *)
(***************************************************************************)
EXTENDS PolicyManager, FiniteSetsExt

CONSTANTS
  Requests,   \* requests that may be in flight at once
  Ids, NoId,  \* rows of agent_wallet_transfers
  MaxNonce,   \* bound: the transactions the Safe executes
  MaxApprovals   \* bound: approvals of one intent on chain

ASSUME WalletAssumption ==
  /\ {MaxNonce, MaxApprovals} \subseteq Nat
  /\ NoId \notin Ids

VARIABLES
  safe,       \* the Safe on chain: deployed, guarded, nonce and session keys
  row,        \* wallet_policy in the agent's row: migration state and session
  transfers,  \* the rows of agent_wallet_transfers
  req,        \* the requests in flight
  paid,       \* history: how often each transfer was paid
  settled,    \* history: how often the guard let each reviewed intent through
  approvals   \* history: operators' approvals of each intent on chain

contracts == <<manager, intents, pending, hooked, now>>
wvars == <<contracts, safe, row, transfers, req, paid, settled, approvals>>

Safe == [deployed: BOOLEAN, guarded: BOOLEAN, nonce: 0..MaxNonce,
         keys: SUBSET Keys]

Wallet == [migration: {"legacy", "pending", "migrated"},
           key: Keys \cup {NoKey}]

Transfer == [status: {"none", "blocked", "queued", "approved", "executed"},
             intent: IntentIds, reviewed: BOOLEAN, unlockAt: Nat,
             createdAt: Nat]

NoTransfer == [status |-> "none", intent |-> CHOOSE i \in IntentIds : TRUE,
               reviewed |-> FALSE, unlockAt |-> 0, createdAt |-> 0]

\* What a suspended handler holds: its next step, the transfer as it read or
\* will insert it, the nonce its Safe transaction is signed for, the session
\* key, and the one it replaces.
Request ==
  [pc: {"idle", "queue", "insert", "approveIntent", "markApproved", "signed",
        "paySigned", "paySession", "record", "migrate", "configure",
        "storeMigrated", "enable", "rotateManager", "storeSession"},
   x: Ids \cup {NoId}, t: Transfer, nonce: Nat, key: Keys \cup {NoKey},
   old: Keys \cup {NoKey}]

NoRequest == [pc |-> "idle", x |-> NoId, t |-> NoTransfer,
              nonce |-> 0, key |-> NoKey, old |-> NoKey]

Init ==
  /\ PolicyInit
  /\ safe \in [deployed: BOOLEAN, guarded: {FALSE}, nonce: {0}, keys: {{}}]
  /\ row = [migration |-> "legacy", key |-> NoKey]
  /\ transfers = [x \in Ids |-> NoTransfer]
  /\ req = [r \in Requests |-> NoRequest]
  /\ paid = [x \in Ids |-> 0]
  /\ settled = [i \in IntentIds |-> 0]
  /\ approvals = [i \in IntentIds |-> 0]

Migrated == row.migration = "migrated"

\* inferTransferExecutionMode; execution_mode is never stored.
Mode(t) == IF t.reviewed THEN "reviewed"
           ELSE IF Migrated THEN "session" ELSE "owner"

At(r, pc) == req[r].pc = pc
Goto(r, pc) == req' = [req EXCEPT ![r].pc = pc]
Begin(r, pc, x, t) ==
  At(r, "idle") /\ req' = [req EXCEPT ![r].pc = pc, ![r].x = x, ![r].t = t]
End(r) == req' = [req EXCEPT ![r] = NoRequest]

\* What an action touches besides req.
Nothing == UNCHANGED <<contracts, safe, row, transfers, paid, settled, approvals>>
OnlyTransfers == UNCHANGED <<contracts, safe, row, paid, settled, approvals>>
OnlyRow == UNCHANGED <<contracts, safe, transfers, paid, settled, approvals>>
OnlyManager == UNCHANGED <<safe, row, transfers, paid, settled>>

-----------------------------------------------------------------------------
(* Transfers.                                                               *)

\* Approved and executed transfers of the last 24 hours.
SpentLastDay ==
  LET recent == {x \in Ids : /\ transfers[x].status \in {"approved", "executed"}
                             /\ transfers[x].createdAt + DayLength >= now}
  IN MapThenSumSet(LAMBDA x : transfers[x].intent[2], recent)

\* A contract is told by its bytecode, when that can be read.
Refused(i, readable) ==
  \/ i[1] \in Blocked
  \/ readable /\ i[1] \in Contracts
  \/ SpentLastDay + i[2] > DailyLimit

\* Mutant: the timelock of a reviewed transfer is forgotten.
EvaluateUnlocked(i, readable) ==
  LET asked == [NoTransfer EXCEPT !.intent = i, !.createdAt = now]
  IN IF Refused(i, readable) THEN [asked EXCEPT !.status = "blocked"]
     ELSE [asked EXCEPT !.status = IF i[2] >= ReviewAt THEN "queued"
                                   ELSE "approved",
                        !.reviewed = i[2] >= ReviewAt]

\* evaluateAgentWalletTransfer
Evaluate(i, readable) ==
  LET locked   == i[2] >= TimelockAt
      reviewed == i[2] >= ReviewAt \/ locked
      asked    == [NoTransfer EXCEPT !.intent = i, !.createdAt = now]
  IN IF Refused(i, readable) THEN [asked EXCEPT !.status = "blocked"]
     ELSE [asked EXCEPT !.status = IF reviewed THEN "queued" ELSE "approved",
                        !.reviewed = reviewed,
                        !.unlockAt = IF locked THEN now + TimelockDelay ELSE 0]

\* Rows get fresh ids.
Fresh(x) ==
  /\ transfers[x].status = "none"
  /\ \A r \in Requests : req[r].pc \in {"queue", "insert"} => req[r].x # x

\* readable: whether the bytecode of the destination can be read.
RequestTransfer(r, x, i, readable) ==
  LET t == Evaluate(i, readable) IN
  /\ Fresh(x)
  /\ Begin(r, IF Migrated /\ t.status = "queued" THEN "queue" ELSE "insert", x, t)
  /\ Nothing

\* queueSafe7579ReviewedIntent, before the row is there.
QueueIntent(r) ==
  /\ At(r, "queue")
  /\ QueueReviewedIntent(req[r].t.intent)
  /\ Goto(r, "insert")
  /\ OnlyManager /\ UNCHANGED approvals

InsertTransfer(r) ==
  /\ At(r, "insert")
  /\ transfers' = [transfers EXCEPT ![req[r].x] = req[r].t]
  /\ End(r)
  /\ OnlyTransfers

\* An operator's approval.
ReadForApproval(r, x) ==
  /\ transfers[x].status = "queued"
  /\ transfers[x].unlockAt <= now
  /\ Begin(r, IF Migrated THEN "approveIntent" ELSE "markApproved", x, transfers[x])
  /\ Nothing

ApproveIntent(r) ==
  LET i == req[r].t.intent IN
  /\ At(r, "approveIntent")
  /\ approvals[i] < MaxApprovals
  /\ ApproveReviewedIntent(i)
  /\ approvals' = [approvals EXCEPT ![i] = @ + 1]
  /\ Goto(r, "markApproved")
  /\ OnlyManager

\* Mutant: a status that the table does not know.
MarkApprovedMisnamed(r) ==
  /\ At(r, "markApproved")
  /\ transfers' = [transfers EXCEPT ![req[r].x].status = "ready"]
  /\ End(r)
  /\ OnlyTransfers

\* By id alone, whatever the status is by now.
MarkApproved(r) ==
  /\ At(r, "markApproved")
  /\ transfers' = [transfers EXCEPT ![req[r].x].status = "approved"]
  /\ End(r)
  /\ OnlyTransfers

\* prepare, and the owner's signature for the nonce of that moment.
SignTransfer(r, x) ==
  /\ At(r, "idle")
  /\ transfers[x].status = "approved"
  /\ safe.deployed
  /\ Mode(transfers[x]) # "session"
  /\ req' = [req EXCEPT ![r].pc = "signed", ![r].x = x, ![r].nonce = safe.nonce]
  /\ Nothing

\* execute reads the row again, with a signature or without.
ExecuteSigned(r) ==
  LET t == transfers[req[r].x] IN
  /\ At(r, "signed")
  /\ t.status = "approved"
  /\ Mode(t) # "session"
  /\ req' = [req EXCEPT ![r].t = t, ![r].pc = "paySigned"]
  /\ Nothing

ExecuteBySession(r, x) ==
  LET t == transfers[x] IN
  /\ At(r, "idle")
  /\ t.status = "approved"
  /\ Mode(t) = "session"
  /\ row.key # NoKey
  /\ req' = [req EXCEPT ![r].pc = "paySession", ![r].x = x, ![r].t = t,
                        ![r].key = row.key]
  /\ Nothing

\* The Safe's execTransaction, which the guard sees once it is set.
PaySigned(r) ==
  LET i == req[r].t.intent IN
  /\ At(r, "paySigned")
  /\ req[r].nonce = safe.nonce
  /\ safe.nonce < MaxNonce
  /\ IF safe.guarded THEN PayDirect(i) ELSE UNCHANGED contracts
  /\ settled' = IF safe.guarded /\ i[2] >= ReviewAt
                THEN [settled EXCEPT ![i] = @ + 1] ELSE settled
  /\ safe' = [safe EXCEPT !.nonce = @ + 1]
  /\ paid' = [paid EXCEPT ![req[r].x] = @ + 1]
  /\ req' = [req EXCEPT ![r] = [NoRequest EXCEPT !.pc = "record", !.x = req[r].x]]
  /\ UNCHANGED <<row, transfers, approvals>>

\* The session key's user operation, which the hook sees.
PayBySession(r) ==
  /\ At(r, "paySession")
  /\ req[r].key \in safe.keys
  /\ PayHooked(req[r].t.intent)
  /\ paid' = [paid EXCEPT ![req[r].x] = @ + 1]
  /\ req' = [req EXCEPT ![r] = [NoRequest EXCEPT !.pc = "record", !.x = req[r].x]]
  /\ UNCHANGED <<safe, row, transfers, settled, approvals>>

\* Mutant: the row is marked before the transaction is known to be mined.
RecordExecutionEarly(r) ==
  /\ \/ At(r, "paySigned") \/ At(r, "paySession") \/ At(r, "record")
  /\ transfers' = [transfers EXCEPT ![req[r].x].status = "executed"]
  /\ End(r)
  /\ OnlyTransfers

RecordExecution(r) ==
  /\ At(r, "record")
  /\ transfers' = [transfers EXCEPT ![req[r].x].status = "executed"]
  /\ End(r)
  /\ OnlyTransfers

-----------------------------------------------------------------------------
(* The migration to Safe7579 and its session keys.  A batch of several      *)
(* calls is a delegate call, which the guard refuses.                       *)

\* provisionAgentWallet deploys the predicted Safe unless it is there.
PrepareMigration(r) ==
  /\ At(r, "idle")
  /\ safe' = [safe EXCEPT !.deployed = TRUE]
  /\ row' = [migration |-> "pending", key |-> NoKey]
  /\ req' = [req EXCEPT ![r].pc = "migrate", ![r].nonce = safe.nonce]
  /\ UNCHANGED <<contracts, transfers, paid, settled, approvals>>

InstallModules(r) ==
  /\ At(r, "migrate")
  /\ ~safe.guarded
  /\ req[r].nonce = safe.nonce
  /\ safe.nonce < MaxNonce
  /\ safe' = [safe EXCEPT !.guarded = TRUE, !.nonce = @ + 1]
  /\ Goto(r, "configure")
  /\ UNCHANGED <<contracts, row, transfers, paid, settled, approvals>>

ConfigureManager(r) ==
  /\ At(r, "configure")
  /\ ConfigureSafe
  /\ Goto(r, "storeMigrated")
  /\ OnlyManager /\ UNCHANGED approvals

StoreMigrated(r) ==
  /\ At(r, "storeMigrated")
  /\ row' = [migration |-> "migrated", key |-> NoKey]
  /\ End(r)
  /\ OnlyRow

\* confirm looks at the modules of the Safe, and not at the manager.
ConfirmMigration ==
  /\ row.migration # "legacy"
  /\ safe.guarded
  /\ row' = [migration |-> "migrated", key |-> NoKey]
  /\ OnlyRow /\ UNCHANGED req

\* rotate makes a key, and a batch that removes the one in the row.
PrepareSession(r, key) ==
  /\ At(r, "idle")
  /\ Migrated
  /\ key \notin safe.keys \cup {req[o].key : o \in Requests}
  /\ req' = [req EXCEPT ![r].pc = "enable", ![r].key = key, ![r].old = row.key,
                        ![r].nonce = safe.nonce]
  /\ Nothing

\* session/execute computes the batch again and compares it with the one that
\* was signed; with a key to remove it has two calls.
EnableSession(r) ==
  /\ At(r, "enable")
  /\ Migrated
  /\ row.key = req[r].old
  /\ req[r].nonce = safe.nonce
  /\ safe.nonce < MaxNonce
  /\ req[r].old = NoKey
  /\ CallModule
  /\ safe' = [safe EXCEPT !.keys = @ \cup {req[r].key}, !.nonce = @ + 1]
  /\ Goto(r, "rotateManager")
  /\ UNCHANGED <<row, transfers, paid, settled, approvals>>

RotateManager(r) ==
  /\ At(r, "rotateManager")
  /\ RotateSessionKey(req[r].key, now + KeyLife)
  /\ Goto(r, "storeSession")
  /\ OnlyManager /\ UNCHANGED approvals

\* Mutant: the session is stored before the Safe knows it.
StoreSessionFirst(r) ==
  /\ At(r, "enable") \/ At(r, "storeSession")
  /\ row' = [migration |-> "migrated", key |-> req[r].key]
  /\ End(r)
  /\ OnlyRow

StoreSession(r) ==
  /\ At(r, "storeSession")
  /\ row' = [migration |-> "migrated", key |-> req[r].key]
  /\ End(r)
  /\ OnlyRow

-----------------------------------------------------------------------------
\* The instance dies, a write fails or a transaction reverts.
Fail(r) ==
  /\ ~At(r, "idle")
  /\ End(r)
  /\ Nothing

Tick ==
  /\ now < MaxTime
  /\ now' = now + 1
  /\ UNCHANGED <<manager, intents, pending, hooked, safe, row, transfers, req, paid,
                 settled, approvals>>

Start(r) ==
  \/ \E x \in Ids, i \in IntentIds, readable \in BOOLEAN :
       RequestTransfer(r, x, i, readable)
  \/ \E x \in Ids :
       ReadForApproval(r, x) \/ SignTransfer(r, x) \/ ExecuteBySession(r, x)
  \/ PrepareMigration(r)
  \/ \E key \in Keys : PrepareSession(r, key)

Continue(r) ==
  \/ QueueIntent(r) \/ InsertTransfer(r)
  \/ ApproveIntent(r) \/ MarkApproved(r)
  \/ ExecuteSigned(r) \/ PaySigned(r) \/ PayBySession(r) \/ RecordExecution(r)
  \/ InstallModules(r) \/ ConfigureManager(r) \/ StoreMigrated(r)
  \/ EnableSession(r) \/ RotateManager(r) \/ StoreSession(r)
  \/ Fail(r)

Next ==
  \/ \E r \in Requests : Start(r) \/ Continue(r)
  \/ ConfirmMigration
  \/ Tick

Spec == Init /\ [][Next]_wvars

-----------------------------------------------------------------------------
(* Properties.                                                              *)

\* Rows, contracts and requests are well formed.
TypeOK ==
  /\ manager \in Manager
  /\ intents \in [IntentIds -> Intent]
  /\ pending \subseteq IntentIds
  /\ hooked \in [Days -> Nat]
  /\ now \in 0..MaxTime
  /\ safe \in Safe
  /\ row \in Wallet
  /\ transfers \in [Ids -> Transfer]
  /\ req \in [Requests -> Request]
  /\ paid \in [Ids -> Nat]
  /\ settled \in [IntentIds -> Nat]
  /\ approvals \in [IntentIds -> Nat]

\* Session keys, whichever of them and through whatever requests overlap,
\* take no more than the daily limit out of the Safe on one day, whatever the
\* owners' lane pays and the manager counts of it.
SessionLimitHolds == \A d \in Days : hooked[d] <= DailyLimit

\* A row for this intent an operator let through, its timelock run out.
RipeRow(i) ==
  \E x \in Ids : /\ transfers[x].intent = i
                 /\ transfers[x].status \in {"approved", "executed"}
                 /\ i[2] >= TimelockAt => transfers[x].createdAt + TimelockDelay <= now

\* The guard lets no reviewed payment through that no operator approved on
\* chain, and none without a row that was reviewed and whose timelock ran out.
ReviewsPrecedePayments ==
  \A i \in IntentIds : settled[i] > 0 => approvals[i] > 0 /\ RipeRow(i)

\* A large transfer becomes payable only when its timelock, counted from the
\* request, has run out.
TimelockHolds ==
  \A x \in Ids :
    /\ transfers[x].status \in {"approved", "executed"}
    /\ transfers[x].intent[2] >= TimelockAt
    => transfers[x].createdAt + TimelockDelay <= now

\* A transfer shown as executed has been paid.
ExecutedWasPaid ==
  \A x \in Ids : transfers[x].status = "executed" => paid[x] > 0

\* The session key in the row is one the Safe accepts, and a Safe whose row
\* says migrated is guarded.
SessionIsEnabled ==
  /\ row.key # NoKey => row.key \in safe.keys
  /\ Migrated => safe.guarded

=============================================================================
