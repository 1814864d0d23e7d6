# EliosBase: a TLA+ verification project

EliosBase is a marketplace where people submit tasks, hire AI agents for them
and pay through escrow contracts on Base.  This project models the parts of it
that change shared state, checks them with TLC and proves the most important
results with TLAPS.  Source paths are relative to the repository (`src/` here);
`API` stands for `frontend/src/app/api`, `LIB` for `frontend/src/lib`.

- [The system](#the-system): components, state, operations, what is hard
- [Modules](#modules) and how they correspond to the code
- [Runs](#runs): what each checks, its bounds, the fairness assumed
- [Disagreements](#disagreements-with-the-comments) between code and comments
- [Proofs](#proofs): theorems, invariants, argument
- [What is left out](#what-is-left-out) and [the plan](#plan)

## The system

### Components

| Component | State | Operations | Module |
|---|---|---|---|
| Task board: `supabase/seed.sql` and migrations | tables `tasks` (status, step, agent, result, times, proof), `agents` (status) | one SQL statement at a time | `TaskBoard` |
| Advance: `API/tasks/[id]/advance` | rows above, verifier | read and check, claim, run the model, store, put back, give up, prove, move, release | `AdvanceRoute` |
| Hire: `API/agents/[id]/hire` | rows above, `transactions` | reserve the agent, assign the task, record the lock, roll back | `HireRoute` |
| Cron: `API/cron/detect-timeouts`, `advance-tasks`, `vercel.json` | rows above | fail what is overdue; call advance for every active task | `TimeoutCron`, fairness of `TaskLifecycle` |
| Create and delete: `API/tasks`, `API/tasks/[id]` | `tasks` | POST, DELETE (PATCH is left out) | `AdminRoutes` |
| Overrides: `API/admin/tasks/[id]/{cancel,retry,reassign}`, `API/admin/disputes/[alertId]/resolve` | rows above | read, release, write; refund or release by decision | `AdminRoutes` |
| Suspension: `API/admin/agents/[id]/suspend` | `agents`, `tasks` | suspend with cascade, unsuspend | `AdminRoutes` |
| Proof verifier: `contracts/src/EliosProofVerifier.sol`, `LIB/proofSubmitter.ts` | `taskVerified` | verify once per task | inside `AdvanceRoute!Prove` |
| Paid execution: `API/agents/[id]/execute`, `LIB/x402.ts` | rows above, the payment | ask the price, verify, reserve, settle, insert, run, release | `PaidExecution` |
| ETH escrow: `contracts/src/EliosEscrow.sol` | `escrows`, owner, balance | lock, release, refund, dispute, resolve, expired refund, ownership | `EscrowPromise`, `EliosEscrow` |
| USDC escrow: `contracts/src/EliosUSDCEscrow.sol` | as above, and the token's balances and allowances | as above | `UsdcEscrow` |
| Hiring with USDC: `AgentCard.tsx`, `useEscrow.ts` | step of each card, two transactions | pick, approve, lock, report | `HireCards` |
| Wallet policy: `EliosPolicyManager`, `EliosSafeGuard`, `EliosPolicyHook` | policy of a Safe, daily window, reviewed intents, session key; the guard's pending executions | configure, rotate, queue, approve, check before and after a payment | `PolicyManager` |
| Agent wallets: `API/agents/[id]/wallet/**`, `LIB/agentWallet*.ts` | `agent_wallet_transfers`, the wallet's row, the Safe | request, approve, prepare, execute; migrate, confirm; rotate the session key | `AgentWallets` |
| Ledger: `LIB/transactions.ts`, `transactionVerification.ts`, `API/transactions/sync` | `transactions`, receipts | verify, insert, reconcile with receipts | `Ledger` |
| Settlement: `API/tasks/[id]/{release,refund,dispute}`, `API/admin/disputes`, `release-escrow`, `TaskCard.tsx` | `security_alerts`, `transactions`, `tasks`, the cards | send, report and record a settlement; open and resolve disputes | `Disputes`, `Settlement` |
| Leaderboard: `LIB/leaderboard.ts`, `cache.ts`, `httpCache.ts` | the Redis copy, the CDN's copy | compute, store, serve | `Leaderboard` |
| Activity feed: `API/activity`, `LIB/web4Graph.ts`, `LiveFeed.tsx` | `activity_events`, the CDN's copy, what a page shows | list, collapse, page; poll, be told, show | `ActivityFeed`, `LiveFeed` |
| Guardrails, rate limits, audit; sign-in; other queries, pages, frames; circuits, scripts, browser tests | logs, counters, cookies | | not modelled |

### How they interact

Route handlers share nothing but the database and the chain.  The database is
reached through PostgREST, one statement per call and no transactions across
calls; a conditional update is `update(...).eq(...)`.  So a handler is a
sequence of awaits and, between any two, every other handler may run.  Vercel's
cron calls `advance-tasks` and `detect-timeouts` every five minutes; users,
agents' owners and operators call the rest.  The contracts are called by users'
wallets from the cards of the dashboard, which report the hash to a route when
the transaction is mined; the route looks the receipt up and records it, and a
polled sync settles what was recorded too early.  Agents' wallets are Safes:
their payments pass a guard (owners) or a hook (session keys), and both ask one
policy manager.  Public pages are answered from caches in front of the routes.

A task's normal course is

    Submitted -> Decomposed -> Assigned -> Executing -> ZK Verifying -> Complete
        (cron)       (hire)     (claim)   (result kept)  (proof mined)

with a failed run taking it from Executing back to Assigned, and its status
leaving `active` for `completed` (last step) or `failed` (fatal failure, third
retryable one, timeout, cancel, suspension, a failed paid run, a decision of a
dispute).  A paid task begins at Executing.  An agent is `online`, `busy` from
a hire or a paid reservation to the end of its task, `offline`, or `suspended`.

### What is hard, and what correctness means

- *Advance*: overlapping calls for one task; a model call that takes minutes
  while the row changes; a retry budget; a proof that can be mined and lost.
  Correct: a task is completed only if it was run, stored and proven, or an
  operator decided so; one run at a time; a bounded number of retries.
- *Hire*: two rows to reserve with two statements and an undo.  Correct: an
  agent has one active task and is busy while it has it.
- *Paid execution*: a payment between two writes, and eight ways out of the
  request.  Correct: no run that was not paid, alone on its task, and the agent
  is given back on every way out.
- *Cron*: judging rows read earlier.  Correct: every active task ends, every
  reserved agent returns.
- *Overrides, suspension, delete*: writes by id over rows read earlier.
- *Escrows*: payments that run foreign code in the middle of a transaction or
  that the token refuses; a split in two payments; a deadline; cards that share
  an allowance.  Correct: what was deposited is paid out once and entirely, no
  lock lasts for ever, and a card that reports a lock has its own.
- *Wallets*: two lanes that spend from one day's window; a review and its
  timelock kept in a row and in a contract; a key to be stored in three places;
  requests that act on rows read before; a guard that looks up afterwards what
  it filed before, under a nonce the Safe has raised.  Correct: session keys
  within the daily limit, an approval before every reviewed payment, the
  timelock, and rows that say what happened.
- *Settlement and ledger*: three parties settle one escrow and report it, with
  receipts that come late, answers that get lost and records that cannot be
  told apart by their hash; two writes per decision, and a task that may be
  deleted under both.  Correct: the table says what the chain says, once, and a
  dispute closed without a decision was refunded.
- *Leaderboard*: overlapping runs behind two caches.  Correct: a suspended
  agent disappears after a time that does not grow with the overlaps.
- *Feed*: a channel that loses messages, a copy older than the message, a
  cursor into a list that grows, reads that fail and are answered as empty.
  Correct: every event is shown in the end, and pages neither miss nor repeat
  one unless a read failed.

`PROJECT.json` lists these hazards line by line with the properties that cover
them, and notes where none does.

## Modules

### The task board

`TaskBoard` holds the variables and the operators every route uses:

| Variable | Code |
|---|---|
| `task[t]` | the row of `tasks`: `status`, `step` (`current_step`; `Verifying` is "ZK Verifying"), `agent`, `result` (what `execution_result` says: null, running, succeeded, a failure that is retryable, fatal or neither), `attempts` (kept for retryable failures, the only ones it is read for), `age` (now minus `step_changed_at`), `proof` (`zk_verify_tx_hash`). Status `none` is a row not yet inserted |
| `agent[a]` | `agents.status` |
| `verified[t]` | `EliosProofVerifier.taskVerified` |
| `produced[t]` | history: a result was once stored for the task; so is `ruled` in a row: a decision of a dispute completed it |
| `req[w]` | the requests in flight: the await a handler is suspended at, and the locals it uses afterwards |

`age` has four values, as the code tells them apart: younger than the minimum
of the step (`Fresh`), past it (`Ripe`), past the retry cooldown (`Cooled`,
only at Assigned), past the step's timeout (`Overdue`).  `Tick` moves a row to
the next one at any moment, so all relative speeds are covered.

`AdvanceRoute`, `HireRoute`, `TimeoutCron` and `AdminRoutes` extend it with one
action per await: `...Read` does the reads and checks of a handler up to its
first write, and each further action is one statement or outside call together
with the branch taken on its outcome.  A handler whose next statement only
logs has ended.  `TaskLifecycle` composes them: `Next` lets any request arrive,
pass its next await, or crash.  The switches `Handlers`, `Faults` and
`Overlap` choose which routes are called, which faults occur, and whether
requests for one task may be in flight together (hires of one task may always
overlap each other).  The theorems hold for every value of them unless they
say otherwise.

Statements with no match (`.eq` finds no row) change nothing, and the model
follows what the handler does next: `TimeoutFail` releases the agent all the
same, `Claim` ends, `RunSucceeds` goes on to put the task back.  A statement
may report an error, applied or not (`"dbwrite"`, where the handler goes on):
`RunSucceeds` then undoes the claim, `Assign` frees the agent, and
`PersistFailure` does not look and releases the agent of a terminal failure all
the same; a failed insert in hire leads to the rollback (`"insert"`), whose
two statements are sent together and land in either order; a proof may fail
before or after it is mined (`"chain"`).  An error the route answers without
having changed anything is `Crash` ("crash"), like the death of an instance.

Of a dispute's decision `AdminRoutes` has what it does to the task
(`ResolveRead`, `ResolveWrite`); the alert is in `Disputes`.

`PaidExecution` extends `TaskLifecycle` with the requests of x402 buyers: one
action per await of `execute/route.ts`, from `AskPrice` to `ReleaseBought`.
`PaidFaults` are the calls that may fail: `"throw"` before the reservation
(the outer catch then releases an agent this request does not have),
`"upsert"`, `"task"` and `"payment"` at the three inserts.  The run's two
outcomes are written by id.  Instances that die half way through a paid request
are left out: the agent would be kept for ever, as in a hire that dies.

### The escrows

`EliosEscrow` models the contract function by function.  `frame` is the paying
transaction under way: effects first, then one `PaymentSucceeds` or
`PaymentFails` per `call{value:}`.  Between them, and only if the account being
paid has code (`Reenters`), that code may call whatever is not `nonReentrant`:
`disputeEscrow` and the ownership functions.  `PaymentFails` restores the
storage saved when the transaction began.  `EscrowPromise` is the abstract
contract: each account goes empty, held, perhaps disputed, settled, with the
deposit paid out in one step.  The refinement mapping `ledger` reads the
accounts off the storage other transactions see.

`UsdcEscrow` is the same contract over a token.  The token calls nobody back,
so a transaction is one step; a deposit is taken out of an allowance
(`Approve`, `MayTake`), and a transfer that touches a blocked account reverts
(`MayPay`; `PayOut` is enabled only if both payments go through, which is what
a revert amounts to).  The contract itself may be the agent that is paid, and
anybody may send it tokens directly; `stray` counts both.  It is shown to implement the same `EscrowPromise`.
`HireCards` puts the browser on top: the cards of one wallet, each going
through approval, lock and report while the others change the allowance and
anybody settles what is locked.

### Agent wallets

`PolicyManager` is the chain's side, for one Safe: `manager` (its policy,
window and session key), `intents` (reviewed intents by destination and
value), `now` for both clocks, `pending`, what the guard has filed for the
Safe's next nonce, and `hooked`, a history of what session keys took out of the
Safe on each day.  `DirectAllowed` and `HookAllowed` are what guard and hook
ask; `PayDirect` and `PayHooked` are check, payment and finish in one step, as
no destination that passes the policy has code to call back with.
`AfterExecution` finishes what is found under the hash the Safe passes.  A Safe
raises its nonce before it asks the guard, so the guard files under the next
nonce, and what is found was filed by the payment before this one, if it had
the same destination and value; else nothing is counted or marked executed.

`AgentWallets` is the server's side: the row of the wallet, the rows of the
transfers, and requests whose steps (`pc`) are reads, transactions and writes:

| Route | Actions |
|---|---|
| `transfers` POST | `RequestTransfer` (reads, evaluates), `QueueIntent`, `InsertTransfer` |
| `transfers/[id]/approve` | `ReadForApproval`, `ApproveIntent`, `MarkApproved` |
| `transfers/[id]/prepare`, and the owner's signature | `SignTransfer` |
| `transfers/[id]/execute` | `ExecuteSigned`, `PaySigned` or `ExecuteBySession`, `PayBySession`; `RecordExecution` |
| `safe7579/prepare`, `execute`, `confirm` | `PrepareMigration`; `InstallModules`, `ConfigureManager`, `StoreMigrated`; `ConfirmMigration` |
| `session/rotate`, `session/execute` | `PrepareSession`; `EnableSession`, `RotateManager`, `StoreSession` |

`Fail` ends a request between any two of them.  `Mode` is computed from the row
at each use, as `inferTransferExecutionMode` does.  The Safe with its modules is
modelled as `test/EliosSafe7579.t.sol` has it in that a guarded transaction is a
plain call and a batch a delegate call, but with the nonce order of a Safe: the
mock there raises the nonce last (70-77).

### Settlement and ledger

`Ledger` holds the escrow of each task (locked at first), the transactions by
hash and the table.  `EscrowVerdicts` and `TransferVerdicts` are what
verification may answer: the event was seen, or no receipt was (`"lag"` also
hides one that is there), or nothing when it throws.  `SyncRecord` settles one
pending record by its receipt's status.  `Disputes` adds the alerts, the task's
row, the verifier's record and the requests; `ResolveTask` and `ResolveAlert`
are the two writes of a decision.  `TaskDeleted` may come between any two steps;
an update of a task that is gone matches no row and reports no error.
`PatchAlert` sets the flag of an alert either way.  The course of the task is three actions that
stand for what `TaskLifecycle` does to these fields (`TaskCompletes`,
`TaskFails`, `TaskRestarts`).  `Settlement` adds the two buttons of each task
card and the routes: the card sends and waits (`Click`, `Sign`), reports
(`PostRelease`, `PostRefund`), and is answered (`Answer`) or not (`LoseAnswer`,
`Reload`); operators and withdrawals report through `PostOverride`, `PostSync`.
`checked` and `wrote` are history fields.

### The public pages

`Leaderboard` keeps of a ranking who is listed, and counts time in half
minutes: `suspendedFor[a]`, the ages of the two copies and of each run.
`Visit` is a visitor the CDN has no fresh copy for; a stale one is still served
for `StaleFor`, so `Shown` is everybody on the servable copy or in a run's
answer.  `ActivityFeed` is the feed's data path: `Fetched` (ORDER BY, LIMIT),
`Collapsed`, `FeedOf` with the entity and event filters (`Matching`), `Page`
with its cursor, and `Reading`, a client that follows the cursors while rows
come in and reads fail.  The route does not look at the error of its read: a
failed one is a read of no rows (`FeedOf` with `lost`, `RouteReadsNothing`),
answered with 200 and kept by the CDN.  `Kept` is Array.filter, written by the places that
stay.  `LiveFeed` is the strip of the homepage over the
CDN's copy of that feed; a copy, a run and an answer are known by how many rows
the log had for them.

`MC*` modules are what TLC runs; they define sets of routes and faults, prices
and symmetry.  `*_proofs` hold theorems and lemmas, one module per component
(`PaidExecution_proofs` extends `TaskLifecycle_proofs` as the components do;
`Sums_proofs` is about sums over finite sets and serves both escrows;
`PublicPages_proofs` is about the leaderboard and the feed, whose specification
is therefore called `FeedSpec`, beside the leaderboard's `Spec`).  Operators commented
"Mutant:" are plausible bugs: with the definition that follows replaced by one
of them, the property it is listed with in `PROJECT.json` fails.

## Runs

`tlc -config <run>.cfg <module>.tla`.  The deadlock check is on in MCBoard and
MCFeed, where time or polling always goes on, and off elsewhere: tasks end,
ids and hashes run out and the clock stops.

| Run | Module | Properties | Instance |
|---|---|---|---|
| MCAllRoutes | `MCTaskLifecycle` | TypeOK, CompletionIsEarned, RetryHasBudget | every route but PATCH, every fault, overlapping; 1 task, 1 agent, 2 requests, 3 attempts; 2.7M states |
| MCOneRun | `MCTaskLifecycle` | OneRunAtATime, RunHasAgent | all routes but retry and reassign, all faults but `insert`; 3 requests; 1.8M states |
| MCOwnerSerial | `MCTaskLifecycle` | NoDoubleHire, AssigneeIsBusy, CompletedIsComplete | create, hire, advance, timeouts, delete; crashes, lost proofs; 2 tasks, 2 agents, 3 requests, one per task except racing hires; 0.20M states up to symmetry |
| MCAgentsReturn | `MCPaidExecution` | PaidTypeOK, RunIsPaid, PaidRunIsAlone, NoStrayReservation, EveryAgentReturns | normal course and paid runs with every fault of theirs, lost proofs; 2 tasks of which one an old row, 1 agent, 1 buyer, 2 requests, one per task; under fairness; 0.13M states |
| MCTasksSettle | `MCTaskLifecycle` | EveryTaskSettles | normal course, crashes, lost proofs, overlapping; 2 tasks of which one an old row; under fairness; 10k states |
| MCEscrow | `MCEliosEscrow` | TypeOK, Conserved, Solvent, AmountMatchesState, KeepsPromise, LocksEnd | 2 tasks, 3 accounts of which one re-enters and refuses payments, values 0 to 2; under fairness; 0.26M states |
| MCUsdc | `MCHireCards` | CardTypeOK, Conserved, Backed, HiredIsFunded, KeepsPromise | 2 cards at prices 1 and 2, 2 tasks, 2 accounts with 2 units each, either may be blocked, the contract as recipient, one unit sent to its address; 1.6M states up to symmetry |
| MCWallet | `MCAgentWallets` | TypeOK, SessionLimitHolds, ReviewsPrecedePayments, TimelockHolds, ExecutedWasPaid, SessionIsEnabled | 2 requests, 2 transfers, 2 payees of which one blocked, amounts below and at the review and the timelock, 2 days, 1 session key; 2.9M states up to symmetry |
| MCSettlement | `MCSettlement` | TypeOK, LedgerIsTrue, OneRecordPerHash, ClosedByRefund | 1 task that may be deleted, 1 transaction, 1 dispute, 2 requests, 2 records, every fault; 2.3M states up to symmetry |
| MCBoard | `MCLeaderboard` | TypeOK, SuspendedAgentsLeave | 1 agent, 3 overlapping runs, the code's 60, 30 and 120 s in half minutes; 0.12M states up to symmetry |
| MCFeed | `MCLiveFeed` | FeedTypeOK, PagesMissNothing, EveryEventIsShown | 4 events, a window of 3, pages of 1, a strip of 2, one failure (a failed read among them), two filters; under fairness; 0.17M states |
| MCCancelDoubleHire | `MCTaskLifecycle` | NoDoubleHire, violated | 3 tasks, 1 agent; create, hire, cancel |

### What the wallets', the settlement's and the feed's properties say

`SessionLimitHolds` is about what session keys took out of the Safe.  Their lane
is counted; the owners' is counted when the guard finds what it filed, in the
same window, and must not upset it (a window of an earlier day renewed, a
count lost).  `ReviewsPrecedePayments` demands, for each reviewed payment the
guard let through, an approval on chain before it and a row whose review is
over and whose timelock ran out.  It does not demand one approval per payment,
which does not hold ([below](#disagreements-with-the-comments)).
`LedgerIsTrue` demands the
escrow's own event of a record only where somebody saw the receipt; a record
that was pending when stored is settled by the sync on its receipt alone.
`ClosedByRefund` is an action property: a step of a request that closes a
dispute without a decision finds the escrow refunded and a confirmed record of
it in the table, though the refund route looked at receipt and dispute some
awaits earlier, alerts are reopened and the task may be gone.  That a decision
recorded was applied does not hold.
`PagesMissNothing` is `PagesAreComplete` of `ActivityFeed`, an
evaluation over every log of 4 events, every order of their ids, ties in their
times, moments of reading, filters (all events, or from the first or the second
page on three of them) and at most one failed read; nothing is ever repeated,
and nothing is missed if no read failed.  It is stated as an invariant of the
initial state, so that the run looks at it.

### Bounds, and why they are enough

- *Requests in flight* (`Workers`, `Requests`, `Slots`, `Runs`): 2 or 3.  Every
  property on one row relates at most two requests; the third in MCOneRun lets
  a bystander move the row between them.  What is proved needs no bound.
- *Tasks and agents*: two of each where a property relates two.  Ids are never
  reused, and a task can be created once.  MCCancelDoubleHire needs a third
  task: one failed, two that share the agent.
- *Attempts* (`MaxAttempts`): the code's 3 in MCAllRoutes; 2 elsewhere, which
  still has a retry that succeeds, one that fails, and the limit.
- *Escrows*: values 0, 1, 2 give a refused lock, the least one and a real
  split; `MaxTime` with `MaxDuration` 1 gives both sides of each deadline, and
  in MCEscrow locks made at two times.  `LockFunds` is not called when its
  deadline would lie past the bound.  `MaxStray` 1: one unit goes
  to the USDC contract's own address, by a transfer or as an agent's share
  (CardBacked is proved for any amount).  The tasks of MCUsdc
  are symmetric, its cards are not (their prices differ).
- *Wallet*: `DailyLimit` 4 is reached on one day by payments of 1 with a session
  key, by counted ones of 2 of the owners, or by both together; `MaxTime` 1 with
  `DayLength` 1 is two days, and the timelock ends on the second.  `MaxNonce` 3
  is the migration, a session key and one payment, or several payments;
  `MaxApprovals` 2 lets an intent be approved again.
- *Settlement*: one transaction settles the escrow from the card, an operator's
  wallet or not at all, and expiry races it; two requests overlap.  Two
  transactions that race each other on the chain, or two disputes of a task,
  are beyond the run's size; the four properties are proved for any number of
  them.
- *Old rows* (`LegacyTasks`): a row failed without the terminal flag, or with
  its attempts used up, is one no handler of this version writes while the
  code handles it (`advance` 238-254, 277-292).  MCAgentsReturn and
  MCTasksSettle start one task so, which is the only way to fire `GiveUp`.
- *Feed*: a window of 3 with pages of 1 makes every cursor a page boundary,
  and 4 rows leave the window once.  `MaxTrouble` bounds failing and slow
  fetches and failing reads of the log; without it the strip may fail for ever,
  as in the code.

### Fairness

`TaskLifecycle!FairSpec`: time passes for every row; a request that does not
crash passes its awaits, because every outside call has a timeout of its own;
the cron keeps calling both jobs every five minutes (`vercel.json`).  The cron's
reads, and the timeout's write, are strongly fair: each run is a fresh
instance, slots being full is an artefact of the bound, and a job that crashes
before its write on every run for ever is excluded.  No fairness is assumed of
users or operators, of the model succeeding, or of proofs being accepted.
`PaidFairSpec` adds that a paid request goes on; nobody need buy.

`EliosEscrow!FairSpec`: the clock advances between transactions, a payment
ends, and somebody calls `expiredRefund`, which anyone may, so that it gets
into a block sooner or later.  `LocksEnd` excludes depositors that
may refuse payments: such a lock lasts, by the contract's design.

`LiveFeed!FairFeedSpec`: the interval of 20 s runs while the tab is visible, copies
age, and a request or a run ends (weakly fair each); an answer is not for ever
slower than the copy is dropped (`EdgeServes`, strongly).  The channel, the tab
and the log owe nothing, and messages may all be lost.

## Disagreements with the comments

The run MCCancelDoubleHire shows one; `findings` in `PROJECT.json` quotes it.
Cancel accepts a task that already failed and releases its old agent, by then
at work on another task; it is hired again (`hire/route.ts:96`, "prevents
double-hire").

Others are visible in the models and bound what the passing runs claim.  They
are described, not run:

*Task board*

- The timeout's guard compares the status only, so a task advanced since the
  job's read is failed for the step it left (`detect-timeouts` 93-94, 116).
- Neither the claim nor the failure write compares the status: a call of
  advance that read the task earlier runs a failed task, and a retryable
  failure of that run makes it active again (`advance` 146-147, 345-346;
  `detect-timeouts:11`, "terminal, no retries").
- A handler that releases its agent overwrites a suspension with `online`
  (`advance:101`, `suspend` 127-129), and a hire between the delete's read and
  its write is deleted with its task (`tasks/[id]` 133-138).
- `OneRunAtATime` fails with retry or reassign (they put a running task back to
  Assigned), and with `insert` (the rollback does, when the task was advanced
  in between).
- `NoDoubleHire` and `AssigneeIsBusy` fail with `dbwrite`, in two ways that
  contradict `hire:96`, "prevents double-hire".  `persistExecutionFailure` does
  not look at the error of its update, and when a terminal failure is not
  stored it releases the agent of a task that stays active (`advance` 122-151).
  An assignment that is applied but reported as an error makes hire free the
  agent under the task (`hire` 123-126).
- They fail with `insert` (the agent is online
  before the task is free of it), with reassign (its test of the new agent is
  stale when it writes), with suspend, with paid runs that throw before they
  reserve (`execute:382` releases the agent all the same), and when requests of
  one task overlap (a released agent may have been hired since).
- `NoStrayReservation` and `EveryAgentReturns` fail with crashes (an instance
  that dies between reserving and assigning loses the agent) and with overlap
  (a hire between the timeout's read and write is not released).
- `CompletedIsComplete` fails with overlap: a late write by id takes a
  completed task back a step.  The release route wants step Complete.
- When the record of a payment cannot be stored, the buyer has paid and the
  task stays at Executing with nobody to run it, until the timeout.

*Settlement*

- Two decisions on two disputes of a task, or a decision and advance, may race:
  a completed task is failed, though `resolve` 94-98 refuses to "refund a
  completed task" by an earlier read.  Two disputes can be open at once, though
  the route answers a second with 409 (`dispute:47`).
- A record stored as pending is confirmed by the sync without a look at the
  escrow's event.  A refund stored as pending leaves its dispute open.
- A decision to release completes a task without a result or a proof (`resolve`
  100-112), which the submitter's release route then refuses for want of one.
  `CompletionIsEarned` excepts these tasks, by `ruled`.
- A task deleted between the read and the write of a decision (`resolve` 77,
  109; `tasks/[id]:138`) is not matched by the update, which reports no error,
  and the alert is marked as decided; the comment at 89-90 says the order is
  there "so that we don't mark a dispute resolved against a task we failed to
  update".
- The answer to a report may be lost; the card cannot report the hash again,
  and the settlement stays unrecorded.  The record's insert error is ignored in
  release-escrow, the update of the alerts in refund, and the whole update of
  hold, whose step the table's CHECK rejects.

*Wallets*

- The guard files a payment under the Safe's nonce, which a Safe has already
  raised, and looks it up under the hash the Safe passes, which has the nonce
  before (`EliosSafeGuard` 58-84).  So the owners' payments are not counted
  against the daily limit and their intents not marked executed, until a payment
  of the same destination and value follows at once, which then finishes that
  of the one before.  An approved intent can pay again and again, and the same
  transfer cannot be queued anew.  `test/EliosSafe7579.t.sol` 170-200 expects
  the intent executed after one payment, over a mock that raises the nonce last
  (70-77).
- A request that dies between the installation of the modules and the
  configuration of the manager leaves a Safe whose guard refuses everything;
  confirm marks it migrated all the same.
- An amount between the automatic limit and the review is approved in the row
  and refused on chain.
- A rotation that replaces a key is a batch of two calls, which the guard
  refuses; revoke changes the row only.
- A transfer that needs no review can be paid twice: execute checks a row it
  read earlier (`transfers/[transferId]/execute` 73-74).

*Hiring with USDC*

- A lock or an approval that reverts leaves the card waiting for ever; a lock
  declined after the approval leaves the allowance.
- The hire route looks for the lock's event at the ETH contract's address only,
  and so never verifies a USDC lock.  A price written as "0.05 ETH" is used as
  0.05 USDC.

*Public pages*

- The ranking is stale for up to 60 + 150 s and two runs; `leaderboard.ts`
  100-103 speaks of about 90 s.
- Two events of one millisecond at a page boundary may be missed or repeated:
  the listing is sorted by time only, the cursor compares ids too
  (`web4Graph.ts` 533, 545).  Rows that leave the window of 250 are lost to a
  client that is still paging.
- The error of the feed's read is not looked at (`web4Graph.ts:1151`): a failed
  one is answered with 200, an empty page and no cursor, which ends a client's
  reading early, and the CDN keeps the answer for everybody.

*USDC escrow*

- What is paid to the contract's own address, as an agent or directly, stays
  there: no function gives it back (`EliosUSDCEscrow` 85-97, 137-153 refuse no
  address).

## Proofs

`tlapm <module>.tla` in this directory proves every obligation with Z3, Zenon
and LS4.  The assumptions are those on the constants, named in the modules that
declare them (`BoardAssumption`, `PaidAssumption`, `EscrowAssumption`,
`UsdcAssumption`, `CardAssumption`, `PolicyAssumption`, `WalletAssumption`,
`LedgerAssumption`, `LeaderboardAssumption`, `FeedAssumption`,
`LiveFeedAssumption`: types, null distinct from ids, a
day with a length, and, where money is summed, finitely many tasks and
accounts), and those in the table.  Tasks, agents, requests in flight, accounts,
payees, amounts, limits, delays, attempts, records, lives of copies, logs,
windows and pages are unbounded.

| Theorem | Assumes besides | Invariant and argument |
|---|---|---|
| `TypeCorrect` | - | `TypeInv`: TypeOK and, since writes take ids from a request's locals, that a request at an await has the ids it will use there (`Shaped`) |
| `CompletionEarned` | - | `EarnedInv`: what a row claims is earned (completed: verified, or released by a decision; with a hash: verified; with a result: produced), and so is what a request will write or submit (`Entitled`): one at `prove` has read a stored result, one about to write Complete has a proof.  CompletionIsEarned alone is not inductive: it says nothing of requests between the proof and the write.  Most actions gain nothing (`GainsNothing`, `Quiet`); the lemmas for them share one frame lemma |
| `RetryBudget` | - | a conjunct of the same invariant: a retryable failure leaves an attempt |
| `OneRun` | no `retry`, `reassign`; no `insert` | `TokenInv`: a request between its claim and its last write holds the task like a lock; two never hold one task, a held task is not at Assigned and has its agent, so that it can be neither claimed nor hired for |
| `RunsAreStaffed` | no `retry` | `StaffInv`: a task at Assigned or Executing has an agent, and the steps that requests will write from earlier reads need none |
| `CompletedAtComplete` | no overlap | `CompleteInv` over `Serial`: every step of a suspended request follows the flow of its handler (`Flows`, `Along`), so that two requests are about one task only when both are hires of it.  Then a task at whose end a request works is not completed (`Unfinished`), and no late write moves a completed one |
| `HiredOnce`, `AssigneesAreBusy` | no overlap; the owner's routes and the crons; no `insert`, no `dbwrite` | `HireInv` over `Serial`: a request between its reservation and its assignment, or before its release, has its agent to itself (`Sole`), and what a handler read of its task still holds when it writes (`Local`).  `NoDoubleHire` alone is not inductive: it says nothing of agents in transit |
| `PaidTypeCorrect`, `PaidCompletionEarned` | - | the invariants of `TaskLifecycle_proofs` carried through the composition: a step of a paid request is one the frame lemmas there allow, and a paid row's claims are earned by its own run |
| `RunsArePaid` | - | a request past the settlement, on its way to the run, has paid; only its release takes that back |
| `PaidRunsAreAlone` | no `retry`, `reassign` | `AloneInv`: the row of a run waits at Executing, or has been released by a decision, without a stored result, where no route claims, proves, moves or hires, so a request that finds it is at an await that can only fail, delete or release the task (`Beside`) |
| `ReservationsAreOwned` | no overlap; the owner's routes and the crons; no `crash` | `StrayInv` over `Serial` and `AloneInv`: at every moment a busy agent is owed its release by an active task, by a request that has it in hand, or by a paid request (`Owned`).  A hire that is undone may free the agent before the row: then the row, though active, owes it nothing any more (`Owes`).  A request that may end its task, or take the agent off it, holds the agent the row names, and one that deletes a row has read one without (`Remembers`, `EarlyIsOpen`, `OneAssigns`).  With nothing in flight the task is what is left |
| `EscrowTypeOK`, `EscrowConserved`, `EscrowAmountMatchesState` | - | `IInv`: the storage saved for a revert satisfies the same as the storage; relative to it the open transaction has closed its own escrow, paid or owes the whole amount, and changed no other escrow except to dispute it |
| `EscrowKeepsPromise` | - | refinement from `IInv`: a transaction that pays is a stutter until its last payment, which is the abstract settlement (with any disputes opened meanwhile); a revert is a stutter |
| `EscrowSolvent`, `PaymentsAreCovered` | - | the balance is the sum of the amounts and of the dues, and so was the saved one of the saved amounts (`SavedSolvent`, for reverts).  `Sums_proofs` computes what a sum becomes when one summand changes |
| `UsdcConserved`, `UsdcKeepsPromise` | - | each transaction is one step: deposit, state and payments move together, and every step but approvals, blocks, clock and ownership is a step of `EscrowPromise` |
| `CardsAreFunded` | - | a card at `confirming` was put there by its own lock, and an escrow once locked never changes its depositor, agent or deposit |
| `CardBacked`, `CardTypes`, `CardConserved`, `CardKeepsPromise` | - | the composition adds no step of its own to the contract; `MoneyInv`: balances sum to what was minted, so that a transfer the token allows takes none below zero, and the contract's own is what its escrows hold and what was sent to it |
| `SettleTypes`, `LedgerTrue` | - | `SettleInv`: a settlement that succeeded is the one the escrow shows (`ChainOK`), a card's report is about such a settlement of its own task (`CardsOK`, `RequestsOK`), and so is the record made of it (`RecordsOK`).  A final receipt never changes (`Stable`), which carries what was once seen |
| `OneRecord` | - | `TokenInv` over `SettleInv`: a hash is with its card, one request or one record, and moves forward only; a fresh transaction has a hash nobody holds, as what is held has succeeded |
| `UndecidedCloseIsRefunded` | - | `ClosingOK` over `SettleInv`: a request about to close disputes belongs to the refund route and has stored a confirmed record (records only settle, `RecordedStays`); what it was confirmed by is the refund of that escrow, which `ChainOK` keeps |
| `WalletTypes`, `SessionLimitIsKept`, `ReviewsComeFirst`, `TimelocksHold`, `ExecutedTransfersWerePaid`, `SessionsAreEnabled` | - | `WalletInv`, five parts over the types.  `WindowOK`: what session keys took today is at most what the manager's window holds, whichever of the owners' payments are in it too, and days to come have had no payment.  `ReviewsOK`: what is approved or was paid an operator did approve.  `SettledOK`: an intent that was paid has a row that was let through, and so has one about to be paid.  `RowsOK`: a row says executed, and a request is about to write so, only after the payment; an approval in flight has its delay behind it.  `SessionOK`: so with the key and the guard a request is about to record |
| `BoardTypes`, `SuspensionShows` | - | a name in a run, in Redis or in the CDN's copy has been suspended no longer than what made that copy lasted: each copy adds its life, each run its time, and storing or answering resets none of it |
| `AnyReadingIsComplete`, `NothingIsMissed` | the log is ordered by time, its ids differ (`OrderedLog`) | The first is `PagesAreComplete` for one log, window and page size, and any number of pages and moments; the second is the run's statement for every bound.  A listing is newest first with ids apart, whatever the filters drop (`ListingIsNewest`, `KeptPlaces`).  A page takes what lies before its cursor and leaves only what its next cursor is not past (`PageFollowsCursor`).  So, of an event that shares no millisecond with a cursor, every state of the client says: it is seen at most once, not if the next cursor still leads to it, and, if it was always listed and wanted and no read failed, it is seen or the next cursor still leads to it (`OnwardTracks`, carried along a reading by `ReadingTracks`).  The event was in the listing all the while, since rows that leave the window, and alerts that a newer one replaces, never come back (`StaysListed`) |
| `FeedTypes` | - | FeedTypeOK is inductive: copies, runs and answers know of rows the log has, and the log only grows |

`OneRun` and `PaidRunsAreAlone` assume what their runs do: with retry or
reassign the properties are false, as above.

The assumptions "no overlap", "no `insert`", "no `dbwrite`" and "no `crash`",
and that no operator overrules, are settings of the runs that check these properties
(MCOwnerSerial, MCAgentsReturn), or weaker.  A property that assumes one of the
first four is false without it, in the model as in the code, and one that
assumes no operator is false with reassign; that is what the hazards listed in
`PROJECT.json` are about.
`ReservationsAreOwned` holds for more routes and faults than MCAgentsReturn
calls, whose instance is kept small for the liveness it checks: deletions,
failed inserts and the hires undone after them.

Sums and readings are recursive, and the library's induction theorems cannot be
used here, as they take an operator.  There are two ways round.  For finite
sets, a set of counterexamples has a smallest one, which `Sums_proofs` obtains
from the library's theorem that strict inclusion is well-founded on the subsets
of a finite set.  For recursion over `0..n`, `Induction` and `Recursion` in
`PublicPages_proofs` do the same with the order of the natural numbers: the
step is given as a function, the property as a set, and a least counterexample
contradicts it.  With them `Kept` and `Reading` are known by what each step
does, for any length.

Only model-checked: `EveryTaskSettles`, `EveryAgentReturns`, `LocksEnd` and
`EveryEventIsShown`, liveness under fairness, beyond this prover.

## What is left out

- Logs, audit entries, activity other than the feed's, attestations, casts,
  wording: they change nothing the properties read.
- Errors of a last write whose result the code ignores (an agent's release,
  reassign's reservation) are not told apart from `Crash` before it; in cancel
  and reassign, where the handler goes on, they are (`LooseRelease`).
- The content of results and proofs; `serializeExecutionResult` and the
  circuit.  The verifier accepts each task once.
- PATCH on a task, with which an operator may write any status, step and agent
  into a row: nothing in the app calls it, and after it a row relates to
  nothing that was done for it.
- Crashes of a paid request, and of a card's page in the middle of a USDC hire;
  switching a card between ETH and USDC while a lock is under way.
- `configureModules` and `revokeSessionKey` of the manager, and session/revoke:
  no route sends the former two, the last shortens a date in the row.  The row
  a payment leaves in `transactions`.
- The lock records of hires in the ledger, and the fallbacks of its insert for
  older schemas.  Liveness of the sync (records settle): its instance is too
  large.
- Passports, receipts and capabilities of `web4Graph.ts`: views that match rows
  by name and amount, without state.
- Guardrails and rate limits: counters beside the main course that refuse a
  request before its first write.  They are read and then written, so that
  concurrent requests may be counted once; no other state depends on them.
- Sign-in: the session is one sealed cookie and the nonce is in it, so the
  server keeps nothing between requests.
- ETH forced into the escrow contract: it never reads its balance.
- Pages, frames, social posts, statistics, scripts, browser tests, the circuit
  and the generated verifier: four fifths of the repository's lines.  The map
  therefore covers about an eighth of them, nearly all routes, contracts and browser
  flows that change shared state.

## Plan

1. Done: the task board with its routes, the cron and the paid execution; both
   escrow contracts and the USDC cards; the wallet routes over the policy
   contracts; settlement, disputes and ledger; leaderboard and feed; a theorem
   for each safety property the passing runs check.
2. Proofs next: `HiredOnce` and `AssigneesAreBusy` with less than "no overlap",
   by naming the pairs of requests that must not meet.
3. If the code comes to need it: the counters of the guardrails, once something
   depends on their exactness.
