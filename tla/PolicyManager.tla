---------------------------- MODULE PolicyManager ----------------------------
(***************************************************************************)
(* contracts/src: EliosPolicyManager, with EliosSafeGuard and              *)
(* EliosPolicyHook, for one Safe.  The guard stands before and after every *)
(* transaction the owners sign, the hook before and after every call a     *)
(* session key makes; both ask the manager, whose daily window they share. *)
(* No destination the policy lets through calls back (contracts are        *)
(* refused, and the modules do not), so what happens within one transaction*)
(* is one step.                                                            *)
(*                                                                         *)
(* The guard files what it let through under the hash of the transaction   *)
(* with the Safe's nonce, and finishes what it finds under the hash the    *)
(* Safe gives it afterwards.  A Safe raises its nonce before it asks the   *)
(* guard, so the two hashes differ: what a transaction files is found only *)
(* by the next one, and only when that one has the same parameters.        *)
(***************************************************************************)
EXTENDS Naturals

CONSTANTS
  Payees,         \* destinations of a transfer
  Contracts,      \* those that have code
  Blocked,        \* those the policy of the row blocks
  Amounts,        \* values of transfers
  DailyLimit, AutoLimit, ReviewAt, TimelockAt, TimelockDelay,  \* the policy
  Keys, NoKey,    \* session keys
  DayLength,      \* ticks of a day
  KeyLife,        \* ticks a session key lasts
  MaxTime         \* bound: the clock stops there

ASSUME PolicyAssumption ==
  /\ Contracts \subseteq Payees
  /\ Blocked \subseteq Payees
  /\ Amounts \subseteq Nat \ {0}
  /\ Payees # {} /\ Amounts # {}
  /\ {DailyLimit, AutoLimit, ReviewAt, TimelockAt, TimelockDelay} \subseteq Nat
  /\ ReviewAt > 0
  /\ DayLength \in Nat \ {0}
  /\ KeyLife \in Nat
  /\ MaxTime \in Nat
  /\ NoKey \notin Keys

VARIABLES
  manager,  \* safeWallets[safe] and blockedDestinations[safe]
  intents,  \* reviewedIntents, by destination and value
  pending,  \* pendingExecutions: the intent of the guarded payment before,
            \* filed for the next nonce; entries of past nonces are never read
  hooked,   \* history: what session keys took out of the Safe on each day
  now       \* block.timestamp, and Date.now

Today == now \div DayLength
Days == 0..(MaxTime \div DayLength)

Manager == [exists: BOOLEAN, blocked: SUBSET Payees, key: Keys \cup {NoKey},
            validUntil: Nat, revoked: BOOLEAN, day: Days, spent: Nat]

Unconfigured == [exists |-> FALSE, blocked |-> {}, key |-> NoKey,
                 validUntil |-> 0, revoked |-> FALSE, day |-> 0, spent |-> 0]

\* An intent that was never queued has no safe.
Intent == [queued: BOOLEAN, unlockAt: Nat, approved: BOOLEAN,
           executed: BOOLEAN]
NoIntent == [queued |-> FALSE, unlockAt |-> 0, approved |-> FALSE,
             executed |-> FALSE]

IntentIds == Payees \X Amounts

PolicyInit ==
  /\ manager = Unconfigured
  /\ intents = [i \in IntentIds |-> NoIntent]
  /\ pending = {}
  /\ hooked = [d \in Days |-> 0]
  /\ now = 0

-----------------------------------------------------------------------------
(* The policy signer's transactions.                                        *)

\* Destinations once blocked are never unblocked.
ConfigureSafe ==
  /\ manager' = [manager EXCEPT !.exists = TRUE, !.blocked = @ \cup Blocked]
  /\ UNCHANGED <<intents, pending, hooked, now>>

RotateSessionKey(key, until) ==
  /\ manager.exists
  /\ manager' = [manager EXCEPT !.key = key, !.validUntil = until,
                                !.revoked = FALSE]
  /\ UNCHANGED <<intents, pending, hooked, now>>

\* One intent at a time waits for a destination and value.
QueueReviewedIntent(i) ==
  /\ manager.exists
  /\ intents[i].queued => intents[i].executed
  /\ intents' = [intents EXCEPT ![i] =
       [queued |-> TRUE, approved |-> FALSE, executed |-> FALSE,
        unlockAt |-> IF i[2] >= TimelockAt THEN now + TimelockDelay ELSE now]]
  /\ UNCHANGED <<manager, pending, hooked, now>>

ApproveReviewedIntent(i) ==
  /\ intents[i].queued
  /\ intents' = [intents EXCEPT ![i].approved = TRUE]
  /\ UNCHANGED <<manager, pending, hooked, now>>

-----------------------------------------------------------------------------
(* What the guard and the hook ask.                                         *)

\* Mutant: the window of another day counts, that of this day does not.
SpentTodaySwapped == IF manager.day = Today THEN 0 ELSE manager.spent

SpentToday == IF manager.day = Today THEN manager.spent ELSE 0

WouldExceedDailySpend(value) == SpentToday + value > DailyLimit

\* A transfer sends no calldata, and allowlistedContracts is empty.
ValidateCommon(to) ==
  /\ to \notin manager.blocked
  /\ to \notin Contracts

\* Mutant: a reviewed intent need not be approved.
DirectUnapproved(i) ==
  /\ manager.exists
  /\ ValidateCommon(i[1])
  /\ ~WouldExceedDailySpend(i[2])
  /\ IF i[2] >= ReviewAt
     THEN intents[i].queued /\ ~intents[i].executed /\ intents[i].unlockAt <= now
     ELSE i[2] <= AutoLimit

\* validateDirectExecution: what checkTransaction of the guard accepts.
DirectAllowed(i) ==
  /\ manager.exists
  /\ ValidateCommon(i[1])
  /\ ~WouldExceedDailySpend(i[2])
  /\ IF i[2] >= ReviewAt
     THEN /\ intents[i].queued
          /\ ~intents[i].executed
          /\ intents[i].approved
          /\ intents[i].unlockAt <= now
     ELSE i[2] <= AutoLimit

\* previewHookExecution: what preCheck of the hook accepts.
HookAllowed(i) ==
  /\ manager.exists
  /\ ValidateCommon(i[1])
  /\ i[2] <= AutoLimit
  /\ ~WouldExceedDailySpend(i[2])

ConsumeSpend(value) ==
  manager' = [manager EXCEPT !.day = Today, !.spent = SpentToday + value]

PaysToday(value) == hooked' = [hooked EXCEPT ![Today] = @ + value]

\* checkAfterExecution: an entry filed for this transaction's nonce is
\* finalized, else the guard returns and nothing is counted or executed.
AfterExecution(i) ==
  IF i \in pending
  THEN /\ ConsumeSpend(i[2])
       /\ intents' = IF i[2] >= ReviewAt
                     THEN [intents EXCEPT ![i].executed = TRUE] ELSE intents
  ELSE UNCHANGED <<manager, intents>>

\* A guarded transaction that succeeds: checkTransaction, which files it for
\* the next nonce, the payment, and checkAfterExecution.
PayDirect(i) ==
  /\ DirectAllowed(i)
  /\ AfterExecution(i)
  /\ pending' = {i}
  /\ UNCHANGED <<hooked, now>>

\* A session key's call that succeeds: preCheck, the payment, postCheck with
\* finalizeHookExecution.
PayHooked(i) ==
  /\ HookAllowed(i)
  /\ ConsumeSpend(i[2])
  /\ PaysToday(i[2])
  /\ UNCHANGED <<intents, pending, now>>

\* A guarded call without value to a module of the Safe; its data differ
\* from one call to the next, so the guard finds nothing afterwards.
CallModule ==
  /\ manager.exists
  /\ ~WouldExceedDailySpend(0)
  /\ pending' = {}
  /\ UNCHANGED <<manager, intents, hooked, now>>

=============================================================================
