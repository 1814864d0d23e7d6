----------------------------- MODULE EliosEscrow -----------------------------
(***************************************************************************)
(* contracts/src/EliosEscrow.sol: one escrow per task, released, refunded, *)
(* disputed and split, or recovered by anyone when it has expired.         *)
(*                                                                         *)
(* A transaction is atomic unless it pays out: then the code of the account*)
(* it pays runs before it ends and may call the contract again.  frame is  *)
(* that transaction while it is under way, with the storage to go back to  *)
(* should a payment fail.  The functions marked nonReentrant revert while  *)
(* a frame is open; disputeEscrow and the ownership functions are not so   *)
(* marked.                                                                 *)
(***************************************************************************)
EXTENDS Naturals, FiniteSets, Functions

CONSTANTS
  Tasks,         \* task ids
  Accounts,      \* addresses that call the contract or are paid by it
  NoAccount,     \* the zero address
  Reenters,      \* accounts whose code runs when they are paid
  Rejects,       \* accounts a payment to which may fail
  Amounts,       \* the values sent along with a lock, and shares awarded
  MaxDuration,   \* MAX_LOCK_DURATION
  MaxTime        \* bound: the clock stops there, and every lock expires by then

ASSUME EscrowAssumption ==
  /\ IsFiniteSet(Tasks)
  /\ NoAccount \notin Accounts
  /\ Reenters \subseteq Accounts
  /\ Rejects \subseteq Accounts
  /\ Amounts \subseteq Nat
  /\ MaxDuration \in Nat
  /\ MaxTime \in Nat

VARIABLES
  escrows,    \* the contract's mapping
  owner,      \* Ownable's owner
  held,       \* the contract's balance
  paid,       \* history: what each escrow paid the agent and the depositor
  deposited,  \* history: what was locked for each task
  now,        \* block.timestamp
  frame       \* the paying transaction under way, or NoFrame

vars == <<escrows, owner, held, paid, deposited, now, frame>>

States == {"None", "Locked", "Released", "Refunded", "Disputed"}

Escrow == [depositor: Accounts \cup {NoAccount}, amount: Nat,
           lockedAt: 0..MaxTime, state: States]

NoEscrow == [depositor |-> NoAccount, amount |-> 0, lockedAt |-> 0,
             state |-> "None"]

\* Two shares of an escrow: the recipient's, paid first, and the depositor's.
Shares == [agent: Nat, depositor: Nat]
NoShares == [agent |-> 0, depositor |-> 0]

\* What a revert restores.
Storage == [escrows: [Tasks -> Escrow], owner: Accounts \cup {NoAccount},
            held: Nat, paid: [Tasks -> Shares]]

stored == [escrows |-> escrows, owner |-> owner, held |-> held, paid |-> paid]

Frame == [t: Tasks, recipient: Accounts \cup {NoAccount}, due: Shares,
          saved: Storage]

NoFrame == [due |-> NoShares]

Init ==
  /\ escrows = [t \in Tasks |-> NoEscrow]
  /\ owner \in Accounts
  /\ held = 0
  /\ paid = [t \in Tasks |-> NoShares]
  /\ deposited = [t \in Tasks |-> 0]
  /\ now = 0
  /\ frame = NoFrame

Idle == frame = NoFrame

\* The account being paid: the one whose code runs.
Payee == IF frame.due.agent > 0 THEN frame.recipient
         ELSE escrows[frame.t].depositor

\* msg.sender: anyone, or a contract that runs in the payment under way.
MayCall(sender) == IF Idle THEN TRUE ELSE {Payee, sender} \subseteq Reenters

InCharge(sender, t) == sender \in {escrows[t].depositor, owner}

-----------------------------------------------------------------------------
\* Mutant: a task's escrow can be locked again.
LockFundsAgain(t, sender, value) ==
  /\ Idle
  /\ value # 0
  /\ now + MaxDuration <= MaxTime
  /\ escrows' = [escrows EXCEPT ![t] =
                   [depositor |-> sender, amount |-> value, lockedAt |-> now,
                    state |-> "Locked"]]
  /\ held' = held + value
  /\ deposited' = [deposited EXCEPT ![t] = value]
  /\ UNCHANGED <<owner, paid, now, frame>>

LockFunds(t, sender, value) ==
  /\ Idle
  /\ value # 0
  /\ escrows[t].state = "None"
  /\ now + MaxDuration <= MaxTime  \* bound: the lock expires on the clock
  /\ escrows' = [escrows EXCEPT ![t] =
                   [depositor |-> sender, amount |-> value, lockedAt |-> now,
                    state |-> "Locked"]]
  /\ held' = held + value
  /\ deposited' = [deposited EXCEPT ![t] = value]
  /\ UNCHANGED <<owner, paid, now, frame>>

\* Mutant: the amount is not cleared.
PayOutKeeping(t, state, recipient, shares) ==
  /\ escrows' = [escrows EXCEPT ![t].state = state]
  /\ frame' = [t |-> t, recipient |-> recipient, due |-> shares,
               saved |-> stored]
  /\ UNCHANGED <<owner, held, paid, deposited, now>>

\* The effects come before the payments: the escrow is closed, the shares are
\* due.
PayOut(t, state, recipient, shares) ==
  /\ escrows' = [escrows EXCEPT ![t].state = state, ![t].amount = 0]
  /\ frame' = [t |-> t, recipient |-> recipient, due |-> shares,
               saved |-> stored]
  /\ UNCHANGED <<owner, held, paid, deposited, now>>

ReleaseFunds(t, sender, recipient) ==
  /\ Idle
  /\ escrows[t].state = "Locked"
  /\ InCharge(sender, t)
  /\ PayOut(t, "Released", recipient,
            [NoShares EXCEPT !.agent = escrows[t].amount])

RefundDepositor(t) ==
  PayOut(t, "Refunded", escrows[t].depositor,
         [NoShares EXCEPT !.depositor = escrows[t].amount])

Refund(t, sender) ==
  /\ Idle
  /\ escrows[t].state = "Locked"
  /\ InCharge(sender, t)
  /\ RefundDepositor(t)

\* Mutant: the comparison with the deadline is the wrong way round.
ExpiredRefundEarly(t) ==
  /\ Idle
  /\ escrows[t].state = "Locked"
  /\ now < escrows[t].lockedAt + MaxDuration
  /\ RefundDepositor(t)

ExpiredRefund(t) ==
  /\ Idle
  /\ escrows[t].state = "Locked"
  /\ now >= escrows[t].lockedAt + MaxDuration
  /\ RefundDepositor(t)

\* Mutant: the state is not checked.
DisputeEscrowAnyState(t, sender) ==
  /\ MayCall(sender)
  /\ InCharge(sender, t)
  /\ escrows' = [escrows EXCEPT ![t].state = "Disputed"]
  /\ UNCHANGED <<owner, held, paid, deposited, now, frame>>

DisputeEscrow(t, sender) ==
  /\ MayCall(sender)
  /\ escrows[t].state = "Locked"
  /\ InCharge(sender, t)
  /\ escrows' = [escrows EXCEPT ![t].state = "Disputed"]
  /\ UNCHANGED <<owner, held, paid, deposited, now, frame>>

\* Mutant: the share is not compared with the amount.
ResolveDisputeUnbounded(t, sender, recipient, recipientShare) ==
  /\ Idle
  /\ sender = owner
  /\ escrows[t].state = "Disputed"
  /\ PayOut(t, "Released", recipient,
            [agent |-> recipientShare,
             depositor |-> escrows[t].amount - recipientShare])

ResolveDispute(t, sender, recipient, recipientShare) ==
  LET total == escrows[t].amount IN
  /\ Idle
  /\ sender = owner
  /\ escrows[t].state = "Disputed"
  /\ recipientShare <= total
  /\ PayOut(t, "Released", recipient,
            [agent |-> recipientShare, depositor |-> total - recipientShare])

\* transferOwnership and renounceOwnership, inherited from Ownable.
ChangeOwner(sender, new) ==
  /\ MayCall(sender)
  /\ sender = owner
  /\ owner' = new
  /\ UNCHANGED <<escrows, held, paid, deposited, now, frame>>

-----------------------------------------------------------------------------
\* The payment under way returns; the transaction ends with its last one.
PaymentSucceeds ==
  LET side == IF frame.due.agent > 0 THEN "agent" ELSE "depositor"
      rest == [frame.due EXCEPT ![side] = 0]
  IN
  /\ ~Idle
  /\ held >= frame.due[side]
  /\ held' = held - frame.due[side]
  /\ paid' = [paid EXCEPT ![frame.t][side] = @ + frame.due[side]]
  /\ frame' = IF rest = NoShares THEN NoFrame ELSE [frame EXCEPT !.due = rest]
  /\ UNCHANGED <<escrows, owner, deposited, now>>

\* Mutant: the result of the call is ignored.
PaymentFailsQuietly ==
  /\ ~Idle
  /\ Payee \in Rejects
  /\ frame' = NoFrame
  /\ UNCHANGED <<escrows, owner, held, paid, deposited, now>>

\* It fails, and the transaction reverts with TransferFailed.
PaymentFails ==
  /\ ~Idle
  /\ Payee \in Rejects
  /\ escrows' = frame.saved.escrows
  /\ owner' = frame.saved.owner
  /\ held' = frame.saved.held
  /\ paid' = frame.saved.paid
  /\ frame' = NoFrame
  /\ UNCHANGED <<deposited, now>>

\* The next block.
Tick ==
  /\ Idle
  /\ now < MaxTime
  /\ now' = now + 1
  /\ UNCHANGED <<escrows, owner, held, paid, deposited, frame>>

Call(t, sender) ==
  \/ \E value \in Amounts : LockFunds(t, sender, value)
  \/ Refund(t, sender)
  \/ DisputeEscrow(t, sender)
  \/ \E recipient \in Accounts :
       \/ ReleaseFunds(t, sender, recipient)
       \/ \E share \in Amounts :
            ResolveDispute(t, sender, recipient, share)

Next ==
  \/ \E t \in Tasks, sender \in Accounts : Call(t, sender)
  \/ \E t \in Tasks : ExpiredRefund(t)
  \/ \E sender \in Accounts, new \in Accounts \cup {NoAccount} :
       ChangeOwner(sender, new)
  \/ PaymentSucceeds \/ PaymentFails
  \/ Tick

Spec == Init /\ [][Next]_vars

\* Blocks are made between transactions, a transaction ends, and a call of
\* expiredRefund, which anyone may send, is included sooner or later among
\* the other transactions.
FairSpec ==
  /\ Spec
  /\ SF_vars(Tick)
  /\ WF_vars(PaymentSucceeds \/ PaymentFails)
  /\ \A t \in Tasks : SF_vars(ExpiredRefund(t))

-----------------------------------------------------------------------------
(* Properties.                                                              *)

\* The contract's storage and the transaction under way are well formed.
TypeOK ==
  /\ escrows \in [Tasks -> Escrow]
  /\ owner \in Accounts \cup {NoAccount}
  /\ held \in Nat
  /\ paid \in [Tasks -> Shares]
  /\ deposited \in [Tasks -> Nat]
  /\ now \in 0..MaxTime
  /\ frame \in Frame \cup {NoFrame}

\* What is still to be paid for task t by the transaction under way.
Due(t) == IF ~Idle /\ frame.t = t
          THEN frame.due.agent + frame.due.depositor ELSE 0

\* Nothing is lost or paid twice: at every point of every transaction, what
\* an escrow holds, is about to pay and has paid is what was locked for it.
Conserved ==
  \A t \in Tasks :
    escrows[t].amount + Due(t) + paid[t].agent + paid[t].depositor
      = deposited[t]

\* The balance covers every escrow and the payment under way, so that no
\* payment fails for want of funds.
Solvent ==
  held = SumFunction([t \in Tasks |-> escrows[t].amount + Due(t)])

\* An escrow holds something exactly while it is locked or disputed.
AmountMatchesState ==
  \A t \in Tasks :
    (escrows[t].amount > 0) <=> (escrows[t].state \in {"Locked", "Disputed"})

\* The storage as other transactions see it: before the one under way.
committed == IF Idle THEN stored ELSE frame.saved

Phase(state) == CASE state = "None"     -> "empty"
                  [] state = "Locked"   -> "held"
                  [] state = "Disputed" -> "disputed"
                  [] OTHER              -> "settled"

\* The accounts of EscrowPromise, read off the committed storage.
ledger == [t \in Tasks |->
             [phase       |-> Phase(committed.escrows[t].state),
              deposit     |-> deposited[t],
              toAgent     |-> committed.paid[t].agent,
              toDepositor |-> committed.paid[t].depositor]]

Promise == INSTANCE EscrowPromise WITH account <- ledger

\* The contract, a payment and a re-entrant call at a time, keeps the promise
\* of one atomic settlement that pays out the deposit.
KeepsPromise == Promise!Spec

\* A lock does not last: whoever rejects payments, the depositor's account
\* accepting them, an escrow is settled or disputed in the end.
LocksEnd ==
  \A t \in Tasks :
    escrows[t].state = "Locked" /\ escrows[t].depositor \notin Rejects
      ~> committed.escrows[t].state # "Locked"

=============================================================================
