------------------------------ MODULE UsdcEscrow ------------------------------
(***************************************************************************)
(* contracts/src/EliosUSDCEscrow.sol: the escrow of EliosEscrow over an    *)
(* ERC-20 token.  The token runs no code of the accounts it pays, so every *)
(* transaction is one step; it takes a deposit out of an allowance, and it *)
(* refuses transfers that touch a blocked account, which reverts the       *)
(* transaction.                                                            *)
(***************************************************************************)
EXTENDS Naturals, FiniteSets, Functions

CONSTANTS
  Tasks,         \* task ids
  AgentIds,      \* agent ids
  Accounts,      \* addresses that hold the token and call the contract
  This,          \* the contract's own address
  None,          \* the zero address and the zero id
  Amounts,       \* values approved and locked, and shares awarded
  Supply,        \* what each account holds of the token at first
  MaxDuration,   \* MAX_LOCK_DURATION
  MaxTime,       \* bound: the clock stops there, and every lock expires by then
  MaxStray       \* bound: nothing more is sent to the contract itself then

ASSUME UsdcAssumption ==
  /\ IsFiniteSet(Tasks)
  /\ IsFiniteSet(Accounts)
  /\ {This, None} \cap Accounts = {}
  /\ Amounts \subseteq Nat
  /\ Supply \in Nat
  /\ MaxDuration \in Nat
  /\ MaxTime \in Nat
  /\ MaxStray \in Nat

VARIABLES
  escrows,    \* the contract's mapping
  owner,      \* Ownable's owner
  held,       \* the contract's balance of the token
  balance,    \* the accounts' balances
  allowance,  \* what the contract may take from each account
  blocked,    \* accounts the token refuses to move anything from or to
  stray,      \* history: what was sent to the contract's own address
  paid,       \* history: what each escrow paid the agent and the depositor
  deposited,  \* history: what was locked for each task
  now         \* block.timestamp

cvars == <<escrows, owner, held, balance, allowance, blocked, stray, paid,
           deposited, now>>

States == {"None", "Locked", "Released", "Refunded", "Disputed"}

Escrow == [depositor: Accounts \cup {None}, agentId: AgentIds \cup {None},
           amount: Nat, lockedAt: 0..MaxTime, state: States]

NoEscrow == [depositor |-> None, agentId |-> None, amount |-> 0,
             lockedAt |-> 0, state |-> "None"]

Shares == [agent: Nat, depositor: Nat]
NoShares == [agent |-> 0, depositor |-> 0]

Init ==
  /\ escrows = [t \in Tasks |-> NoEscrow]
  /\ owner \in Accounts
  /\ held = 0
  /\ balance = [a \in Accounts |-> Supply]
  /\ allowance = [a \in Accounts |-> 0]
  /\ blocked = {}
  /\ stray = 0
  /\ paid = [t \in Tasks |-> NoShares]
  /\ deposited = [t \in Tasks |-> 0]
  /\ now = 0

InCharge(sender, t) == sender \in {escrows[t].depositor, owner}

-----------------------------------------------------------------------------
(* The token.                                                               *)

\* approve replaces the allowance, spent or not.
Approve(a, value) ==
  /\ a \notin blocked
  /\ allowance' = [allowance EXCEPT ![a] = value]
  /\ UNCHANGED <<escrows, owner, held, balance, blocked, stray, paid, deposited,
                 now>>

\* transfer: to the contract as to any other address, and no call of the
\* contract pays out what came in that way.
Transfer(a, value) ==
  /\ a \notin blocked
  /\ balance[a] >= value
  /\ stray + value <= MaxStray
  /\ balance' = [balance EXCEPT ![a] = @ - value]
  /\ held' = held + value
  /\ stray' = stray + value
  /\ UNCHANGED <<escrows, owner, allowance, blocked, paid, deposited, now>>

\* The issuer of the token blocks an account.
Block(a) ==
  /\ a \notin blocked
  /\ blocked' = blocked \cup {a}
  /\ UNCHANGED <<escrows, owner, held, balance, allowance, stray, paid, deposited,
                 now>>

MayTake(a, value) ==
  a \notin blocked /\ allowance[a] >= value /\ balance[a] >= value

\* Nothing is sent to an account with no share, so that a blocked one without
\* a share is no obstacle.
MayPay(a, value) == value > 0 => a \notin blocked

-----------------------------------------------------------------------------
(* The contract.                                                            *)

\* Mutant: the state of the task's escrow is not looked at.
LockableAnyState(t, sender, value) == value # 0 /\ MayTake(sender, value)

Lockable(t, sender, value) ==
  value # 0 /\ escrows[t].state = "None" /\ MayTake(sender, value)

LockFunds(t, agentId, sender, value) ==
  /\ Lockable(t, sender, value)
  /\ now + MaxDuration <= MaxTime  \* bound: the lock expires on the clock
  /\ balance' = [balance EXCEPT ![sender] = @ - value]
  /\ allowance' = [allowance EXCEPT ![sender] = @ - value]
  /\ held' = held + value
  /\ escrows' = [escrows EXCEPT ![t] =
                   [depositor |-> sender, agentId |-> agentId, amount |-> value,
                    lockedAt |-> now, state |-> "Locked"]]
  /\ deposited' = [deposited EXCEPT ![t] = value]
  /\ UNCHANGED <<owner, blocked, stray, paid, now>>

\* Mutant: the amount is left in the escrow.
PayOutKeeping(t, state, recipient, share, rest) ==
  LET depositor == escrows[t].depositor
      back == IF recipient = This THEN share ELSE 0
  IN
  /\ MayPay(recipient, share) /\ MayPay(depositor, rest)
  /\ stray + back <= MaxStray  \* bound
  /\ escrows' = [escrows EXCEPT ![t].state = state]
  /\ held' = held - (share + rest) + back
  /\ stray' = stray + back
  /\ balance' = [a \in Accounts |->
                   balance[a] + (IF a = recipient THEN share ELSE 0)
                              + (IF a = depositor THEN rest ELSE 0)]
  /\ paid' = [paid EXCEPT ![t] = [agent |-> @.agent + share,
                                  depositor |-> @.depositor + rest]]
  /\ UNCHANGED <<owner, allowance, blocked, deposited, now>>

\* The escrow is closed and its amount paid out, a share to the recipient and
\* the rest to the depositor.  The recipient may be the contract itself.
PayOut(t, state, recipient, share, rest) ==
  LET depositor == escrows[t].depositor
      back == IF recipient = This THEN share ELSE 0
  IN
  /\ MayPay(recipient, share) /\ MayPay(depositor, rest)
  /\ stray + back <= MaxStray  \* bound
  /\ escrows' = [escrows EXCEPT ![t].state = state, ![t].amount = 0]
  /\ held' = held - (share + rest) + back
  /\ stray' = stray + back
  /\ balance' = [a \in Accounts |->
                   balance[a] + (IF a = recipient THEN share ELSE 0)
                              + (IF a = depositor THEN rest ELSE 0)]
  /\ paid' = [paid EXCEPT ![t] = [agent |-> @.agent + share,
                                  depositor |-> @.depositor + rest]]
  /\ UNCHANGED <<owner, allowance, blocked, deposited, now>>

ReleaseFunds(t, sender, recipient) ==
  /\ escrows[t].state = "Locked"
  /\ InCharge(sender, t)
  /\ PayOut(t, "Released", recipient, escrows[t].amount, 0)

Refund(t, sender) ==
  /\ escrows[t].state = "Locked"
  /\ InCharge(sender, t)
  /\ PayOut(t, "Refunded", escrows[t].depositor, 0, escrows[t].amount)

DisputeEscrow(t, sender) ==
  /\ escrows[t].state = "Locked"
  /\ InCharge(sender, t)
  /\ escrows' = [escrows EXCEPT ![t].state = "Disputed"]
  /\ UNCHANGED <<owner, held, balance, allowance, blocked, stray, paid, deposited,
                 now>>

\* Mutant: an escrow is split that was never disputed.
ResolveUndisputed(t, sender, recipient, share) ==
  /\ escrows[t].state \in {"Disputed", "Locked"}
  /\ sender = owner
  /\ share <= escrows[t].amount
  /\ PayOut(t, "Released", recipient, share, escrows[t].amount - share)

\* Mutant: a share above the amount is accepted.
ResolveDisputeUnbounded(t, sender, recipient, share) ==
  /\ escrows[t].state = "Disputed"
  /\ sender = owner
  /\ PayOut(t, "Released", recipient, share, escrows[t].amount - share)

ResolveDispute(t, sender, recipient, share) ==
  /\ escrows[t].state = "Disputed"
  /\ sender = owner
  /\ share <= escrows[t].amount
  /\ PayOut(t, "Released", recipient, share, escrows[t].amount - share)

ExpiredRefund(t) ==
  /\ escrows[t].state = "Locked"
  /\ now >= escrows[t].lockedAt + MaxDuration
  /\ PayOut(t, "Refunded", escrows[t].depositor, 0, escrows[t].amount)

\* transferOwnership and renounceOwnership, inherited from Ownable.
ChangeOwner(sender, new) ==
  /\ sender = owner
  /\ owner' = new
  /\ UNCHANGED <<escrows, held, balance, allowance, blocked, stray, paid, deposited,
                 now>>

\* The next block.
Tick ==
  /\ now < MaxTime
  /\ now' = now + 1
  /\ UNCHANGED <<escrows, owner, held, balance, allowance, blocked, stray, paid,
                 deposited>>

Deposit(sender) ==
  \E value \in Amounts :
    \/ Approve(sender, value)
    \/ \E t \in Tasks, agentId \in AgentIds :
         LockFunds(t, agentId, sender, value)

Call(t, sender) ==
  \/ Refund(t, sender)
  \/ DisputeEscrow(t, sender)
  \/ \E recipient \in Accounts \cup {This} :
       \/ ReleaseFunds(t, sender, recipient)
       \/ \E share \in Amounts : ResolveDispute(t, sender, recipient, share)

Others ==
  \/ \E t \in Tasks, sender \in Accounts : Call(t, sender)
  \/ \E t \in Tasks : ExpiredRefund(t)
  \/ \E sender \in Accounts, new \in Accounts \cup {None} :
       ChangeOwner(sender, new)
  \/ \E a \in Accounts : Block(a)
  \/ \E a \in Accounts, value \in Amounts \ {0} : Transfer(a, value)
  \/ Tick

Next == Others \/ \E sender \in Accounts : Deposit(sender)

Spec == Init /\ [][Next]_cvars

-----------------------------------------------------------------------------
(* Properties.                                                              *)

\* The contract's storage and the token's are well formed.
TypeOK ==
  /\ escrows \in [Tasks -> Escrow]
  /\ owner \in Accounts \cup {None}
  /\ held \in Nat
  /\ balance \in [Accounts -> Nat]
  /\ allowance \in [Accounts -> Nat]
  /\ blocked \subseteq Accounts
  /\ stray \in Nat
  /\ paid \in [Tasks -> Shares]
  /\ deposited \in [Tasks -> Nat]
  /\ now \in 0..MaxTime

\* What an escrow holds and has paid is what was locked for it, and it holds
\* something exactly while it is locked or disputed.
Conserved ==
  \A t \in Tasks :
    /\ escrows[t].amount + paid[t].agent + paid[t].depositor = deposited[t]
    /\ (escrows[t].amount > 0) <=> (escrows[t].state \in {"Locked", "Disputed"})

\* The contract holds what its escrows hold, and beyond that only what was sent
\* to its own address; the accounts have the rest.  No sequence of locks and
\* payments overdraws it, strands anything else in it or takes a stray token
\* for an escrow's.
Backed ==
  /\ held = SumFunction([t \in Tasks |-> escrows[t].amount]) + stray
  /\ held + SumFunction(balance) = Supply * Cardinality(Accounts)

Phase(state) == CASE state = "None"     -> "empty"
                  [] state = "Locked"   -> "held"
                  [] state = "Disputed" -> "disputed"
                  [] OTHER              -> "settled"

\* The accounts of EscrowPromise, read off the storage.
ledger == [t \in Tasks |->
             [phase       |-> Phase(escrows[t].state),
              deposit     |-> deposited[t],
              toAgent     |-> paid[t].agent,
              toDepositor |-> paid[t].depositor]]

Promise == INSTANCE EscrowPromise WITH account <- ledger

\* The token contract keeps the promise the ETH contract keeps.
KeepsPromise == Promise!Spec

=============================================================================
