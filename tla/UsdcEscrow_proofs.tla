-------------------------- MODULE UsdcEscrow_proofs --------------------------
(***************************************************************************)
(* The token escrow conserves every deposit, holds what backs its escrows  *)
(* and implements EscrowPromise, and a card never reports a hire that its  *)
(* own lock does not pay for, for any tasks, accounts, amounts and prices. *)
(***************************************************************************)
EXTENDS HireCards, Sums_proofs

\* The storage's part of TypeOK; the token's is in MoneyInv below.
StoreOK ==
  /\ escrows \in [Tasks -> Escrow]
  /\ paid \in [Tasks -> Shares]
  /\ deposited \in [Tasks -> Nat]
  /\ now \in 0..MaxTime

\* Nothing is paid before the end, and nothing deposited before the lock.
NothingEarly ==
  \A t \in Tasks :
    /\ escrows[t].state \in {"None", "Locked", "Disputed"} => paid[t] = NoShares
    /\ escrows[t].state = "None" => deposited[t] = 0

StoreInv == StoreOK /\ NothingEarly /\ Conserved

\* What the contract's storage is left alone by.
svars == <<escrows, paid, deposited>>

\* A lock is for good: who made it, for whom and over how much never changes.
LockStands ==
  \A t \in Tasks : escrows[t].state # "None" =>
    /\ escrows'[t].state # "None"
    /\ escrows'[t].depositor = escrows[t].depositor
    /\ escrows'[t].agentId = escrows[t].agentId
    /\ deposited'[t] = deposited[t]

\* What every step of the contract does: it keeps the invariant, respects the
\* promise, and leaves the locks standing.
GoodStep == StoreInv' /\ (Promise!Next \/ ledger' = ledger) /\ LockStands

USE UsdcAssumption

-----------------------------------------------------------------------------
(* The steps.                                                               *)

\* A step that leaves the storage alone is a good one.
LEMMA IdleStep ==
  ASSUME StoreInv, UNCHANGED svars, now' \in 0..MaxTime
  PROVE  GoodStep
<1>1. StoreInv'
  BY DEF StoreInv, StoreOK, NothingEarly, Conserved, svars
<1>2. ledger' = ledger
  BY DEF ledger, svars
<1> QED
  BY <1>1, <1>2 DEF GoodStep, LockStands, svars

\* lockFunds opens the account of a task that had none.
LEMMA LockStep ==
  ASSUME StoreInv, NEW t \in Tasks, NEW c \in AgentIds, NEW a \in Accounts,
         NEW v \in Nat, LockFunds(t, c, a, v)
  PROVE  GoodStep
<1>1. escrows[t].state = "None" /\ v > 0 /\ now \in 0..MaxTime
  BY DEF LockFunds, Lockable, StoreInv, StoreOK
<1>2. escrows' = [escrows EXCEPT ![t] = [depositor |-> a, agentId |-> c,
                    amount |-> v, lockedAt |-> now, state |-> "Locked"]]
      /\ deposited' = [deposited EXCEPT ![t] = v] /\ paid' = paid /\ now' = now
  BY DEF LockFunds
<1>3. StoreOK'
  <2>1. [depositor |-> a, agentId |-> c, amount |-> v, lockedAt |-> now,
         state |-> "Locked"] \in Escrow
    BY <1>1 DEF Escrow, States
  <2> QED
    BY <1>2, <2>1 DEF StoreInv, StoreOK
<1>4. paid[t] = NoShares /\ deposited[t] = 0
  BY <1>1 DEF StoreInv, NothingEarly
<1>5. NothingEarly' /\ Conserved'
  BY <1>1, <1>2, <1>4 DEF StoreInv, StoreOK, NothingEarly, Conserved, Escrow, NoShares
<1>6. \A u \in Tasks : u # t => ledger'[u] = ledger[u]
  BY <1>2 DEF ledger, StoreInv, StoreOK
<1>7. ledger[t] = Promise!Empty
  BY <1>1, <1>4 DEF ledger, Phase, Promise!Empty, NoShares
<1>8. ledger'[t] = [phase |-> "held", deposit |-> v, toAgent |-> 0, toDepositor |-> 0]
  BY <1>2, <1>4 DEF ledger, Phase, NoShares, StoreInv, StoreOK
<1>9. Promise!Opened(ledger[t], ledger'[t])
  BY <1>1, <1>7, <1>8 DEF Promise!Opened
<1>10. Promise!Next
  BY <1>6, <1>9 DEF Promise!Next
<1>11. LockStands
  BY <1>1, <1>2 DEF LockStands, StoreInv, StoreOK
<1> QED
  BY <1>3, <1>5, <1>10, <1>11 DEF GoodStep, StoreInv

\* Releasing, refunding, recovering and resolving all pay an escrow out.
LEMMA PayStep ==
  ASSUME StoreInv, NEW t \in Tasks, NEW state \in {"Released", "Refunded"},
         NEW recipient, NEW share \in Nat, NEW rest \in Nat,
         escrows[t].state \in {"Locked", "Disputed"},
         share + rest = escrows[t].amount,
         escrows[t].state = "Locked" => 0 \in {share, rest},
         PayOut(t, state, recipient, share, rest)
  PROVE  GoodStep
<1>1. escrows' = [escrows EXCEPT ![t].state = state, ![t].amount = 0]
      /\ paid' = [paid EXCEPT ![t] = [agent |-> @.agent + share,
                                      depositor |-> @.depositor + rest]]
      /\ deposited' = deposited /\ now' = now
  BY DEF PayOut
<1>2. StoreOK'
  <2>1. [escrows[t] EXCEPT !.state = state, !.amount = 0] \in Escrow
    BY DEF StoreInv, StoreOK, Escrow, States
  <2>2. [agent |-> paid[t].agent + share, depositor |-> paid[t].depositor + rest]
          \in Shares
    BY DEF StoreInv, StoreOK, Shares
  <2>3. escrows' \in [Tasks -> Escrow]
    BY <1>1, <2>1 DEF StoreInv, StoreOK
  <2>4. paid' \in [Tasks -> Shares]
    BY <1>1, <2>2 DEF StoreInv, StoreOK
  <2> QED
    BY <1>1, <2>3, <2>4 DEF StoreInv, StoreOK
<1>3. paid[t] = NoShares
  BY DEF StoreInv, NothingEarly
<1>4. paid'[t] = [agent |-> share, depositor |-> rest]
  BY <1>1, <1>3 DEF StoreInv, StoreOK, NoShares
<1>5. escrows'[t].amount = 0 /\ escrows'[t].state = state
      /\ \A u \in Tasks : u # t => escrows'[u] = escrows[u] /\ paid'[u] = paid[u]
  BY <1>1 DEF StoreInv, StoreOK, Escrow
<1>6. deposited[t] = share + rest
  BY <1>3 DEF StoreInv, StoreOK, Conserved, NoShares, Escrow
<1>7. NothingEarly'
  BY <1>1, <1>5 DEF StoreInv, NothingEarly
<1>8. Conserved'
  BY <1>1, <1>4, <1>5, <1>6 DEF StoreInv, StoreOK, Conserved
<1>9. \A u \in Tasks : u # t => ledger'[u] = ledger[u]
  BY <1>1, <1>5 DEF ledger
<1>10. ledger'[t] = [phase |-> "settled", deposit |-> deposited[t],
                     toAgent |-> share, toDepositor |-> rest]
  <2>1. ledger'[t] = [phase |-> Phase(escrows'[t].state), deposit |-> deposited'[t],
                      toAgent |-> paid'[t].agent, toDepositor |-> paid'[t].depositor]
    BY DEF ledger
  <2>2. Phase(state) = "settled"
    BY DEF Phase
  <2> QED
    BY <1>1, <1>4, <1>5, <2>1, <2>2
<1>11. /\ ledger[t].phase \in {"held", "disputed"}
       /\ ledger[t].deposit = deposited[t]
       /\ ledger[t].phase = "held" => escrows[t].state = "Locked"
  BY DEF ledger, Phase
<1>12. Promise!Settled(ledger[t], ledger'[t])
  BY <1>6, <1>10, <1>11 DEF Promise!Settled
<1>13. Promise!Next
  BY <1>9, <1>12 DEF Promise!Next
<1>14. LockStands
  BY <1>1 DEF LockStands, StoreInv, StoreOK, Escrow
<1> QED
  BY <1>2, <1>7, <1>8, <1>13, <1>14 DEF GoodStep, StoreInv

\* disputeEscrow only marks the escrow.
LEMMA DisputeStep ==
  ASSUME StoreInv, NEW t \in Tasks, NEW a \in Accounts, DisputeEscrow(t, a)
  PROVE  GoodStep
<1>1. escrows' = [escrows EXCEPT ![t].state = "Disputed"] /\ escrows[t].state = "Locked"
      /\ paid' = paid /\ deposited' = deposited /\ now' = now
  BY DEF DisputeEscrow
<1>2. StoreOK'
  BY <1>1 DEF StoreInv, StoreOK, Escrow, States
<1>3. NothingEarly' /\ Conserved'
  BY <1>1 DEF StoreInv, StoreOK, NothingEarly, Conserved, Escrow
<1>4. \A u \in Tasks : u # t => ledger'[u] = ledger[u]
  BY <1>1 DEF ledger, StoreInv, StoreOK
<1>5. ledger'[t] = [ledger[t] EXCEPT !.phase = "disputed"] /\ ledger[t].phase = "held"
  BY <1>1 DEF ledger, Phase, StoreInv, StoreOK, Escrow
<1>6. Promise!Next
  BY <1>4, <1>5 DEF Promise!Next, Promise!Disputed
<1>7. LockStands
  BY <1>1 DEF LockStands, StoreInv, StoreOK, Escrow
<1> QED
  BY <1>2, <1>3, <1>6, <1>7 DEF GoodStep, StoreInv

\* Every step but a deposit.
LEMMA OtherStep == ASSUME StoreInv, Others PROVE GoodStep
<1> USE DEF StoreInv, StoreOK, Escrow
<1>1. ASSUME NEW t \in Tasks, NEW a \in Accounts, Call(t, a) PROVE GoodStep
  <2>1. CASE Refund(t, a)
    BY <2>1, PayStep DEF Refund
  <2>2. CASE DisputeEscrow(t, a)
    BY <2>2, DisputeStep
  <2>3. ASSUME NEW r \in Accounts \cup {This}, ReleaseFunds(t, a, r) PROVE GoodStep
    BY <2>3, PayStep DEF ReleaseFunds
  <2>4. ASSUME NEW r \in Accounts \cup {This}, NEW share \in Amounts,
               ResolveDispute(t, a, r, share)
        PROVE  GoodStep
    <3>1. share \in Nat /\ share <= escrows[t].amount
          /\ escrows[t].amount - share \in Nat
          /\ share + (escrows[t].amount - share) = escrows[t].amount
      BY <2>4 DEF ResolveDispute
    <3>2. escrows[t].state = "Disputed"
          /\ PayOut(t, "Released", r, share, escrows[t].amount - share)
      BY <2>4 DEF ResolveDispute
    <3> QED
      BY <3>1, <3>2, PayStep
  <2> QED
    BY <1>1, <2>1, <2>2, <2>3, <2>4 DEF Call
<1>2. ASSUME NEW t \in Tasks, ExpiredRefund(t) PROVE GoodStep
  BY <1>2, PayStep DEF ExpiredRefund
<1>3. ASSUME NEW a \in Accounts, NEW new \in Accounts \cup {None}, ChangeOwner(a, new)
      PROVE  GoodStep
  BY <1>3, IdleStep DEF ChangeOwner, svars
<1>4. ASSUME NEW a \in Accounts, Block(a) PROVE GoodStep
  BY <1>4, IdleStep DEF Block, svars
<1>5. CASE Tick
  BY <1>5, IdleStep DEF Tick, svars
<1>6. ASSUME NEW a \in Accounts, NEW v \in Amounts \ {0}, Transfer(a, v) PROVE GoodStep
  BY <1>6, IdleStep DEF Transfer, svars
<1> QED
  BY <1>1, <1>2, <1>3, <1>4, <1>5, <1>6 DEF Others

\* A step that changes nothing of the contract.
LEMMA StutterStep == ASSUME StoreInv, UNCHANGED cvars PROVE GoodStep
  BY IdleStep DEF cvars, svars, StoreInv, StoreOK

\* The contract starts empty, as the promise does.
LEMMA StoreInitial == Init => StoreInv /\ Promise!Init
<1> SUFFICES ASSUME Init PROVE StoreInv /\ Promise!Init
  OBVIOUS
<1>1. StoreInv
  BY DEF Init, StoreInv, StoreOK, NothingEarly, Conserved, NoEscrow, NoShares,
         Escrow, Shares, States
<1>2. Promise!Init
  BY DEF Init, Promise!Init, Promise!Empty, ledger, Phase, NoEscrow, NoShares
<1> QED
  BY <1>1, <1>2

-----------------------------------------------------------------------------
(* The contract on its own.                                                 *)

\* Every step of the contract keeps its storage and implements the promise.
LEMMA ContractStep == ASSUME StoreInv, [Next]_cvars PROVE GoodStep
<1>1. ASSUME NEW a \in Accounts, Deposit(a) PROVE GoodStep
  <2>1. ASSUME NEW v \in Amounts, Approve(a, v) PROVE GoodStep
    BY <2>1, IdleStep DEF Approve, svars, StoreInv, StoreOK
  <2> QED
    BY <1>1, <2>1, LockStep DEF Deposit
<1> QED
  BY <1>1, OtherStep, StutterStep DEF Next

\* A token escrow pays out exactly what was locked, however calls are ordered
\* (EliosUSDCEscrow.sol:63-180).
THEOREM UsdcConserved == Spec => []Conserved
<1>1. StoreInv /\ [Next]_cvars => StoreInv'
  BY ContractStep DEF GoodStep
<1>2. StoreInv => Conserved
  BY DEF StoreInv
<1> QED
  BY StoreInitial, <1>1, <1>2, PTL DEF Spec

\* The token contract implements the promise of the ETH one: every step is a
\* step of EscrowPromise or a stutter (EliosUSDCEscrow.sol:63-180).
THEOREM UsdcKeepsPromise == Spec => KeepsPromise
<1>1. StoreInv /\ [Next]_cvars => StoreInv'
  BY ContractStep DEF GoodStep
<1>2. StoreInv /\ [Next]_cvars => [Promise!Next]_ledger
  BY ContractStep DEF GoodStep
<1> QED
  BY StoreInitial, <1>1, <1>2, PTL DEF Spec, KeepsPromise, Promise!Spec

-----------------------------------------------------------------------------
(* The cards.                                                               *)

\* A card that is under way has a task.
CardOK ==
  /\ card \in [AgentIds -> Card]
  /\ \A c \in AgentIds : card[c].at \notin {"idle", "error"} => card[c].t \in Tasks

CardInv == StoreInv /\ CardOK /\ HiredIsFunded

Funded(c) ==
  /\ escrows[card[c].t].state # "None"
  /\ escrows[card[c].t].depositor = user
  /\ escrows[card[c].t].agentId = c
  /\ deposited[card[c].t] = Price[c]

\* A card that reports a hire, by name.
LEMMA HiredAreFunded ==
  HiredIsFunded <=>
    \A c \in AgentIds : card[c].at \in {"confirming", "hired"} => Funded(c)
  BY DEF HiredIsFunded, Funded

\* Every step of a card keeps the invariant; what it does to the contract
\* implements the promise.
LEMMA CardInductive ==
  ASSUME CardInv, [CardNext]_hvars
  PROVE  CardInv' /\ (Promise!Next \/ ledger' = ledger)
<1> USE CardAssumption DEF CardInv
<1>1. ASSUME GoodStep, CardOK',
             \A c \in AgentIds : card'[c].at \in {"confirming", "hired"} =>
               card[c].at \in {"confirming", "hired"} /\ card'[c].t = card[c].t
      PROVE  CardInv' /\ (Promise!Next \/ ledger' = ledger)
  <2>1. ASSUME NEW c \in AgentIds, card'[c].at \in {"confirming", "hired"}
        PROVE  Funded(c)'
    <3>1. card[c].at \in {"confirming", "hired"} /\ card'[c].t = card[c].t
      BY <1>1, <2>1
    <3>2. card[c].t \in Tasks
      BY <3>1 DEF CardOK
    <3>3. Funded(c)
      BY <3>1, HiredAreFunded
    <3> QED
      BY <1>1, <3>1, <3>2, <3>3 DEF GoodStep, LockStands, Funded
  <2>2. HiredIsFunded'
    BY <2>1 DEF HiredIsFunded, Funded
  <2> QED
    BY <1>1, <2>2 DEF GoodStep
<1>2. CASE Others /\ UNCHANGED card
  BY <1>1, <1>2, OtherStep DEF CardOK
<1>3. CASE UNCHANGED hvars
  BY <1>1, <1>3, StutterStep DEF CardOK, hvars
<1>4. ASSUME NEW c \in AgentIds, UseCard(c)
      PROVE  CardInv' /\ (Promise!Next \/ ledger' = ledger)
  <2> USE DEF CardOK, Card, Stages
  <2>1. ASSUME NEW t \in Tasks, PickTask(c, t) PROVE CardInv' /\ (Promise!Next \/ ledger' = ledger)
    BY <1>1, <2>1, StutterStep DEF PickTask
  <2>2. CASE Sign(c)
    BY <1>1, <2>2, StutterStep DEF Sign, CardGoes
  <2>0. ASSUME NEW from, CardFails(c, from), UNCHANGED cvars
        PROVE  CardInv' /\ (Promise!Next \/ ledger' = ledger)
    <3>1. card' = [card EXCEPT ![c] = [at |-> "error", t |-> None]]
      BY <2>0 DEF CardFails
    <3>2. card' \in [AgentIds -> Card]
      BY <1>1, <3>1
    <3>3. \A d \in AgentIds : card'[d].at # "error" => card'[d] = card[d]
      BY <1>1, <3>1
    <3> QED
      BY <1>1, <2>0, <3>2, <3>3, StutterStep
  <2>3. CASE Decline(c)
    BY <2>3, <2>0 DEF Decline
  <2>4. CASE Register(c)
    <3>1. CASE CardGoes(c, "confirming", "hired")
      BY <1>1, <2>4, <3>1, StutterStep DEF Register, CardGoes
    <3> QED
      BY <2>4, <2>0, <3>1 DEF Register
  <2>5. CASE MineApproval(c)
    <3>1. GoodStep
      BY <2>5, IdleStep DEF MineApproval, Approve, svars, StoreInv, StoreOK
    <3> QED
      BY <1>1, <2>5, <3>1 DEF MineApproval, CardGoes
  <2>6. CASE MineLock(c)
    <3>1. card[c].t \in Tasks /\ card[c].at = "locking"
          /\ card' = [card EXCEPT ![c].at = "confirming"]
          /\ LockFunds(card[c].t, c, user, Price[c])
      BY <2>6 DEF MineLock, CardGoes
    <3>2. GoodStep
      BY <3>1, LockStep
    <3>3. card'[c].t = card[c].t
      BY <3>1
    <3>4. Funded(c)'
      BY <3>1, <3>3 DEF LockFunds, StoreInv, StoreOK, Funded
    <3>5. CardOK'
      BY <3>1
    <3>6. ASSUME NEW d \in AgentIds, d # c, card'[d].at \in {"confirming", "hired"}
          PROVE  Funded(d)'
      <4>1. card'[d] = card[d] /\ card[d].t \in Tasks
        BY <3>1, <3>6
      <4>2. Funded(d)
        BY <3>6, <4>1, HiredAreFunded
      <4> QED
        BY <3>2, <4>1, <4>2 DEF GoodStep, LockStands, Funded
    <3>7. HiredIsFunded'
      BY <3>4, <3>6 DEF HiredIsFunded, Funded
    <3> QED
      BY <3>2, <3>5, <3>7 DEF GoodStep
  <2> QED
    BY <1>4, <2>1, <2>2, <2>3, <2>4, <2>5, <2>6 DEF UseCard
<1> QED
  BY <1>2, <1>3, <1>4 DEF CardNext

\* The invariant holds at first.
LEMMA CardInitial == CardInit => CardInv
  BY StoreInitial DEF CardInit, CardInv, CardOK, Card, Stages, HiredIsFunded

\* A card that calls the hire route, or shows its agent hired, has paid for it
\* with its own lock (AgentCard.tsx:103-137, useEscrow.ts:230-299).
THEOREM CardsAreFunded == CardSpec => []HiredIsFunded
<1>1. CardInv /\ [CardNext]_hvars => CardInv'
  BY CardInductive
<1>2. CardInv => HiredIsFunded
  BY DEF CardInv
<1> QED
  BY CardInitial, <1>1, <1>2, PTL DEF CardSpec

-----------------------------------------------------------------------------
(* The token's side: the balances, and what backs the escrows.              *)

Amount == [t \in Tasks |-> escrows[t].amount]

MoneyInv ==
  /\ owner \in Accounts \cup {None}
  /\ balance \in [Accounts -> Nat]
  /\ allowance \in [Accounts -> Nat]
  /\ blocked \subseteq Accounts
  /\ stray \in Nat
  /\ \A t \in Tasks : escrows[t].state # "None" => escrows[t].depositor \in Accounts
  /\ Backed

\* What is held backs the escrows, in terms of the sums' lemmas.
LEMMA BackedSums ==
  ASSUME StoreOK, balance \in [Accounts -> Nat]
  PROVE  /\ Backed <=> /\ held = SumFunctionOnSet(Amount, Tasks) + stray
                       /\ held + SumFunctionOnSet(balance, Accounts)
                            = Supply * Cardinality(Accounts)
         /\ \A t \in Tasks : Amount[t] = escrows[t].amount /\ Amount[t] \in Nat
         /\ SumFunctionOnSet(Amount, Tasks) \in Nat
         /\ SumFunctionOnSet(balance, Accounts) \in Nat
<1>1. \A t \in Tasks : Amount[t] = escrows[t].amount /\ Amount[t] \in Nat
  BY DEF Amount, StoreOK, Escrow
<1>2. DOMAIN Amount = Tasks /\ DOMAIN balance = Accounts
  BY DEF Amount
<1>3. SumFunctionOnSet(Amount, Tasks) \in Nat
  BY <1>1, SumNat
<1>4. SumFunctionOnSet(balance, Accounts) \in Nat
  BY SumNat
<1> QED
  BY <1>1, <1>2, <1>3, <1>4 DEF Backed, SumFunction, Amount

\* One escrow's amount changes, and with it the sum.
LEMMA AmountChanges ==
  ASSUME StoreOK, StoreOK', NEW t \in Tasks, NEW v \in Nat,
         \A u \in Tasks : escrows'[u].amount = IF u = t THEN v ELSE escrows[u].amount
  PROVE  /\ SumFunctionOnSet(Amount', Tasks)
              = SumFunctionOnSet(Amount, Tasks) - escrows[t].amount + v
         /\ escrows[t].amount <= SumFunctionOnSet(Amount, Tasks)
<1> DEFINE f == Amount
           g == Amount'
<1>1. \A u \in Tasks : f[u] = escrows[u].amount /\ g[u] = escrows'[u].amount
  BY DEF Amount
<1>2. \A u \in Tasks : f[u] \in Nat /\ g[u] \in Nat
  BY <1>1 DEF StoreOK, Escrow
<1>3. \A u \in Tasks : u # t => f[u] = g[u]
  BY <1>1
<1> HIDE DEF f, g
<1>4. /\ SumFunctionOnSet(g, Tasks) = SumFunctionOnSet(f, Tasks) - f[t] + g[t]
      /\ f[t] <= SumFunctionOnSet(f, Tasks)
  BY <1>2, <1>3, SumUpdate
<1>5. f[t] = escrows[t].amount /\ g[t] = v
  BY <1>1
<1> QED
  BY <1>4, <1>5 DEF f, g

\* What one account receives is added to the sum of the balances.
LEMMA Receives ==
  ASSUME NEW f \in [Accounts -> Nat], NEW a \in Accounts, NEW v \in Nat,
         NEW g \in [Accounts -> Nat],
         \A b \in Accounts : g[b] = IF b = a THEN f[b] + v ELSE f[b]
  PROVE  SumFunctionOnSet(g, Accounts) = SumFunctionOnSet(f, Accounts) + v
<1>1. g[a] = f[a] + v
  OBVIOUS
<1>2. \A b \in Accounts : b # a => f[b] = g[b]
  OBVIOUS
<1>3. SumFunctionOnSet(g, Accounts) = SumFunctionOnSet(f, Accounts) - f[a] + g[a]
  BY <1>1, <1>2, SumUpdate
<1>4. SumFunctionOnSet(f, Accounts) \in Nat /\ f[a] \in Nat
  BY SumNat
<1> QED
  BY <1>1, <1>3, <1>4

\* The step from one backed state to another: the contract's balance moves
\* with the escrows, the accounts' balances against it.
LEMMA StaysBacked ==
  ASSUME StoreOK, StoreOK', MoneyInv,
         owner' \in Accounts \cup {None}, balance' \in [Accounts -> Nat],
         allowance' \in [Accounts -> Nat], blocked' \subseteq Accounts,
         \A t \in Tasks : escrows'[t].state # "None" => escrows'[t].depositor \in Accounts,
         stray' \in Nat, held' = SumFunctionOnSet(Amount', Tasks) + stray',
         held' + SumFunctionOnSet(balance', Accounts)
           = held + SumFunctionOnSet(balance, Accounts)
  PROVE  MoneyInv'
<1>1. held + SumFunctionOnSet(balance, Accounts) = Supply * Cardinality(Accounts)
  BY BackedSums DEF MoneyInv
<1>2. DOMAIN Amount' = Tasks /\ DOMAIN balance' = Accounts
  BY DEF Amount
<1>3. Backed'
  BY <1>1, <1>2 DEF Backed, SumFunction, Amount
<1> QED
  BY <1>3 DEF MoneyInv

\* A step that leaves escrows' amounts, the contract's balance and the others'
\* alone.
LEMMA MoneyIdle ==
  ASSUME StoreOK, StoreOK', MoneyInv, UNCHANGED <<held, balance, stray>>,
         owner' \in Accounts \cup {None},
         allowance' \in [Accounts -> Nat], blocked' \subseteq Accounts,
         \A t \in Tasks : escrows'[t].state # "None" => escrows'[t].depositor \in Accounts,
         \A t \in Tasks : escrows'[t].amount = escrows[t].amount
  PROVE  MoneyInv'
<1>1. Amount' = Amount
  BY DEF Amount
<1>2. held = SumFunctionOnSet(Amount, Tasks) + stray
  BY BackedSums DEF MoneyInv
<1> QED
  BY <1>1, <1>2, StaysBacked DEF MoneyInv

\* lockFunds moves the value from the sender to the contract.
LEMMA MoneyLock ==
  ASSUME StoreInv, StoreInv', MoneyInv, NEW t \in Tasks, NEW c, NEW a \in Accounts,
         NEW v \in Nat, LockFunds(t, c, a, v)
  PROVE  MoneyInv'
<1>1. /\ escrows[t].state = "None" /\ v <= balance[a] /\ v <= allowance[a]
      /\ balance' = [balance EXCEPT ![a] = @ - v]
      /\ allowance' = [allowance EXCEPT ![a] = @ - v]
      /\ held' = held + v
      /\ escrows' = [escrows EXCEPT ![t] =
           [depositor |-> a, agentId |-> c, amount |-> v, lockedAt |-> now,
            state |-> "Locked"]]
      /\ owner' = owner /\ blocked' = blocked /\ stray' = stray
  BY DEF LockFunds, Lockable, MayTake, MoneyInv
<1>2. StoreOK /\ StoreOK'
  BY DEF StoreInv
<1>3. escrows[t].amount = 0
  BY <1>1, <1>2 DEF StoreInv, StoreOK, Conserved, Escrow
<1>4. \A u \in Tasks : escrows'[u].amount = IF u = t THEN v ELSE escrows[u].amount
  BY <1>1, <1>2 DEF StoreOK
<1>5. SumFunctionOnSet(Amount', Tasks) = SumFunctionOnSet(Amount, Tasks) - 0 + v
  BY <1>2, <1>3, <1>4, AmountChanges
<1>6. balance \in [Accounts -> Nat] /\ balance' \in [Accounts -> Nat]
      /\ allowance' \in [Accounts -> Nat]
  BY <1>1 DEF MoneyInv
<1>7. \A b \in Accounts : balance[b] = IF b = a THEN balance'[b] + v ELSE balance'[b]
  BY <1>1, <1>6
<1>8. SumFunctionOnSet(balance, Accounts) = SumFunctionOnSet(balance', Accounts) + v
  <2>1. balance \in [Accounts -> Nat] /\ balance' \in [Accounts -> Nat]
    BY <1>6
  <2> QED
    BY <1>7, <2>1, Receives
<1>9. /\ held = SumFunctionOnSet(Amount, Tasks) + stray /\ held \in Nat /\ stray \in Nat
      /\ SumFunctionOnSet(Amount, Tasks) \in Nat
      /\ SumFunctionOnSet(balance, Accounts) \in Nat
  BY <1>2, <1>6, BackedSums DEF MoneyInv
<1>10. SumFunctionOnSet(balance', Accounts) \in Nat
  BY <1>6, SumNat
<1>11. \A u \in Tasks : escrows'[u].state # "None" => escrows'[u].depositor \in Accounts
  BY <1>1, <1>2 DEF StoreOK, MoneyInv
<1>12. /\ held' = SumFunctionOnSet(Amount', Tasks) + stray'
       /\ held' + SumFunctionOnSet(balance', Accounts)
            = held + SumFunctionOnSet(balance, Accounts)
  BY <1>1, <1>5, <1>8, <1>9, <1>10
<1> QED
  BY <1>1, <1>2, <1>6, <1>11, <1>12, StaysBacked DEF MoneyInv

\* A payout moves the amount from the contract to the two accounts, or leaves
\* the share with the contract if that is the recipient.
LEMMA MoneyPay ==
  ASSUME StoreInv, StoreInv', MoneyInv, NEW t \in Tasks,
         NEW state \in {"Released", "Refunded"},
         NEW recipient \in Accounts \cup {This}, NEW share \in Nat, NEW rest \in Nat,
         escrows[t].state \in {"Locked", "Disputed"},
         share + rest = escrows[t].amount,
         PayOut(t, state, recipient, share, rest)
  PROVE  MoneyInv'
<1> DEFINE depositor == escrows[t].depositor
           mid == [a \in Accounts |->
                     balance[a] + (IF a = recipient THEN share ELSE 0)]
           back == IF recipient = This THEN share ELSE 0
<1>1. /\ escrows' = [escrows EXCEPT ![t].state = state, ![t].amount = 0]
      /\ held' = held - (share + rest) + back /\ stray' = stray + back
      /\ balance' = [a \in Accounts |-> mid[a] + (IF a = depositor THEN rest ELSE 0)]
      /\ owner' = owner /\ allowance' = allowance /\ blocked' = blocked
  BY DEF PayOut
<1>2. StoreOK /\ StoreOK' /\ balance \in [Accounts -> Nat]
  BY DEF StoreInv, MoneyInv
<1>3. depositor \in Accounts
  BY DEF MoneyInv
<1>4. /\ mid \in [Accounts -> Nat]
      /\ \A a \in Accounts :
           mid[a] = IF a = recipient THEN balance[a] + share ELSE balance[a]
  BY <1>2
<1>12. back \in Nat /\ back <= share
  OBVIOUS
<1>13. back = (IF recipient \in Accounts THEN 0 ELSE share)
  OBVIOUS
<1> HIDE DEF mid, depositor, back
<1>5. /\ balance' \in [Accounts -> Nat]
      /\ \A a \in Accounts :
           balance'[a] = IF a = depositor THEN mid[a] + rest ELSE mid[a]
  BY <1>1, <1>4
<1>11. /\ SumFunctionOnSet(mid, Accounts)
            = SumFunctionOnSet(balance, Accounts) + (share - back)
       /\ SumFunctionOnSet(balance', Accounts) = SumFunctionOnSet(mid, Accounts) + rest
  <2>0. SumFunctionOnSet(balance, Accounts) \in Nat
    BY <1>2, SumNat
  <2>1. SumFunctionOnSet(mid, Accounts)
          = SumFunctionOnSet(balance, Accounts) + (share - back)
    <3>1. CASE recipient \in Accounts
      <4>1. SumFunctionOnSet(mid, Accounts) = SumFunctionOnSet(balance, Accounts) + share
        BY <1>2, <1>4, <3>1, Receives
      <4> QED
        BY <1>13, <3>1, <4>1
    <3>2. CASE recipient \notin Accounts
      <4>1. mid = balance /\ share - back = 0
        BY <1>2, <1>4, <1>13, <3>2
      <4> QED
        BY <2>0, <4>1
    <3> QED
      BY <3>1, <3>2
  <2>2. SumFunctionOnSet(balance', Accounts) = SumFunctionOnSet(mid, Accounts) + rest
    <3>1. PICK d \in Accounts : d = depositor
      BY <1>3
    <3>2. \A a \in Accounts : balance'[a] = IF a = d THEN mid[a] + rest ELSE mid[a]
      BY <1>5, <3>1
    <3> QED BY <1>4, <1>5, <3>2, Receives
  <2> QED BY <2>1, <2>2
<1>6. \A u \in Tasks : escrows'[u].amount = IF u = t THEN 0 ELSE escrows[u].amount
  BY <1>1, <1>2 DEF StoreOK, Escrow
<1>7. /\ SumFunctionOnSet(Amount', Tasks)
           = SumFunctionOnSet(Amount, Tasks) - escrows[t].amount + 0
      /\ escrows[t].amount <= SumFunctionOnSet(Amount, Tasks)
  BY <1>2, <1>6, AmountChanges
<1>8. /\ held = SumFunctionOnSet(Amount, Tasks) + stray /\ held \in Nat /\ stray \in Nat
      /\ SumFunctionOnSet(Amount, Tasks) \in Nat
      /\ SumFunctionOnSet(balance, Accounts) \in Nat
  BY <1>2, BackedSums DEF MoneyInv
<1>9. \A u \in Tasks : escrows'[u].state # "None" => escrows'[u].depositor \in Accounts
  BY <1>1, <1>2 DEF StoreOK, MoneyInv, Escrow
<1>10. /\ held' = SumFunctionOnSet(Amount', Tasks) + stray' /\ stray' \in Nat
       /\ held' + SumFunctionOnSet(balance', Accounts)
            = held + SumFunctionOnSet(balance, Accounts)
  BY <1>1, <1>7, <1>8, <1>11, <1>12
<1> QED
  BY <1>1, <1>2, <1>5, <1>9, <1>10, StaysBacked DEF MoneyInv

\* A transfer to the contract moves the value there, where it is stray.
LEMMA MoneyTransfer ==
  ASSUME StoreInv, StoreInv', MoneyInv, NEW a \in Accounts, NEW v \in Nat,
         Transfer(a, v)
  PROVE  MoneyInv'
<1>1. /\ v <= balance[a] /\ balance' = [balance EXCEPT ![a] = @ - v]
      /\ held' = held + v /\ stray' = stray + v
      /\ UNCHANGED <<escrows, owner, allowance, blocked>>
  BY DEF Transfer
<1>2. StoreOK /\ StoreOK' /\ Amount' = Amount
  BY <1>1 DEF StoreInv, Amount
<1>3. balance \in [Accounts -> Nat] /\ balance' \in [Accounts -> Nat]
  BY <1>1 DEF MoneyInv
<1>4. \A b \in Accounts : balance[b] = IF b = a THEN balance'[b] + v ELSE balance'[b]
  BY <1>1, <1>3
<1>5. SumFunctionOnSet(balance, Accounts) = SumFunctionOnSet(balance', Accounts) + v
  BY <1>3, <1>4, Receives
<1>6. /\ held = SumFunctionOnSet(Amount, Tasks) + stray /\ held \in Nat /\ stray \in Nat
      /\ SumFunctionOnSet(Amount, Tasks) \in Nat
      /\ SumFunctionOnSet(balance, Accounts) \in Nat
  BY <1>2, <1>3, BackedSums DEF MoneyInv
<1>7. SumFunctionOnSet(balance', Accounts) \in Nat
  BY <1>3, SumNat
<1>8. /\ held' = SumFunctionOnSet(Amount', Tasks) + stray' /\ stray' \in Nat
      /\ held' + SumFunctionOnSet(balance', Accounts)
           = held + SumFunctionOnSet(balance, Accounts)
  BY <1>1, <1>2, <1>5, <1>6, <1>7
<1> QED
  BY <1>1, <1>2, <1>3, <1>8, StaysBacked DEF MoneyInv

\* The other calls: each pays what an escrow holds, or moves no money.
LEMMA MoneyOthers ==
  ASSUME StoreInv, StoreInv', MoneyInv, Others
  PROVE  MoneyInv'
<1>0. StoreOK /\ StoreOK'
  BY DEF StoreInv
<1>1. ASSUME NEW t \in Tasks, NEW a \in Accounts, Call(t, a) PROVE MoneyInv'
  <2>0. escrows[t].amount \in Nat
    BY <1>0 DEF StoreOK, Escrow
  <2>1. CASE Refund(t, a)
    BY <2>0, <2>1, MoneyPay DEF Refund, MoneyInv
  <2>2. CASE DisputeEscrow(t, a)
    BY <1>0, <2>2, MoneyIdle DEF DisputeEscrow, StoreOK, Escrow, MoneyInv
  <2>3. ASSUME NEW r \in Accounts \cup {This}, ReleaseFunds(t, a, r) PROVE MoneyInv'
    <3>1. /\ escrows[t].state = "Locked"
          /\ PayOut(t, "Released", r, escrows[t].amount, 0)
          /\ escrows[t].amount + 0 = escrows[t].amount
      BY <2>0, <2>3 DEF ReleaseFunds
    <3> QED
      BY <2>0, <3>1, MoneyPay
  <2>4. ASSUME NEW r \in Accounts \cup {This}, NEW share \in Amounts,
               ResolveDispute(t, a, r, share)
        PROVE  MoneyInv'
    <3>1. share \in Nat /\ share <= escrows[t].amount
          /\ escrows[t].amount - share \in Nat
          /\ share + (escrows[t].amount - share) = escrows[t].amount
      BY <2>0, <2>4 DEF ResolveDispute
    <3>2. escrows[t].state = "Disputed"
          /\ PayOut(t, "Released", r, share, escrows[t].amount - share)
      BY <2>4 DEF ResolveDispute
    <3> QED
      BY <3>1, <3>2, MoneyPay
  <2> QED
    BY <1>1, <2>1, <2>2, <2>3, <2>4 DEF Call
<1>2. ASSUME NEW t \in Tasks, ExpiredRefund(t) PROVE MoneyInv'
  <2>1. escrows[t].amount \in Nat
    BY <1>0 DEF StoreOK, Escrow
  <2> QED
    BY <1>2, <2>1, MoneyPay DEF ExpiredRefund, MoneyInv
<1>3. ASSUME NEW a \in Accounts, NEW new \in Accounts \cup {None}, ChangeOwner(a, new)
      PROVE  MoneyInv'
  BY <1>0, <1>3, MoneyIdle DEF ChangeOwner, MoneyInv
<1>4. ASSUME NEW a \in Accounts, Block(a) PROVE MoneyInv'
  BY <1>0, <1>4, MoneyIdle DEF Block, MoneyInv
<1>5. CASE Tick
  BY <1>0, <1>5, MoneyIdle DEF Tick, MoneyInv
<1>6. ASSUME NEW a \in Accounts, NEW v \in Amounts \ {0}, Transfer(a, v) PROVE MoneyInv'
  BY <1>6, MoneyTransfer
<1> QED
  BY <1>1, <1>2, <1>3, <1>4, <1>5, <1>6 DEF Others

\* An approval moves no money.
LEMMA MoneyApprove ==
  ASSUME StoreInv, StoreInv', MoneyInv, NEW a \in Accounts, NEW v \in Nat,
         Approve(a, v)
  PROVE  MoneyInv'
  BY MoneyIdle DEF Approve, MoneyInv, StoreInv

\* Nor does a step outside the contract.
LEMMA MoneyStutter ==
  ASSUME StoreInv, StoreInv', MoneyInv, UNCHANGED cvars
  PROVE  MoneyInv'
  BY MoneyIdle DEF cvars, MoneyInv, StoreInv

\* At first the accounts hold the whole supply.
LEMMA MoneyInitial == Init => MoneyInv
<1> SUFFICES ASSUME Init PROVE MoneyInv
  OBVIOUS
<1>1. StoreOK /\ balance \in [Accounts -> Nat]
  BY StoreInitial DEF StoreInv, Init
<1>2. \A t \in Tasks : Amount[t] = 0
  BY DEF Init, Amount, NoEscrow
<1>3. SumFunctionOnSet(Amount, Tasks) = 0 * Cardinality(Tasks)
  BY <1>2, SumOfEquals
<1>4. SumFunctionOnSet(balance, Accounts) = Supply * Cardinality(Accounts)
  <2>1. \A a \in Accounts : balance[a] = Supply
    BY DEF Init
  <2> QED BY <2>1, SumOfEquals
<1>5. Cardinality(Tasks) \in Nat /\ 0 * Cardinality(Tasks) = 0
  BY FS_CardinalityType
<1>6. Backed
  <2> HIDE DEF Amount
  <2>1. /\ held = SumFunctionOnSet(Amount, Tasks) + stray
        /\ held + SumFunctionOnSet(balance, Accounts)
             = SumFunctionOnSet(balance, Accounts)
    BY <1>1, <1>3, <1>5, BackedSums DEF Init
  <2> QED BY <1>1, <1>4, <2>1, BackedSums
<1> QED
  BY <1>1, <1>6 DEF Init, MoneyInv, NoEscrow

-----------------------------------------------------------------------------
(* The contract with the cards.                                             *)

\* A card's approval and lock are those of the contract, with its price.
LEMMA CardMoney ==
  ASSUME CardInv, CardInv', MoneyInv, [CardNext]_hvars
  PROVE  MoneyInv'
<1>0. StoreInv /\ StoreInv' /\ CardOK
  BY DEF CardInv
<1>1. CASE Others
  BY <1>0, <1>1, MoneyOthers
<1>2. CASE UNCHANGED cvars
  BY <1>0, <1>2, MoneyStutter
<1>3. ASSUME NEW c \in AgentIds, MineApproval(c) PROVE MoneyInv'
  BY <1>0, <1>3, MoneyApprove, CardAssumption DEF MineApproval
<1>4. ASSUME NEW c \in AgentIds, MineLock(c) PROVE MoneyInv'
  <2>1. card[c].t \in Tasks /\ Price[c] \in Nat /\ user \in Accounts
        /\ LockFunds(card[c].t, c, user, Price[c])
    BY <1>0, <1>4, CardAssumption DEF MineLock, CardGoes, CardOK
  <2> QED
    BY <1>0, <2>1, MoneyLock
<1> QED
  BY <1>1, <1>2, <1>3, <1>4
     DEF CardNext, UseCard, PickTask, Sign, Decline, Register, hvars

\* The contract holds what its escrows amount to and what was sent to its own
\* address, nothing else, and no token is made or lost, with the cards'
\* approvals and locks among every other call, whoever is paid, the contract
\* itself included, and whatever is blocked or expires (EliosUSDCEscrow.sol,
\* lockFunds to resolveDispute).
THEOREM CardBacked == CardSpec => []Backed
<1>1. CardInit => CardInv /\ MoneyInv
  BY CardInitial, MoneyInitial DEF CardInit
<1>2. CardInv /\ MoneyInv /\ [CardNext]_hvars => (CardInv /\ MoneyInv)'
  BY CardInductive, CardMoney
<1>3. MoneyInv => Backed
  BY DEF MoneyInv
<1> QED
  BY <1>1, <1>2, <1>3, PTL DEF CardSpec

\* The contract, the token and the cards stay well formed
\* (EliosUSDCEscrow.sol; AgentCard.tsx and useEscrow.ts keep a card's stage in
\* component state).
THEOREM CardTypes == CardSpec => []CardTypeOK
<1>1. CardInit => CardInv /\ MoneyInv
  BY CardInitial, MoneyInitial DEF CardInit
<1>2. CardInv /\ MoneyInv /\ [CardNext]_hvars => (CardInv /\ MoneyInv)'
  BY CardInductive, CardMoney
<1>3. CardInv /\ MoneyInv => CardTypeOK
  <2> SUFFICES ASSUME CardInv, MoneyInv PROVE CardTypeOK
    OBVIOUS
  <2>1. held \in Nat
    BY BackedSums DEF CardInv, StoreInv, MoneyInv
  <2> QED
    BY <2>1 DEF CardInv, StoreInv, StoreOK, MoneyInv, CardOK, CardTypeOK, TypeOK
<1> QED
  BY <1>1, <1>2, <1>3, PTL DEF CardSpec

\* What was deposited for a task is held or was paid out, to the last unit,
\* when the deposits are made by the cards of the page (useEscrow.ts, the
\* lock; EliosUSDCEscrow.sol, the payouts).
THEOREM CardConserved == CardSpec => []Conserved
<1>1. CardInv /\ [CardNext]_hvars => CardInv'
  BY CardInductive
<1>2. CardInv => Conserved
  BY DEF CardInv, StoreInv
<1> QED
  BY CardInitial, <1>1, <1>2, PTL DEF CardSpec

\* The contract as the cards drive it implements the promise of an escrow:
\* every deposit is settled at most once and in full, and no step does
\* anything else to it (EliosUSDCEscrow.sol).
THEOREM CardKeepsPromise == CardSpec => KeepsPromise
<1>1. CardInit => CardInv /\ Promise!Init
  BY CardInitial, StoreInitial DEF CardInit
<1>2. CardInv /\ [CardNext]_hvars => CardInv' /\ [Promise!Next]_ledger
  BY CardInductive
<1> QED
  BY <1>1, <1>2, PTL DEF CardSpec, KeepsPromise, Promise!Spec

=============================================================================
