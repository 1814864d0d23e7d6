------------------------- MODULE EliosEscrow_proofs --------------------------
(***************************************************************************)
(* Theorems about EliosEscrow: type correctness, conservation of every     *)
(* deposit through payments, reverts and re-entrant calls, that the        *)
(* balance covers what is owed at every moment of them, and that the       *)
(* contract implements EscrowPromise.                                      *)
(***************************************************************************)
EXTENDS EliosEscrow, Sums_proofs

-----------------------------------------------------------------------------
(* The inductive invariant.  A revert restores the storage saved in the     *)
(* frame, so what holds of the storage must hold of the saved one too, and  *)
(* the two must be related: the transaction has closed its own escrow, has  *)
(* changed no other but to dispute it, and has paid or owes the amount.     *)

\* A storage in which no payment is under way fits the deposit for task t.
Fits(s, t) ==
  LET e == s.escrows[t] IN
  /\ e.amount > 0 <=> e.state \in {"Locked", "Disputed"}
  /\ e.amount + s.paid[t].agent + s.paid[t].depositor = deposited[t]
  /\ e.state \in {"None", "Locked", "Disputed"} => s.paid[t] = NoShares

\* The escrow being paid out: closed, its amount paid or due, and all of it
\* on one side unless it was disputed.
Paying(t) ==
  LET e == frame.saved.escrows[t] IN
  /\ e.state \in {"Locked", "Disputed"}
  /\ escrows[t].state \in {"Released", "Refunded"}
  /\ escrows[t].amount = 0
  /\ frame.due # NoShares
  /\ frame.due.agent + frame.due.depositor
       + paid[t].agent + paid[t].depositor = e.amount
  /\ e.state = "Locked" => \/ frame.due.agent + paid[t].agent = 0
                           \/ frame.due.depositor + paid[t].depositor = 0

\* Any other escrow: as it was, or disputed meanwhile.
Apart(t) ==
  LET e == frame.saved.escrows[t] IN
  /\ paid[t] = frame.saved.paid[t]
  /\ \/ escrows[t] = e
     \/ e.state = "Locked" /\ escrows[t] = [e EXCEPT !.state = "Disputed"]

FrameOK == ~Idle => /\ Paying(frame.t)
                    /\ \A t \in Tasks \ {frame.t} : Apart(t)

IInv == /\ TypeOK
        /\ \A t \in Tasks : Fits(committed, t)
        /\ FrameOK

-----------------------------------------------------------------------------
\* The value of an idle frame is not that of a transaction under way.
LEMMA NoFrameIsNone == NoFrame \notin Frame
  BY DEF NoFrame, Frame, NoShares

\* What a payout saves is storage to go back to.
LEMMA StoredTyped == ASSUME TypeOK PROVE stored \in Storage
  BY DEF TypeOK, stored, Storage

\* What a payout needs to know of its arguments to be well typed.
LEMMA PayOutTyped ==
  ASSUME TypeOK, NEW t \in Tasks, NEW state \in States,
         NEW r \in Accounts \cup {NoAccount}, NEW shares \in Shares,
         PayOut(t, state, r, shares)
  PROVE  TypeOK'
  BY EscrowAssumption, StoredTyped
     DEF PayOut, TypeOK, Escrow, Frame

\* Every step keeps the types.
LEMMA TypeStep == TypeOK /\ [Next]_vars => TypeOK'
<1> SUFFICES ASSUME TypeOK, [Next]_vars PROVE TypeOK'
  OBVIOUS
<1> USE EscrowAssumption
<1>1. ASSUME NEW t \in Tasks, NEW sender \in Accounts, NEW value \in Amounts,
             LockFunds(t, sender, value)
      PROVE  TypeOK'
  BY <1>1 DEF LockFunds, TypeOK, Escrow, States
<1>2. ASSUME NEW t \in Tasks, RefundDepositor(t)
      PROVE  TypeOK'
  <2>1. [NoShares EXCEPT !.depositor = escrows[t].amount] \in Shares
    BY DEF TypeOK, Escrow, Shares, NoShares
  <2>2. "Refunded" \in States /\ escrows[t].depositor \in Accounts \cup {NoAccount}
    BY DEF TypeOK, Escrow, States
  <2> QED
    BY <1>2, <2>1, <2>2, PayOutTyped DEF RefundDepositor
<1>3. ASSUME NEW t \in Tasks, NEW sender \in Accounts, NEW r \in Accounts,
             ReleaseFunds(t, sender, r)
      PROVE  TypeOK'
  <2>1. [NoShares EXCEPT !.agent = escrows[t].amount] \in Shares
    BY DEF TypeOK, Escrow, Shares, NoShares
  <2>2. "Released" \in States
    BY DEF States
  <2> QED
    BY <1>3, <2>1, <2>2, PayOutTyped DEF ReleaseFunds
<1>4. ASSUME NEW t \in Tasks, NEW sender \in Accounts, NEW r \in Accounts,
             NEW share \in Amounts, ResolveDispute(t, sender, r, share)
      PROVE  TypeOK'
  <2>1. [agent |-> share, depositor |-> escrows[t].amount - share] \in Shares
    BY <1>4 DEF ResolveDispute, TypeOK, Escrow, Shares
  <2>2. "Released" \in States
    BY DEF States
  <2> QED
    BY <1>4, <2>1, <2>2, PayOutTyped DEF ResolveDispute
<1>5. ASSUME NEW t \in Tasks, NEW sender \in Accounts, DisputeEscrow(t, sender)
      PROVE  TypeOK'
  BY <1>5 DEF DisputeEscrow, TypeOK, Escrow, States
<1>6. ASSUME NEW sender \in Accounts, NEW new \in Accounts \cup {NoAccount},
             ChangeOwner(sender, new)
      PROVE  TypeOK'
  BY <1>6 DEF ChangeOwner, TypeOK
<1>7. CASE PaymentSucceeds
  BY <1>7, NoFrameIsNone DEF PaymentSucceeds, Idle, TypeOK, Frame, Shares
<1>8. CASE PaymentFails
  BY <1>8, NoFrameIsNone DEF PaymentFails, Idle, TypeOK, Frame, Storage
<1>9. CASE Tick
  BY <1>9 DEF Tick, TypeOK
<1>10. CASE UNCHANGED vars
  BY <1>10 DEF vars, TypeOK
<1> QED
  BY <1>1, <1>2, <1>3, <1>4, <1>5, <1>6, <1>7, <1>8, <1>9, <1>10
     DEF Next, Call, Refund, ExpiredRefund

-----------------------------------------------------------------------------
\* A payout of the whole amount, from an escrow that fits, is a payment whose
\* two storages are related as FrameOK says.
LEMMA PayOutFits ==
  ASSUME IInv, Idle, NEW t \in Tasks, NEW state \in {"Released", "Refunded"},
         NEW r \in Accounts \cup {NoAccount}, NEW shares \in Shares,
         escrows[t].state \in {"Locked", "Disputed"},
         shares.agent + shares.depositor = escrows[t].amount,
         escrows[t].state = "Locked" => 0 \in {shares.agent, shares.depositor},
         PayOut(t, state, r, shares)
  PROVE  (\A u \in Tasks : Fits(committed, u)') /\ FrameOK'
<1>1. /\ frame'.t = t /\ frame'.due = shares /\ frame'.saved = stored
      /\ frame' \in Frame
  BY StoredTyped DEF PayOut, IInv, Frame
<1>2. ~Idle' /\ committed' = stored /\ committed = stored
  BY <1>1, NoFrameIsNone DEF Idle, committed
<1>3. \A u \in Tasks : Fits(committed, u)'
  BY <1>2 DEF IInv, Fits, PayOut
<1>4. Paying(t)'
  <2>1. Fits(stored, t)
    BY <1>2 DEF IInv
  <2>2. escrows'[t].state = state /\ escrows'[t].amount = 0
    BY DEF PayOut, IInv, TypeOK, Escrow
  <2>3. paid'[t] = NoShares
    BY <2>1 DEF Fits, stored, PayOut
  <2>4. shares # NoShares
    BY <2>1 DEF Fits, stored, NoShares
  <2>5. /\ paid'[t].agent = 0 /\ paid'[t].depositor = 0
        /\ shares.agent \in Nat /\ shares.depositor \in Nat
    BY <2>3 DEF NoShares, Shares
  <2> QED
    BY <1>1, <2>2, <2>4, <2>5 DEF Paying, stored
<1>5. \A u \in Tasks \ {t} : Apart(u)'
  BY <1>1 DEF Apart, PayOut, stored, IInv, TypeOK
<1> QED
  BY <1>1, <1>3, <1>4, <1>5 DEF FrameOK

\* The contract as deployed satisfies the invariant.
LEMMA InitInvariant == Init => IInv
  BY EscrowAssumption, NoFrameIsNone
     DEF Init, IInv, TypeOK, Fits, FrameOK, committed, stored, Idle,
         NoEscrow, Escrow, NoShares, Shares, States

\* Every step keeps the invariant.
LEMMA InvariantStep == IInv /\ [Next]_vars => IInv'
<1> SUFFICES ASSUME IInv, [Next]_vars
             PROVE  (\A u \in Tasks : Fits(committed, u)') /\ FrameOK'
  BY TypeStep DEF IInv
<1> USE EscrowAssumption
<1>1. ASSUME NEW t \in Tasks, NEW sender \in Accounts, NEW value \in Amounts,
             LockFunds(t, sender, value)
      PROVE  (\A u \in Tasks : Fits(committed, u)') /\ FrameOK'
  <2>1. Idle /\ Idle'
    BY <1>1 DEF LockFunds, Idle
  <2>2. committed = stored /\ committed' = stored'
    BY <2>1 DEF committed
  <2>3. paid[t] = NoShares
    BY <1>1, <2>2 DEF LockFunds, IInv, Fits, stored
  <2>4. Fits(stored, t)'
    <3>1. value \in Nat /\ value > 0
      BY <1>1 DEF LockFunds
    <3>2. /\ escrows'[t].amount = value /\ escrows'[t].state = "Locked"
          /\ deposited'[t] = value /\ paid' = paid
      BY <1>1 DEF LockFunds, IInv, TypeOK
    <3>3. paid[t].agent = 0 /\ paid[t].depositor = 0
      BY <2>3 DEF NoShares
    <3> QED
      BY <2>3, <3>1, <3>2, <3>3 DEF Fits, stored
  <2>5. ASSUME NEW u \in Tasks, u # t PROVE Fits(stored, u)'
    BY <1>1, <2>2, <2>5 DEF LockFunds, IInv, TypeOK, Fits, stored
  <2> QED
    BY <2>1, <2>2, <2>4, <2>5 DEF FrameOK
<1>2. ASSUME NEW t \in Tasks, Idle, escrows[t].state = "Locked",
             RefundDepositor(t)
      PROVE  (\A u \in Tasks : Fits(committed, u)') /\ FrameOK'
  <2> DEFINE shares == [NoShares EXCEPT !.depositor = escrows[t].amount]
  <2>1. shares = [agent |-> 0, depositor |-> escrows[t].amount]
    BY DEF NoShares
  <2>2. escrows[t].amount \in Nat /\ escrows[t].depositor \in Accounts \cup {NoAccount}
    BY DEF IInv, TypeOK, Escrow
  <2>3. PayOut(t, "Refunded", escrows[t].depositor, shares)
    BY <1>2 DEF RefundDepositor
  <2> HIDE DEF shares
  <2>4. shares \in Shares
    BY <2>1, <2>2 DEF Shares
  <2> QED
    BY <1>2, <2>1, <2>2, <2>3, <2>4, PayOutFits DEF States
<1>3. ASSUME NEW t \in Tasks, NEW sender \in Accounts, NEW r \in Accounts,
             ReleaseFunds(t, sender, r)
      PROVE  (\A u \in Tasks : Fits(committed, u)') /\ FrameOK'
  <2> DEFINE shares == [NoShares EXCEPT !.agent = escrows[t].amount]
  <2>1. shares = [agent |-> escrows[t].amount, depositor |-> 0]
    BY DEF NoShares
  <2>2. escrows[t].amount \in Nat
    BY DEF IInv, TypeOK, Escrow
  <2>3. /\ PayOut(t, "Released", r, shares)
        /\ Idle /\ escrows[t].state = "Locked"
    BY <1>3 DEF ReleaseFunds
  <2> HIDE DEF shares
  <2>4. shares \in Shares
    BY <2>1, <2>2 DEF Shares
  <2> QED
    BY <2>1, <2>2, <2>3, <2>4, PayOutFits DEF States
<1>4. ASSUME NEW t \in Tasks, NEW sender \in Accounts, NEW r \in Accounts,
             NEW share \in Amounts, ResolveDispute(t, sender, r, share)
      PROVE  (\A u \in Tasks : Fits(committed, u)') /\ FrameOK'
  <2> DEFINE shares == [agent |-> share, depositor |-> escrows[t].amount - share]
  <2>1. escrows[t].amount \in Nat
    BY DEF IInv, TypeOK, Escrow
  <2>2. /\ shares \in Shares
        /\ shares.agent + shares.depositor = escrows[t].amount
        /\ PayOut(t, "Released", r, shares)
        /\ Idle /\ escrows[t].state = "Disputed"
    BY <1>4, <2>1 DEF ResolveDispute, Shares
  <2> HIDE DEF shares
  <2> QED
    BY <2>2, PayOutFits DEF States
<1>5. ASSUME NEW t \in Tasks, NEW sender \in Accounts, DisputeEscrow(t, sender)
      PROVE  (\A u \in Tasks : Fits(committed, u)') /\ FrameOK'
  <2>1. CASE Idle
    <3>1. Idle' /\ committed = stored /\ committed' = stored'
      BY <1>5, <2>1 DEF DisputeEscrow, Idle, committed
    <3>2. \A u \in Tasks : Fits(stored, u)'
      BY <1>5, <3>1 DEF DisputeEscrow, IInv, TypeOK, Fits, stored, Escrow
    <3> QED
      BY <3>1, <3>2 DEF FrameOK
  <2>2. CASE ~Idle
    <3>1. /\ ~Idle' /\ frame' = frame /\ paid' = paid
          /\ committed' = committed /\ deposited' = deposited
      BY <1>5, <2>2 DEF DisputeEscrow, Idle, committed
    <3>2. \A u \in Tasks : Fits(committed, u)'
      BY <3>1 DEF IInv, Fits
    <3>3. frame.t # t
      BY <1>5, <2>2 DEF DisputeEscrow, IInv, FrameOK, Paying
    <3>4. frame.t \in Tasks
      BY <2>2, NoFrameIsNone DEF Idle, IInv, TypeOK, Frame
    <3>5. Paying(frame.t)'
      BY <1>5, <2>2, <3>1, <3>3, <3>4
         DEF DisputeEscrow, IInv, TypeOK, FrameOK, Paying
    <3>6. \A u \in Tasks \ {frame.t} : Apart(u)'
      BY <1>5, <2>2, <3>1 DEF DisputeEscrow, IInv, TypeOK, FrameOK, Apart
    <3> QED
      BY <3>1, <3>2, <3>5, <3>6 DEF FrameOK
  <2> QED
    BY <2>1, <2>2
<1>6. ASSUME NEW sender \in Accounts, NEW new \in Accounts \cup {NoAccount},
             ChangeOwner(sender, new)
      PROVE  (\A u \in Tasks : Fits(committed, u)') /\ FrameOK'
  <2>1. /\ escrows' = escrows /\ paid' = paid /\ deposited' = deposited
        /\ frame' = frame
    BY <1>6 DEF ChangeOwner
  <2>2. /\ committed'.escrows = committed.escrows
        /\ committed'.paid = committed.paid
    BY <2>1 DEF committed, stored, Idle
  <2> QED
    BY <2>1, <2>2 DEF IInv, Fits, FrameOK, Paying, Apart, Idle
<1>7. CASE PaymentSucceeds
  <2>0. PICK t \in Tasks : t = frame.t
    BY <1>7, NoFrameIsNone DEF PaymentSucceeds, Idle, IInv, TypeOK, Frame
  <2> DEFINE side == IF frame.due.agent > 0 THEN "agent" ELSE "depositor"
             rest == [frame.due EXCEPT ![side] = 0]
  <2>1. frame \in Frame /\ ~Idle
    BY <1>7, NoFrameIsNone DEF PaymentSucceeds, Idle, IInv, TypeOK
  <2>2. frame.due \in Shares /\ paid[t] \in Shares
    BY <2>1 DEF Frame, IInv, TypeOK
  <2>3. side \in {"agent", "depositor"}
    OBVIOUS
  <2>4. /\ Paying(t)
        /\ \A u \in Tasks \ {t} : Apart(u)
    BY <2>0, <2>1 DEF IInv, FrameOK
  <2>5. /\ escrows' = escrows /\ deposited' = deposited
        /\ paid' = [paid EXCEPT ![t][side] = @ + frame.due[side]]
        /\ frame' = IF rest = NoShares THEN NoFrame
                    ELSE [frame EXCEPT !.due = rest]
    BY <1>7, <2>0 DEF PaymentSucceeds
  \* What was due and was paid of each share, together, is as before.
  <2>6. /\ rest \in Shares /\ paid'[t] \in Shares
        /\ rest.agent + paid'[t].agent = frame.due.agent + paid[t].agent
        /\ rest.depositor + paid'[t].depositor
             = frame.due.depositor + paid[t].depositor
    BY <2>2, <2>5 DEF Shares, IInv, TypeOK
  <2>7. \A u \in Tasks \ {t} : paid'[u] = paid[u]
    BY <2>5 DEF IInv, TypeOK
  <2> HIDE DEF rest, side
  <2>8. CASE rest = NoShares
    <3>1. Idle' /\ committed' = stored'
      BY <2>5, <2>8 DEF Idle, committed
    <3>2. /\ paid'[t].agent + paid'[t].depositor = frame.saved.escrows[t].amount
      BY <2>2, <2>4, <2>6, <2>8 DEF Paying, NoShares, Shares
    <3>3. committed = frame.saved
      BY <2>1 DEF committed
    <3>4. Fits(stored, t)'
      <4>1. /\ frame.saved.escrows[t].amount = deposited[t]
            /\ deposited[t] \in Nat
        <5>1. Fits(frame.saved, t) /\ frame.saved.paid[t] = NoShares
          BY <2>4, <3>3 DEF IInv, Fits, Paying
        <5>2. /\ frame.saved.escrows[t].amount \in Nat
              /\ deposited[t] \in Nat
          BY <2>1 DEF Frame, Storage, Escrow, IInv, TypeOK
        <5> QED
          BY <5>1, <5>2 DEF Fits, NoShares
      <4>2. /\ escrows'[t].state \in {"Released", "Refunded"}
            /\ escrows'[t].amount = 0
        BY <2>4, <2>5 DEF Paying
      <4> QED
        BY <2>5, <2>6, <3>2, <4>1, <4>2 DEF Fits, stored, Shares
    <3>5. ASSUME NEW u \in Tasks \ {t} PROVE Fits(stored, u)'
      <4>1. Fits(frame.saved, u) /\ frame.saved.escrows[u] \in Escrow
        BY <2>1, <3>3 DEF IInv, Frame, Storage
      <4>2. Apart(u) /\ paid'[u] = paid[u]
        BY <2>4, <2>7
      <4> QED
        BY <2>5, <4>1, <4>2 DEF Fits, Apart, stored, Escrow
    <3> QED
      BY <3>1, <3>4, <3>5 DEF FrameOK
  <2>9. CASE rest # NoShares
    <3>1. /\ frame' \in Frame /\ frame'.t = t /\ frame'.due = rest
          /\ frame'.saved = frame.saved
      BY <2>0, <2>1, <2>5, <2>6, <2>9 DEF Frame
    <3>2. ~Idle' /\ committed' = committed
      BY <2>1, <3>1, NoFrameIsNone DEF Idle, committed
    <3>3. \A u \in Tasks : Fits(committed, u)'
      BY <2>5, <3>2 DEF IInv, Fits
    <3>4. Paying(t)'
      BY <2>2, <2>4, <2>5, <2>6, <2>9, <3>1 DEF Paying, Shares
    <3>5. \A u \in Tasks \ {t} : Apart(u)'
      BY <2>4, <2>5, <2>7, <3>1 DEF Apart
    <3> QED
      BY <3>1, <3>3, <3>4, <3>5 DEF FrameOK
  <2> QED
    BY <2>8, <2>9
<1>8. CASE PaymentFails
  <2>1. Idle' /\ ~Idle
    BY <1>8 DEF PaymentFails, Idle
  <2>2. /\ committed'.escrows = committed.escrows
        /\ committed'.paid = committed.paid
    BY <1>8, <2>1 DEF committed, stored, PaymentFails
  <2> QED
    BY <1>8, <2>1, <2>2 DEF PaymentFails, IInv, Fits, FrameOK
<1>9. CASE Tick
  BY <1>9 DEF Tick, IInv, Fits, FrameOK, committed, stored, Idle
<1>10. CASE UNCHANGED vars
  BY <1>10
     DEF vars, IInv, Fits, FrameOK, committed, stored, Idle, Paying, Apart
<1> QED
  BY <1>1, <1>2, <1>3, <1>4, <1>5, <1>6, <1>7, <1>8, <1>9, <1>10
     DEF Next, Call, Refund, ExpiredRefund

-----------------------------------------------------------------------------
\* The contract's storage and the transaction under way are always well
\* formed, whatever calls come in and whatever payments fail.
THEOREM EscrowTypeOK == Spec => []TypeOK
<1>1. Init => TypeOK
  BY InitInvariant DEF IInv
<1> QED
  BY <1>1, TypeStep, PTL DEF Spec

\* The invariant above holds of every reachable state.
THEOREM EscrowInvariant == Spec => []IInv
  BY InitInvariant, InvariantStep, PTL DEF Spec

\* What an escrow holds, is about to pay and has paid is at all times what
\* was locked for it: releaseFunds, refund, resolveDispute and expiredRefund
\* neither lose nor duplicate any of it, in the middle of their calls too.
THEOREM EscrowConserved == Spec => []Conserved
<1>1. ASSUME IInv, NEW t \in Tasks
      PROVE  escrows[t].amount + Due(t) + paid[t].agent + paid[t].depositor
               = deposited[t]
  <2>1. CASE Idle
    BY <1>1, <2>1
       DEF IInv, TypeOK, Escrow, Shares, Fits, committed, stored, Due
  <2>2. CASE ~Idle
    <3>1. /\ Fits(frame.saved, t) /\ frame \in Frame
          /\ escrows[t] \in Escrow /\ paid[t] \in Shares
          /\ frame.due \in Shares
      BY <1>1, <2>2, NoFrameIsNone DEF IInv, committed, TypeOK, Idle, Frame
    <3>2. frame.saved.escrows[t] \in Escrow /\ deposited[t] \in Nat
      BY <1>1, <3>1 DEF Frame, Storage, IInv, TypeOK
    <3>3. CASE t = frame.t
      <4>1. Paying(t)
        BY <1>1, <2>2, <3>3 DEF IInv, FrameOK
      <4>2. frame.saved.escrows[t].amount = deposited[t]
        <5>1. frame.saved.paid[t] = NoShares
          BY <3>1, <4>1 DEF Fits, Paying
        <5> QED
          BY <3>1, <3>2, <5>1 DEF Fits, NoShares, Escrow
      <4> QED
        BY <2>2, <3>1, <3>3, <4>1, <4>2 DEF Paying, Due, Shares
    <3>4. CASE t # frame.t
      <4>1. Apart(t) /\ Due(t) = 0
        BY <1>1, <2>2, <3>4 DEF IInv, FrameOK, Due
      <4> QED
        BY <3>1, <3>2, <4>1 DEF Fits, Apart, Escrow, Shares
    <3> QED
      BY <3>3, <3>4
  <2> QED
    BY <2>1, <2>2
<1>2. IInv => Conserved
  BY <1>1 DEF Conserved
<1> QED
  BY <1>2, EscrowInvariant, PTL

\* An escrow is locked or disputed just as long as it holds something, so a
\* call made from inside a payment finds nothing left to dispute.
THEOREM EscrowAmountMatchesState == Spec => []AmountMatchesState
<1>1. IInv => AmountMatchesState
  <2> SUFFICES ASSUME IInv, NEW t \in Tasks
               PROVE  escrows[t].amount > 0
                        <=> escrows[t].state \in {"Locked", "Disputed"}
    BY DEF AmountMatchesState
  <2>1. CASE Idle
    BY <2>1 DEF IInv, Fits, committed, stored
  <2>2. CASE ~Idle
    <3>1. Fits(frame.saved, t) /\ frame.saved.escrows[t] \in Escrow
      BY <2>2, NoFrameIsNone
         DEF IInv, committed, TypeOK, Idle, Frame, Storage
    <3>2. CASE t = frame.t
      BY <2>2, <3>2 DEF IInv, FrameOK, Paying
    <3>3. CASE t # frame.t
      BY <2>2, <3>1, <3>3 DEF IInv, FrameOK, Apart, Fits, Escrow
    <3> QED
      BY <3>2, <3>3
  <2> QED
    BY <2>1, <2>2
<1> QED
  BY <1>1, EscrowInvariant, PTL

-----------------------------------------------------------------------------
(* Solvency.  A revert restores the balance along with the escrows, so the  *)
(* saved balance has to cover the saved escrows.                            *)

Owed == [t \in Tasks |-> escrows[t].amount + Due(t)]
SavedAmounts == [t \in Tasks |-> frame.saved.escrows[t].amount]

SavedSolvent == ~Idle => frame.saved.held = SumFunction(SavedAmounts)

\* What is owed for a task is a number.
LEMMA OwedIsNat == TypeOK => \A t \in Tasks : Owed[t] \in Nat
  BY NoFrameIsNone DEF TypeOK, Owed, Due, Idle, Escrow, Frame, Shares

\* Solvency in terms of what is owed for each task, to which the lemmas on
\* sums apply.
LEMMA SolventIsOwed == Solvent <=> held = SumFunctionOnSet(Owed, Tasks)
<1>1. DOMAIN Owed = Tasks
  BY DEF Owed
<1> QED
  BY <1>1 DEF Solvent, SumFunction, Owed

\* A step that leaves what is owed and the balance alone leaves the contract
\* solvent.
LEMMA SameOwed ==
  ASSUME Solvent, held' = held, \A t \in Tasks : Owed'[t] = Owed[t]
  PROVE  Solvent'
<1>1. Owed' = Owed
  BY DEF Owed
<1> QED
  BY <1>1 DEF Solvent, Owed

\* A step that changes what is owed for one task, and the balance by as much.
LEMMA OneOwed ==
  ASSUME TypeOK, TypeOK', Solvent, NEW t \in Tasks,
         \A u \in Tasks \ {t} : Owed'[u] = Owed[u],
         held' = held - Owed[t] + Owed'[t]
  PROVE  Solvent'
<1>1. \A u \in Tasks : Owed[u] \in Nat
  BY OwedIsNat
<1>2. \A u \in Tasks : Owed'[u] \in Nat
  BY NoFrameIsNone DEF TypeOK, Owed, Due, Idle, Escrow, Frame, Shares
<1>3. held = SumFunctionOnSet(Owed, Tasks)
  BY SolventIsOwed
<1>4. SumFunctionOnSet(Owed', Tasks)
        = SumFunctionOnSet(Owed, Tasks) - Owed[t] + Owed'[t]
  <2> DEFINE f == Owed
             g == Owed'
  <2>1. /\ \A y \in Tasks : f[y] \in Nat /\ g[y] \in Nat
        /\ \A y \in Tasks : y # t => f[y] = g[y]
    BY <1>1, <1>2
  <2> HIDE DEF f, g
  <2>2. SumFunctionOnSet(g, Tasks) = SumFunctionOnSet(f, Tasks) - f[t] + g[t]
    BY <2>1, SumUpdate, EscrowAssumption
  <2> QED BY <2>2 DEF f, g
<1>5. held' = SumFunctionOnSet(Owed', Tasks)
  BY <1>3, <1>4
<1> QED
  <2>1. (Solvent <=> held = SumFunctionOnSet(Owed, Tasks))'
    BY SolventIsOwed, PTL
  <2> QED BY <1>5, <2>1

\* A payout owes what the escrow held, and saves a storage that was solvent.
LEMMA PayOutSolvent ==
  ASSUME TypeOK, Solvent, Idle, NEW t \in Tasks, NEW state \in States,
         NEW r \in Accounts \cup {NoAccount}, NEW shares \in Shares,
         shares.agent + shares.depositor = escrows[t].amount,
         PayOut(t, state, r, shares)
  PROVE  (Solvent /\ SavedSolvent)'
<1>1. /\ frame'.t = t /\ frame'.due = shares /\ frame'.saved = stored
      /\ frame' \in Frame
  BY StoredTyped DEF PayOut, Frame
<1>2. ~Idle'
  BY <1>1, NoFrameIsNone DEF Idle
<1>3. \A u \in Tasks : Due(u) = 0 /\ escrows[u].amount \in Nat
  BY DEF Due, TypeOK, Escrow
<1>4. \A u \in Tasks : Owed'[u] = Owed[u]
  BY <1>1, <1>2, <1>3 DEF Owed, Due, PayOut, TypeOK, Escrow
<1>5. SavedAmounts' = Owed
  BY <1>1, <1>3 DEF SavedAmounts, Owed, stored
<1>6. held' = held /\ frame'.saved.held = held
  BY <1>1 DEF PayOut, stored
<1> QED
  BY <1>4, <1>5, <1>6, SameOwed DEF SavedSolvent, Solvent, Owed

\* The contract as deployed owes and holds nothing.
LEMMA InitSolvent == Init => Solvent /\ SavedSolvent
<1> SUFFICES ASSUME Init PROVE Solvent
  BY DEF SavedSolvent, Init, Idle
<1>1. \A t \in Tasks : Owed[t] = 0
  BY DEF Init, Owed, Due, Idle, NoEscrow
<1>2. SumFunctionOnSet(Owed, Tasks) = 0 * Cardinality(Tasks)
  BY <1>1, SumOfEquals, EscrowAssumption
<1>3. Cardinality(Tasks) \in Nat
  BY EscrowAssumption, FS_CardinalityType
<1> QED
  BY <1>2, <1>3, SolventIsOwed DEF Init

\* Every step of the contract, of a payment or of its revert moves the balance
\* with what is owed.
LEMMA SolventStep ==
  IInv /\ IInv' /\ Solvent /\ SavedSolvent /\ [Next]_vars
    => (Solvent /\ SavedSolvent)'
<1> SUFFICES ASSUME IInv, IInv', Solvent, SavedSolvent, [Next]_vars
             PROVE  (Solvent /\ SavedSolvent)'
  OBVIOUS
<1>0. TypeOK /\ TypeOK'
  BY DEF IInv
<1>1. ASSUME NEW t \in Tasks, NEW sender \in Accounts, NEW value \in Amounts,
             LockFunds(t, sender, value)
      PROVE  (Solvent /\ SavedSolvent)'
  <2>1. Idle /\ Idle' /\ value \in Nat
    BY <1>1, EscrowAssumption DEF LockFunds, Idle
  <2>2. escrows[t].amount = 0
    BY <1>1, <2>1 DEF LockFunds, IInv, Fits, committed, stored, TypeOK, Escrow
  <2>3. Owed[t] = 0 /\ Owed'[t] = value
    BY <1>1, <2>1, <2>2 DEF LockFunds, Owed, Due, IInv, TypeOK
  <2>4. \A u \in Tasks \ {t} : Owed'[u] = Owed[u]
    BY <1>1, <2>1 DEF LockFunds, Owed, Due, IInv, TypeOK
  <2>5. held' = held - Owed[t] + Owed'[t]
    BY <1>0, <1>1, <2>1, <2>3 DEF LockFunds, TypeOK
  <2> QED
    BY <1>0, <2>1, <2>4, <2>5, OneOwed DEF SavedSolvent
<1>2. ASSUME NEW t \in Tasks, Idle, escrows[t].state = "Locked",
             RefundDepositor(t)
      PROVE  (Solvent /\ SavedSolvent)'
  <2> DEFINE shares == [NoShares EXCEPT !.depositor = escrows[t].amount]
  <2>1. /\ escrows[t].amount \in Nat
        /\ escrows[t].depositor \in Accounts \cup {NoAccount}
    BY DEF IInv, TypeOK, Escrow
  <2>2. shares.agent + shares.depositor = escrows[t].amount /\ shares \in Shares
    BY <2>1 DEF NoShares, Shares
  <2>3. PayOut(t, "Refunded", escrows[t].depositor, shares)
    BY <1>2 DEF RefundDepositor
  <2> HIDE DEF shares
  <2> QED
    BY <1>0, <1>2, <2>1, <2>2, <2>3, PayOutSolvent DEF States
<1>3. ASSUME NEW t \in Tasks, NEW sender \in Accounts, NEW r \in Accounts,
             ReleaseFunds(t, sender, r)
      PROVE  (Solvent /\ SavedSolvent)'
  <2> DEFINE shares == [NoShares EXCEPT !.agent = escrows[t].amount]
  <2>1. escrows[t].amount \in Nat
    BY DEF IInv, TypeOK, Escrow
  <2>2. shares.agent + shares.depositor = escrows[t].amount /\ shares \in Shares
    BY <2>1 DEF NoShares, Shares
  <2>3. PayOut(t, "Released", r, shares) /\ Idle
    BY <1>3 DEF ReleaseFunds
  <2> HIDE DEF shares
  <2> QED
    BY <1>0, <2>2, <2>3, PayOutSolvent DEF States
<1>4. ASSUME NEW t \in Tasks, NEW sender \in Accounts, NEW r \in Accounts,
             NEW share \in Amounts, ResolveDispute(t, sender, r, share)
      PROVE  (Solvent /\ SavedSolvent)'
  <2> DEFINE shares == [agent |-> share, depositor |-> escrows[t].amount - share]
  <2>1. escrows[t].amount \in Nat /\ share \in Nat
    BY EscrowAssumption DEF IInv, TypeOK, Escrow
  <2>2. shares.agent + shares.depositor = escrows[t].amount /\ shares \in Shares
    BY <1>4, <2>1 DEF ResolveDispute, Shares
  <2>3. PayOut(t, "Released", r, shares) /\ Idle
    BY <1>4 DEF ResolveDispute
  <2> HIDE DEF shares
  <2> QED
    BY <1>0, <2>2, <2>3, PayOutSolvent DEF States
<1>5. ASSUME NEW t \in Tasks, NEW sender \in Accounts, DisputeEscrow(t, sender)
      PROVE  (Solvent /\ SavedSolvent)'
  <2>1. \A u \in Tasks : Owed'[u] = Owed[u]
    BY <1>5 DEF DisputeEscrow, Owed, Due, Idle, IInv, TypeOK, Escrow
  <2> QED
    BY <1>5, <2>1, SameOwed
       DEF DisputeEscrow, SavedSolvent, SavedAmounts, Idle
<1>6. CASE \/ \E sender \in Accounts, new \in Accounts \cup {NoAccount} :
                ChangeOwner(sender, new)
           \/ Tick
           \/ UNCHANGED vars
  BY <1>6 DEF ChangeOwner, Tick, vars, Solvent, Due, SavedSolvent,
              SavedAmounts, Idle
<1>7. CASE PaymentSucceeds
  <2> DEFINE side == IF frame.due.agent > 0 THEN "agent" ELSE "depositor"
             rest == [frame.due EXCEPT ![side] = 0]
  <2>0. PICK t \in Tasks : t = frame.t
    BY <1>0, <1>7, NoFrameIsNone DEF PaymentSucceeds, Idle, TypeOK, Frame
  <2>1. ~Idle /\ frame \in Frame /\ frame.t \in Tasks
    BY <1>0, <1>7, NoFrameIsNone DEF PaymentSucceeds, Idle, TypeOK, Frame
  <2>2. /\ escrows' = escrows
        /\ held' = held - frame.due[side] /\ held >= frame.due[side]
        /\ frame' = IF rest = NoShares THEN NoFrame
                    ELSE [frame EXCEPT !.due = rest]
    BY <1>7 DEF PaymentSucceeds
  <2>3. /\ frame.due \in Shares /\ rest \in Shares
        /\ rest.agent + rest.depositor
             = frame.due.agent + frame.due.depositor - frame.due[side]
        /\ frame.due[side] \in Nat
    BY <2>1 DEF Frame, Shares
  <2> HIDE DEF side, rest
  <2>4. /\ Due(t) = frame.due.agent + frame.due.depositor
        /\ \A u \in Tasks \ {t} : Due(u) = 0 /\ Due(u)' = 0
        /\ Idle' \/ (frame'.t = t /\ frame'.saved = frame.saved)
    BY <2>0, <2>1, <2>2 DEF Due, Idle, Frame
  <2>5. Due(t)' = rest.agent + rest.depositor
    <3>1. CASE rest = NoShares
      BY <2>2, <3>1 DEF Due, Idle, NoShares
    <3>2. CASE rest # NoShares
      <4>1. frame' = [frame EXCEPT !.due = rest] /\ frame'.due = rest
        BY <2>0, <2>1, <2>2, <3>2 DEF Frame
      <4>2. ~Idle'
        BY <3>2, <4>1 DEF Idle, NoFrame
      <4> QED
        BY <2>0, <2>1, <4>1, <4>2 DEF Due, Frame
    <3> QED BY <3>1, <3>2
  <2>6. Owed'[t] = Owed[t] - frame.due[side]
    <3>1. /\ Owed[t] = escrows[t].amount + Due(t)
          /\ Owed'[t] = escrows[t].amount + Due(t)'
      BY <2>0, <2>1, <2>2 DEF Owed
    <3>2. /\ escrows[t].amount \in Nat
          /\ frame.due.agent \in Nat /\ frame.due.depositor \in Nat
      BY <1>0, <2>1, <2>3 DEF TypeOK, Escrow, Shares
    <3> QED
      BY <2>3, <2>4, <2>5, <3>1, <3>2
  <2>7. \A u \in Tasks \ {t} : Owed'[u] = Owed[u]
    BY <2>0, <2>2, <2>4 DEF Owed
  <2>8. held' = held - Owed[t] + Owed'[t]
    BY <1>0, <2>1, <2>2, <2>3, <2>6, OwedIsNat DEF TypeOK
  <2>9. Solvent'
    BY <1>0, <2>1, <2>7, <2>8, OneOwed
  <2>10. SavedSolvent'
    BY <2>0, <2>1, <2>4 DEF SavedSolvent, SavedAmounts
  <2> QED
    BY <2>9, <2>10
<1>8. CASE PaymentFails
  <2>1. /\ ~Idle /\ Idle' /\ escrows' = frame.saved.escrows
        /\ held' = frame.saved.held
    BY <1>8 DEF PaymentFails, Idle
  <2>2. frame.saved.escrows \in [Tasks -> Escrow]
    BY <1>0, <2>1, NoFrameIsNone DEF Idle, TypeOK, Frame, Storage
  <2>3. Owed' = SavedAmounts
    BY <2>1, <2>2 DEF Owed, Due, SavedAmounts, Escrow
  <2> QED
    BY <2>1, <2>3 DEF Solvent, SavedSolvent, Owed
<1> QED
  BY <1>1, <1>2, <1>3, <1>4, <1>5, <1>6, <1>7, <1>8
     DEF Next, Call, Refund, ExpiredRefund

\* The balance is at all times the sum of the escrows and of what the
\* transaction under way is about to pay: no lock, payout, dispute, re-entrant
\* call or revert takes from the contract what it owes for another task.
THEOREM EscrowSolvent == Spec => []Solvent
<1>1. Init => IInv /\ Solvent /\ SavedSolvent
  BY InitInvariant, InitSolvent
<1>2. IInv /\ Solvent /\ SavedSolvent /\ [Next]_vars
        => (IInv /\ Solvent /\ SavedSolvent)'
  BY InvariantStep, SolventStep
<1> QED
  BY <1>1, <1>2, PTL DEF Spec

\* No payment lacks funds: the require of the balance that a call with value
\* makes is true whenever the contract comes to it.
THEOREM PaymentsAreCovered ==
  Spec => [](~Idle => held >= frame.due.agent + frame.due.depositor)
<1>1. ASSUME IInv, Solvent, ~Idle
      PROVE  held >= frame.due.agent + frame.due.depositor
  <2>1. TypeOK /\ frame \in Frame /\ frame.t \in Tasks /\ frame.due \in Shares
    BY <1>1, NoFrameIsNone DEF Idle, IInv, TypeOK, Frame
  <2>2. \A u \in Tasks : Owed[u] \in Nat
    BY <2>1, OwedIsNat
  <2> DEFINE f == Owed
  <2>3. f[frame.t] <= SumFunctionOnSet(f, Tasks)
    <3> HIDE DEF f
    <3>1. \A u \in Tasks : f[u] \in Nat
      BY <2>2 DEF f
    <3> QED BY <2>1, <3>1, SumUpdate, EscrowAssumption
  <2>4. held = SumFunctionOnSet(Owed, Tasks) /\ held \in Nat
    BY <1>1, <2>1, SolventIsOwed DEF TypeOK
  <2>5. Owed[frame.t] = escrows[frame.t].amount + (frame.due.agent + frame.due.depositor)
    BY <1>1, <2>1 DEF Owed, Due
  <2>6. escrows[frame.t].amount \in Nat /\ frame.due.agent \in Nat /\ frame.due.depositor \in Nat
    BY <2>1 DEF TypeOK, Escrow, Shares
  <2> QED
    BY <2>3, <2>4, <2>5, <2>6
<1> QED
  BY <1>1, EscrowInvariant, EscrowSolvent, PTL

-----------------------------------------------------------------------------
(* The contract implements EscrowPromise.                                   *)

\* A step that leaves the committed storage alone is a stutter.
LEMMA LedgerUnchanged ==
  ASSUME committed'.escrows = committed.escrows,
         committed'.paid = committed.paid, deposited' = deposited
  PROVE  ledger' = ledger
  BY DEF ledger

\* The contract as deployed is the promise with every account empty.
LEMMA PromiseInit == Init => Promise!Init
  BY NoFrameIsNone
     DEF Init, Promise!Init, Promise!Empty, ledger, committed, stored, Idle,
         NoEscrow, NoShares, Phase

\* A lock opens one account and leaves the others.
LEMMA LockOpens ==
  ASSUME IInv, NEW t \in Tasks, NEW sender \in Accounts, NEW value \in Amounts,
         LockFunds(t, sender, value)
  PROVE  Promise!Next
<1>1. committed = stored /\ committed' = stored'
  BY DEF LockFunds, Idle, committed
<1>2. ASSUME NEW u \in Tasks, u # t PROVE ledger'[u] = ledger[u]
  BY <1>1, <1>2 DEF ledger, LockFunds, stored, IInv, TypeOK
<1>3. /\ escrows[t].state = "None" /\ escrows[t].amount \in Nat
      /\ Fits(stored, t) /\ deposited[t] \in Nat /\ value \in Nat /\ value # 0
  BY <1>1, EscrowAssumption DEF LockFunds, IInv, TypeOK, Escrow
<1>4. paid[t] = NoShares /\ deposited[t] = 0
  BY <1>3 DEF Fits, stored, NoShares
<1>5. ledger[t] = Promise!Empty
  BY <1>1, <1>3, <1>4 DEF ledger, stored, Phase, Promise!Empty, NoShares
<1>6. ledger'[t] = [phase |-> "held", deposit |-> value,
                    toAgent |-> 0, toDepositor |-> 0]
  <2>1. /\ escrows'[t].state = "Locked" /\ deposited'[t] = value
        /\ paid'[t].agent = 0 /\ paid'[t].depositor = 0
    BY <1>4 DEF LockFunds, IInv, TypeOK, NoShares
  <2> QED
    BY <1>1, <2>1 DEF ledger, stored, Phase
<1>7. ledger'[t].deposit = value
  BY <1>6
<1>8. Promise!Opened(ledger[t], ledger'[t])
  BY <1>3, <1>5, <1>6, <1>7 DEF Promise!Opened
<1> QED
  BY <1>2, <1>8 DEF Promise!Next

\* A dispute of a committed escrow is one in the promise; a dispute made during
\* a payment is not committed yet.
LEMMA DisputeDisputes ==
  ASSUME IInv, NEW t \in Tasks, NEW sender \in Accounts,
         DisputeEscrow(t, sender)
  PROVE  Promise!Next \/ ledger' = ledger
<1>1. CASE Idle
  <2>1. committed = stored /\ committed' = stored'
    BY <1>1 DEF DisputeEscrow, Idle, committed
  <2>2. ASSUME NEW u \in Tasks, u # t PROVE ledger'[u] = ledger[u]
    BY <2>1, <2>2 DEF ledger, DisputeEscrow, stored, IInv, TypeOK
  <2>3. /\ escrows[t].state = "Locked" /\ escrows'[t].state = "Disputed"
        /\ paid' = paid /\ deposited' = deposited
    BY DEF DisputeEscrow, IInv, TypeOK, Escrow
  <2>4. /\ ledger[t].phase = "held"
        /\ ledger'[t] = [ledger[t] EXCEPT !.phase = "disputed"]
    BY <2>1, <2>3 DEF ledger, stored, Phase
  <2> QED
    BY <2>2, <2>4 DEF Promise!Next, Promise!Disputed
<1>2. CASE ~Idle
  BY <1>2, LedgerUnchanged DEF DisputeEscrow, committed, Idle
<1> QED
  BY <1>1, <1>2

\* The last payment of a transaction commits it: its escrow is settled, and
\* what else it did was to dispute other escrows.
LEMMA PaymentSettles ==
  ASSUME IInv, IInv', PaymentSucceeds
  PROVE  Promise!Next \/ ledger' = ledger
<1>1. ~Idle /\ frame \in Frame
  BY NoFrameIsNone DEF PaymentSucceeds, IInv, TypeOK, Idle
<1>2. committed = frame.saved
  BY <1>1 DEF committed
<1>3. deposited' = deposited /\ escrows' = escrows
  BY DEF PaymentSucceeds
<1>4. CASE ~Idle'
  <2>1. frame'.saved = frame.saved
    BY <1>1, <1>4 DEF PaymentSucceeds, Idle, Frame
  <2> QED
    BY <1>2, <1>3, <1>4, <2>1, LedgerUnchanged DEF committed
<1>5. CASE Idle'
  <2>1. committed' = stored'
    BY <1>5 DEF committed
  <2>2. PICK t \in Tasks : t = frame.t
    BY <1>1 DEF Frame
  <2>3. Paying(t) /\ \A u \in Tasks \ {t} : Apart(u)
    BY <1>1, <2>2 DEF IInv, FrameOK
  <2>4. ASSUME NEW u \in Tasks, u # t
        PROVE  \/ ledger'[u] = ledger[u]
               \/ Promise!Disputed(ledger[u], ledger'[u])
    <3>1. Apart(u) /\ paid'[u] = paid[u]
      BY <2>2, <2>3, <2>4 DEF PaymentSucceeds, IInv, TypeOK
    <3>2. frame.saved.escrows[u] \in Escrow
      BY <1>1 DEF Frame, Storage
    <3>3. CASE escrows[u] = frame.saved.escrows[u]
      BY <1>2, <1>3, <2>1, <3>1, <3>3 DEF ledger, stored, Apart
    <3>4. CASE /\ frame.saved.escrows[u].state = "Locked"
               /\ escrows[u] = [frame.saved.escrows[u] EXCEPT !.state = "Disputed"]
      <4>1. escrows[u].state = "Disputed"
        BY <3>2, <3>4 DEF Escrow
      <4>2. /\ ledger[u].phase = "held"
            /\ ledger'[u] = [ledger[u] EXCEPT !.phase = "disputed"]
        <5>1. ledger[u] = [phase |-> "held", deposit |-> deposited[u],
                           toAgent |-> paid[u].agent,
                           toDepositor |-> paid[u].depositor]
          BY <1>2, <3>1, <3>4 DEF ledger, Phase, Apart
        <5>2. ledger'[u] = [phase |-> "disputed", deposit |-> deposited[u],
                            toAgent |-> paid[u].agent,
                            toDepositor |-> paid[u].depositor]
          BY <1>3, <2>1, <3>1, <4>1 DEF ledger, stored, Phase
        <5> QED
          BY <5>1, <5>2
      <4> QED
        BY <4>2 DEF Promise!Disputed
    <3> QED
      BY <3>1, <3>3, <3>4 DEF Apart
  <2>5. Promise!Settled(ledger[t], ledger'[t])
    <3> DEFINE old == frame.saved.escrows[t]
               side == IF frame.due.agent > 0 THEN "agent" ELSE "depositor"
    <3>1. /\ old \in Escrow /\ frame.due \in Shares /\ paid[t] \in Shares
          /\ deposited[t] \in Nat /\ Fits(frame.saved, t)
      BY <1>1, <1>2 DEF Frame, Storage, IInv, TypeOK
    <3>2. [frame.due EXCEPT ![side] = 0] = NoShares
      BY <1>1, <1>5, NoFrameIsNone
         DEF PaymentSucceeds, Idle, Frame, NoFrame, NoShares, Shares
    <3>3. paid'[t][side] = paid[t][side] + frame.due[side]
          /\ \A other \in {"agent", "depositor"} \ {side} :
               paid'[t][other] = paid[t][other]
      BY <2>2, <3>1 DEF PaymentSucceeds, IInv, TypeOK, Shares
    <3>4. /\ paid'[t].agent = paid[t].agent + frame.due.agent
          /\ paid'[t].depositor = paid[t].depositor + frame.due.depositor
      BY <3>1, <3>2, <3>3 DEF Shares, NoShares
    <3>5. frame.saved.paid[t] = NoShares /\ old.amount = deposited[t]
      BY <2>3, <3>1 DEF Paying, Fits, NoShares, Escrow
    <3>6. ledger[t] = [phase |-> Phase(old.state), deposit |-> deposited[t],
                       toAgent |-> 0, toDepositor |-> 0]
      BY <1>2, <3>5 DEF ledger, NoShares
    <3>7. ledger'[t] = [phase |-> "settled", deposit |-> deposited[t],
                        toAgent |-> paid'[t].agent,
                        toDepositor |-> paid'[t].depositor]
      BY <1>3, <2>1, <2>3 DEF ledger, stored, Paying, Phase
    <3>8. paid'[t].agent + paid'[t].depositor = deposited[t]
      BY <2>3, <3>1, <3>4, <3>5 DEF Paying, Shares
    <3>9. old.state = "Locked" => 0 \in {paid'[t].agent, paid'[t].depositor}
      BY <2>3, <3>1, <3>4 DEF Paying, Shares
    <3>10. /\ old.state \in {"Locked", "Disputed"}
           /\ Phase(old.state) \in {"held", "disputed"}
           /\ Phase(old.state) = "held" => old.state = "Locked"
      BY <2>3 DEF Paying, Phase
    <3> DEFINE before == ledger[t]
               after == ledger'[t]
    <3>11. /\ before.phase = Phase(old.state)
           /\ before.deposit = deposited[t]
           /\ after.toAgent = paid'[t].agent
           /\ after.toDepositor = paid'[t].depositor
      BY <3>6, <3>7
    <3>12. after = [phase |-> "settled", deposit |-> deposited[t],
                    toAgent |-> after.toAgent,
                    toDepositor |-> after.toDepositor]
      BY <3>6, <3>7
    <3> HIDE DEF before, after
    <3>13. Promise!Settled(before, after)
      BY <3>8, <3>9, <3>10, <3>11, <3>12 DEF Promise!Settled
    <3> QED
      BY <3>13 DEF before, after
  <2> QED
    BY <2>4, <2>5 DEF Promise!Next
<1> QED
  BY <1>4, <1>5

\* Seen through the committed storage, every transaction of the contract is
\* one step of EscrowPromise: a deposit is settled once, in full and for good.
THEOREM EscrowKeepsPromise == Spec => KeepsPromise
<1>1. ASSUME IInv, IInv', [Next]_vars
      PROVE  [Promise!Next]_ledger
  <2>1. ASSUME NEW t \in Tasks, NEW state, NEW r, NEW shares, Idle,
               PayOut(t, state, r, shares), frame' \in Frame
        PROVE  ledger' = ledger
    <3>1. committed = stored
      BY <2>1 DEF committed
    <3>2. committed' = stored
      BY <2>1, NoFrameIsNone DEF PayOut, committed, Idle
    <3> QED
      BY <2>1, <3>1, <3>2, LedgerUnchanged DEF PayOut
  <2>2. ASSUME NEW t \in Tasks, NEW state, NEW r, NEW shares,
               PayOut(t, state, r, shares)
        PROVE  frame' \in Frame
    <3>1. frame' \in Frame \cup {NoFrame}
      BY <1>1 DEF IInv, TypeOK
    <3>2. frame' # NoFrame
      BY <2>2 DEF PayOut, NoFrame
    <3> QED
      BY <3>1, <3>2
  <2>3. ASSUME NEW t \in Tasks, NEW sender \in Accounts, Call(t, sender)
        PROVE  Promise!Next \/ ledger' = ledger
    BY <1>1, <2>1, <2>2, <2>3, LockOpens, DisputeDisputes
       DEF Call, Refund, RefundDepositor, ReleaseFunds, ResolveDispute
  <2>4. ASSUME NEW t \in Tasks, ExpiredRefund(t)
        PROVE  ledger' = ledger
    BY <2>1, <2>2, <2>4 DEF ExpiredRefund, RefundDepositor
  <2>5. ASSUME NEW sender, NEW new, ChangeOwner(sender, new)
        PROVE  ledger' = ledger
    BY <2>5, LedgerUnchanged DEF ChangeOwner, committed, stored, Idle
  <2>6. CASE PaymentSucceeds
    BY <1>1, <2>6, PaymentSettles
  <2>7. CASE PaymentFails
    BY <2>7, LedgerUnchanged DEF PaymentFails, committed, stored, Idle
  <2>8. CASE Tick \/ UNCHANGED vars
    BY <2>8, LedgerUnchanged DEF Tick, vars, committed, stored, Idle
  <2> QED
    BY <1>1, <2>3, <2>4, <2>5, <2>6, <2>7, <2>8 DEF Next
<1> QED
  <2>1. KeepsPromise <=> Promise!Init /\ [][Promise!Next]_ledger
    BY DEF KeepsPromise, Promise!Spec
  <2> QED
    BY <1>1, <2>1, PromiseInit, EscrowInvariant, PTL DEF Spec

=============================================================================
