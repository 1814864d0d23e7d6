---------------------------- MODULE EscrowPromise ----------------------------
(***************************************************************************)
(* What an escrow contract promises, task by task and in one step per      *)
(* transaction: a deposit is held, may come under dispute, and is settled  *)
(* once and for all by paying out exactly what was deposited.              *)
(***************************************************************************)
EXTENDS Naturals

CONSTANT Tasks

VARIABLE account  \* account[t]: the phase, the deposit and what was paid out

Phases == {"empty", "held", "disputed", "settled"}

Account == [phase: Phases, deposit: Nat, toAgent: Nat, toDepositor: Nat]

Empty == [phase |-> "empty", deposit |-> 0, toAgent |-> 0, toDepositor |-> 0]

Init == account = [t \in Tasks |-> Empty]

\* A positive deposit opens the account.
Opened(old, new) ==
  /\ old = Empty
  /\ new.deposit > 0
  /\ new = [phase |-> "held", deposit |-> new.deposit,
             toAgent |-> 0, toDepositor |-> 0]

Disputed(old, new) ==
  /\ old.phase = "held"
  /\ new = [old EXCEPT !.phase = "disputed"]

\* The deposit is paid out, all of it to one side unless it was disputed.
Settled(old, new) ==
  /\ old.phase \in {"held", "disputed"}
  /\ new = [phase |-> "settled", deposit |-> old.deposit,
             toAgent |-> new.toAgent, toDepositor |-> new.toDepositor]
  /\ new.toAgent + new.toDepositor = old.deposit
  /\ old.phase = "held" => 0 \in {new.toAgent, new.toDepositor}

\* One transaction may settle one account and, from the code of the account
\* it pays, bring others under dispute.
Next ==
  \A t \in Tasks :
    \/ account'[t] = account[t]
    \/ Opened(account[t], account'[t])
    \/ Disputed(account[t], account'[t])
    \/ Settled(account[t], account'[t])

Spec == Init /\ [][Next]_account

=============================================================================
