------------------------------ MODULE HireCards ------------------------------
(***************************************************************************)
(* The agent cards of a browser that hires with USDC: AgentCard.tsx and    *)
(* useUSDCEscrowLock.  A card asks the wallet to approve its price, waits  *)
(* for the approval to be mined, asks for the lock and waits for that, and *)
(* only then calls the hire route.  The cards of one wallet share one      *)
(* allowance, while anybody settles and disputes what is locked.           *)
(***************************************************************************)
EXTENDS UsdcEscrow

CONSTANTS
  user,    \* the wallet the cards are used with
  Price    \* pricePerTask of each agent: one card per agent

ASSUME CardAssumption ==
  /\ user \in Accounts
  /\ Price \in [AgentIds -> Nat \ {0}]

VARIABLE card

hvars == <<cvars, card>>

\* Where a card stands: step and the two transactions of the hook, as one.
Stages == {"idle",
           "approve",     \* signing: the wallet shows the approval
           "approving",   \* signing: the approval is sent
           "lock",        \* signing: the wallet shows the lock
           "locking",     \* mining: the lock is sent
           "confirming",  \* the lock is mined, the hire route is called
           "hired", "error"}

Card == [at: Stages, t: Tasks \cup {None}]

CardInit == Init /\ card = [c \in AgentIds |-> [at |-> "idle", t |-> None]]

CardGoes(c, from, to) ==
  card[c].at = from /\ card' = [card EXCEPT ![c].at = to]

\* The card keeps its task, but picks another before it reads it again: the
\* model forgets it at once.
CardFails(c, from) ==
  /\ card[c].at \in from
  /\ card' = [card EXCEPT ![c] = [at |-> "error", t |-> None]]

-----------------------------------------------------------------------------
\* handleHire, the task picker and lock: the list of tasks to pick from is a
\* query result and may be out of date.
PickTask(c, t) ==
  /\ card[c].at \in {"idle", "error"}
  /\ card' = [card EXCEPT ![c] = [at |-> "approve", t |-> t]]
  /\ UNCHANGED cvars

Sign(c) ==
  /\ CardGoes(c, "approve", "approving") \/ CardGoes(c, "lock", "locking")
  /\ UNCHANGED cvars

\* The user declines, or the wallet finds that the transaction would revert.
\* An approval that was mined stays.
Decline(c) ==
  /\ CardFails(c, {"approve", "lock"})
  /\ UNCHANGED cvars

MineApproval(c) ==
  /\ CardGoes(c, "approving", "lock")
  /\ Approve(user, Price[c])

\* Mutant: a lock is taken for confirmed when it is mined, reverted or not.
MineLockUnchecked(c) ==
  /\ CardGoes(c, "locking", "confirming")
  /\ \/ LockFunds(card[c].t, c, user, Price[c])
     \/ ~Lockable(card[c].t, user, Price[c]) /\ UNCHANGED cvars

\* A lock that reverts is never confirmed, and nothing tells the card: it
\* stays at mining.
MineLock(c) ==
  /\ CardGoes(c, "locking", "confirming")
  /\ LockFunds(card[c].t, c, user, Price[c])

\* registerHire; the answer may also be that the hire is refused.
Register(c) ==
  /\ CardGoes(c, "confirming", "hired") \/ CardFails(c, {"confirming"})
  /\ UNCHANGED cvars

UseCard(c) ==
  \/ \E t \in Tasks : PickTask(c, t)
  \/ Sign(c) \/ Decline(c) \/ MineApproval(c) \/ MineLock(c) \/ Register(c)

CardNext ==
  \/ Others /\ UNCHANGED card
  \/ \E c \in AgentIds : UseCard(c)

CardSpec == CardInit /\ [][CardNext]_hvars

-----------------------------------------------------------------------------
(* Properties.                                                              *)

\* The cards and everything on the chain are well formed.
CardTypeOK == TypeOK /\ card \in [AgentIds -> Card]

\* A card that reports a lock to the hire route, and shows the agent hired,
\* has its own lock on the chain: the task's escrow was paid by its wallet,
\* for its agent, at its price, whichever other cards approved, locked or
\* picked the same task in between.
HiredIsFunded ==
  \A c \in AgentIds : card[c].at \in {"confirming", "hired"} =>
    LET t == card[c].t IN
    /\ escrows[t].state # "None"
    /\ escrows[t].depositor = user
    /\ escrows[t].agentId = c
    /\ deposited[t] = Price[c]

=============================================================================
