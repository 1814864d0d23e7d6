------------------------ MODULE AgentWallets_proofs ------------------------
(***************************************************************************)
(* Theorems about AgentWallets: the daily limit of session keys, the       *)
(* reviews and the timelock hold, and the rows tell the truth about the    *)
(* Safe, for any payees, amounts, limits, delays and number of requests.   *)
(***************************************************************************)
EXTENDS AgentWallets, TLAPS

-----------------------------------------------------------------------------
(* Types.                                                                   *)

\* The limits, the lengths of time and the bounds are natural numbers.
LEMMA Numbers ==
  /\ {DailyLimit, AutoLimit, ReviewAt, TimelockAt, TimelockDelay,
      DayLength, KeyLife, MaxTime, MaxNonce, MaxApprovals} \subseteq Nat
  /\ DayLength > 0
  BY PolicyAssumption, WalletAssumption

\* The day of a moment no later than another is no later than its day.
LEMMA DivMono ==
  ASSUME NEW a \in Nat, NEW b \in Nat, a <= b
  PROVE  a \div DayLength <= b \div DayLength /\ a \div DayLength \in Nat
  BY PolicyAssumption

\* The days of the model hold every day the clock reaches.
LEMMA TodayIsADay == now \in 0..MaxTime => Today \in Days /\ Today \in Nat
<1> SUFFICES ASSUME now \in 0..MaxTime PROVE Today \in Days /\ Today \in Nat
  OBVIOUS
<1>1. Today <= MaxTime \div DayLength /\ Today \in Nat
  BY DivMono, PolicyAssumption DEF Today
<1>2. MaxTime \div DayLength \in Nat
  BY DivMono, PolicyAssumption
<1> QED BY <1>1, <1>2 DEF Days

\* An intent is a payee and a positive amount.
LEMMA IntentIdsAre ==
  \A i \in IntentIds : i[1] \in Payees /\ i[2] \in Nat /\ i[2] > 0
<1> SUFFICES ASSUME NEW i \in IntentIds
             PROVE  i[1] \in Payees /\ i[2] \in Nat /\ i[2] > 0
  OBVIOUS
<1>1. i[1] \in Payees /\ i[2] \in Amounts
  BY Zenon DEF IntentIds
<1>2. \A n \in Amounts : n \in Nat /\ n # 0
  BY PolicyAssumption, Zenon
<1> QED BY ONLY <1>1, <1>2

\* There is something to pay, and somebody to pay it to.
LEMMA IntentsExist == IntentIds # {}
<1>1. PICK p \in Payees, a \in Amounts : TRUE
  BY PolicyAssumption, Zenon
<1>2. <<p, a>> \in IntentIds
  BY Zenon DEF IntentIds
<1> QED BY <1>2

\* The row that is not there is written like any other.
LEMMA NoTransferTyped == NoTransfer \in Transfer
<1>1. IntentIds # {}
  BY IntentsExist
<1>2. (CHOOSE i \in IntentIds : TRUE) \in IntentIds
  BY <1>1
<1> QED BY <1>2 DEF NoTransfer, Transfer

\* The steps of requests, and those at which a request has a transfer.
Pcs == {"idle", "queue", "insert", "approveIntent", "markApproved", "signed",
        "paySigned", "paySession", "record", "migrate", "configure",
        "storeMigrated", "enable", "rotateManager", "storeSession"}
RowPcs == {"queue", "insert", "approveIntent", "markApproved", "signed",
           "paySigned", "paySession", "record"}

KeyPcs == {"enable", "rotateManager", "storeSession"}

HasRow == \A r \in Requests : /\ req[r].pc \in RowPcs => req[r].x \in Ids
                              /\ req[r].pc \in KeyPcs => req[r].key \in Keys

TypeInv == TypeOK /\ HasRow

\* The type of a request in flight, with the steps by name.
LEMMA RequestIs ==
  Request = [pc: Pcs, x: Ids \cup {NoId}, t: Transfer, nonce: Nat,
             key: Keys \cup {NoKey}, old: Keys \cup {NoKey}]
  BY DEF Request, Pcs

\* A free slot is one of them.
LEMMA NoRequestTyped == NoRequest \in Request
  BY NoTransferTyped DEF NoRequest, Request

\* What the policy answers.
LEMMA EvaluateTyped ==
  ASSUME NEW i \in IntentIds, NEW readable, now \in Nat
  PROVE  /\ Evaluate(i, readable) \in Transfer
         /\ Evaluate(i, readable).createdAt = now
         /\ Evaluate(i, readable).intent = i
         /\ Evaluate(i, readable).status \in {"blocked", "queued", "approved"}
         /\ Evaluate(i, readable).status = "queued" /\ i[2] >= TimelockAt
              => Evaluate(i, readable).unlockAt = now + TimelockDelay
         /\ Evaluate(i, readable).status = "approved" => ~(i[2] >= TimelockAt)
<1> DEFINE asked == [NoTransfer EXCEPT !.intent = i, !.createdAt = now]
           locked == i[2] >= TimelockAt
           reviewed == i[2] >= ReviewAt \/ locked
           passed == [asked EXCEPT
                        !.status = IF reviewed THEN "queued" ELSE "approved",
                        !.reviewed = reviewed,
                        !.unlockAt = IF locked THEN now + TimelockDelay ELSE 0]
           barred == [asked EXCEPT !.status = "blocked"]
<1>1. Evaluate(i, readable) = IF Refused(i, readable) THEN barred ELSE passed
  BY DEF Evaluate
<1>2. asked \in Transfer /\ asked.createdAt = now /\ asked.intent = i
  BY NoTransferTyped DEF Transfer
<1>3. locked \in BOOLEAN /\ reviewed \in BOOLEAN
  OBVIOUS
<1> HIDE DEF asked
<1>4. /\ barred \in Transfer /\ barred.createdAt = now /\ barred.intent = i
      /\ barred.status = "blocked"
  BY <1>2 DEF Transfer
<1>5. /\ passed.createdAt = now /\ passed.intent = i
      /\ passed.status = IF reviewed THEN "queued" ELSE "approved"
      /\ passed.unlockAt = IF locked THEN now + TimelockDelay ELSE 0
  BY <1>2 DEF Transfer
<1>6. passed \in Transfer
  <2>1. (IF locked THEN now + TimelockDelay ELSE 0) \in Nat
    BY Numbers
  <2> DEFINE s == IF reviewed THEN "queued" ELSE "approved"
             u == IF locked THEN now + TimelockDelay ELSE 0
  <2>2. s \in {"queued", "approved"}
    OBVIOUS
  <2> HIDE DEF s, u, locked, reviewed
  <2>3. [asked EXCEPT !.status = s, !.reviewed = reviewed, !.unlockAt = u] \in Transfer
    BY <1>2, <1>3, <2>1, <2>2 DEF Transfer, u
  <2> QED BY <2>3 DEF s, u, reviewed, locked
<1> QED
  BY <1>1, <1>4, <1>5, <1>6

\* The database, the Safe and the contracts start well formed.
LEMMA InitTyped == Init => TypeInv
<1> SUFFICES ASSUME Init PROVE TypeInv
  OBVIOUS
<1>1. 0 \in Days /\ 0 \in 0..MaxTime /\ 0 \in 0..MaxNonce
  BY TodayIsADay, DivMono, Numbers DEF Days
<1>2. /\ manager \in Manager /\ intents \in [IntentIds -> Intent]
      /\ pending \subseteq IntentIds
      /\ hooked \in [Days -> Nat] /\ now \in 0..MaxTime
  BY <1>1 DEF Init, PolicyInit, Unconfigured, Manager, NoIntent, Intent
<1>3. /\ safe \in Safe /\ row \in Wallet
  BY <1>1 DEF Init, Safe, Wallet
<1>4. /\ transfers \in [Ids -> Transfer] /\ paid \in [Ids -> Nat]
      /\ settled \in [IntentIds -> Nat] /\ approvals \in [IntentIds -> Nat]
  BY NoTransferTyped DEF Init
<1>5. req \in [Requests -> Request] /\ HasRow
  BY NoRequestTyped DEF Init, HasRow, NoRequest, RowPcs, KeyPcs
<1> QED
  BY <1>2, <1>3, <1>4, <1>5 DEF TypeInv, TypeOK

\* All that a step of the clock apart can do to the contracts.
Deeds(i) ==
  \/ UNCHANGED contracts
  \/ ConfigureSafe
  \/ \E key \in Keys \cup {NoKey} : RotateSessionKey(key, now + KeyLife)
  \/ QueueReviewedIntent(i)
  \/ ApproveReviewedIntent(i)
  \/ PayDirect(i) \/ PayHooked(i) \/ CallModule

\* What the contracts do keeps their types.
LEMMA ContractsTyped ==
  ASSUME TypeOK, NEW i \in IntentIds, Deeds(i)
  PROVE  /\ manager' \in Manager
         /\ intents' \in [IntentIds -> Intent]
         /\ pending' \subseteq IntentIds
         /\ hooked' \in [Days -> Nat]
         /\ now' \in 0..MaxTime
<1> USE DEF TypeOK
<1>0. /\ Today \in Days /\ Today \in Nat /\ now \in Nat /\ now + KeyLife \in Nat
      /\ now + TimelockDelay \in Nat
  BY TodayIsADay, Numbers
<1>1. CASE UNCHANGED contracts
  BY <1>1 DEF contracts
<1>2. CASE ConfigureSafe
  BY <1>2, PolicyAssumption DEF ConfigureSafe, Manager
<1>3. ASSUME NEW key \in Keys \cup {NoKey}, RotateSessionKey(key, now + KeyLife)
      PROVE  manager' \in Manager /\ UNCHANGED <<intents, pending, hooked, now>>
  BY <1>0, <1>3 DEF RotateSessionKey, Manager
<1>4. CASE QueueReviewedIntent(i)
  <2>1. (IF i[2] >= TimelockAt THEN now + TimelockDelay ELSE now) \in Nat
    BY <1>0
  <2> QED
    BY <1>4, <2>1 DEF QueueReviewedIntent, Intent
<1>5. CASE ApproveReviewedIntent(i)
  BY <1>5 DEF ApproveReviewedIntent, Intent
<1>6. ASSUME NEW v \in Nat, ConsumeSpend(v) PROVE manager' \in Manager
  <2>1. SpentToday + v \in Nat
    BY <1>0 DEF SpentToday, Manager
  <2> QED
    BY <1>0, <1>6, <2>1 DEF ConsumeSpend, Manager
<1>7. ASSUME NEW v \in Nat, PaysToday(v) PROVE hooked' \in [Days -> Nat]
  BY <1>0, <1>7 DEF PaysToday
<1>8. i[2] \in Nat
  BY IntentIdsAre
<1>9. CASE PayDirect(i)
  <2>1. CASE i \in pending
    <3>1. manager' \in Manager
      BY <1>6, <1>8, <1>9, <2>1 DEF PayDirect, AfterExecution
    <3>2. intents' \in {intents, [intents EXCEPT ![i].executed = TRUE]}
      BY <1>9, <2>1 DEF PayDirect, AfterExecution
    <3>3. [intents EXCEPT ![i].executed = TRUE] \in [IntentIds -> Intent]
      BY DEF Intent
    <3> QED
      BY <1>9, <3>1, <3>2, <3>3 DEF PayDirect
  <2>2. CASE i \notin pending
    BY <1>9, <2>2 DEF PayDirect, AfterExecution
  <2> QED
    BY <1>9, <2>1, <2>2 DEF PayDirect
<1>10. CASE PayHooked(i)
  BY <1>6, <1>7, <1>8, <1>10 DEF PayHooked
<1>11. CASE CallModule
  BY <1>11 DEF CallModule
<1> QED
  BY <1>1, <1>2, <1>3, <1>4, <1>5, <1>9, <1>10, <1>11 DEF Deeds

\* One request goes on as q.
LEMMA RequestGoes ==
  ASSUME TypeInv, NEW r \in Requests, NEW q \in Request,
         req' = [req EXCEPT ![r] = q],
         q.pc \in RowPcs => q.x \in Ids, q.pc \in KeyPcs => q.key \in Keys
  PROVE  req' \in [Requests -> Request] /\ HasRow'
  BY DEF TypeInv, TypeOK, HasRow

\* The typing of a step that leaves the contracts alone.
LEMMA StartTyped ==
  ASSUME TypeInv, NEW r \in Requests, Start(r)
  PROVE  TypeInv'
<1> USE DEF TypeInv, TypeOK
<1>0. /\ {"idle", "queue", "insert", "approveIntent", "markApproved", "signed",
          "paySession", "migrate", "enable"} \subseteq Pcs
      /\ "migrate" \notin RowPcs \cup KeyPcs /\ "enable" \notin RowPcs
      /\ {"queue", "insert", "approveIntent", "markApproved", "signed",
          "paySession"} \cap KeyPcs = {}
      /\ safe.nonce \in Nat
  BY Numbers DEF Pcs, RowPcs, KeyPcs, Safe
<1>1. ASSUME NEW x \in Ids, NEW i \in IntentIds, NEW readable \in BOOLEAN,
             RequestTransfer(r, x, i, readable)
      PROVE  TypeInv'
  <2> DEFINE t == Evaluate(i, readable)
             pc == IF Migrated /\ t.status = "queued" THEN "queue" ELSE "insert"
  <2>1. t \in Transfer
    BY EvaluateTyped
  <2>2. pc \in Pcs /\ pc \notin KeyPcs
    BY <1>0
  <2>3. req' = [req EXCEPT ![r].pc = pc, ![r].x = x, ![r].t = t] /\ Nothing
    BY <1>1 DEF RequestTransfer, Begin
  <2> HIDE DEF t, pc
  <2> DEFINE q == [req[r] EXCEPT !.pc = pc, !.x = x, !.t = t]
  <2>8. q \in Request /\ q.pc = pc /\ q.x = x
    BY <2>1, <2>2, RequestIs
  <2>9. req' = [req EXCEPT ![r] = q]
    BY <2>3
  <2> HIDE DEF q
  <2>4. req' \in [Requests -> Request] /\ HasRow'
    BY <2>2, <2>8, <2>9, RequestGoes
  <2> QED
    BY <2>3, <2>4 DEF Nothing, contracts
<1>2. ASSUME NEW x \in Ids, ReadForApproval(r, x) PROVE TypeInv'
  <2> DEFINE pc == IF Migrated THEN "approveIntent" ELSE "markApproved"
  <2>1. pc \in Pcs /\ pc \notin KeyPcs
    BY <1>0
  <2>2. req' = [req EXCEPT ![r].pc = pc, ![r].x = x, ![r].t = transfers[x]] /\ Nothing
    BY <1>2 DEF ReadForApproval, Begin
  <2> HIDE DEF pc
  <2> DEFINE q == [req[r] EXCEPT !.pc = pc, !.x = x, !.t = transfers[x]]
  <2>8. q \in Request /\ q.pc = pc /\ q.x = x
    BY <2>1, RequestIs
  <2>9. req' = [req EXCEPT ![r] = q]
    BY <2>2
  <2> HIDE DEF q
  <2>3. req' \in [Requests -> Request] /\ HasRow'
    BY <2>1, <2>8, <2>9, RequestGoes
  <2> QED
    BY <2>2, <2>3 DEF Nothing, contracts
<1>3. ASSUME NEW x \in Ids, SignTransfer(r, x) PROVE TypeInv'
  <2> DEFINE n == safe.nonce
  <2>0. /\ req' = [req EXCEPT ![r].pc = "signed", ![r].x = x, ![r].nonce = n]
        /\ n \in Nat
    BY <1>0, <1>3 DEF SignTransfer
  <2> HIDE DEF n
  <2> DEFINE q == [req[r] EXCEPT !.pc = "signed", !.x = x, !.nonce = n]
  <2>8. q \in Request /\ q.pc = "signed" /\ q.x = x
    BY <1>0, <2>0, RequestIs
  <2>9. req' = [req EXCEPT ![r] = q]
    BY <2>0
  <2> HIDE DEF q
  <2>1. req' \in [Requests -> Request] /\ HasRow'
    BY <1>0, <2>8, <2>9, RequestGoes
  <2> QED
    BY <1>3, <2>1 DEF SignTransfer, Nothing, contracts
<1>4. ASSUME NEW x \in Ids, ExecuteBySession(r, x) PROVE TypeInv'
  <2>1. row.key \in Keys \cup {NoKey}
    BY DEF Wallet
  <2> DEFINE t == transfers[x]
             key == row.key
  <2>0. /\ req' = [req EXCEPT ![r].pc = "paySession", ![r].x = x, ![r].t = t,
                              ![r].key = key]
        /\ t \in Transfer /\ key \in Keys \cup {NoKey}
    BY <1>4, <2>1 DEF ExecuteBySession
  <2> HIDE DEF t, key
  <2> DEFINE q == [req[r] EXCEPT !.pc = "paySession", !.x = x, !.t = t,
                                 !.key = key]
  <2>8. q \in Request /\ q.pc = "paySession" /\ q.x = x
    BY <1>0, <2>0, RequestIs
  <2>9. req' = [req EXCEPT ![r] = q]
    BY <2>0
  <2> HIDE DEF q
  <2>2. req' \in [Requests -> Request] /\ HasRow'
    BY <1>0, <2>8, <2>9, RequestGoes
  <2> QED
    BY <1>4, <2>2 DEF ExecuteBySession, Nothing, contracts
<1>5. CASE PrepareMigration(r)
  <2> DEFINE q == [req[r] EXCEPT !.pc = "migrate", !.nonce = safe.nonce]
  <2>8. q \in Request /\ q.pc = "migrate"
    BY <1>0, RequestIs
  <2>9. req' = [req EXCEPT ![r] = q]
    BY <1>5 DEF PrepareMigration
  <2> HIDE DEF q
  <2>1. req' \in [Requests -> Request] /\ HasRow'
    BY <1>0, <2>8, <2>9, RequestGoes
  <2> QED
    BY <1>5, <2>1 DEF PrepareMigration, contracts, Safe, Wallet
<1>6. ASSUME NEW key \in Keys, PrepareSession(r, key) PROVE TypeInv'
  <2> DEFINE q == [req[r] EXCEPT !.pc = "enable", !.key = key, !.old = row.key,
                                 !.nonce = safe.nonce]
  <2>1. row.key \in Keys \cup {NoKey}
    BY DEF Wallet
  <2>8. q \in Request /\ q.pc = "enable" /\ q.key = key
    BY <1>0, <2>1, RequestIs
  <2>9. req' = [req EXCEPT ![r] = q]
    BY <1>6 DEF PrepareSession
  <2> HIDE DEF q
  <2>2. req' \in [Requests -> Request] /\ HasRow'
    BY <1>0, <2>8, <2>9, RequestGoes
  <2> QED
    BY <1>6, <2>2 DEF PrepareSession, Nothing, contracts
<1> QED
  BY <1>1, <1>2, <1>3, <1>4, <1>5, <1>6 DEF Start

\* A request that goes on past one of its awaits keeps the types.
LEMMA ContinueTyped ==
  ASSUME TypeInv, NEW r \in Requests, Continue(r)
  PROVE  TypeInv'
<1> USE DEF TypeInv, TypeOK
<1>0. /\ req[r] \in Request /\ req[r].t \in Transfer
      /\ req[r].t.intent \in IntentIds /\ NoRequest \in Request
      /\ req[r].key \in Keys \cup {NoKey}
      /\ NoRequest.pc \notin RowPcs \cup KeyPcs
      /\ {"insert", "markApproved", "paySigned", "record", "configure",
          "storeMigrated", "rotateManager", "storeSession"} \subseteq Pcs
      /\ {"configure", "storeMigrated", "rotateManager", "storeSession"}
            \cap RowPcs = {}
      /\ {"insert", "markApproved", "signed", "paySigned", "record", "configure",
          "storeMigrated"} \cap KeyPcs = {}
      /\ {"enable", "rotateManager", "storeSession"} = KeyPcs
      /\ {"queue", "insert", "approveIntent", "markApproved", "signed",
          "paySigned", "paySession", "record"} = RowPcs
  BY NoRequestTyped DEF Request, Transfer, Pcs, RowPcs, KeyPcs, NoRequest
<1>01. End(r) => req' \in [Requests -> Request] /\ HasRow'
  BY <1>0 DEF End, HasRow
<1>02. \A pc \in Pcs : /\ Goto(r, pc)
                       /\ pc \in RowPcs => req[r].pc \in RowPcs
                       /\ pc \in KeyPcs => req[r].pc \in KeyPcs
               => req' \in [Requests -> Request] /\ HasRow'
  BY RequestIs DEF Goto, HasRow
<1>1. CASE QueueIntent(r)
  BY <1>0, <1>02, <1>1, ContractsTyped DEF Deeds, QueueIntent, OnlyManager, At
<1>2. CASE InsertTransfer(r)
  <2>1. transfers' \in [Ids -> Transfer]
    BY <1>0, <1>2 DEF InsertTransfer
  <2> QED
    BY <1>01, <1>2, <2>1 DEF InsertTransfer, OnlyTransfers, contracts
<1>3. CASE ApproveIntent(r)
  <2>1. approvals' \in [IntentIds -> Nat]
    BY <1>0, <1>3 DEF ApproveIntent
  <2> QED
    BY <1>0, <1>02, <1>3, <2>1, ContractsTyped DEF Deeds, ApproveIntent, OnlyManager, At
<1>4. CASE MarkApproved(r) \/ RecordExecution(r)
  <2>1. transfers' \in [Ids -> Transfer]
    BY <1>4 DEF MarkApproved, RecordExecution, Transfer
  <2> QED
    BY <1>01, <1>4, <2>1 DEF MarkApproved, RecordExecution, OnlyTransfers, contracts
<1>5. CASE ExecuteSigned(r)
  <2>0. req[r].x \in Ids
    BY <1>0, <1>5 DEF ExecuteSigned, At, HasRow
  <2>1. req' \in [Requests -> Request] /\ HasRow'
    BY <1>0, <1>5, <2>0, RequestIs DEF ExecuteSigned, HasRow
  <2> QED
    BY <1>5, <2>1 DEF ExecuteSigned, Nothing, contracts
<1>55. ASSUME req[r].x \in Ids,
              req' = [req EXCEPT ![r] = [NoRequest EXCEPT !.pc = "record", !.x = req[r].x]],
              paid' = [paid EXCEPT ![req[r].x] = @ + 1]
      PROVE  req' \in [Requests -> Request] /\ HasRow' /\ paid' \in [Ids -> Nat]
  <2>1. [NoRequest EXCEPT !.pc = "record", !.x = req[r].x] \in Request
    BY <1>0, <1>55, RequestIs
  <2>2. paid' \in [Ids -> Nat]
    BY <1>55
  <2>3. HasRow'
    BY <1>0, <1>55, <2>1 DEF HasRow, NoRequest
  <2> QED
    BY <1>55, <2>1, <2>2, <2>3
<1>6. CASE PaySigned(r)
  <2>0. req' \in [Requests -> Request] /\ HasRow' /\ paid' \in [Ids -> Nat]
    BY <1>0, <1>6, <1>55 DEF PaySigned, At, HasRow
  <2>1. safe' \in Safe
    BY <1>6, Numbers DEF PaySigned, Safe
  <2>3. settled' \in [IntentIds -> Nat]
    BY <1>0, <1>6 DEF PaySigned
  <2>4. PayDirect(req[r].t.intent) \/ UNCHANGED contracts
    BY <1>6 DEF PaySigned
  <2> QED
    BY <1>0, <1>6, <2>0, <2>1, <2>3, <2>4, ContractsTyped DEF Deeds, PaySigned
<1>7. CASE PayBySession(r)
  <2>0. req' \in [Requests -> Request] /\ HasRow' /\ paid' \in [Ids -> Nat]
    BY <1>0, <1>7, <1>55 DEF PayBySession, At, HasRow
  <2> QED
    BY <1>0, <1>7, <2>0, ContractsTyped DEF Deeds, PayBySession
<1>8. CASE InstallModules(r)
  <2>0. safe.nonce + 1 \in 0..MaxNonce
    BY <1>8, Numbers DEF InstallModules, Safe
  <2>1. safe' \in Safe
    BY <1>8, <2>0 DEF InstallModules, Safe
  <2> QED
    BY <1>0, <1>02, <1>8, <2>1 DEF InstallModules, contracts
<1>9. CASE ConfigureManager(r)
  BY <1>0, <1>02, <1>9, ContractsTyped DEF Deeds, ConfigureManager, OnlyManager
<1>10. CASE StoreMigrated(r)
  BY <1>01, <1>10 DEF StoreMigrated, OnlyRow, contracts, Wallet
<1>11. CASE EnableSession(r)
  <2>0. req[r].old = NoKey /\ safe.nonce < MaxNonce
        /\ safe' = [safe EXCEPT !.keys = @ \cup {req[r].key}, !.nonce = @ + 1]
    BY <1>11 DEF EnableSession
  <2>2. safe.nonce + 1 \in 0..MaxNonce
    BY <2>0, Numbers DEF Safe
  <2>3. req[r].key \in Keys
    BY <1>0, <1>11 DEF EnableSession, At, HasRow
  <2>1. safe' \in Safe
    BY <2>0, <2>2, <2>3 DEF Safe
  <2> QED
    BY <1>0, <1>02, <1>11, <2>1, ContractsTyped DEF Deeds, EnableSession, At
<1>12. CASE RotateManager(r)
  BY <1>0, <1>02, <1>12, ContractsTyped DEF Deeds, RotateManager, OnlyManager, At
<1>13. CASE StoreSession(r)
  BY <1>0, <1>01, <1>13 DEF StoreSession, OnlyRow, contracts, Wallet
<1>14. CASE Fail(r)
  BY <1>01, <1>14 DEF Fail, Nothing, contracts
<1> QED
  BY <1>1, <1>2, <1>3, <1>4, <1>5, <1>6, <1>7, <1>8, <1>9, <1>10, <1>11,
     <1>12, <1>13, <1>14 DEF Continue

\* So does every step.
LEMMA TypeStep == TypeInv /\ [Next]_wvars => TypeInv'
<1> SUFFICES ASSUME TypeInv, [Next]_wvars PROVE TypeInv'
  OBVIOUS
<1> USE DEF TypeInv, TypeOK, HasRow
<1>1. CASE ConfirmMigration
  BY <1>1 DEF ConfirmMigration, OnlyRow, contracts, Wallet
<1>2. CASE Tick
  BY <1>2, Numbers DEF Tick
<1>3. CASE UNCHANGED wvars
  BY <1>3 DEF wvars, contracts
<1> QED
  BY <1>1, <1>2, <1>3, StartTyped, ContinueTyped DEF Next

\* Every step but the clock's is one of the contracts' deeds, or leaves them
\* alone.
LEMMA StepDeeds ==
  ASSUME TypeInv, [Next]_wvars
  PROVE  Tick \/ \E i \in IntentIds : Deeds(i)
<1> USE DEF Deeds
<1>0. /\ IntentIds # {}
      /\ \A r \in Requests : /\ req[r].t.intent \in IntentIds
                             /\ req[r].key \in Keys \cup {NoKey}
  BY IntentsExist DEF TypeInv, TypeOK, Request, Transfer
<1>1. ASSUME UNCHANGED contracts PROVE \E i \in IntentIds : Deeds(i)
  BY <1>0, <1>1
<1>2. ASSUME NEW r \in Requests, Start(r) PROVE UNCHANGED contracts
  BY <1>2 DEF Start, RequestTransfer, ReadForApproval, SignTransfer,
              ExecuteBySession, PrepareMigration, PrepareSession, Nothing
<1>3. ASSUME NEW r \in Requests, Continue(r) PROVE \E i \in IntentIds : Deeds(i)
  <2>1. CASE QueueIntent(r) \/ ApproveIntent(r) \/ PaySigned(r) \/ PayBySession(r)
    <3>1. Deeds(req[r].t.intent)
      BY <2>1 DEF QueueIntent, ApproveIntent, PaySigned, PayBySession
    <3> QED BY <1>0, <3>1
  <2>2. CASE ConfigureManager(r) \/ EnableSession(r) \/ RotateManager(r)
    BY <1>0, <2>2 DEF ConfigureManager, EnableSession, RotateManager
  <2> QED
    BY <1>1, <1>3, <2>1, <2>2
       DEF Continue, InsertTransfer, MarkApproved, ExecuteSigned,
           RecordExecution, InstallModules, StoreMigrated, StoreSession, Fail,
           OnlyTransfers, OnlyRow, Nothing
<1> QED
  BY <1>1, <1>2, <1>3 DEF Next, ConfirmMigration, OnlyRow, wvars

-----------------------------------------------------------------------------
(* The inductive invariant.                                                 *)

\* The manager's window is the last day on which it counted anything, and
\* whatever session keys took that day is counted.
WindowOK ==
  /\ manager.day <= Today
  /\ hooked[manager.day] <= manager.spent
  /\ \A d \in Days : d > manager.day => hooked[d] = 0
  /\ SessionLimitHolds

\* An intent that is approved, or was paid, an operator did approve.
ReviewsOK ==
  \A i \in IntentIds : intents[i].approved \/ settled[i] > 0 => approvals[i] > 0

Passed(t) == t.status \in {"approved", "executed"}

\* An intent that was paid has a row that was let through, and so has one that
\* is about to be paid.
SettledOK ==
  /\ \A i \in IntentIds : settled[i] > 0 =>
       \E x \in Ids : transfers[x].intent = i /\ Passed(transfers[x])
  /\ \A r \in Requests : req[r].pc = "paySigned" =>
       transfers[req[r].x].intent = req[r].t.intent

\* A transfer that is not refused has its lock, and one that may be paid has
\* outlasted it.
Locked(t) ==
  t.status \notin {"none", "blocked"} /\ t.intent[2] >= TimelockAt
    => t.unlockAt = t.createdAt + TimelockDelay

Ripe(t) ==
  t.status \in {"approved", "executed"} /\ t.intent[2] >= TimelockAt
    => t.createdAt + TimelockDelay <= now

Inserting(r) == req[r].pc \in {"queue", "insert"}

\* What a request may rely on in the row of its transfer.
RequestOK(r) ==
  LET t == transfers[req[r].x] IN
  /\ Inserting(r) =>
       /\ t.status = "none"
       /\ Locked(req[r].t) /\ Ripe(req[r].t)
       /\ req[r].t.status # "executed"
  /\ req[r].pc \in {"approveIntent", "markApproved"} =>
       t.status \notin {"none", "blocked"} /\ t.unlockAt <= now
  /\ req[r].pc \in {"signed", "paySigned", "paySession", "record"} =>
       t.status \in {"approved", "executed"}
  /\ req[r].pc = "record" => paid[req[r].x] > 0

RowsOK ==
  /\ \A x \in Ids : Locked(transfers[x]) /\ Ripe(transfers[x])
  /\ ExecutedWasPaid
  /\ \A r \in Requests : RequestOK(r)
  /\ \A r, o \in Requests :
       r # o /\ Inserting(r) /\ Inserting(o) => req[r].x # req[o].x

SessionOK ==
  /\ SessionIsEnabled
  /\ \A r \in Requests :
       /\ req[r].pc \in {"configure", "storeMigrated"} => safe.guarded
       /\ req[r].pc \in {"rotateManager", "storeSession"} =>
            safe.guarded /\ req[r].key \in safe.keys

\* The parts of the invariant hold at first.
LEMMA InitRest ==
  Init => WindowOK /\ ReviewsOK /\ SettledOK /\ RowsOK /\ SessionOK
<1> SUFFICES ASSUME Init PROVE WindowOK /\ ReviewsOK /\ SettledOK /\ RowsOK /\ SessionOK
  OBVIOUS
<1>0. TypeInv /\ now \in 0..MaxTime
  BY InitTyped DEF TypeInv, TypeOK
<1>1. WindowOK
  <2>1. manager.day = 0 /\ manager.spent = 0 /\ \A d \in Days : hooked[d] = 0
    BY DEF Init, PolicyInit, Unconfigured
  <2>2. 0 \in Days /\ Today \in Nat
    BY <1>0, TodayIsADay, DivMono, Numbers DEF Days
  <2> QED
    BY <2>1, <2>2, Numbers DEF WindowOK, SessionLimitHolds
<1>2. ReviewsOK
  BY DEF Init, PolicyInit, NoIntent, ReviewsOK
<1>3. RowsOK
  BY DEF Init, RowsOK, NoTransfer, NoRequest, Locked, Ripe, Inserting,
         RequestOK, ExecutedWasPaid
<1>4. SessionOK
  BY DEF Init, SessionOK, NoRequest, SessionIsEnabled, Migrated
<1>5. SettledOK
  BY DEF Init, NoRequest, SettledOK
<1> QED
  BY <1>1, <1>2, <1>3, <1>4, <1>5

-----------------------------------------------------------------------------
(* The window.                                                              *)

\* A payment that is counted, by a session key or by the owners.
LEMMA PaymentInWindow ==
  ASSUME TypeOK, WindowOK, NEW v \in Nat, ~WouldExceedDailySpend(v),
         ConsumeSpend(v), now' = now, PaysToday(v) \/ hooked' = hooked
  PROVE  WindowOK'
<1> USE DEF TypeOK, WindowOK
<1>0. /\ Today \in Days /\ Today \in Nat /\ Today' = Today
      /\ manager.day \in Days /\ manager.day \in Nat /\ manager.spent \in Nat
      /\ Days \subseteq Nat
  BY TodayIsADay DEF Manager, Days, Today
<1>1. SpentToday \in Nat /\ hooked[Today] <= SpentToday
  BY <1>0 DEF SpentToday
<1>2. manager'.day = Today /\ manager'.spent = SpentToday + v
  BY DEF ConsumeSpend, Manager
<1>3. /\ hooked'[Today] <= hooked[Today] + v
      /\ \A d \in Days : d # Today => hooked'[d] = hooked[d]
  BY <1>0 DEF PaysToday
<1>4. hooked[Today] + v <= DailyLimit
  BY <1>0, <1>1, Numbers DEF WouldExceedDailySpend
<1>5. \A d \in Days : d > Today => hooked'[d] = 0
  BY <1>0, <1>3
<1>6. hooked'[Today] \in Nat
  BY <1>0 DEF PaysToday
<1>7. hooked'[Today] <= DailyLimit
  BY <1>0, <1>3, <1>4, <1>6, Numbers
<1>8. SessionLimitHolds'
  BY <1>3, <1>7 DEF SessionLimitHolds
<1>9. hooked'[Today] <= SpentToday + v
  BY <1>0, <1>1, <1>3, <1>6
<1> QED
  BY <1>0, <1>2, <1>5, <1>8, <1>9

\* Every step keeps the window: a payment passes the limit of its day, and the
\* clock only leaves days behind.
LEMMA WindowStep == TypeInv /\ WindowOK /\ [Next]_wvars => WindowOK'
<1> SUFFICES ASSUME TypeInv, WindowOK, [Next]_wvars PROVE WindowOK'
  OBVIOUS
<1>0. TypeOK
  BY DEF TypeInv
<1>1. CASE Tick
  <2>1. /\ now \in Nat /\ now' = now + 1 /\ UNCHANGED <<manager, hooked>>
        /\ Today \in Nat /\ manager.day \in Nat
    BY <1>0, <1>1, TodayIsADay DEF Tick, TypeOK, Manager, Days
  <2>2. Today <= Today' /\ Today' \in Nat
    BY <2>1, DivMono DEF Today
  <2> QED
    BY <2>1, <2>2 DEF WindowOK, SessionLimitHolds
<1>2. ASSUME NEW i \in IntentIds, Deeds(i) PROVE WindowOK'
  <2>0. i[2] \in Nat
    BY IntentIdsAre
  <2>1. CASE UNCHANGED <<hooked, now>> /\ manager'.day = manager.day
             /\ manager'.spent = manager.spent
    BY <2>1 DEF WindowOK, SessionLimitHolds, Today
  <2>2. CASE PayDirect(i)
    BY <1>0, <2>0, <2>1, <2>2, PaymentInWindow
       DEF PayDirect, AfterExecution, DirectAllowed
  <2>3. CASE PayHooked(i)
    BY <1>0, <2>0, <2>3, PaymentInWindow DEF PayHooked, HookAllowed
  <2>4. CASE CallModule
    BY <2>1, <2>4 DEF CallModule
  <2>5. CASE \/ UNCHANGED contracts \/ ConfigureSafe
             \/ \E key \in Keys \cup {NoKey} : RotateSessionKey(key, now + KeyLife)
             \/ QueueReviewedIntent(i) \/ ApproveReviewedIntent(i)
    BY <1>0, <2>1, <2>5
       DEF contracts, ConfigureSafe, RotateSessionKey, QueueReviewedIntent,
           ApproveReviewedIntent, TypeOK, Manager
  <2> QED
    BY <1>2, <2>2, <2>3, <2>4, <2>5 DEF Deeds
<1> QED
  BY <1>1, <1>2, StepDeeds

-----------------------------------------------------------------------------
(* The reviews.                                                             *)

\* What is approved was approved by an operator, and only what is approved is
\* paid.
LEMMA ReviewsStep == TypeInv /\ ReviewsOK /\ [Next]_wvars => ReviewsOK'
<1> SUFFICES ASSUME TypeInv, ReviewsOK, [Next]_wvars PROVE ReviewsOK'
  OBVIOUS
<1> USE DEF TypeInv, TypeOK
<1>0. \A i \in IntentIds : /\ settled[i] \in Nat /\ approvals[i] \in Nat
                           /\ intents[i] \in Intent
  OBVIOUS
<1>1. CASE UNCHANGED <<intents, settled, approvals>>
  BY <1>1 DEF ReviewsOK
<1>2. ASSUME NEW r \in Requests, QueueIntent(r) PROVE ReviewsOK'
  <2>1. PICK i \in IntentIds : i = req[r].t.intent
    BY DEF Request, Transfer
  <2>2. ~intents'[i].approved /\ \A j \in IntentIds \ {i} : intents'[j] = intents[j]
    BY <1>2, <2>1 DEF QueueIntent, QueueReviewedIntent
  <2>3. UNCHANGED <<settled, approvals>>
    BY <1>2 DEF QueueIntent, OnlyManager
  <2> QED
    BY <2>2, <2>3 DEF ReviewsOK
<1>3. ASSUME NEW r \in Requests, ApproveIntent(r) PROVE ReviewsOK'
  <2>1. PICK i \in IntentIds : i = req[r].t.intent
    BY DEF Request, Transfer
  <2>2. /\ approvals'[i] = approvals[i] + 1
        /\ \A j \in IntentIds \ {i} : intents'[j] = intents[j] /\ approvals'[j] = approvals[j]
        /\ settled' = settled
    BY <1>3, <2>1 DEF ApproveIntent, ApproveReviewedIntent, OnlyManager
  <2> QED
    BY <1>0, <2>2 DEF ReviewsOK
<1>4. ASSUME NEW r \in Requests, PaySigned(r) PROVE ReviewsOK'
  <2>1. PICK i \in IntentIds : i = req[r].t.intent
    BY DEF Request, Transfer
  <2>2. approvals' = approvals
    BY <1>4 DEF PaySigned
  <2>3. \A j \in IntentIds : intents'[j].approved = intents[j].approved
    BY <1>0, <1>4, <2>1 DEF PaySigned, PayDirect, AfterExecution, contracts, Intent
  <2>4. CASE safe.guarded /\ i[2] >= ReviewAt
    <3>1. \A j \in IntentIds \ {i} : settled'[j] = settled[j]
      BY <1>4, <2>1, <2>4 DEF PaySigned
    <3>2. intents[i].approved
      BY <1>4, <2>1, <2>4 DEF PaySigned, PayDirect, DirectAllowed
    <3> QED
      BY <2>2, <2>3, <3>1, <3>2 DEF ReviewsOK
  <2>5. CASE ~(safe.guarded /\ i[2] >= ReviewAt)
    BY <1>4, <2>1, <2>2, <2>3, <2>5 DEF PaySigned, ReviewsOK
  <2> QED
    BY <2>4, <2>5
<1>5. ASSUME NEW r \in Requests, Continue(r),
             ~QueueIntent(r), ~ApproveIntent(r), ~PaySigned(r)
      PROVE  UNCHANGED <<intents, settled, approvals>>
  BY <1>5
     DEF Continue, InsertTransfer, MarkApproved, ExecuteSigned, PayBySession,
         PayHooked, RecordExecution, InstallModules, ConfigureManager,
         ConfigureSafe, StoreMigrated, EnableSession, CallModule, RotateManager,
         RotateSessionKey, StoreSession, Fail, OnlyTransfers, OnlyManager,
         OnlyRow, Nothing, contracts
<1>6. ASSUME NEW r \in Requests, Start(r)
      PROVE  UNCHANGED <<intents, settled, approvals>>
  BY <1>6
     DEF Start, RequestTransfer, ReadForApproval, SignTransfer, ExecuteBySession,
         PrepareMigration, PrepareSession, Nothing, contracts
<1>7. CASE ConfirmMigration \/ Tick \/ UNCHANGED wvars
  BY <1>1, <1>7 DEF ConfirmMigration, OnlyRow, Tick, wvars, contracts
<1> QED
  BY <1>1, <1>2, <1>3, <1>4, <1>5, <1>6, <1>7 DEF Next

-----------------------------------------------------------------------------
(* The rows of the transfers.                                               *)

\* Time passes and payments are made, but the rows stay: what was ripe stays
\* ripe, and a request goes on that may.
LEMMA RowsStay ==
  ASSUME TypeInv, TypeInv', RowsOK, NEW r \in Requests,
         transfers' = transfers, now' >= now,
         \A x \in Ids : paid'[x] >= paid[x],
         \A o \in Requests \ {r} : req'[o] = req[o],
         RequestOK(r)',
         Inserting(r)' => \A o \in Requests \ {r} :
                            Inserting(o) => req[o].x # req'[r].x
  PROVE  RowsOK'
<1> USE DEF TypeInv, TypeOK
<1>0. /\ now \in Nat /\ now' \in Nat
      /\ \A x \in Ids : paid[x] \in Nat /\ paid'[x] \in Nat
  BY Numbers
<1>01. \A t \in Transfer : t.unlockAt \in Nat /\ t.createdAt \in Nat /\ t.intent[2] \in Nat
  BY IntentIdsAre DEF Transfer
<1>1. \A t \in Transfer : (Locked(t) /\ Ripe(t)) => (Locked(t) /\ Ripe(t))'
  BY <1>0, <1>01, Numbers DEF Locked, Ripe
<1>2. \A x \in Ids : Locked(transfers[x])' /\ Ripe(transfers[x])'
  BY <1>1 DEF RowsOK, Locked, Ripe
<1>3. ExecutedWasPaid'
  BY <1>0 DEF RowsOK, ExecutedWasPaid
<1>4. ASSUME NEW o \in Requests, o # r PROVE RequestOK(o)'
  <2>1. RequestOK(o) /\ req'[o] = req[o] /\ req[o].t \in Transfer
    BY <1>4 DEF RowsOK, Request
  <2>2. req[o].pc \in RowPcs => req[o].x \in Ids
    BY DEF HasRow
  <2>3. req[o].pc = "record" => req[o].x \in Ids
    BY <2>2 DEF RowPcs
  <2>4. req[o].pc \in {"approveIntent", "markApproved"} =>
          transfers[req[o].x] \in Transfer
    BY <2>2 DEF RowPcs
  <2> QED
    BY <1>0, <1>01, <1>1, <2>1, <2>3, <2>4 DEF RequestOK, Inserting, Locked, Ripe
<1>5. \A o, p \in Requests :
        o # p /\ Inserting(o)' /\ Inserting(p)' => req'[o].x # req'[p].x
  BY DEF RowsOK, Inserting
<1> QED
  BY <1>2, <1>3, <1>4, <1>5 DEF RowsOK

\* A request that ends, or goes on without a transfer.
LEMMA RowsAlone ==
  ASSUME TypeInv, TypeInv', RowsOK, NEW r \in Requests,
         transfers' = transfers, paid' = paid, now' = now,
         \A o \in Requests \ {r} : req'[o] = req[o],
         req'[r].pc \notin RowPcs
  PROVE  RowsOK'
<1>1. now' >= now /\ \A x \in Ids : paid'[x] >= paid[x]
  BY Numbers DEF TypeInv, TypeOK
<1>2. RequestOK(r)' /\ ~Inserting(r)'
  BY DEF RequestOK, Inserting, RowPcs
<1> QED
  BY <1>1, <1>2, RowsStay

\* A row is written by a request that ends: one it was inserting, or one
\* that becomes approved or executed.
LEMMA RowWritten ==
  ASSUME TypeInv, TypeInv', RowsOK, NEW r \in Requests, NEW x \in Ids, NEW t \in Transfer,
         transfers' = [transfers EXCEPT ![x] = t], End(r),
         paid' = paid, now' = now,
         Locked(t), Ripe(t), t.status = "executed" => paid[x] > 0,
         \/ Inserting(r) /\ req[r].x = x
         \/ /\ transfers[x].status # "none"
            /\ t.status \in {"approved", "executed"}
            /\ t.unlockAt = transfers[x].unlockAt
  PROVE  RowsOK'
<1> USE DEF TypeInv, TypeOK
<1>1. \A y \in Ids : transfers'[y] = IF y = x THEN t ELSE transfers[y]
  OBVIOUS
<1>2. \A y \in Ids : Locked(transfers'[y]) /\ Ripe(transfers'[y])
  BY <1>1 DEF RowsOK
<1>3. \A y \in Ids : Locked(transfers[y])' /\ Ripe(transfers[y])'
  BY <1>2 DEF Locked, Ripe
<1>4. ExecutedWasPaid'
  BY <1>1 DEF RowsOK, ExecutedWasPaid
<1>5. req'[r] = NoRequest /\ \A o \in Requests \ {r} : req'[o] = req[o]
  BY DEF End
<1>6. RequestOK(r)' /\ ~Inserting(r)'
  BY <1>5 DEF RequestOK, Inserting, NoRequest
<1>7. ASSUME NEW o \in Requests, o # r PROVE RequestOK(o)'
  <2>1. RequestOK(o) /\ req'[o] = req[o]
    BY <1>5, <1>7 DEF RowsOK
  <2>2. req[o].pc \in RowPcs => req[o].x \in Ids
    BY DEF HasRow
  <2>3. CASE req[o].pc \notin RowPcs
    BY <2>1, <2>3 DEF RequestOK, Inserting, RowPcs
  <2>4. CASE req[o].pc \in RowPcs /\ req[o].x # x
    BY <1>1, <2>1, <2>2, <2>4 DEF RequestOK, Inserting, Locked, Ripe
  <2>5. CASE req[o].pc \in RowPcs /\ req[o].x = x
    <3>1. transfers'[req'[o].x] = t
      BY <1>1, <2>1, <2>5
    <3>2. CASE Inserting(r) /\ req[r].x = x
      <4>1. transfers[x].status = "none" /\ ~Inserting(o)
        BY <1>7, <2>5, <3>2 DEF RowsOK, RequestOK
      <4> QED
        BY <2>1, <2>5, <4>1 DEF RequestOK, Inserting, RowPcs
    <3>3. CASE /\ transfers[x].status # "none"
               /\ t.status \in {"approved", "executed"}
               /\ t.unlockAt = transfers[x].unlockAt
      BY <2>1, <2>5, <3>1, <3>3 DEF RequestOK, Inserting
    <3> QED
      BY <3>2, <3>3
  <2> QED
    BY <2>3, <2>4, <2>5
<1>8. \A o, p \in Requests :
        o # p /\ Inserting(o)' /\ Inserting(p)' => req'[o].x # req'[p].x
  BY <1>5, <1>6 DEF RowsOK, Inserting
<1> QED
  BY <1>3, <1>4, <1>6, <1>7, <1>8 DEF RowsOK

\* A request that starts takes from the row what it will rely on.
LEMMA RowsStart ==
  ASSUME TypeInv, TypeInv', RowsOK, NEW r \in Requests, Start(r)
  PROVE  RowsOK'
<1> USE DEF TypeInv, TypeOK
<1>0. req[r] \in Request /\ now \in Nat /\ \A x \in Ids : paid[x] \in Nat
  BY Numbers
<1>1. /\ transfers' = transfers /\ paid' = paid /\ now' = now
      /\ \A o \in Requests \ {r} : req'[o] = req[o]
  BY ZenonT(40) DEF Start, RequestTransfer, Begin, ReadForApproval, SignTransfer,
         ExecuteBySession, PrepareMigration, PrepareSession, Nothing, contracts
<1>2. now' >= now /\ \A x \in Ids : paid'[x] >= paid[x]
  BY <1>0, <1>1
<1>3. ASSUME NEW x \in Ids, NEW i \in IntentIds, NEW readable \in BOOLEAN,
             RequestTransfer(r, x, i, readable)
      PROVE  RowsOK'
  <2> DEFINE t == Evaluate(i, readable)
             pc == IF Migrated /\ t.status = "queued" THEN "queue" ELSE "insert"
  <2>1. /\ t \in Transfer /\ t.createdAt = now /\ t.intent = i
        /\ t.status \in {"blocked", "queued", "approved"}
        /\ t.status = "queued" /\ i[2] >= TimelockAt
              => t.unlockAt = now + TimelockDelay
        /\ t.status = "approved" => ~(i[2] >= TimelockAt)
    BY <1>0, EvaluateTyped
  <2>2. pc \in {"queue", "insert"}
    OBVIOUS
  <2>3. /\ Fresh(x)
        /\ req' = [req EXCEPT ![r].pc = pc, ![r].x = x, ![r].t = t]
    BY <1>3 DEF RequestTransfer, Begin
  <2> HIDE DEF t, pc
  <2>4. Locked(t) /\ Ripe(t)
    BY <2>1 DEF Locked, Ripe
  <2>5. req'[r].pc = pc /\ req'[r].x = x /\ req'[r].t = t
    BY <1>0, <2>3, RequestIs
  <2>6. RequestOK(r)'
    BY <1>1, <2>1, <2>2, <2>3, <2>4, <2>5
       DEF RequestOK, Inserting, Fresh, Locked, Ripe
  <2> QED
    BY <1>1, <1>2, <2>3, <2>5, <2>6, RowsStay DEF Fresh, Inserting
<1>4. ASSUME NEW x \in Ids, ReadForApproval(r, x) PROVE RowsOK'
  <2>1. /\ req'[r].pc \in {"approveIntent", "markApproved"} /\ req'[r].x = x
        /\ transfers[x].status = "queued" /\ transfers[x].unlockAt <= now
    BY <1>0, <1>4, RequestIs DEF ReadForApproval, Begin
  <2>2. RequestOK(r)' /\ ~Inserting(r)'
    BY <1>1, <2>1 DEF RequestOK, Inserting
  <2> QED
    BY <1>1, <1>2, <2>2, RowsStay
<1>5. ASSUME NEW x \in Ids, SignTransfer(r, x) \/ ExecuteBySession(r, x)
      PROVE  RowsOK'
  <2>1. /\ req'[r].pc \in {"signed", "paySession"} /\ req'[r].x = x
        /\ transfers[x].status = "approved"
    BY <1>0, <1>5, RequestIs DEF SignTransfer, ExecuteBySession
  <2>2. RequestOK(r)' /\ ~Inserting(r)'
    BY <1>1, <2>1 DEF RequestOK, Inserting
  <2> QED
    BY <1>1, <1>2, <2>2, RowsStay
<1>6. ASSUME PrepareMigration(r) \/ \E key \in Keys : PrepareSession(r, key)
      PROVE  RowsOK'
  <2>1. req'[r].pc \in {"migrate", "enable"}
    <3>1. CASE PrepareMigration(r)
      BY <1>0, <3>1, RequestIs DEF PrepareMigration
    <3>2. ASSUME NEW key \in Keys, PrepareSession(r, key) PROVE req'[r].pc = "enable"
      BY <1>0, <3>2, RequestIs DEF PrepareSession
    <3> QED BY <1>6, <3>1, <3>2
  <2> QED
    BY <1>1, <2>1, RowsAlone DEF RowPcs
<1> QED
  BY <1>3, <1>4, <1>5, <1>6 DEF Start

\* A request that goes on writes a row it may rely on, or none.
LEMMA RowsContinue ==
  ASSUME TypeInv, TypeInv', RowsOK, NEW r \in Requests, Continue(r)
  PROVE  RowsOK'
<1> USE DEF TypeInv, TypeOK
<1>0. /\ req[r] \in Request /\ req[r].t \in Transfer /\ now \in Nat
      /\ \A x \in Ids : paid[x] \in Nat /\ transfers[x] \in Transfer
      /\ RequestOK(r)
      /\ req[r].pc \in RowPcs => req[r].x \in Ids
  BY Numbers DEF Request, RowsOK, HasRow
<1>01. End(r) => /\ req'[r].pc \notin RowPcs
                 /\ \A o \in Requests \ {r} : req'[o] = req[o]
  BY DEF End, NoRequest, RowPcs
<1>02. \A pc : Goto(r, pc) => /\ req'[r] = [req[r] EXCEPT !.pc = pc]
                              /\ req'[r].pc = pc /\ req'[r].x = req[r].x
                              /\ req'[r].t = req[r].t
                              /\ \A o \in Requests \ {r} : req'[o] = req[o]
  BY <1>0, RequestIs DEF Goto
<1>1. CASE QueueIntent(r)
  <2>1. /\ req[r].pc = "queue" /\ Goto(r, "insert")
        /\ transfers' = transfers /\ paid' = paid /\ now' = now
    BY <1>1 DEF QueueIntent, OnlyManager, QueueReviewedIntent, At
  <2>2. RequestOK(r)'
    BY <1>0, <1>02, <2>1 DEF RequestOK, Inserting, Locked, Ripe
  <2>3. \A o \in Requests \ {r} : Inserting(o) => req[o].x # req'[r].x
    BY <1>02, <2>1 DEF RowsOK, Inserting
  <2> QED
    BY <1>0, <1>02, <2>1, <2>2, <2>3, RowsStay
<1>2. CASE InsertTransfer(r)
  <2>1. /\ Inserting(r) /\ req[r].x \in Ids /\ End(r)
        /\ transfers' = [transfers EXCEPT ![req[r].x] = req[r].t]
        /\ paid' = paid /\ now' = now
    BY <1>0, <1>2 DEF InsertTransfer, At, Inserting, RowPcs, OnlyTransfers, contracts
  <2>2. Locked(req[r].t) /\ Ripe(req[r].t) /\ req[r].t.status # "executed"
    BY <1>0, <2>1 DEF RequestOK
  <2> QED
    BY <1>0, <2>1, <2>2, RowWritten
<1>3. CASE ApproveIntent(r)
  <2>1. /\ req[r].pc = "approveIntent" /\ Goto(r, "markApproved")
        /\ transfers' = transfers /\ paid' = paid /\ now' = now
    BY <1>3 DEF ApproveIntent, OnlyManager, ApproveReviewedIntent, At
  <2>2. RequestOK(r)' /\ ~Inserting(r)'
    BY <1>0, <1>02, <2>1 DEF RequestOK, Inserting
  <2> QED
    BY <1>0, <1>02, <2>1, <2>2, RowsStay
<1>4. CASE MarkApproved(r)
  <2>1. PICK x \in Ids : x = req[r].x
    BY <1>0, <1>4 DEF MarkApproved, At, RowPcs
  <2> DEFINE t == [transfers[x] EXCEPT !.status = "approved"]
  <2>2. /\ transfers' = [transfers EXCEPT ![x] = t] /\ End(r)
        /\ paid' = paid /\ now' = now
    BY <1>4, <2>1 DEF MarkApproved, OnlyTransfers, contracts
  <2>3. /\ transfers[x].status \notin {"none", "blocked"}
        /\ transfers[x].unlockAt <= now
        /\ Locked(transfers[x])
    BY <1>0, <1>4, <2>1 DEF MarkApproved, At, RequestOK, RowsOK
  <2>4. /\ t \in Transfer /\ t.status = "approved"
        /\ t.unlockAt = transfers[x].unlockAt /\ t.intent = transfers[x].intent
        /\ t.createdAt = transfers[x].createdAt
    BY <1>0 DEF Transfer
  <2> HIDE DEF t
  <2>5. Locked(t) /\ Ripe(t)
    BY <2>3, <2>4 DEF Locked, Ripe
  <2> QED
    BY <2>2, <2>3, <2>4, <2>5, RowWritten
<1>5. CASE RecordExecution(r)
  <2>1. PICK x \in Ids : x = req[r].x
    BY <1>0, <1>5 DEF RecordExecution, At, RowPcs
  <2> DEFINE t == [transfers[x] EXCEPT !.status = "executed"]
  <2>2. /\ transfers' = [transfers EXCEPT ![x] = t] /\ End(r)
        /\ paid' = paid /\ now' = now
    BY <1>5, <2>1 DEF RecordExecution, OnlyTransfers, contracts
  <2>3. /\ transfers[x].status \in {"approved", "executed"} /\ paid[x] > 0
        /\ Locked(transfers[x]) /\ Ripe(transfers[x])
    BY <1>0, <1>5, <2>1 DEF RecordExecution, At, RequestOK, RowsOK
  <2>4. /\ t \in Transfer /\ t.status = "executed"
        /\ t.unlockAt = transfers[x].unlockAt /\ t.intent = transfers[x].intent
        /\ t.createdAt = transfers[x].createdAt
    BY <1>0 DEF Transfer
  <2> HIDE DEF t
  <2>5. Locked(t) /\ Ripe(t)
    BY <2>3, <2>4 DEF Locked, Ripe
  <2> QED
    BY <2>2, <2>3, <2>4, <2>5, RowWritten
<1>6. CASE ExecuteSigned(r)
  <2>1. /\ req[r].pc = "signed" /\ transfers' = transfers /\ paid' = paid /\ now' = now
        /\ req' = [req EXCEPT ![r].t = transfers[req[r].x], ![r].pc = "paySigned"]
    BY <1>6 DEF ExecuteSigned, At, Nothing, contracts
  <2>2. /\ req'[r].pc = "paySigned" /\ req'[r].x = req[r].x
        /\ \A o \in Requests \ {r} : req'[o] = req[o]
    BY <1>0, <2>1, RequestIs
  <2>3. RequestOK(r)' /\ ~Inserting(r)'
    BY <1>0, <2>1, <2>2 DEF RequestOK, Inserting
  <2> QED
    BY <1>0, <2>1, <2>2, <2>3, RowsStay
<1>7. CASE PaySigned(r) \/ PayBySession(r)
  <2>1. /\ req[r].pc \in {"paySigned", "paySession"} /\ req[r].x \in Ids
        /\ transfers' = transfers
        /\ paid' = [paid EXCEPT ![req[r].x] = @ + 1]
        /\ req' = [req EXCEPT ![r] = [NoRequest EXCEPT !.pc = "record", !.x = req[r].x]]
    BY <1>0, <1>7 DEF PaySigned, PayBySession, At, RowPcs
  <2>2. now' = now
    BY <1>7 DEF PaySigned, PayBySession, PayDirect, PayHooked, contracts
  <2>3. /\ req'[r].pc = "record" /\ req'[r].x = req[r].x
        /\ \A o \in Requests \ {r} : req'[o] = req[o]
    BY <2>1 DEF NoRequest
  <2>4. paid'[req[r].x] > 0 /\ \A x \in Ids : paid'[x] >= paid[x]
    BY <1>0, <2>1
  <2>5. RequestOK(r)' /\ ~Inserting(r)'
    BY <1>0, <2>1, <2>3, <2>4 DEF RequestOK, Inserting
  <2> QED
    BY <1>0, <2>1, <2>2, <2>3, <2>4, <2>5, RowsStay
<1>8. CASE \/ InstallModules(r) \/ ConfigureManager(r) \/ StoreMigrated(r)
           \/ EnableSession(r) \/ RotateManager(r) \/ StoreSession(r) \/ Fail(r)
  <2>1. transfers' = transfers /\ paid' = paid /\ now' = now
    BY <1>8 DEF InstallModules, ConfigureManager, StoreMigrated, EnableSession,
                RotateManager, StoreSession, Fail, OnlyManager, OnlyRow, Nothing,
                ConfigureSafe, RotateSessionKey, CallModule, contracts
  <2>2. End(r) \/ \E pc \in {"configure", "storeMigrated", "rotateManager",
                             "storeSession"} : Goto(r, pc)
    BY <1>8 DEF InstallModules, ConfigureManager, StoreMigrated, EnableSession,
                RotateManager, StoreSession, Fail
  <2>3. req'[r].pc \notin RowPcs /\ \A o \in Requests \ {r} : req'[o] = req[o]
    BY <1>01, <1>02, <2>2 DEF RowPcs
  <2> QED
    BY <2>1, <2>3, RowsAlone
<1> QED
  BY <1>1, <1>2, <1>3, <1>4, <1>5, <1>6, <1>7, <1>8 DEF Continue

\* Every step keeps the rows.
LEMMA RowsStep == TypeInv /\ TypeInv' /\ RowsOK /\ [Next]_wvars => RowsOK'
<1> SUFFICES ASSUME TypeInv, TypeInv', RowsOK, [Next]_wvars PROVE RowsOK'
  OBVIOUS
<1>1. ASSUME UNCHANGED <<transfers, paid, req>>, now' >= now PROVE RowsOK'
  <2>1. CASE Requests = {}
    <3>1. \A t \in Transfer : t.createdAt \in Nat
      BY DEF Transfer
    <3>2. now \in Nat /\ now' \in Nat
      BY Numbers DEF TypeInv, TypeOK
    <3> QED
      BY <1>1, <2>1, <3>1, <3>2, Numbers, SMTT(30)
         DEF RowsOK, Locked, Ripe, ExecutedWasPaid, TypeInv, TypeOK
  <2>2. CASE Requests # {}
    <3>1. PICK r \in Requests : TRUE
      BY <2>2
    <3>2. \A x \in Ids : paid'[x] >= paid[x]
      BY <1>1 DEF TypeInv, TypeOK
    <3>3. RequestOK(r)'
      <4>1. RequestOK(r) /\ req[r].t \in Transfer
        BY DEF RowsOK, TypeInv, TypeOK, Request
      <4>2. /\ now \in Nat /\ now' \in Nat
            /\ \A t \in Transfer : t.createdAt \in Nat /\ t.unlockAt \in Nat
            /\ req[r].pc \in {"approveIntent", "markApproved"} =>
                 transfers[req[r].x] \in Transfer
        BY Numbers DEF TypeInv, TypeOK, HasRow, RowPcs, Transfer
      <4> QED
        BY <1>1, <4>1, <4>2, Numbers DEF RequestOK, Inserting, Locked, Ripe
    <3> QED
      BY <1>1, <3>1, <3>2, <3>3, RowsStay DEF RowsOK, Inserting
  <2> QED BY <2>1, <2>2
<1>2. CASE ConfirmMigration \/ Tick \/ UNCHANGED wvars
  <2>1. now' >= now
    BY <1>2, Numbers DEF ConfirmMigration, OnlyRow, Tick, wvars, contracts, TypeInv, TypeOK
  <2> QED
    BY <1>1, <1>2, <2>1 DEF ConfirmMigration, OnlyRow, Tick, wvars, contracts
<1> QED
  BY <1>2, RowsStart, RowsContinue DEF Next

\* A row that was let through stays so, for the same payment.
LEMMA PassedStays ==
  ASSUME TypeInv, RowsOK, [Next]_wvars, NEW x \in Ids, Passed(transfers[x])
  PROVE  Passed(transfers'[x]) /\ transfers'[x].intent = transfers[x].intent
<1> USE DEF TypeInv, TypeOK
<1>0. \A r \in Requests : req[r].pc \in RowPcs => req[r].x \in Ids
  BY DEF HasRow
<1>1. CASE transfers' = transfers
  BY <1>1
<1>2. ASSUME NEW r \in Requests, InsertTransfer(r)
      PROVE  transfers'[x] = transfers[x]
  <2>1. transfers[req[r].x].status = "none"
    BY <1>2 DEF InsertTransfer, At, RowsOK, RequestOK, Inserting
  <2> QED
    BY <1>2, <2>1 DEF InsertTransfer, Passed
<1>3. ASSUME NEW r \in Requests, MarkApproved(r) \/ RecordExecution(r)
      PROVE  Passed(transfers'[x]) /\ transfers'[x].intent = transfers[x].intent
  <2>1. PICK st \in {"approved", "executed"} :
          transfers' = [transfers EXCEPT ![req[r].x].status = st]
    BY <1>3 DEF MarkApproved, RecordExecution
  <2>2. transfers[x] \in Transfer
    OBVIOUS
  <2>3. CASE req[r].x = x
    <3>1. transfers'[x] = [transfers[x] EXCEPT !.status = st]
      BY <2>1, <2>3
    <3> QED
      BY <2>1, <2>2, <3>1 DEF Passed, Transfer
  <2>4. CASE req[r].x # x
    BY <2>1, <2>4
  <2> QED
    BY <2>3, <2>4
<1>4. ASSUME NEW r \in Requests, Continue(r), ~InsertTransfer(r),
             ~MarkApproved(r), ~RecordExecution(r)
      PROVE  transfers' = transfers
  BY <1>4
     DEF Continue, QueueIntent, ApproveIntent, ExecuteSigned, PaySigned,
         PayBySession, InstallModules, ConfigureManager, StoreMigrated,
         EnableSession, RotateManager, StoreSession, Fail, OnlyManager, OnlyRow,
         Nothing
<1>5. ASSUME NEW r \in Requests, Start(r) PROVE transfers' = transfers
  BY <1>5
     DEF Start, RequestTransfer, ReadForApproval, SignTransfer, ExecuteBySession,
         PrepareMigration, PrepareSession, Nothing
<1>6. CASE ConfirmMigration \/ Tick \/ UNCHANGED wvars
  BY <1>1, <1>6 DEF ConfirmMigration, OnlyRow, Tick, wvars
<1> QED
  BY <1>1, <1>2, <1>3, <1>4, <1>5, <1>6 DEF Next

\* What is paid has a row that was let through: the request read it when it
\* was, and rows stay for the payment they were made for.
LEMMA SettledStep ==
  TypeInv /\ RowsOK /\ SettledOK /\ [Next]_wvars => SettledOK'
<1> SUFFICES ASSUME TypeInv, RowsOK, SettledOK, [Next]_wvars PROVE SettledOK'
  OBVIOUS
<1> USE DEF TypeInv, TypeOK
<1>0. /\ \A r \in Requests : req[r] \in Request /\ req[r].t.intent \in IntentIds
      /\ \A r \in Requests : req[r].pc \in RowPcs => req[r].x \in Ids
  BY DEF HasRow, Request, Transfer
<1>1. \A x \in Ids : Passed(transfers[x]) =>
        Passed(transfers'[x]) /\ transfers'[x].intent = transfers[x].intent
  BY PassedStays
<1>2. \A r \in Requests : req[r].pc = "paySigned" =>
        /\ req[r].x \in Ids /\ Passed(transfers[req[r].x])
        /\ transfers'[req[r].x].intent = req[r].t.intent
  BY <1>0, <1>1 DEF RowsOK, RequestOK, RowPcs, SettledOK, Passed
<1>3. ASSUME settled' = settled,
             \A r \in Requests : req'[r].pc = "paySigned" => req'[r] = req[r]
      PROVE  SettledOK'
  BY <1>1, <1>2, <1>3 DEF SettledOK
<1>4. ASSUME NEW r \in Requests, ExecuteSigned(r) PROVE SettledOK'
  <2>1. /\ settled' = settled /\ transfers' = transfers
        /\ req' = [req EXCEPT ![r].t = transfers[req[r].x], ![r].pc = "paySigned"]
    BY <1>4 DEF ExecuteSigned, Nothing
  <2>2. /\ req'[r].t = transfers[req[r].x] /\ req'[r].x = req[r].x
        /\ \A o \in Requests \ {r} : req'[o] = req[o]
    BY <1>0, <2>1, RequestIs
  <2> QED
    BY <1>1, <1>2, <2>1, <2>2 DEF SettledOK
<1>5. ASSUME NEW r \in Requests, PaySigned(r) PROVE SettledOK'
  <2>1. PICK i \in IntentIds : i = req[r].t.intent
    BY <1>0
  <2>2. /\ \A j \in IntentIds \ {i} : settled'[j] = settled[j]
        /\ \A o \in Requests \ {r} : req'[o] = req[o]
        /\ req'[r].pc = "record" /\ req[r].pc = "paySigned"
        /\ transfers' = transfers
    BY <1>5, <2>1 DEF PaySigned, At, NoRequest
  <2>3. /\ req[r].x \in Ids /\ Passed(transfers[req[r].x])
        /\ transfers[req[r].x].intent = i
    BY <1>2, <2>1, <2>2
  <2> QED
    BY <1>1, <1>2, <2>2, <2>3 DEF SettledOK
<1>6. ASSUME NEW r \in Requests, Continue(r), ~ExecuteSigned(r), ~PaySigned(r)
      PROVE  SettledOK'
  <2>1. settled' = settled
    BY <1>6
       DEF Continue, QueueIntent, InsertTransfer, ApproveIntent, MarkApproved,
           PayBySession, RecordExecution, InstallModules, ConfigureManager,
           StoreMigrated, EnableSession, RotateManager, StoreSession, Fail,
           OnlyTransfers, OnlyManager, OnlyRow, Nothing
  <2>2. \/ req' = [req EXCEPT ![r] = NoRequest]
        \/ req' = [req EXCEPT ![r] = [NoRequest EXCEPT !.pc = "record", !.x = req[r].x]]
        \/ \E pc \in {"insert", "markApproved", "configure", "storeMigrated",
                      "rotateManager", "storeSession"} : req' = [req EXCEPT ![r].pc = pc]
    BY <1>6
       DEF Continue, QueueIntent, InsertTransfer, ApproveIntent, MarkApproved,
           PayBySession, RecordExecution, InstallModules, ConfigureManager,
           StoreMigrated, EnableSession, RotateManager, StoreSession, Fail,
           End, Goto
  <2>3. \A o \in Requests : req'[o].pc = "paySigned" => req'[o] = req[o]
    <3>1. \A o \in Requests \ {r} : req'[o] = req[o]
      BY <2>2
    <3>2. req'[r].pc # "paySigned"
      <4>1. CASE \/ req' = [req EXCEPT ![r] = NoRequest]
                 \/ req' = [req EXCEPT ![r] = [NoRequest EXCEPT !.pc = "record",
                                                              !.x = req[r].x]]
        <5>1. NoRequest.pc = "idle" /\ r \in DOMAIN req
          BY DEF NoRequest
        <5>2. \A y : [NoRequest EXCEPT !.pc = "record", !.x = y].pc = "record"
          BY DEF NoRequest
        <5>3. CASE req' = [req EXCEPT ![r] = NoRequest]
          BY <5>1, <5>3
        <5> QED
          BY <4>1, <5>1, <5>2, <5>3
      <4>2. ASSUME NEW pc \in {"insert", "markApproved", "configure",
                               "storeMigrated", "rotateManager", "storeSession"},
                   req' = [req EXCEPT ![r].pc = pc]
            PROVE  req'[r].pc = pc
        BY <1>0, <4>2, RequestIs
      <4> QED
        BY <2>2, <4>1, <4>2
    <3> QED
      BY <3>1, <3>2
  <2> QED
    BY <1>3, <2>1, <2>3
<1>7. ASSUME NEW r \in Requests, Start(r) PROVE SettledOK'
  <2>1. settled' = settled
    BY <1>7
       DEF Start, RequestTransfer, ReadForApproval, SignTransfer,
           ExecuteBySession, PrepareMigration, PrepareSession, Nothing
  <2>2. \A o \in Requests \ {r} : req'[o] = req[o]
    BY <1>7
       DEF Start, RequestTransfer, Begin, ReadForApproval, SignTransfer,
           ExecuteBySession, PrepareMigration, PrepareSession
  <2>3. req'[r].pc # "paySigned"
    <3>1. ASSUME NEW x \in Ids, NEW i \in IntentIds, NEW readable \in BOOLEAN,
                 RequestTransfer(r, x, i, readable)
          PROVE  req'[r].pc # "paySigned"
      <4>1. PICK pc \in {"queue", "insert"} :
              req' = [req EXCEPT ![r].pc = pc, ![r].x = x, ![r].t = Evaluate(i, readable)]
        BY <3>1 DEF RequestTransfer, Begin
      <4> QED
        BY <1>0, <4>1, RequestIs
    <3>2. ASSUME NEW x \in Ids, ReadForApproval(r, x) PROVE req'[r].pc # "paySigned"
      <4>1. PICK pc \in {"approveIntent", "markApproved"} :
              req' = [req EXCEPT ![r].pc = pc, ![r].x = x, ![r].t = transfers[x]]
        BY <3>2 DEF ReadForApproval, Begin
      <4> QED
        BY <1>0, <4>1, RequestIs
    <3>3. ASSUME NEW x \in Ids, SignTransfer(r, x) \/ ExecuteBySession(r, x)
          PROVE  req'[r].pc # "paySigned"
      BY <1>0, <3>3, RequestIs DEF SignTransfer, ExecuteBySession
    <3>4. CASE PrepareMigration(r)
      BY <1>0, <3>4, RequestIs DEF PrepareMigration
    <3>5. ASSUME NEW key \in Keys, PrepareSession(r, key)
          PROVE  req'[r].pc # "paySigned"
      BY <1>0, <3>5, RequestIs DEF PrepareSession
    <3> QED
      BY <1>7, <3>1, <3>2, <3>3, <3>4, <3>5 DEF Start
  <2> QED
    BY <1>3, <2>1, <2>2, <2>3
<1>8. CASE ConfirmMigration \/ Tick \/ UNCHANGED wvars
  BY <1>3, <1>8 DEF ConfirmMigration, OnlyRow, Tick, wvars
<1> QED
  BY <1>4, <1>5, <1>6, <1>7, <1>8 DEF Next

-----------------------------------------------------------------------------
(* The migration and the sessions.                                          *)

\* The key is enabled on the Safe before the row names it, and replaced in the
\* row before it is removed from the Safe.
LEMMA SessionStep == TypeInv /\ SessionOK /\ [Next]_wvars => SessionOK'
<1> SUFFICES ASSUME TypeInv, SessionOK, [Next]_wvars PROVE SessionOK'
  OBVIOUS
<1> USE DEF TypeInv, TypeOK, SessionOK, SessionIsEnabled, Migrated
<1>0. \A r \in Requests :
        /\ req[r] \in Request
        /\ \A pc : Goto(r, pc) => /\ req'[r].pc = pc /\ req'[r].key = req[r].key
                                  /\ \A o \in Requests \ {r} : req'[o] = req[o]
        /\ End(r) => /\ req'[r].pc = "idle"
                     /\ \A o \in Requests \ {r} : req'[o] = req[o]
  BY RequestIs DEF Goto, End, NoRequest
<1>1. ASSUME NEW r \in Requests, safe'.keys = safe.keys,
             safe'.guarded = safe.guarded,
             row' = row \/ (row'.migration = "pending" /\ row'.key = NoKey),
             \A o \in Requests \ {r} : req'[o] = req[o],
             req'[r].pc \notin {"configure", "storeMigrated", "rotateManager",
                                "storeSession"}
      PROVE  SessionOK'
  BY <1>1
<1>2. ASSUME NEW r \in Requests, Start(r) PROVE SessionOK'
  <2>1. \A o \in Requests \ {r} : req'[o] = req[o]
    BY <1>2 DEF Start, RequestTransfer, Begin, ReadForApproval, SignTransfer,
                ExecuteBySession, PrepareMigration, PrepareSession
  <2>2. req'[r].pc \in {"queue", "insert", "approveIntent", "markApproved",
                        "signed", "paySession", "migrate", "enable"}
    <3>1. ASSUME NEW x \in Ids, NEW i \in IntentIds, NEW readable \in BOOLEAN,
                 RequestTransfer(r, x, i, readable)
          PROVE  req'[r].pc \in {"queue", "insert"}
      BY <1>0, <3>1, RequestIs DEF RequestTransfer, Begin
    <3>2. ASSUME NEW x \in Ids, ReadForApproval(r, x)
          PROVE  req'[r].pc \in {"approveIntent", "markApproved"}
      BY <1>0, <3>2, RequestIs DEF ReadForApproval, Begin
    <3>3. ASSUME NEW x \in Ids, SignTransfer(r, x) PROVE req'[r].pc = "signed"
      BY <1>0, <3>3, RequestIs DEF SignTransfer
    <3>4. ASSUME NEW x \in Ids, ExecuteBySession(r, x) PROVE req'[r].pc = "paySession"
      BY <1>0, <3>4, RequestIs DEF ExecuteBySession
    <3>5. CASE PrepareMigration(r)
      BY <1>0, <3>5, RequestIs DEF PrepareMigration
    <3>6. ASSUME NEW key \in Keys, PrepareSession(r, key) PROVE req'[r].pc = "enable"
      BY <1>0, <3>6, RequestIs DEF PrepareSession
    <3> QED
      BY <1>2, <3>1, <3>2, <3>3, <3>4, <3>5, <3>6 DEF Start
  <2>3. /\ safe'.keys = safe.keys /\ safe'.guarded = safe.guarded
        /\ row' = row \/ (row'.migration = "pending" /\ row'.key = NoKey)
    <3>1. CASE PrepareMigration(r)
      BY <3>1 DEF PrepareMigration, Safe
    <3> QED
      BY <1>2, <3>1
         DEF Start, RequestTransfer, ReadForApproval, SignTransfer,
             ExecuteBySession, PrepareSession, Nothing
  <2> QED
    BY <1>1, <2>1, <2>2, <2>3
<1>3. ASSUME NEW r \in Requests,
             QueueIntent(r) \/ InsertTransfer(r) \/ ApproveIntent(r) \/ MarkApproved(r)
               \/ RecordExecution(r) \/ Fail(r)
      PROVE  SessionOK'
  <2>1. \A pc : Goto(r, pc) /\ pc \in {"insert", "markApproved"} =>
          req'[r].pc \in {"insert", "markApproved"}
    BY <1>0
  <2>2. End(r) \/ Goto(r, "insert") \/ Goto(r, "markApproved")
    BY <1>3 DEF QueueIntent, InsertTransfer, ApproveIntent, MarkApproved,
                RecordExecution, Fail
  <2>3. UNCHANGED <<safe, row>>
    BY <1>3 DEF QueueIntent, InsertTransfer, ApproveIntent, MarkApproved,
                RecordExecution, Fail, OnlyManager, OnlyTransfers, Nothing
  <2> QED
    BY <1>0, <1>1, <2>1, <2>2, <2>3
<1>4. ASSUME NEW r \in Requests, ExecuteSigned(r) PROVE SessionOK'
  <2>1. /\ req'[r].pc = "paySigned" /\ \A o \in Requests \ {r} : req'[o] = req[o]
        /\ UNCHANGED <<safe, row>>
    BY <1>0, <1>4, RequestIs DEF ExecuteSigned, Nothing
  <2> QED
    BY <1>1, <2>1
<1>5. ASSUME NEW r \in Requests, PaySigned(r) \/ PayBySession(r) PROVE SessionOK'
  <2>1. /\ req'[r].pc = "record" /\ \A o \in Requests \ {r} : req'[o] = req[o]
    <3>1. req' = [req EXCEPT ![r] = [NoRequest EXCEPT !.pc = "record", !.x = req[r].x]]
      BY <1>5 DEF PaySigned, PayBySession
    <3> QED BY <3>1 DEF NoRequest
  <2>2. row' = row /\ safe'.keys = safe.keys /\ safe'.guarded = safe.guarded
    BY <1>5 DEF PaySigned, PayBySession, Safe
  <2> QED
    BY <1>1, <2>1, <2>2
<1>6. ASSUME NEW r \in Requests, InstallModules(r) PROVE SessionOK'
  <2>1. safe'.guarded /\ safe'.keys = safe.keys /\ row' = row /\ Goto(r, "configure")
    BY <1>6 DEF InstallModules, Safe
  <2> QED
    BY <1>0, <2>1
<1>7. ASSUME NEW r \in Requests, ConfigureManager(r) PROVE SessionOK'
  <2>1. safe' = safe /\ row' = row /\ Goto(r, "storeMigrated") /\ safe.guarded
    BY <1>7 DEF ConfigureManager, OnlyManager, At
  <2> QED
    BY <1>0, <2>1
<1>8. ASSUME NEW r \in Requests, StoreMigrated(r) PROVE SessionOK'
  <2>1. safe' = safe /\ row'.key = NoKey /\ End(r) /\ safe.guarded
    BY <1>8 DEF StoreMigrated, OnlyRow, At
  <2> QED
    BY <1>0, <2>1
<1>9. ASSUME NEW r \in Requests, EnableSession(r) PROVE SessionOK'
  <2>1. /\ safe.guarded /\ row' = row /\ Goto(r, "rotateManager")
        /\ safe'.guarded = safe.guarded
        /\ safe'.keys = safe.keys \cup {req[r].key}
    BY <1>9 DEF EnableSession, Safe
  <2> QED
    BY <1>0, <2>1
<1>10. ASSUME NEW r \in Requests, RotateManager(r) PROVE SessionOK'
  <2>1. safe' = safe /\ row' = row /\ Goto(r, "storeSession")
        /\ safe.guarded /\ req[r].key \in safe.keys
    BY <1>10 DEF RotateManager, OnlyManager, At
  <2> QED
    BY <1>0, <2>1
<1>11. ASSUME NEW r \in Requests, StoreSession(r) PROVE SessionOK'
  <2>1. safe' = safe /\ row'.key = req[r].key /\ End(r)
        /\ safe.guarded /\ req[r].key \in safe.keys
    BY <1>11 DEF StoreSession, OnlyRow, At
  <2> QED
    BY <1>0, <2>1
<1>12. CASE ConfirmMigration \/ Tick \/ UNCHANGED wvars
  BY <1>12 DEF ConfirmMigration, OnlyRow, Tick, wvars
<1> QED
  BY <1>2, <1>3, <1>4, <1>5, <1>6, <1>7, <1>8, <1>9, <1>10, <1>11, <1>12
     DEF Next, Continue

-----------------------------------------------------------------------------
(* The theorems.                                                            *)

WalletInv ==
  TypeInv /\ WindowOK /\ ReviewsOK /\ SettledOK /\ RowsOK /\ SessionOK

\* The invariant holds in every state.
LEMMA WalletInvariant == Spec => []WalletInv
<1>1. Init => WalletInv
  BY InitTyped, InitRest DEF WalletInv
<1>2. WalletInv /\ [Next]_wvars => WalletInv'
  BY TypeStep, WindowStep, ReviewsStep, SettledStep, RowsStep,
     SessionStep DEF WalletInv
<1> QED
  BY <1>1, <1>2, PTL DEF Spec

\* The rows, the Safe, the policy contracts and the requests in flight stay
\* well formed.
THEOREM WalletTypes == Spec => []TypeOK
  BY WalletInvariant, PTL DEF WalletInv, TypeInv

\* EliosPolicyManager's window holds for the hook's lane: whatever session keys
\* there are, whatever requests overlap and wherever they die, and whatever of
\* the owners' payments the guard has it count, the keys take no more than
\* dailySpendLimit on any one day.
THEOREM SessionLimitIsKept == Spec => []SessionLimitHolds
<1>1. WalletInv => SessionLimitHolds
  BY DEF WalletInv, WindowOK
<1> QED BY <1>1, WalletInvariant, PTL

\* Whatever the guard makes of pendingExecutions, it lets a reviewed payment
\* through only if an operator sent approveReviewedIntent for it, and only if
\* there is a row for it whose review is over and whose timelock has run out.
THEOREM ReviewsComeFirst == Spec => []ReviewsPrecedePayments
<1>1. WalletInv => ReviewsPrecedePayments
  <2> SUFFICES ASSUME WalletInv, NEW i \in IntentIds, settled[i] > 0
               PROVE  approvals[i] > 0 /\ RipeRow(i)
    BY DEF ReviewsPrecedePayments
  <2>1. approvals[i] > 0
    BY DEF WalletInv, ReviewsOK
  <2>2. PICK x \in Ids : transfers[x].intent = i /\ Passed(transfers[x])
    BY DEF WalletInv, SettledOK
  <2>3. Ripe(transfers[x])
    BY DEF WalletInv, RowsOK
  <2> QED
    BY <2>1, <2>2, <2>3 DEF RipeRow, Ripe, Passed
<1> QED BY <1>1, WalletInvariant, PTL

\* A transfer of the timelocked size is approved only when its delay since the
\* request has passed, although the row is marked by its id alone.
THEOREM TimelocksHold == Spec => []TimelockHolds
<1>1. WalletInv => TimelockHolds
  BY DEF WalletInv, RowsOK, Ripe, TimelockHolds
<1> QED BY <1>1, WalletInvariant, PTL

\* A transfer is shown as executed only after a transaction of the Safe or of
\* its session key paid it.
THEOREM ExecutedTransfersWerePaid == Spec => []ExecutedWasPaid
<1>1. WalletInv => ExecutedWasPaid
  BY DEF WalletInv, RowsOK
<1> QED BY <1>1, WalletInvariant, PTL

\* The row never names a session key the Safe does not accept, and never calls
\* a Safe migrated that no guard stands before.
THEOREM SessionsAreEnabled == Spec => []SessionIsEnabled
<1>1. WalletInv => SessionIsEnabled
  BY DEF WalletInv, SessionOK
<1> QED BY <1>1, WalletInvariant, PTL

=============================================================================
