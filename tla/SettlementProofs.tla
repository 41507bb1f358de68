-------------------------- MODULE SettlementProofs --------------------------
(***************************************************************************)
(* What the settlement engine guarantees for any number of intents,        *)
(* drivers and transactions, any price, and any bound on failures.         *)
(***************************************************************************)
EXTENDS Settlement, TLAPS

USE BillingAssumption, NoTxAssumption, NoIntentAssumption, SlowStepsAssumption

\* The blocks owed are between zero and the budget, and none are owed before
\* the window has a start block.
LEMMA BlocksConsumedBounds ==
    ASSUME NEW start \in Nat, NEW cur \in Nat
    PROVE  /\ BlocksConsumed(start, Budget, cur) \in 0 .. Budget
           /\ start = NoBlock => BlocksConsumed(start, Budget, cur) = 0
BY DEF BlocksConsumed, AtLeast, AtMost, NoBlock

\* Multiplying by the rate keeps the order, and one block costs at least the rate.
LEMMA RateMonotone ==
    ASSUME NEW n \in Nat, NEW m \in Nat, n <= m
    PROVE  /\ n * Rate \in Nat
           /\ n * Rate <= m * Rate
           /\ n # 0 => Rate <= n * Rate
           /\ n = 0 => n * Rate = 0
<1>1. PICK k \in Nat : m = n + k
  BY m - n \in Nat
<1>2. m * Rate = n * Rate + k * Rate
  BY <1>1
<1>3. k * Rate \in Nat /\ n * Rate \in Nat
  OBVIOUS
<1>4. n # 0 => n * Rate = Rate + (n - 1) * Rate
  OBVIOUS
<1>5. n # 0 => (n - 1) * Rate \in Nat
  OBVIOUS
<1> QED
  BY <1>2, <1>3, <1>4, <1>5

\* What a driver asks for is within the ceiling of the quote; when it is not
\* zero it pays for at least one block of an opened window.
LEMMA AmountDueBounds ==
    ASSUME NEW start \in Nat, NEW cur \in Nat
    PROVE  /\ AmountDue(start, Budget, cur, Rate) \in Amounts
           /\ AmountDue(start, Budget, cur, Rate) > 0 =>
                /\ Rate <= AmountDue(start, Budget, cur, Rate)
                /\ start # NoBlock
<1> DEFINE n == BlocksConsumed(start, Budget, cur)
<1>1. n \in 0 .. Budget /\ (start = NoBlock => n = 0)
  BY BlocksConsumedBounds
<1>2. AmountDue(start, Budget, cur, Rate) = n * Rate
  BY <1>1 DEF AmountDue, SettleAmount, AtLeast
<1> HIDE DEF n
<1>3. /\ n * Rate \in Nat /\ n * Rate <= Budget * Rate
      /\ n # 0 => Rate <= n * Rate
      /\ n = 0 => n * Rate = 0
  BY <1>1, RateMonotone
<1> QED
  BY <1>1, <1>2, <1>3 DEF Amounts, Ceiling
-----------------------------------------------------------------------------
\* A driver that is doing anything has a job.
HasJob == \A d \in Drivers : drv[d].pc # "idle" => drv[d].job \in Intents

TypeInv == TypeOK /\ HasJob

USE DEF NoBlock

LEMMA TypeInit == Init => TypeInv
<1> SUFFICES ASSUME Init PROVE TypeInv
  OBVIOUS
<1>1. 0 \in Amounts
  BY RateMonotone DEF Amounts, Ceiling
<1>2. Idle \in DriverType
  BY <1>1 DEF Idle, DriverType, PCs, Paths, Statuses, Verdicts
<1>3. row \in [Intents -> RowType]
  BY <1>1 DEF Init, RowType, Statuses
<1>4. tx \in [Txs -> TxType]
  BY <1>1 DEF Init, TxType
<1> QED
  BY <1>2, <1>3, <1>4 DEF Init, TypeInv, TypeOK, HasJob, Idle

\* What the terminal writes and a delivery attempt leave well typed.
LEMMA MarkedTyped ==
    ASSUME NEW r \in RowType, NEW d \in Drivers, drv[d] \in DriverType
    PROVE  Marked(r, d) \in RowType
<1>1. /\ drv[d].txHash \in Txs \cup {NoTx} /\ drv[d].amount \in Amounts
  BY DEF DriverType
<1>2. CASE drv[d].verdict = "paid"
  BY <1>1, <1>2 DEF Marked, RowType, Statuses, Terminal
<1>3. CASE drv[d].verdict = "void"
  BY <1>3 DEF Marked, RowType, Statuses, Terminal
<1>4. CASE drv[d].verdict \notin {"paid", "void"}
  BY <1>4 DEF Marked, RowType, Statuses, Terminal
<1> QED
  BY <1>2, <1>3, <1>4

LEMMA TriesWrite ==
    ASSUME NEW r \in DriverType, NEW n \in 0 .. 2
    PROVE  [r EXCEPT !.tries = n] \in DriverType /\ [r EXCEPT !.tries = n].job = r.job
BY DEF DriverType

\* The invariant that types the state is inductive.
LEMMA TypeStep == TypeInv /\ [Next]_vars => TypeInv'
<1> SUFFICES ASSUME TypeInv, [Next]_vars PROVE TypeInv'
  OBVIOUS
<1> USE DEF TypeInv
<1>a. Idle \in DriverType /\ Idle.pc = "idle" /\ 0 \in Amounts
  <2>1. 0 \in Amounts
    BY RateMonotone DEF Amounts, Ceiling
  <2> QED
    BY <2>1 DEF Idle, DriverType, PCs, Paths, Statuses, Verdicts
<1>b. \A d \in Drivers : drv[d] \in DriverType
  BY DEF TypeOK
<1>c. \A d \in Drivers : drv[d].pc # "idle" =>
        drv[d].job \in Intents /\ row[drv[d].job] \in RowType
  BY DEF TypeOK, HasJob
<1>d. \A i \in Intents : row[i] \in RowType
  BY DEF TypeOK
<1>1. ASSUME NEW i \in Intents, PassTtl(i) PROVE TypeInv'
  BY <1>1 DEF PassTtl, TypeOK, HasJob, streamVars
<1>2. ASSUME NEW i \in Intents, PassDeadline(i) PROVE TypeInv'
  BY <1>2 DEF PassDeadline, TypeOK, HasJob, streamVars
<1>3. ASSUME NEW i \in Intents, GoStale(i) PROVE TypeInv'
  <2>1. row'[i] \in RowType
    BY <1>3, <1>d DEF GoStale, TypeOK, RowType
  <2>2. overran' \subseteq Intents
    BY <1>3 DEF GoStale, TypeOK
  <2> QED
    BY <1>3, <2>1, <2>2 DEF GoStale, TypeOK, HasJob, streamVars
<1>4. CASE BeginBlock
  BY <1>4 DEF BeginBlock, TypeOK, HasJob, streamVars
<1>5. CASE HandlerFails
  BY <1>5 DEF HandlerFails, TypeOK, HasJob, streamVars
<1>6. ASSUME NEW i \in Intents, OpenWindow(i) PROVE TypeInv'
  <2>1. row'[i] \in RowType
    BY <1>6, <1>d DEF OpenWindow, TypeOK, RowType
  <2> QED
    BY <1>6, <2>1 DEF OpenWindow, TypeOK, HasJob, streamVars
<1>7. ASSUME NEW M \in SUBSET Intents, CommitBlock(M) PROVE TypeInv'
  <2>1. \A i \in Intents : row'[i] \in RowType
    BY <1>7, <1>d DEF CommitBlock, RowType
  <2>2. row' \in [Intents -> RowType]
    BY <1>7, <2>1 DEF CommitBlock
  <2>3. triggers' \subseteq Intents
    BY <1>7 DEF CommitBlock
  <2>4. cursor' \in 0 .. MaxBlock /\ block' \in 0 .. MaxBlock /\ seen' \subseteq Intents
    <3>1. cursor' = block /\ block' = NoBlock /\ seen' = {}
      BY <1>7 DEF CommitBlock
    <3> QED
      BY <3>1 DEF TypeOK
  <2> QED
    BY <1>7, <2>2, <2>3, <2>4 DEF CommitBlock, TypeOK, HasJob
<1>8. ASSUME NEW p \in 0 .. MaxBlock, Undo(p) PROVE TypeInv'
  BY <1>8 DEF Undo, TypeOK, HasJob, streamVars
<1>9. ASSUME NEW d \in Drivers, NEW i \in Intents, Trigger(d, i) PROVE TypeInv'
  <2>1. drv'[d] \in DriverType /\ (drv'[d].pc # "idle" => drv'[d].job \in Intents)
    BY <1>9, <1>a, <1>b, <1>c DEF Trigger, TypeOK, DriverType, Start, Idle, PCs, Paths, Statuses, Verdicts
  <2> QED
    BY <1>9, <2>1 DEF Trigger, TypeOK, HasJob, streamVars, Start
<1>10. ASSUME NEW d \in Drivers, NEW i \in Intents, Sweep(d, i) PROVE TypeInv'
  <2>1. drv'[d] \in DriverType /\ (drv'[d].pc # "idle" => drv'[d].job \in Intents)
    <3>1. PICK path \in Paths : Start(d, i, path)
      BY <1>10 DEF Sweep, Paths
    <3> QED
      BY <3>1, <1>a, <1>b DEF TypeOK, DriverType, Start, Idle, PCs, Paths, Statuses, Verdicts
  <2>2. \E path \in Paths : Start(d, i, path)
    BY <1>10 DEF Sweep, Paths
  <2>3. drv' \in [Drivers -> DriverType] /\ HasJob'
    BY <2>1, <2>2 DEF Start, TypeOK, HasJob
  <2> QED
    BY <1>10, <2>3 DEF Sweep, TypeOK, HasJob, streamVars
<1>11. ASSUME NEW d \in Drivers, Read(d) PROVE TypeInv'
  <2>1. drv'[d] \in DriverType /\ (drv'[d].pc # "idle" => drv'[d].job \in Intents)
    <3>0. drv[d].pc = "read"
      BY <1>11 DEF Read
    <3>1. row[drv[d].job] \in RowType /\ drv[d] \in DriverType
      BY <3>0, <1>b, <1>c
    <3>2. drv'[d] = [drv[d] EXCEPT !.pc = "claim",
                                   !.status = row[drv[d].job].status,
                                   !.start = row[drv[d].job].startBlockNum]
      BY <1>11 DEF Read, TypeOK
    <3>3. drv'[d] \in DriverType /\ drv'[d].job = drv[d].job
      BY <3>1, <3>2 DEF DriverType, RowType, PCs
    <3> QED
      BY <1>c, <3>0, <3>3
  <2> QED
    BY <1>11, <2>1 DEF Read, TypeOK, HasJob, streamVars
<1>12. ASSUME NEW d \in Drivers, Claim(d) PROVE TypeInv'
  <2>1. drv'[d] \in DriverType /\ (drv'[d].pc # "idle" => drv'[d].job \in Intents)
    BY <1>12, <1>a, <1>b, <1>c DEF Claim, TypeOK, DriverType, PCs
  <2>2. row' \in [Intents -> RowType]
    BY <1>12, <1>c DEF Claim, TypeOK, RowType, Statuses
  <2> QED
    BY <1>12, <2>1, <2>2 DEF Claim, TypeOK, HasJob, streamVars
<1>13. ASSUME NEW d \in Drivers, Bill(d) PROVE TypeInv'
  <2> DEFINE due == AmountDue(drv[d].start, Budget, cursor, Rate)
  <2>1. due \in Amounts
    BY <1>b, AmountDueBounds DEF TypeOK, DriverType
  <2> HIDE DEF due
  <2> DEFINE next == AfterBill(drv[d].path, row[drv[d].job].payload, due)
  <2>3. next.pc \in PCs /\ next.verdict \in Verdicts
    BY DEF AfterBill, PCs, Verdicts
  <2>4. /\ drv[d].pc = "bill"
        /\ drv' = [drv EXCEPT ![d].pc = next.pc, ![d].verdict = next.verdict,
                              ![d].amount = due]
    BY <1>13 DEF Bill, due
  <2> HIDE DEF next
  <2>2. drv'[d] \in DriverType /\ (drv'[d].pc # "idle" => drv'[d].job \in Intents)
    BY <1>b, <1>c, <2>1, <2>3, <2>4 DEF TypeOK, DriverType
  <2> QED
    BY <1>13, <2>2 DEF Bill, TypeOK, HasJob, streamVars
<1>14. ASSUME NEW d \in Drivers, NEW t \in Txs, SettleAccepted(d, t) PROVE TypeInv'
  <2>1. drv'[d] \in DriverType /\ (drv'[d].pc # "idle" => drv'[d].job \in Intents)
    BY <1>14, <1>a, <1>b, <1>c DEF SettleAccepted, Submit, TypeOK, DriverType, PCs
  <2>2. tx' \in [Txs -> TxType]
    BY <1>14, <1>b, <1>c DEF SettleAccepted, Submit, TypeOK, DriverType, TxType
  <2> QED
    BY <1>14, <2>1, <2>2 DEF SettleAccepted, TypeOK, HasJob, streamVars
<1>15. ASSUME NEW d \in Drivers, NEW t \in Txs, SettleAnswerLost(d, t) PROVE TypeInv'
  <2>1. drv'[d] \in DriverType /\ (drv'[d].pc # "idle" => drv'[d].job \in Intents)
    BY <1>15, <1>a, <1>b, <1>c DEF SettleAnswerLost, Submit, TypeOK, DriverType, PCs
  <2>2. tx' \in [Txs -> TxType]
    BY <1>15, <1>b, <1>c DEF SettleAnswerLost, Submit, TypeOK, DriverType, TxType
  <2> QED
    BY <1>15, <2>1, <2>2 DEF SettleAnswerLost, TypeOK, HasJob, streamVars
<1>16. ASSUME NEW d \in Drivers, SettleRejected(d) PROVE TypeInv'
  <2>1. drv'[d] \in DriverType /\ (drv'[d].pc # "idle" => drv'[d].job \in Intents)
    <3>1. PICK verdict \in Verdicts :
            drv' = IF verdict = "none" THEN [drv EXCEPT ![d] = Idle]
                   ELSE [drv EXCEPT ![d].pc = "mark", ![d].verdict = verdict]
      BY <1>16 DEF SettleRejected, RejectionVerdict, Verdicts
    <3>2. CASE verdict = "none"
      BY <3>1, <3>2, <1>a, <1>b DEF TypeOK
    <3>3. CASE verdict # "none"
      <4>1. drv[d].pc = "settle" /\ drv[d] \in DriverType
        BY <1>16, <1>b DEF SettleRejected
      <4>2. drv'[d] = [drv[d] EXCEPT !.pc = "mark", !.verdict = verdict]
        BY <3>1, <3>3 DEF TypeOK
      <4>3. drv'[d] \in DriverType /\ drv'[d].job = drv[d].job
        BY <4>1, <4>2 DEF DriverType, PCs
      <4> QED
        BY <1>c, <4>1, <4>3
    <3> QED
      BY <3>2, <3>3, <1>a
  <2> QED
    BY <1>16, <2>1 DEF SettleRejected, TypeOK, HasJob, streamVars
<1>17. ASSUME NEW d \in Drivers, ReceiptConfirmed(d) PROVE TypeInv'
  <2>1. drv'[d] \in DriverType /\ (drv'[d].pc # "idle" => drv'[d].job \in Intents)
    BY <1>17, <1>a, <1>b, <1>c DEF ReceiptConfirmed, TypeOK, DriverType, PCs, Verdicts
  <2> QED
    BY <1>17, <2>1 DEF ReceiptConfirmed, TypeOK, HasJob, streamVars
<1>18. ASSUME NEW d \in Drivers, ReceiptMissing(d) PROVE TypeInv'
  <2>1. drv'[d] \in DriverType /\ (drv'[d].pc # "idle" => drv'[d].job \in Intents)
    BY <1>18, <1>a, <1>b, <1>c DEF ReceiptMissing, TypeOK, DriverType, PCs
  <2> QED
    BY <1>18, <2>1 DEF ReceiptMissing, TypeOK, HasJob, streamVars
<1>19. ASSUME NEW d \in Drivers, Mark(d) PROVE TypeInv'
  <2>1. drv'[d] \in DriverType /\ (drv'[d].pc # "idle" => drv'[d].job \in Intents)
    BY <1>19, <1>a, <1>b, <1>c DEF Mark, TypeOK, DriverType, PCs
  <2>2. Marked(row[drv[d].job], d) \in RowType
    BY <1>19, <1>b, <1>c, MarkedTyped DEF Mark
  <2>3. row' \in [Intents -> RowType]
    BY <1>19, <2>2 DEF Mark, TypeOK
  <2> QED
    BY <1>19, <2>1, <2>3 DEF Mark, TypeOK, HasJob, streamVars
<1>20. ASSUME NEW d \in Drivers, Deliver(d) PROVE TypeInv'
  <2>1. drv'[d] \in DriverType /\ (drv'[d].pc # "idle" => drv'[d].job \in Intents)
    <3>1. CASE drv' = [drv EXCEPT ![d] = Idle]
      BY <3>1, <1>a, <1>b DEF TypeOK
    <3>2. CASE drv[d].tries # 2 /\ drv' = [drv EXCEPT ![d].tries = drv[d].tries + 1]
      <4>1. drv[d].tries + 1 \in 0 .. 2
        BY <3>2, <1>b DEF DriverType
      <4> QED
        BY <3>2, <4>1, <1>20, <1>b, <1>c, TriesWrite DEF Deliver, TypeOK
    <3> QED
      BY <1>20, <3>1, <3>2 DEF Deliver
  <2>2. Notice(d) \in NoticeType
    BY <1>20, <1>b, <1>c DEF Deliver, Notice, NoticeType, DriverType
  <2> QED
    BY <1>20, <2>1, <2>2 DEF Deliver, TypeOK, HasJob, streamVars
<1>21. ASSUME NEW d \in Drivers, Abort(d) PROVE TypeInv'
  <2>1. drv'[d] \in DriverType /\ (drv'[d].pc # "idle" => drv'[d].job \in Intents)
    BY <1>21, <1>a, <1>b, <1>c DEF Abort, TypeOK, DriverType, PCs
  <2> QED
    BY <1>21, <2>1 DEF Abort, TypeOK, HasJob, streamVars
<1>22. CASE Crash
  BY <1>22, <1>a DEF Crash, TypeOK, HasJob
<1>23. ASSUME NEW t \in Txs, Mine(t) PROVE TypeInv'
  <2>1. tx' \in [Txs -> TxType]
    BY <1>23 DEF Mine, TypeOK, TxType
  <2> QED
    BY <1>23, <2>1 DEF Mine, TypeOK, HasJob, streamVars
<1>24. ASSUME NEW t \in Txs, Revert(t) PROVE TypeInv'
  <2>1. tx' \in [Txs -> TxType]
    BY <1>24 DEF Revert, TypeOK, TxType
  <2> QED
    BY <1>24, <2>1 DEF Revert, TypeOK, HasJob, streamVars
<1>25. CASE UNCHANGED vars
  BY <1>25 DEF vars, TypeOK, HasJob
<1> QED
  BY <1>1, <1>2, <1>3, <1>4, <1>5, <1>6, <1>7, <1>8, <1>9, <1>10, <1>11, <1>12, <1>13, <1>14, <1>15, <1>16, <1>17, <1>18, <1>19, <1>20, <1>21, <1>22, <1>23, <1>24, <1>25
  DEF Next, Drive, Settle, Receipt

\* Every reachable state is well typed, and every running driver has a job.
THEOREM TypeCorrect == Spec => []TypeOK
<1>1. Spec => []TypeInv
  BY TypeInit, TypeStep, PTL DEF Spec
<1> QED
  BY <1>1, PTL DEF TypeInv
-----------------------------------------------------------------------------
(* What the rows and the notices say about money is what the chain did.    *)

\* What a driver may hold: before the settle call is accepted, nothing; then
\* a submitted transaction of its job and amount; once it saw the receipt, a
\* mined one.
Holds(r, chain) ==
    /\ r.pc = "receipt" \/ r.verdict = "paid" =>
         /\ r.txHash \in Txs
         /\ chain[r.txHash].intent = r.job
         /\ chain[r.txHash].amount = r.amount
         /\ chain[r.txHash].state # "unsent"
    /\ r.verdict = "paid" =>
         chain[r.txHash].state = "mined" /\ r.pc \in {"idle", "mark", "deliver"}

DriversHold == \A d \in Drivers : Holds(drv[d], tx)

\* At most one transaction per voucher is mined: the nonce.
ChargedOnce ==
    \A t, u \in Txs :
        tx[t].state = "mined" /\ tx[u].state = "mined"
            /\ tx[t].intent = tx[u].intent => t = u

MoneyInv == /\ TypeInv
            /\ DriversHold
            /\ ChargedOnce
            /\ RecordedChargeIsOnChain
            /\ DataOnlyAfterReceipt

\* The chain only moves forward: a submitted transaction keeps its intent and
\* amount, and a mined one stays mined.
ChainMoves ==
    \A t \in Txs :
        /\ tx[t].state # "unsent" =>
             /\ tx'[t].intent = tx[t].intent /\ tx'[t].amount = tx[t].amount
             /\ tx'[t].state # "unsent"
        /\ tx[t].state = "mined" => tx'[t] = tx[t]

LEMMA ChainForward == TypeInv /\ [Next]_vars => ChainMoves
<1> SUFFICES ASSUME TypeInv, [Next]_vars PROVE ChainMoves
  OBVIOUS
<1> USE DEF TypeInv, TypeOK
<1>1. CASE UNCHANGED tx
  BY <1>1 DEF ChainMoves
<1>2. ASSUME NEW d \in Drivers, NEW t \in Txs, Submit(d, t) PROVE ChainMoves
  BY <1>2 DEF Submit, ChainMoves, TxType
<1>3. ASSUME NEW t \in Txs, Mine(t) \/ Revert(t) PROVE ChainMoves
  BY <1>3 DEF Mine, Revert, ChainMoves, TxType
<1>4. \/ UNCHANGED tx
      \/ \E d \in Drivers, t \in Txs : Submit(d, t)
      \/ \E t \in Txs : Mine(t) \/ Revert(t)
  BY DEF Next, vars, PassTtl, PassDeadline, GoStale, BeginBlock, HandlerFails,
         OpenWindow, CommitBlock, Undo, Trigger, Sweep, Drive, Read, Claim, Bill,
         Settle, SettleAccepted, SettleAnswerLost, SettleRejected, Receipt,
         ReceiptConfirmed, ReceiptMissing, Mark, Deliver, Abort, Crash
<1> QED
  BY <1>1, <1>2, <1>3, <1>4

LEMMA HoldsForward ==
    ASSUME TypeInv, ChainMoves, NEW r \in DriverType, Holds(r, tx)
    PROVE  Holds(r, tx')
BY DEF Holds, ChainMoves, TypeInv, TypeOK, DriverType

LEMMA MoneyInit == Init => MoneyInv
<1> SUFFICES ASSUME Init PROVE MoneyInv
  OBVIOUS
<1>1. DriversHold
  BY DEF Init, DriversHold, Holds, Idle
<1>2. ChargedOnce
  BY DEF Init, ChargedOnce
<1>3. RecordedChargeIsOnChain
  <2>1. \A i \in Intents : row[i].txHash = NoTx /\ row[i].status = "MONITORING"
    BY DEF Init
  <2> QED
    BY <2>1 DEF RecordedChargeIsOnChain
<1>4. DataOnlyAfterReceipt
  BY DEF Init, DataOnlyAfterReceipt
<1> QED
  BY <1>1, <1>2, <1>3, <1>4, TypeInit DEF MoneyInv

LEMMA ChargedOnceStep == TypeInv /\ ChargedOnce /\ [Next]_vars => ChargedOnce'
<1> SUFFICES ASSUME TypeInv, ChargedOnce, [Next]_vars PROVE ChargedOnce'
  OBVIOUS
<1> USE DEF TypeInv, TypeOK
<1>1. CASE UNCHANGED tx
  BY <1>1 DEF ChargedOnce
<1>2. ASSUME NEW d \in Drivers, NEW t \in Txs, Submit(d, t) PROVE ChargedOnce'
  BY <1>2 DEF Submit, ChargedOnce, TxType
<1>3. ASSUME NEW t \in Txs, Mine(t) \/ Revert(t) PROVE ChargedOnce'
  BY <1>3 DEF Mine, Revert, ChargedOnce, TxType, NonceUsed
<1>4. \/ UNCHANGED tx
      \/ \E d \in Drivers, t \in Txs : Submit(d, t)
      \/ \E t \in Txs : Mine(t) \/ Revert(t)
  BY DEF Next, vars, PassTtl, PassDeadline, GoStale, BeginBlock, HandlerFails,
         OpenWindow, CommitBlock, Undo, Trigger, Sweep, Drive, Read, Claim, Bill,
         Settle, SettleAccepted, SettleAnswerLost, SettleRejected, Receipt,
         ReceiptConfirmed, ReceiptMissing, Mark, Deliver, Abort, Crash
<1> QED
  BY <1>1, <1>2, <1>3, <1>4
LEMMA DriversHoldStep == TypeInv /\ DriversHold /\ [Next]_vars => DriversHold'
<1> SUFFICES ASSUME TypeInv, DriversHold, [Next]_vars, NEW e \in Drivers
             PROVE  Holds(drv'[e], tx')
  BY DEF DriversHold
<1>1. ChainMoves
  BY ChainForward
<1>2. drv[e] \in DriverType /\ Holds(drv[e], tx)
  BY DEF TypeInv, TypeOK, DriversHold
<1>3. Holds(drv[e], tx')
  BY <1>1, <1>2, HoldsForward
<1>4. CASE drv'[e] = drv[e]
  BY <1>3, <1>4
<1>5. CASE drv'[e].pc # "receipt" /\ drv'[e].verdict # "paid"
  BY <1>5 DEF Holds
<1>6. CASE \E t \in Txs : SettleAccepted(e, t)
  <2>1. PICK t \in Txs : SettleAccepted(e, t)
    BY <1>6
  <2>2. drv[e].verdict # "paid"
    BY <1>2, <2>1 DEF Holds, SettleAccepted, Submit
  <2>3. tx'[t] = [state |-> "pending", intent |-> drv[e].job, amount |-> drv[e].amount]
    BY <2>1 DEF SettleAccepted, Submit, TypeInv, TypeOK
  <2>4. /\ drv'[e].txHash = t /\ drv'[e].job = drv[e].job
        /\ drv'[e].amount = drv[e].amount /\ drv'[e].verdict = drv[e].verdict
    BY <2>1 DEF SettleAccepted, TypeInv, TypeOK, DriverType
  <2> QED
    BY <2>2, <2>3, <2>4 DEF Holds
<1>7. CASE ReceiptConfirmed(e)
  <2>1. /\ drv[e].pc = "receipt" /\ tx[drv[e].txHash].state = "mined" /\ tx' = tx
        /\ drv'[e] = [drv[e] EXCEPT !.pc = "mark", !.verdict = "paid"]
    BY <1>7 DEF ReceiptConfirmed, TypeInv, TypeOK
  <2> QED
    BY <1>2, <2>1 DEF Holds, DriverType
<1>8. CASE /\ drv'[e].pc \in {"idle", "mark", "deliver"}
           /\ drv'[e].job = drv[e].job /\ drv'[e].amount = drv[e].amount
           /\ drv'[e].txHash = drv[e].txHash /\ drv'[e].verdict = drv[e].verdict
  BY <1>3, <1>8 DEF Holds
<1>9. ASSUME NEW d \in Drivers, Drive(d) \/ Abort(d) \/ \E i \in Intents : Trigger(d, i) \/ Sweep(d, i),
             d # e
      PROVE  drv'[e] = drv[e]
  BY <1>9 DEF TypeInv, TypeOK, Drive, Read, Claim, Bill, Settle, SettleAccepted,
         SettleAnswerLost, SettleRejected, Receipt, ReceiptConfirmed,
         ReceiptMissing, Mark, Deliver, Abort, Trigger, Sweep, Start
<1>10. ASSUME NEW i \in Intents, Trigger(e, i) \/ Sweep(e, i)
       PROVE  drv'[e].pc # "receipt" /\ drv'[e].verdict # "paid"
  <2>1. PICK path : drv' = [drv EXCEPT ![e] = [Idle EXCEPT !.pc = "read", !.job = i,
                                                        !.path = path]]
    BY <1>10 DEF Trigger, Sweep, Start
  <2>2. drv'[e] = [Idle EXCEPT !.pc = "read", !.job = i, !.path = path]
    BY <2>1 DEF TypeInv, TypeOK
  <2> QED
    BY <2>2 DEF Idle
<1>11. ASSUME Read(e) PROVE drv'[e].pc # "receipt" /\ drv'[e].verdict # "paid"
  BY <1>2, <1>11 DEF Read, Holds, TypeInv, TypeOK, DriverType
<1>12. ASSUME Claim(e) PROVE drv'[e].pc # "receipt" /\ drv'[e].verdict # "paid"
  BY <1>2, <1>12 DEF Claim, Holds, Idle, TypeInv, TypeOK, DriverType
<1>13. ASSUME Bill(e) PROVE drv'[e].pc # "receipt" /\ drv'[e].verdict # "paid"
  <2> DEFINE due == AmountDue(drv[e].start, Budget, cursor, Rate)
             next == AfterBill(drv[e].path, row[drv[e].job].payload, due)
  <2>1. next.pc # "receipt" /\ next.verdict # "paid"
    BY DEF AfterBill
  <2>2. drv' = [drv EXCEPT ![e].pc = next.pc, ![e].verdict = next.verdict,
                          ![e].amount = due]
    BY <1>13 DEF Bill
  <2> HIDE DEF due, next
  <2> QED
    BY <1>2, <2>1, <2>2 DEF DriverType, TypeInv, TypeOK
<1>14. ASSUME SettleRejected(e) PROVE drv'[e].pc # "receipt" /\ drv'[e].verdict # "paid"
  <2>1. PICK verdict \in {"none", "void", "failed"} :
          drv' = IF verdict = "none" THEN [drv EXCEPT ![e] = Idle]
                 ELSE [drv EXCEPT ![e].pc = "mark", ![e].verdict = verdict]
    BY <1>14 DEF SettleRejected, RejectionVerdict
  <2> QED
    BY <1>2, <2>1 DEF Idle, DriverType, TypeInv, TypeOK
<1>15. ASSUME Abort(e) \/ Crash \/ ReceiptMissing(e) \/ \E t \in Txs : SettleAnswerLost(e, t)
       PROVE  drv'[e].pc # "receipt" /\ drv'[e].verdict # "paid"
  <2>1. drv' = [drv EXCEPT ![e] = Idle] \/ drv' = [d \in Drivers |-> Idle]
    BY <1>15 DEF Abort, Crash, ReceiptMissing, SettleAnswerLost
  <2>2. drv'[e] = Idle
    BY <2>1 DEF TypeInv, TypeOK
  <2> QED
    BY <2>2 DEF Idle
<1>16. ASSUME Mark(e) \/ Deliver(e)
       PROVE  \/ drv'[e].pc # "receipt" /\ drv'[e].verdict # "paid"
              \/ /\ drv'[e].pc \in {"idle", "mark", "deliver"}
                 /\ drv'[e].job = drv[e].job /\ drv'[e].amount = drv[e].amount
                 /\ drv'[e].txHash = drv[e].txHash /\ drv'[e].verdict = drv[e].verdict
  BY <1>2, <1>16 DEF Mark, Deliver, Idle, TypeInv, TypeOK, DriverType
<1>17. \/ drv' = drv \/ Crash
       \/ \E d \in Drivers : \/ Drive(d) \/ Abort(d)
                              \/ \E i \in Intents : Trigger(d, i) \/ Sweep(d, i)
  BY DEF Next, vars, PassTtl, PassDeadline, GoStale, BeginBlock, HandlerFails,
         OpenWindow, CommitBlock, Undo, Mine, Revert
<1>18. CASE \/ Drive(e) \/ Abort(e)
            \/ \E i \in Intents : Trigger(e, i) \/ Sweep(e, i)
  BY <1>5, <1>6, <1>7, <1>8, <1>10, <1>11, <1>12, <1>13, <1>14, <1>15, <1>16, <1>18
  DEF Drive, Settle, Receipt
<1> QED
  BY <1>4, <1>5, <1>9, <1>15, <1>17, <1>18

\* A row that changes its record or becomes SETTLED was just marked paid.
LEMMA RecordedStep ==
    MoneyInv /\ [Next]_vars => RecordedChargeIsOnChain'
<1> SUFFICES ASSUME MoneyInv, [Next]_vars, NEW i \in Intents
             PROVE  /\ row'[i].txHash # NoTx =>
                         tx'[row'[i].txHash] = [state |-> "mined", intent |-> i,
                                                amount |-> row'[i].charged]
                    /\ row'[i].status = "SETTLED" => row'[i].txHash # NoTx
  BY DEF RecordedChargeIsOnChain
<1> USE DEF MoneyInv, TypeInv
<1>1. ChainMoves
  BY ChainForward
<1>2. row[i] \in RowType
  BY DEF TypeOK
<1>3. CASE /\ row'[i].txHash = row[i].txHash /\ row'[i].charged = row[i].charged
           /\ row'[i].status = "SETTLED" => row[i].status = "SETTLED"
  BY <1>1, <1>2, <1>3 DEF ChainMoves, RecordedChargeIsOnChain, RowType
<1>4. ASSUME NEW d \in Drivers, Mark(d), drv[d].job = i, drv[d].verdict = "paid"
      PROVE  /\ row'[i].txHash \in Txs
             /\ tx'[row'[i].txHash] = [state |-> "mined", intent |-> i,
                                       amount |-> row'[i].charged]
  <2>1. row'[i].txHash = drv[d].txHash /\ row'[i].charged = drv[d].amount
    BY <1>2, <1>4 DEF Mark, Marked, TypeOK, RowType
  <2>2. /\ drv[d].txHash \in Txs /\ tx[drv[d].txHash].state = "mined"
        /\ tx[drv[d].txHash].intent = i /\ tx[drv[d].txHash].amount = drv[d].amount
    BY <1>4 DEF DriversHold, Holds
  <2>3. tx[drv[d].txHash] = [state |-> "mined", intent |-> i, amount |-> drv[d].amount]
    BY <2>2 DEF TypeOK, TxType
  <2> QED
    BY <2>1, <2>2, <2>3, <1>4 DEF Mark
<1>5. ASSUME NEW d \in Drivers, Mark(d), drv[d].job # i \/ drv[d].verdict # "paid"
      PROVE  /\ row'[i].txHash = row[i].txHash /\ row'[i].charged = row[i].charged
             /\ row'[i].status = "SETTLED" => row[i].status = "SETTLED"
  <2>1. CASE drv[d].job # i
    BY <1>5, <2>1 DEF Mark, TypeOK
  <2>2. CASE drv[d].job = i /\ drv[d].verdict = "void"
    BY <1>2, <1>5, <2>2 DEF Mark, Marked, TypeOK, RowType
  <2>3. CASE drv[d].job = i /\ drv[d].verdict \notin {"paid", "void"}
    BY <1>2, <1>5, <2>3 DEF Mark, Marked, TypeOK, RowType
  <2> QED
    BY <1>5, <2>1, <2>2, <2>3
<1>6. ASSUME \/ \E j \in Intents : GoStale(j) \/ OpenWindow(j)
             \/ \E M \in SUBSET Intents : CommitBlock(M)
             \/ \E d \in Drivers : Claim(d)
             \/ UNCHANGED row
      PROVE  /\ row'[i].txHash = row[i].txHash /\ row'[i].charged = row[i].charged
             /\ row'[i].status = "SETTLED" => row[i].status = "SETTLED"
  <2>1. ASSUME NEW j \in Intents, GoStale(j) \/ OpenWindow(j)
        PROVE  /\ row'[i].txHash = row[i].txHash /\ row'[i].charged = row[i].charged
               /\ row'[i].status = row[i].status
    BY <1>2, <2>1 DEF GoStale, OpenWindow, TypeOK, RowType
  <2>2. ASSUME NEW M \in SUBSET Intents, CommitBlock(M)
        PROVE  /\ row'[i].txHash = row[i].txHash /\ row'[i].charged = row[i].charged
               /\ row'[i].status = row[i].status
    BY <1>2, <2>2 DEF CommitBlock, RowType
  <2>3. ASSUME NEW d \in Drivers, Claim(d)
        PROVE  /\ row'[i].txHash = row[i].txHash /\ row'[i].charged = row[i].charged
               /\ row'[i].status \in {row[i].status, "SETTLING"}
    BY <1>2, <2>3 DEF Claim, TypeOK, RowType
  <2> QED
    BY <1>6, <2>1, <2>2, <2>3
<1>7. \/ \E j \in Intents : GoStale(j) \/ OpenWindow(j)
      \/ \E M \in SUBSET Intents : CommitBlock(M)
      \/ \E d \in Drivers : Claim(d) \/ Mark(d)
      \/ UNCHANGED row
  BY DEF Next, vars, PassTtl, PassDeadline, BeginBlock, HandlerFails, Undo,
         Trigger, Sweep, Drive, Read, Bill, Settle, SettleAccepted,
         SettleAnswerLost, SettleRejected, Receipt, ReceiptConfirmed,
         ReceiptMissing, Deliver, Abort, Crash, Mine, Revert
<1> QED
  BY <1>3, <1>4, <1>5, <1>6, <1>7, NoTxAssumption

LEMMA DataStep == MoneyInv /\ [Next]_vars => DataOnlyAfterReceipt'
<1> SUFFICES ASSUME MoneyInv, [Next]_vars, NEW n \in notices', n.txHash # NoTx
             PROVE  tx'[n.txHash].state = "mined" /\ tx'[n.txHash].intent = n.intent
  BY DEF DataOnlyAfterReceipt
<1> USE DEF MoneyInv, TypeInv
<1>1. ChainMoves
  BY ChainForward
<1>2. CASE n \in notices
  <2>1. n.txHash \in Txs
    BY <1>2 DEF TypeOK, NoticeType
  <2> QED
    BY <1>1, <1>2, <2>1 DEF ChainMoves, DataOnlyAfterReceipt
<1>3. ASSUME NEW d \in Drivers, Deliver(d), n \notin notices
      PROVE  tx'[n.txHash].state = "mined" /\ tx'[n.txHash].intent = n.intent
  <2>1. n = Notice(d)
    BY <1>3 DEF Deliver
  <2>2. drv[d].verdict = "paid" /\ n.txHash = drv[d].txHash /\ n.intent = drv[d].job
    BY <2>1 DEF Notice
  <2> QED
    BY <1>3, <2>2 DEF DriversHold, Holds, Deliver
<1>4. (\E d \in Drivers : Deliver(d)) \/ UNCHANGED notices
  BY DEF Next, vars, PassTtl, PassDeadline, GoStale, BeginBlock, HandlerFails,
         OpenWindow, CommitBlock, Undo, Trigger, Sweep, Drive, Read, Claim, Bill,
         Settle, SettleAccepted, SettleAnswerLost, SettleRejected, Receipt,
         ReceiptConfirmed, ReceiptMissing, Mark, Abort, Crash, Mine, Revert
<1> QED
  BY <1>2, <1>3, <1>4

LEMMA MoneyStep == MoneyInv /\ [Next]_vars => MoneyInv'
<1> SUFFICES ASSUME MoneyInv, [Next]_vars PROVE MoneyInv'
  OBVIOUS
<1>1. TypeInv /\ DriversHold /\ ChargedOnce
  BY DEF MoneyInv
<1> QED
  BY <1>1, TypeStep, DriversHoldStep, ChargedOnceStep, RecordedStep, DataStep
  DEF MoneyInv

\* The settlement a row records is the transfer the chain made, and SETTLED
\* rows have one: whatever raced, was retried, was lost or crashed.
THEOREM RecordsMatchChain == Spec => []RecordedChargeIsOnChain
<1>1. Spec => []MoneyInv
  BY MoneyInit, MoneyStep, PTL DEF Spec
<1> QED
  BY <1>1, PTL DEF MoneyInv

\* Fail-closed delivery: matched events reach the agent only after the
\* settlement of the same intent is mined.
THEOREM DeliveryIsFailClosed == Spec => []DataOnlyAfterReceipt
<1>1. Spec => []MoneyInv
  BY MoneyInit, MoneyStep, PTL DEF Spec
<1> QED
  BY <1>1, PTL DEF MoneyInv
-----------------------------------------------------------------------------
(* Until a call outlasts STALE_SETTLING_MS, a claim has one owner.         *)

\* The claim of a working driver stands and is fresh.
ClaimsStand ==
    \A d \in Drivers : Working(d) /\ InTime(drv[d].job) =>
        row[drv[d].job].status = "SETTLING" /\ ~row[drv[d].job].stale

OwnerInv == TypeInv /\ ClaimsStand /\ ClaimExclusive

\* Only a claim makes a driver work: in every other step a working driver was
\* working on the same job before.
LEMMA OnlyClaimStartsWork ==
    ASSUME TypeInv, [Next]_vars, NEW e \in Drivers, ~Claim(e)
    PROVE  Working(e)' => Working(e) /\ drv'[e].job = drv[e].job
<1> USE DEF Working
<1>1. drv[e] \in DriverType
  BY DEF TypeInv, TypeOK
<1>2. CASE drv'[e] = drv[e]
  BY <1>2
<1>3. CASE drv'[e] = Idle
  BY <1>3 DEF Idle
<1>4. ASSUME NEW d \in Drivers, Drive(d) \/ Abort(d) \/ \E i \in Intents : Trigger(d, i) \/ Sweep(d, i),
             d # e
      PROVE  drv'[e] = drv[e]
  BY <1>4 DEF TypeInv, TypeOK, Drive, Read, Claim, Bill, Settle, SettleAccepted,
         SettleAnswerLost, SettleRejected, Receipt, ReceiptConfirmed,
         ReceiptMissing, Mark, Deliver, Abort, Trigger, Sweep, Start
<1>5. ASSUME NEW i \in Intents, Trigger(e, i) \/ Sweep(e, i)
      PROVE  drv'[e].pc = "read"
  <2>1. PICK path : drv' = [drv EXCEPT ![e] = [Idle EXCEPT !.pc = "read", !.job = i,
                                                        !.path = path]]
    BY <1>5 DEF Trigger, Sweep, Start
  <2>2. drv'[e] = [Idle EXCEPT !.pc = "read", !.job = i, !.path = path]
    BY <2>1 DEF TypeInv, TypeOK
  <2> QED
    BY <2>2 DEF Idle
<1>6. ASSUME Read(e) PROVE drv'[e].pc = "claim"
  BY <1>1, <1>6 DEF Read, TypeInv, TypeOK, DriverType
<1>7. ASSUME Bill(e) PROVE Working(e) /\ drv'[e].job = drv[e].job
  <2> DEFINE due == AmountDue(drv[e].start, Budget, cursor, Rate)
             next == AfterBill(drv[e].path, row[drv[e].job].payload, due)
  <2>1. /\ drv[e].pc = "bill"
        /\ drv' = [drv EXCEPT ![e].pc = next.pc, ![e].verdict = next.verdict,
                              ![e].amount = due]
    BY <1>7 DEF Bill
  <2> HIDE DEF due, next
  <2> QED
    BY <1>1, <2>1 DEF DriverType, TypeInv, TypeOK
<1>8. ASSUME NEW t \in Txs, SettleAccepted(e, t)
      PROVE  Working(e) /\ drv'[e].job = drv[e].job
  BY <1>1, <1>8 DEF SettleAccepted, Submit, DriverType, TypeInv, TypeOK
<1>9. ASSUME SettleRejected(e)
      PROVE  drv'[e] = Idle \/ (Working(e) /\ drv'[e].job = drv[e].job)
  <2>1. PICK verdict : drv' = IF verdict = "none" THEN [drv EXCEPT ![e] = Idle]
                              ELSE [drv EXCEPT ![e].pc = "mark", ![e].verdict = verdict]
    BY <1>9 DEF SettleRejected
  <2> QED
    BY <1>1, <1>9, <2>1 DEF SettleRejected, DriverType, TypeInv, TypeOK
<1>10. ASSUME ReceiptConfirmed(e) PROVE Working(e) /\ drv'[e].job = drv[e].job
  BY <1>1, <1>10 DEF ReceiptConfirmed, DriverType, TypeInv, TypeOK
<1>11. ASSUME Mark(e) \/ Deliver(e) PROVE drv'[e] = Idle \/ drv'[e].pc = "deliver"
  BY <1>1, <1>11 DEF Mark, Deliver, DriverType, TypeInv, TypeOK
<1>12. ASSUME Abort(e) \/ Crash \/ ReceiptMissing(e) \/ \E t \in Txs : SettleAnswerLost(e, t)
       PROVE  drv'[e] = Idle
  <2>1. drv' = [drv EXCEPT ![e] = Idle] \/ drv' = [d \in Drivers |-> Idle]
    BY <1>12 DEF Abort, Crash, ReceiptMissing, SettleAnswerLost
  <2> QED
    BY <2>1 DEF TypeInv, TypeOK
<1>13. \/ drv' = drv \/ Crash
       \/ \E d \in Drivers : \/ Drive(d) \/ Abort(d)
                              \/ \E i \in Intents : Trigger(d, i) \/ Sweep(d, i)
  BY DEF Next, vars, PassTtl, PassDeadline, GoStale, BeginBlock, HandlerFails,
         OpenWindow, CommitBlock, Undo, Mine, Revert
<1>14. CASE \/ Drive(e) \/ Abort(e)
            \/ \E i \in Intents : Trigger(e, i) \/ Sweep(e, i)
  BY <1>3, <1>5, <1>6, <1>7, <1>8, <1>9, <1>10, <1>11, <1>12, <1>14
  DEF Drive, Settle, Receipt
<1> QED
  BY <1>2, <1>3, <1>4, <1>12, <1>13, <1>14

\* What a step can do to the status and the age of a row.
LEMMA RowMoves ==
    ASSUME TypeInv, [Next]_vars, NEW i \in Intents
    PROVE  \/ row'[i].status = row[i].status /\ (row'[i].stale => row[i].stale)
           \/ GoStale(i) /\ row'[i].status = row[i].status
           \/ \E d \in Drivers : /\ Claim(d) /\ drv[d].job = i
                                 /\ Claimable(drv[d].status, i)
                                 /\ row'[i].status = "SETTLING" /\ ~row'[i].stale
           \/ \E d \in Drivers : Mark(d) /\ drv[d].job = i
<1> USE DEF TypeInv
<1>1. row[i] \in RowType
  BY DEF TypeOK
<1>2. ASSUME NEW j \in Intents, GoStale(j)
      PROVE  row'[i].status = row[i].status /\ (j # i => row'[i] = row[i])
  BY <1>1, <1>2 DEF GoStale, TypeOK, RowType
<1>3. ASSUME NEW j \in Intents, OpenWindow(j)
      PROVE  row'[i].status = row[i].status /\ (row'[i].stale => row[i].stale)
  BY <1>1, <1>3 DEF OpenWindow, TypeOK, RowType
<1>4. ASSUME NEW M \in SUBSET Intents, CommitBlock(M)
      PROVE  row'[i].status = row[i].status /\ (row'[i].stale => row[i].stale)
  BY <1>1, <1>4 DEF CommitBlock, RowType
<1>5. ASSUME NEW d \in Drivers, Claim(d)
      PROVE  \/ row'[i] = row[i]
             \/ /\ drv[d].job = i /\ Claimable(drv[d].status, i)
                /\ row'[i].status = "SETTLING" /\ ~row'[i].stale
  BY <1>1, <1>5 DEF Claim, TypeOK, RowType
<1>6. ASSUME NEW d \in Drivers, Mark(d), drv[d].job # i PROVE row'[i] = row[i]
  BY <1>6 DEF Mark, TypeOK
<1>7. \/ \E j \in Intents : GoStale(j) \/ OpenWindow(j)
      \/ \E M \in SUBSET Intents : CommitBlock(M)
      \/ \E d \in Drivers : Claim(d) \/ Mark(d)
      \/ UNCHANGED row
  BY DEF Next, vars, PassTtl, PassDeadline, BeginBlock, HandlerFails, Undo,
         Trigger, Sweep, Drive, Read, Bill, Settle, SettleAccepted,
         SettleAnswerLost, SettleRejected, Receipt, ReceiptConfirmed,
         ReceiptMissing, Deliver, Abort, Crash, Mine, Revert
<1> QED
  BY <1>2, <1>3, <1>4, <1>5, <1>6, <1>7

\* The history of the calls that took too long only grows; a claim that goes
\* stale under its owner enters it.
LEMMA OverranGrows ==
    ASSUME [Next]_vars
    PROVE  /\ overran \subseteq overran'
           /\ \A e \in Drivers : Working(e) /\ GoStale(drv[e].job) =>
                 drv[e].job \in overran'
<1>1. ASSUME NEW i \in Intents, GoStale(i) PROVE overran \subseteq overran'
  BY <1>1 DEF GoStale
<1>2. (\E i \in Intents : GoStale(i)) \/ UNCHANGED overran
  BY DEF Next, vars, PassTtl, PassDeadline, BeginBlock, HandlerFails,
         OpenWindow, CommitBlock, Undo, Trigger, Sweep, Drive, Read, Claim, Bill,
         Settle, SettleAccepted, SettleAnswerLost, SettleRejected, Receipt,
         ReceiptConfirmed, ReceiptMissing, Mark, Deliver, Abort, Crash, Mine,
         Revert
<1>3. ASSUME NEW e \in Drivers, Working(e), GoStale(drv[e].job)
      PROVE  drv[e].job \in overran'
  BY <1>3 DEF GoStale
<1> QED
  BY <1>1, <1>2, <1>3

LEMMA OwnerInit == Init => OwnerInv
<1> SUFFICES ASSUME Init PROVE OwnerInv
  OBVIOUS
<1>1. \A d \in Drivers : ~Working(d)
  BY DEF Init, Idle, Working
<1> QED
  BY <1>1, TypeInit DEF OwnerInv, ClaimsStand, ClaimExclusive

LEMMA OwnerStep == OwnerInv /\ [Next]_vars => OwnerInv'
<1> SUFFICES ASSUME OwnerInv, [Next]_vars PROVE OwnerInv'
  OBVIOUS
<1> USE DEF OwnerInv
<1>0. TypeInv'
  BY TypeStep
<1>a. \A i : i \notin overran' => InTime(i)
  BY OverranGrows DEF InTime
<1>1. ASSUME NEW e \in Drivers, Working(e)', ~Claim(e)
      PROVE  Working(e) /\ drv'[e].job = drv[e].job /\ drv[e].job \in Intents
  BY <1>1, OnlyClaimStartsWork DEF TypeInv, HasJob, Working
<1>2. ASSUME NEW e \in Drivers, Claim(e), Working(e)'
      PROVE  /\ drv'[e].job = drv[e].job /\ drv[e].job \in Intents
             /\ Claimable(drv[e].status, drv[e].job)
             /\ row'[drv[e].job].status = "SETTLING" /\ ~row'[drv[e].job].stale
             /\ \A d \in Drivers : Working(d) /\ InTime(drv[e].job) =>
                                     drv[d].job # drv[e].job
  <2>1. drv[e].job \in Intents /\ drv[e] \in DriverType
    BY <1>2 DEF Claim, TypeInv, TypeOK, HasJob
  <2>2. Claimable(drv[e].status, drv[e].job) /\ drv' = [drv EXCEPT ![e].pc = "bill"]
    <3>1. CASE drv' = [drv EXCEPT ![e] = Idle]
      BY <3>1, <1>2 DEF Working, Idle, TypeInv, TypeOK
    <3> QED
      BY <3>1, <1>2 DEF Claim
  <2>3. row' = [row EXCEPT ![drv[e].job].status = "SETTLING", ![drv[e].job].stale = FALSE]
    BY <2>2, <1>2 DEF Claim
  <2>4. row[drv[e].job] \in RowType
    BY <2>1 DEF TypeInv, TypeOK
  <2>5. row'[drv[e].job].status = "SETTLING" /\ ~row'[drv[e].job].stale
    BY <2>1, <2>3, <2>4 DEF TypeInv, TypeOK, RowType
  <2>6. \A d \in Drivers : Working(d) /\ InTime(drv[e].job) =>
                               drv[d].job # drv[e].job
    BY <2>2 DEF Claimable, ClaimsStand
  <2> QED
    BY <2>1, <2>2, <2>5, <2>6 DEF TypeInv, TypeOK, DriverType
<1>3. ASSUME NEW e \in Drivers, Claim(e), NEW d \in Drivers, d # e PROVE ~Claim(d) \/ ~Working(d)'
  BY <1>3 DEF Claim, Working, Idle, TypeInv, TypeOK, DriverType
<1>4. ClaimExclusive'
  <2> SUFFICES ASSUME NEW d \in Drivers, NEW e \in Drivers,
                      Working(d)', Working(e)', drv'[d].job = drv'[e].job,
                      drv'[d].job \notin overran', d # e
               PROVE  FALSE
    BY DEF ClaimExclusive, Working, InTime
  <2>0. InTime(drv'[d].job)
    BY <1>a
  <2>1. CASE Claim(d)
    BY <2>0, <2>1, <1>1, <1>2, <1>3
  <2>2. CASE Claim(e)
    BY <2>0, <2>2, <1>1, <1>2, <1>3
  <2>3. CASE ~Claim(d) /\ ~Claim(e)
    BY <2>0, <2>3, <1>1 DEF ClaimExclusive
  <2> QED
    BY <2>1, <2>2, <2>3
<1>5. ClaimsStand'
  <2> SUFFICES ASSUME NEW e \in Drivers, Working(e)', drv'[e].job \notin overran'
               PROVE  row'[drv'[e].job].status = "SETTLING" /\ ~row'[drv'[e].job].stale
    BY DEF ClaimsStand, Working, InTime
  <2>0. InTime(drv'[e].job)
    BY <1>a
  <2>1. CASE Claim(e)
    BY <2>1, <1>2
  <2>2. CASE ~Claim(e)
    <3> DEFINE i == drv[e].job
    <3>1. Working(e) /\ drv'[e].job = i /\ i \in Intents
      BY <2>2, <1>1
    <3>2. row[i].status = "SETTLING" /\ ~row[i].stale
      BY <2>0, <3>1 DEF ClaimsStand
    <3>3. ~GoStale(i)
      BY <3>1, OverranGrows DEF InTime
    <3>4. ASSUME NEW d \in Drivers, Mark(d), drv[d].job = i PROVE FALSE
      <4>1. d = e
        BY <2>0, <3>1, <3>4 DEF Mark, Working, ClaimExclusive
      <4> QED
        BY <3>4, <4>1 DEF Mark, Working, Idle, TypeInv, TypeOK, DriverType
    <3> HIDE DEF i
    <3> QED
      BY <3>1, <3>2, <3>3, <3>4, RowMoves
  <2> QED
    BY <2>1, <2>2
<1> QED
  BY <1>0, <1>4, <1>5

\* claimForSettlement and claimStaleSettlement give an intent one owner at a
\* time, until a claim goes stale under a call that is still at work.
THEOREM OneOwner == Spec => []ClaimExclusive
<1>1. Spec => []OwnerInv
  BY OwnerInit, OwnerStep, PTL DEF Spec
<1> QED
  BY <1>1, PTL DEF OwnerInv

\* Under the same proviso SETTLED, TIMEOUT and SETTLE_FAILED are terminal,
\* although the writes of markSettled and the others are unconditional.
THEOREM TerminalStatesAreFinal == Spec => TerminalIsFinal
<1>1. Spec => []OwnerInv
  BY OwnerInit, OwnerStep, PTL DEF Spec
<1>2. OwnerInv /\ [Next]_vars =>
        [\A i \in Intents : row[i].status \in Terminal /\ InTime(i) =>
            row'[i].status = row[i].status]_vars
  <2> SUFFICES ASSUME OwnerInv, [Next]_vars, NEW i \in Intents,
                      row[i].status \in Terminal, InTime(i)
               PROVE  row'[i].status = row[i].status
    OBVIOUS
  <2>1. ~\E d \in Drivers : Mark(d) /\ drv[d].job = i
    BY DEF OwnerInv, ClaimsStand, Working, Mark, Terminal
  <2>2. \A d \in Drivers : ~Claimable(drv[d].status, i)
    BY DEF Claimable, Terminal
  <2> QED
    BY <2>1, <2>2, RowMoves DEF OwnerInv
<1> QED
  BY <1>1, <1>2, PTL DEF Spec, TerminalIsFinal
=============================================================================
