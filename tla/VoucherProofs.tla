---------------------------- MODULE VoucherProofs ----------------------------
(***************************************************************************)
(* The settlement engine implements the abstract voucher, for any number   *)
(* of intents, drivers and transactions: a charge is within the quote of   *)
(* an opened window, its record is permanent, data follows the record, a   *)
(* SETTLE_FAILED intent is never charged, and an intent whose calls were   *)
(* in time is announced with one outcome.                                  *)
(***************************************************************************)
EXTENDS SettlementProofs

USE BillingAssumption, NoTxAssumption, NoIntentAssumption DEF NoBlock
-----------------------------------------------------------------------------
(* How one step moves the drivers and the rows.                            *)

\* Every way one driver can change.
DriverMove(e) ==
    \/ drv'[e] = drv[e]
    \/ drv'[e] = Idle
    \/ /\ drv'[e].pc = "read" /\ drv'[e].start = NoBlock /\ drv'[e].amount = 0
       /\ drv'[e].verdict = "none"
    \/ /\ Read(e) /\ drv'[e].pc = "claim" /\ drv'[e].job = drv[e].job
       /\ drv'[e].start = row[drv[e].job].startBlockNum
       /\ drv'[e].amount = drv[e].amount /\ drv'[e].verdict = drv[e].verdict
    \/ /\ Bill(e) /\ drv'[e].pc # "deliver" /\ drv'[e].job = drv[e].job
       /\ drv'[e].start = drv[e].start
       /\ drv'[e].amount = AmountDue(drv[e].start, Budget, cursor, Rate)
       /\ drv'[e].verdict = "failed" => row[drv[e].job].payload # "good"
       /\ drv'[e].pc = "mark" => drv'[e].verdict # "none"
    \/ /\ SettleRejected(e) /\ drv'[e].pc # "deliver" /\ drv'[e].job = drv[e].job
       /\ drv'[e].start = drv[e].start /\ drv'[e].amount = drv[e].amount
       /\ drv'[e].verdict = "failed" => row[drv[e].job].payload # "good"
       /\ drv'[e].pc = "mark" => drv'[e].verdict # "none"
    \/ /\ drv'[e].job = drv[e].job /\ drv'[e].start = drv[e].start
       /\ drv'[e].amount = drv[e].amount
       /\ drv'[e].verdict \in {drv[e].verdict, "paid"}
       /\ drv'[e].pc = "mark" => drv'[e].verdict # "none"
       /\ drv'[e].pc = "deliver" =>
            /\ drv[e].pc = "deliver" \/ Mark(e)
            /\ drv'[e].txHash = drv[e].txHash /\ drv'[e].verdict = drv[e].verdict
            /\ drv'[e].path = drv[e].path

LEMMA DriverMoves ==
    ASSUME TypeInv, [Next]_vars, NEW e \in Drivers
    PROVE  DriverMove(e)
<1>1. drv[e] \in DriverType /\ drv \in [Drivers -> DriverType]
  BY DEF TypeInv, TypeOK
<1>2. ASSUME NEW d \in Drivers, d # e,
             Drive(d) \/ Abort(d) \/ \E i \in Intents : Trigger(d, i) \/ Sweep(d, i)
      PROVE  drv'[e] = drv[e]
  BY <1>1, <1>2 DEF Drive, Read, Claim, Bill, Settle, SettleAccepted,
         SettleAnswerLost, SettleRejected, Receipt, ReceiptConfirmed,
         ReceiptMissing, Mark, Deliver, Abort, Trigger, Sweep, Start
<1>3. ASSUME NEW i \in Intents, Trigger(e, i) \/ Sweep(e, i)
      PROVE  drv'[e].pc = "read" /\ drv'[e].start = NoBlock
               /\ drv'[e].amount = 0 /\ drv'[e].verdict = "none"
  <2>1. PICK path : drv' = [drv EXCEPT ![e] = [Idle EXCEPT !.pc = "read",
                                                 !.job = i, !.path = path]]
    BY <1>3 DEF Trigger, Sweep, Start
  <2>2. drv'[e] = [Idle EXCEPT !.pc = "read", !.job = i, !.path = path]
    BY <1>1, <2>1
  <2> QED
    BY <2>2 DEF Idle
<1>4. ASSUME Read(e)
      PROVE  /\ drv'[e].pc = "claim" /\ drv'[e].job = drv[e].job
             /\ drv'[e].start = row[drv[e].job].startBlockNum
             /\ drv'[e].amount = drv[e].amount /\ drv'[e].verdict = drv[e].verdict
  <2>1. drv'[e] = [drv[e] EXCEPT !.pc = "claim",
                                 !.status = row[drv[e].job].status,
                                 !.start = row[drv[e].job].startBlockNum]
    BY <1>1, <1>4 DEF Read
  <2> QED
    BY <1>1, <2>1 DEF DriverType
<1>5. ASSUME Claim(e) \/ (\E t \in Txs : SettleAccepted(e, t)) \/ ReceiptConfirmed(e)
             \/ Mark(e) \/ Deliver(e)
      PROVE  drv'[e] = Idle \/
             /\ drv'[e].job = drv[e].job /\ drv'[e].start = drv[e].start
             /\ drv'[e].amount = drv[e].amount
             /\ drv'[e].verdict \in {drv[e].verdict, "paid"}
             /\ drv'[e].pc = "mark" => drv'[e].verdict # "none"
             /\ drv'[e].pc = "deliver" =>
                  /\ drv[e].pc = "deliver" \/ Mark(e)
                  /\ drv'[e].txHash = drv[e].txHash /\ drv'[e].verdict = drv[e].verdict
                  /\ drv'[e].path = drv[e].path
  <2>1. ASSUME Claim(e) \/ (\E t \in Txs : SettleAccepted(e, t)) \/ ReceiptConfirmed(e)
        PROVE  drv'[e] = Idle \/
               /\ drv'[e].job = drv[e].job /\ drv'[e].start = drv[e].start
               /\ drv'[e].amount = drv[e].amount
               /\ drv'[e].verdict \in {drv[e].verdict, "paid"}
               /\ drv'[e].pc # "deliver"
               /\ drv'[e].pc = "mark" => drv'[e].verdict # "none"
    BY <1>1, <2>1 DEF Claim, SettleAccepted, ReceiptConfirmed, DriverType
  <2>2. ASSUME Mark(e)
        PROVE  drv'[e] = Idle \/ drv'[e] = [drv[e] EXCEPT !.pc = "deliver"]
    BY <1>1, <2>2 DEF Mark
  <2>3. ASSUME Deliver(e)
        PROVE  /\ drv[e].pc = "deliver"
               /\ drv'[e] = Idle \/ drv'[e] = [drv[e] EXCEPT !.tries = @ + 1]
    BY <1>1, <2>3 DEF Deliver
  <2> QED
    BY <1>1, <1>5, <2>1, <2>2, <2>3 DEF DriverType
<1>6. ASSUME Bill(e)
      PROVE  /\ drv'[e].pc # "deliver" /\ drv'[e].job = drv[e].job
             /\ drv'[e].start = drv[e].start
             /\ drv'[e].amount = AmountDue(drv[e].start, Budget, cursor, Rate)
             /\ drv'[e].verdict = "failed" => row[drv[e].job].payload # "good"
             /\ drv'[e].pc = "mark" => drv'[e].verdict # "none"
  <2> DEFINE due == AmountDue(drv[e].start, Budget, cursor, Rate)
             next == AfterBill(drv[e].path, row[drv[e].job].payload, due)
  <2>1. /\ next.pc # "deliver"
        /\ next.verdict = "failed" => row[drv[e].job].payload # "good"
        /\ next.pc = "mark" => next.verdict # "none"
    BY DEF AfterBill
  <2>2. drv'[e] = [drv[e] EXCEPT !.pc = next.pc, !.verdict = next.verdict,
                                 !.amount = due]
    BY <1>1, <1>6 DEF Bill
  <2> HIDE DEF due, next
  <2>3. /\ drv'[e].pc = next.pc /\ drv'[e].job = drv[e].job
        /\ drv'[e].start = drv[e].start /\ drv'[e].amount = due
        /\ drv'[e].verdict = next.verdict
    BY <1>1, <2>2 DEF DriverType
  <2> QED
    BY <2>1, <2>3 DEF due
<1>7. ASSUME SettleRejected(e)
      PROVE  drv'[e] = Idle \/
             /\ drv'[e].pc # "deliver" /\ drv'[e].job = drv[e].job
             /\ drv'[e].start = drv[e].start /\ drv'[e].amount = drv[e].amount
             /\ drv'[e].verdict = "failed" => row[drv[e].job].payload # "good"
             /\ drv'[e].verdict # "none"
  <2>1. PICK class \in Rejections(drv[e].job) :
          drv' = IF RejectionVerdict(class) = "none" THEN [drv EXCEPT ![e] = Idle]
                 ELSE [drv EXCEPT ![e].pc = "mark", ![e].verdict = RejectionVerdict(class)]
    BY <1>7 DEF SettleRejected
  <2>2. RejectionVerdict(class) = "failed" => row[drv[e].job].payload # "good"
    BY <2>1 DEF RejectionVerdict, Rejections
  <2> DEFINE verdict == RejectionVerdict(class)
  <2>3. drv' = IF verdict = "none" THEN [drv EXCEPT ![e] = Idle]
               ELSE [drv EXCEPT ![e].pc = "mark", ![e].verdict = verdict]
    BY <2>1
  <2> HIDE DEF verdict
  <2>4. drv'[e] = Idle \/ /\ drv'[e].pc = "mark" /\ drv'[e].verdict = verdict
                          /\ verdict # "none"
                          /\ drv'[e].job = drv[e].job /\ drv'[e].start = drv[e].start
                          /\ drv'[e].amount = drv[e].amount
    <3>1. CASE verdict = "none"
      BY <1>1, <2>3, <3>1
    <3>2. CASE verdict # "none"
      <4>1. drv'[e] = [drv[e] EXCEPT !.pc = "mark", !.verdict = verdict]
        BY <1>1, <2>3, <3>2
      <4> QED
        BY <1>1, <3>2, <4>1 DEF DriverType
    <3> QED
      BY <3>1, <3>2
  <2> QED
    BY <2>2, <2>4 DEF verdict
<1>8. ASSUME Abort(e) \/ Crash \/ ReceiptMissing(e) \/ \E t \in Txs : SettleAnswerLost(e, t)
      PROVE  drv'[e] = Idle
  BY <1>1, <1>8 DEF Abort, Crash, ReceiptMissing, SettleAnswerLost
<1>9. \/ drv' = drv \/ Crash
      \/ \E d \in Drivers : \/ Drive(d) \/ Abort(d)
                             \/ \E i \in Intents : Trigger(d, i) \/ Sweep(d, i)
  BY DEF Next, vars, PassTtl, PassDeadline, GoStale, BeginBlock, HandlerFails,
         OpenWindow, CommitBlock, Undo, Mine, Revert
<1>10. CASE Drive(e) \/ Abort(e) \/ \E i \in Intents : Trigger(e, i) \/ Sweep(e, i)
  BY <1>3, <1>4, <1>5, <1>6, <1>7, <1>8, <1>10
  DEF Drive, Settle, Receipt, DriverMove
<1> QED
  BY <1>2, <1>8, <1>9, <1>10 DEF DriverMove

\* What a step leaves alone in a row: an open window stays open, the voucher
\* and the webhook stay what they are, and only Mark(d) writes the record or
\* a terminal status.
LEMMA RowKeeps ==
    ASSUME TypeInv, [Next]_vars, NEW i \in Intents
    PROVE  /\ row[i].startBlockNum # NoBlock =>
                row'[i].startBlockNum = row[i].startBlockNum
           /\ row'[i].payload = row[i].payload
           /\ \/ /\ row'[i].txHash = row[i].txHash /\ row'[i].charged = row[i].charged
                 /\ row'[i].status = "SETTLE_FAILED" => row[i].status = "SETTLE_FAILED"
              \/ \E d \in Drivers :
                    Mark(d) /\ drv[d].job = i /\ row'[i] = Marked(row[i], d)
<1> USE DEF TypeInv
<1>1. row[i] \in RowType
  BY DEF TypeOK
<1>2. ASSUME \/ \E j \in Intents : GoStale(j) \/ OpenWindow(j)
             \/ \E M \in SUBSET Intents : CommitBlock(M)
             \/ \E d \in Drivers : Claim(d)
             \/ UNCHANGED row
      PROVE  /\ row[i].startBlockNum # NoBlock =>
                  row'[i].startBlockNum = row[i].startBlockNum
             /\ row'[i].payload = row[i].payload
             /\ row'[i].txHash = row[i].txHash /\ row'[i].charged = row[i].charged
             /\ row'[i].status \in {row[i].status, "SETTLING"}
  <2> DEFINE Kept == /\ row[i].startBlockNum # NoBlock =>
                           row'[i].startBlockNum = row[i].startBlockNum
                     /\ row'[i].payload = row[i].payload
                     /\ row'[i].txHash = row[i].txHash /\ row'[i].charged = row[i].charged
                     /\ row'[i].status \in {row[i].status, "SETTLING"}
  <2>1. ASSUME NEW j \in Intents, GoStale(j) PROVE Kept
    BY <1>1, <2>1 DEF GoStale, TypeOK, RowType
  <2>2. ASSUME NEW j \in Intents, OpenWindow(j) PROVE Kept
    BY <1>1, <2>2 DEF OpenWindow, TypeOK, RowType
  <2>3. ASSUME NEW M \in SUBSET Intents, CommitBlock(M) PROVE Kept
    BY <1>1, <2>3 DEF CommitBlock, RowType
  <2>4. ASSUME NEW d \in Drivers, Claim(d) PROVE Kept
    BY <1>1, <2>4 DEF Claim, TypeOK, RowType
  <2> QED
    BY <1>2, <2>1, <2>2, <2>3, <2>4
<1>3. ASSUME NEW d \in Drivers, Mark(d), drv[d].job # i PROVE row'[i] = row[i]
  BY <1>3 DEF Mark, TypeOK
<1>4. ASSUME NEW d \in Drivers, Mark(d), drv[d].job = i
      PROVE  /\ row'[i] = Marked(row[i], d)
             /\ row'[i].startBlockNum = row[i].startBlockNum
             /\ row'[i].payload = row[i].payload
  <2>1. row'[i] = Marked(row[i], d)
    BY <1>4 DEF Mark, TypeOK
  <2> QED
    BY <1>1, <2>1 DEF Marked, RowType
<1>5. \/ \E j \in Intents : GoStale(j) \/ OpenWindow(j)
      \/ \E M \in SUBSET Intents : CommitBlock(M)
      \/ \E d \in Drivers : Claim(d) \/ Mark(d)
      \/ UNCHANGED row
  BY DEF Next, vars, PassTtl, PassDeadline, BeginBlock, HandlerFails, Undo,
         Trigger, Sweep, Drive, Read, Bill, Settle, SettleAccepted,
         SettleAnswerLost, SettleRejected, Receipt, ReceiptConfirmed,
         ReceiptMissing, Deliver, Abort, Crash, Mine, Revert
<1> QED
  BY <1>2, <1>3, <1>4, <1>5
-----------------------------------------------------------------------------
(* The record of a charge.                                                 *)

\* The record of a settlement survives every step, those of a late driver too:
\* the nonce lets only one transaction of a voucher be mined.
LEMMA RecordKept ==
    ASSUME MoneyInv, [Next]_vars, NEW i \in Intents, row[i].txHash # NoTx
    PROVE  row'[i].txHash = row[i].txHash /\ row'[i].charged = row[i].charged
<1>1. row[i] \in RowType
  BY DEF MoneyInv, TypeInv, TypeOK
<1>2. ASSUME NEW d \in Drivers, Mark(d), drv[d].job = i, row'[i] = Marked(row[i], d)
      PROVE  row'[i].txHash = row[i].txHash /\ row'[i].charged = row[i].charged
  <2>1. CASE drv[d].verdict # "paid"
    <3>1. CASE drv[d].verdict = "void"
      BY <1>1, <1>2, <3>1 DEF Marked, RowType
    <3>2. CASE drv[d].verdict # "void"
      BY <1>1, <1>2, <2>1, <3>2 DEF Marked, RowType
    <3> QED
      BY <3>1, <3>2
  <2>2. CASE drv[d].verdict = "paid"
    <3>1. row'[i].txHash = drv[d].txHash /\ row'[i].charged = drv[d].amount
      BY <1>1, <1>2, <2>2 DEF Marked, RowType
    <3>2. /\ drv[d].txHash \in Txs /\ tx[drv[d].txHash].state = "mined"
          /\ tx[drv[d].txHash].intent = i /\ tx[drv[d].txHash].amount = drv[d].amount
      BY <1>2, <2>2 DEF MoneyInv, DriversHold, Holds
    <3>3. /\ row[i].txHash \in Txs /\ tx[row[i].txHash].state = "mined"
          /\ tx[row[i].txHash].intent = i /\ tx[row[i].txHash].amount = row[i].charged
      <4>1. row[i].txHash \in Txs
        BY <1>1 DEF RowType
      <4>2. tx[row[i].txHash] = [state |-> "mined", intent |-> i,
                                 amount |-> row[i].charged]
        BY DEF MoneyInv, RecordedChargeIsOnChain
      <4> QED
        BY <4>1, <4>2
    <3>4. drv[d].txHash = row[i].txHash
      BY <3>2, <3>3 DEF MoneyInv, ChargedOnce
    <3> QED
      BY <3>1, <3>2, <3>3, <3>4
  <2> QED
    BY <2>1, <2>2
<1> QED
  BY <1>2, RowKeeps DEF MoneyInv

\* No later outcome overwrites or erases the record of a settlement.
THEOREM RecordsArePermanent == Spec => RecordIsPermanent
<1>1. Spec => []MoneyInv
  BY MoneyInit, MoneyStep, PTL DEF Spec
<1>2. MoneyInv /\ [Next]_vars =>
        [\A i \in Intents : row[i].txHash # NoTx =>
            row'[i].txHash = row[i].txHash /\ row'[i].charged = row[i].charged]_vars
  BY RecordKept
<1> QED
  BY <1>1, <1>2, PTL DEF Spec, RecordIsPermanent
-----------------------------------------------------------------------------
(* The amount of a charge, and the vouchers that are never charged.        *)

\* A driver that read a start block read an opened window, and one that owes
\* anything owes at least a block of it.
DriversOwe ==
    \A d \in Drivers :
        /\ drv[d].start # NoBlock =>
             drv[d].job \in Intents /\ row[drv[d].job].startBlockNum # NoBlock
        /\ drv[d].amount > 0 => Rate <= drv[d].amount /\ drv[d].start # NoBlock
        /\ drv[d].verdict = "failed" =>
             drv[d].job \in Intents /\ row[drv[d].job].payload # "good"
        /\ drv[d].pc = "mark" => drv[d].verdict # "none"

\* Every submitted transaction charges the good voucher of some intent.
TxsAreOfIntents ==
    \A t \in Txs : tx[t].state # "unsent" =>
        tx[t].intent \in Intents /\ row[tx[t].intent].payload = "good"

\* Only a voucher that was not good is SETTLE_FAILED.
FailedIsNotGood ==
    \A i \in Intents : row[i].status = "SETTLE_FAILED" => row[i].payload # "good"

QuoteInv == TypeInv /\ DriversOwe /\ TxsAreOfIntents /\ FailedIsNotGood
              /\ ChargeWithinQuote

LEMMA QuoteInit == Init => QuoteInv
<1> SUFFICES ASSUME Init PROVE QuoteInv
  OBVIOUS
<1>1. DriversOwe
  BY DEF Init, Idle, DriversOwe
<1>2. TxsAreOfIntents /\ ChargeWithinQuote
  BY DEF Init, TxsAreOfIntents, ChargeWithinQuote
<1>3. FailedIsNotGood
  BY DEF Init, FailedIsNotGood
<1> QED
  BY <1>1, <1>2, <1>3, TypeInit DEF QuoteInv

LEMMA QuoteStep == QuoteInv /\ [Next]_vars => QuoteInv'
<1> SUFFICES ASSUME QuoteInv, [Next]_vars PROVE QuoteInv'
  OBVIOUS
<1> USE DEF QuoteInv
<1>1. TypeInv'
  BY TypeStep
<1>2. \A i \in Intents : /\ row[i].startBlockNum # NoBlock =>
                              row'[i].startBlockNum # NoBlock
                         /\ row'[i].payload = row[i].payload
  BY RowKeeps
<1>3. \A e \in Drivers : drv[e] \in DriverType /\ drv'[e] \in DriverType
  BY <1>1 DEF TypeInv, TypeOK
<1>4. DriversOwe'
  <2> SUFFICES ASSUME NEW e \in Drivers
               PROVE  /\ drv'[e].start # NoBlock =>
                           /\ drv'[e].job \in Intents
                           /\ row'[drv'[e].job].startBlockNum # NoBlock
                      /\ drv'[e].amount > 0 =>
                           Rate <= drv'[e].amount /\ drv'[e].start # NoBlock
                      /\ drv'[e].verdict = "failed" =>
                           /\ drv'[e].job \in Intents
                           /\ row'[drv'[e].job].payload # "good"
                      /\ drv'[e].pc = "mark" => drv'[e].verdict # "none"
    BY DEF DriversOwe
  <2>1. DriverMove(e)
    BY DriverMoves
  <2>2. drv[e].pc # "idle" => drv[e].job \in Intents
    BY DEF TypeInv, HasJob
  <2>3. CASE drv'[e] = Idle
    BY <2>3 DEF Idle
  <2>4. CASE /\ drv'[e].start = NoBlock /\ drv'[e].amount = 0
             /\ drv'[e].verdict = "none" /\ drv'[e].pc = "read"
    BY <2>4
  <2>5. CASE /\ drv'[e].job = drv[e].job /\ drv'[e].start = drv[e].start
             /\ drv'[e].amount = drv[e].amount
             /\ drv'[e].verdict \in {drv[e].verdict, "paid"}
             /\ drv'[e].pc = "mark" => drv'[e].verdict # "none"
    BY <1>2, <2>5 DEF DriversOwe
  <2>6. CASE Read(e) /\ drv'[e].pc = "claim" /\ drv'[e].job = drv[e].job
               /\ drv'[e].start = row[drv[e].job].startBlockNum
               /\ drv'[e].amount = drv[e].amount /\ drv'[e].verdict = drv[e].verdict
    <3>1. drv[e].job \in Intents /\ drv[e].pc = "read"
      BY <2>2, <2>6 DEF Read
    <3>2. drv[e].amount > 0 => row[drv[e].job].startBlockNum # NoBlock
      BY DEF DriversOwe
    <3> QED
      BY <1>2, <2>6, <3>1, <3>2 DEF DriversOwe
  <2>7. ASSUME Bill(e), drv'[e].job = drv[e].job, drv'[e].start = drv[e].start,
               drv'[e].amount = AmountDue(drv[e].start, Budget, cursor, Rate),
               drv'[e].verdict = "failed" => row[drv[e].job].payload # "good",
               drv'[e].pc = "mark" => drv'[e].verdict # "none"
        PROVE  /\ drv'[e].start # NoBlock =>
                    /\ drv'[e].job \in Intents
                    /\ row'[drv'[e].job].startBlockNum # NoBlock
               /\ drv'[e].amount > 0 =>
                    Rate <= drv'[e].amount /\ drv'[e].start # NoBlock
               /\ drv'[e].verdict = "failed" =>
                    /\ drv'[e].job \in Intents
                    /\ row'[drv'[e].job].payload # "good"
               /\ drv'[e].pc = "mark" => drv'[e].verdict # "none"
    <3>1. drv[e].job \in Intents
      BY <2>2, <2>7 DEF Bill
    <3>2. drv'[e].amount > 0 => Rate <= drv'[e].amount /\ drv[e].start # NoBlock
      <4>1. drv[e].start \in Nat /\ cursor \in Nat
        BY <1>3 DEF TypeInv, TypeOK, DriverType
      <4> QED
        BY <2>7, <4>1, AmountDueBounds
    <3> QED
      BY <1>2, <2>7, <3>1, <3>2 DEF DriversOwe
  <2>8. ASSUME SettleRejected(e), drv'[e].job = drv[e].job,
               drv'[e].start = drv[e].start, drv'[e].amount = drv[e].amount,
               drv'[e].verdict = "failed" => row[drv[e].job].payload # "good",
               drv'[e].pc = "mark" => drv'[e].verdict # "none"
        PROVE  /\ drv'[e].start # NoBlock =>
                    /\ drv'[e].job \in Intents
                    /\ row'[drv'[e].job].startBlockNum # NoBlock
               /\ drv'[e].amount > 0 =>
                    Rate <= drv'[e].amount /\ drv'[e].start # NoBlock
               /\ drv'[e].verdict = "failed" =>
                    /\ drv'[e].job \in Intents
                    /\ row'[drv'[e].job].payload # "good"
               /\ drv'[e].pc = "mark" => drv'[e].verdict # "none"
    <3>1. drv[e].job \in Intents
      BY <2>2, <2>8 DEF SettleRejected
    <3> QED
      BY <1>2, <2>8, <3>1 DEF DriversOwe
  <2>9. CASE drv'[e] = drv[e]
    BY <1>2, <2>9 DEF DriversOwe
  <2> QED
    BY <2>1, <2>3, <2>4, <2>5, <2>6, <2>7, <2>8, <2>9 DEF DriverMove
<1>5. ASSUME NEW d \in Drivers, NEW t \in Txs, Submit(d, t)
      PROVE  /\ tx'[t].intent = drv[d].job /\ tx'[t].amount = drv[d].amount
             /\ drv[d].job \in Intents /\ row[drv[d].job].payload = "good"
             /\ drv[d].amount > 0
             /\ \A u \in Txs : u # t => tx'[u] = tx[u]
  <2>1. tx'[t] = [state |-> "pending", intent |-> drv[d].job, amount |-> drv[d].amount]
    BY <1>5 DEF Submit, TypeInv, TypeOK
  <2>2. drv[d].job \in Intents /\ row[drv[d].job].payload = "good" /\ drv[d].amount > 0
    BY <1>5 DEF Submit, TypeInv, HasJob
  <2>3. \A u \in Txs : u # t => tx'[u] = tx[u]
    BY <1>5 DEF Submit, TypeInv, TypeOK
  <2> QED
    BY <2>1, <2>2, <2>3
<1>6. ASSUME NEW t \in Txs, tx'[t].state # "unsent"
      PROVE  \/ /\ tx[t].state # "unsent" /\ tx'[t].intent = tx[t].intent
                /\ tx'[t].amount = tx[t].amount
             \/ \E d \in Drivers : Submit(d, t)
  <2>1. ASSUME NEW u \in Txs, Mine(u) \/ Revert(u)
        PROVE  /\ tx[t].state # "unsent" /\ tx'[t].intent = tx[t].intent
               /\ tx'[t].amount = tx[t].amount
    BY <1>6, <2>1 DEF Mine, Revert, TypeInv, TypeOK, TxType
  <2>2. ASSUME NEW d \in Drivers, NEW u \in Txs, Submit(d, u), u # t
        PROVE  tx'[t] = tx[t]
    BY <1>5, <2>2
  <2>3. \/ UNCHANGED tx
        \/ \E d \in Drivers, u \in Txs : Submit(d, u)
        \/ \E u \in Txs : Mine(u) \/ Revert(u)
    BY DEF Next, vars, PassTtl, PassDeadline, GoStale, BeginBlock, HandlerFails,
           OpenWindow, CommitBlock, Undo, Trigger, Sweep, Drive, Read, Claim, Bill,
           Settle, SettleAccepted, SettleAnswerLost, SettleRejected, Receipt,
           ReceiptConfirmed, ReceiptMissing, Mark, Deliver, Abort, Crash
  <2> QED
    BY <1>6, <2>1, <2>2, <2>3
<1>7. TxsAreOfIntents'
  <2> SUFFICES ASSUME NEW t \in Txs, tx'[t].state # "unsent"
               PROVE  tx'[t].intent \in Intents /\ row'[tx'[t].intent].payload = "good"
    BY DEF TxsAreOfIntents
  <2> QED
    BY <1>2, <1>5, <1>6 DEF TxsAreOfIntents
<1>8. ChargeWithinQuote'
  <2> SUFFICES ASSUME NEW t \in Txs, tx'[t].state # "unsent"
               PROVE  /\ Rate <= tx'[t].amount /\ tx'[t].amount <= Ceiling(Budget, Rate)
                      /\ row'[tx'[t].intent].startBlockNum # NoBlock
    BY DEF ChargeWithinQuote
  <2>1. CASE /\ tx[t].state # "unsent" /\ tx'[t].intent = tx[t].intent
             /\ tx'[t].amount = tx[t].amount
    BY <1>2, <2>1 DEF ChargeWithinQuote, TxsAreOfIntents
  <2>2. ASSUME NEW d \in Drivers, Submit(d, t)
        PROVE  /\ Rate <= tx'[t].amount /\ tx'[t].amount <= Ceiling(Budget, Rate)
               /\ row'[tx'[t].intent].startBlockNum # NoBlock
    <3>1. drv[d].amount <= Ceiling(Budget, Rate)
      BY <1>3 DEF DriverType, Amounts
    <3>2. Rate <= drv[d].amount /\ row[drv[d].job].startBlockNum # NoBlock
      BY <1>5, <2>2 DEF DriversOwe
    <3> QED
      BY <1>2, <1>5, <2>2, <3>1, <3>2
  <2> QED
    BY <1>6, <2>1, <2>2
<1>9. FailedIsNotGood'
  <2> SUFFICES ASSUME NEW i \in Intents, row'[i].status = "SETTLE_FAILED"
               PROVE  row'[i].payload # "good"
    BY DEF FailedIsNotGood
  <2>1. CASE row[i].status = "SETTLE_FAILED"
    BY <1>2, <2>1 DEF FailedIsNotGood
  <2>2. ASSUME NEW d \in Drivers, drv[d].job = i, row'[i] = Marked(row[i], d), Mark(d)
        PROVE  row'[i].payload # "good"
    <3>1. row[i] \in RowType
      BY DEF TypeInv, TypeOK
    <3>2. drv[d].verdict \notin {"paid", "void"}
      BY <2>2, <3>1 DEF Marked, RowType
    <3>3. drv[d].verdict = "failed"
      <4>1. drv[d] \in DriverType /\ drv[d].verdict # "none"
        BY <1>3, <2>2 DEF Mark, DriversOwe
      <4> QED
        BY <3>2, <4>1 DEF DriverType, Verdicts
    <3> QED
      BY <1>2, <2>2, <3>3 DEF DriversOwe
  <2> QED
    BY <2>1, <2>2, RowKeeps
<1> QED
  BY <1>1, <1>4, <1>7, <1>8, <1>9

\* No voucher is charged above its ceiling, for less than a block, or before
\* the stream opened its window.
THEOREM ChargesAreWithinQuote == Spec => []ChargeWithinQuote
<1>1. Spec => []QuoteInv
  BY QuoteInit, QuoteStep, PTL DEF Spec
<1> QED
  BY <1>1, PTL DEF QuoteInv

\* A SETTLE_FAILED intent has not been and will not be charged: only a voucher
\* that cannot settle, or a missing one, ends there.
THEOREM FailedIntentsAreUncharged == Spec => []FailedIsUncharged
<1>1. Spec => []QuoteInv
  BY QuoteInit, QuoteStep, PTL DEF Spec
<1>2. QuoteInv => FailedIsUncharged
  BY DEF QuoteInv, FailedIsNotGood, TxsAreOfIntents, FailedIsUncharged
<1> QED
  BY <1>1, <1>2, PTL
-----------------------------------------------------------------------------
(* The refinement: every step is a step of the abstract voucher, or none.  *)

\* A driver that delivers data has put its transaction in the row.
DeliveredIsRecorded ==
    \A d \in Drivers : drv[d].pc = "deliver" /\ drv[d].verdict = "paid" =>
        drv[d].job \in Intents /\ row[drv[d].job].txHash = drv[d].txHash

VoucherInv == MoneyInv /\ QuoteInv /\ DeliveredIsRecorded

LEMMA VoucherInit == Init => VoucherInv
<1> SUFFICES ASSUME Init PROVE VoucherInv
  OBVIOUS
<1>1. DeliveredIsRecorded
  BY DEF Init, Idle, DeliveredIsRecorded
<1> QED
  BY <1>1, MoneyInit, QuoteInit DEF VoucherInv

LEMMA VoucherStep == VoucherInv /\ [Next]_vars => VoucherInv'
<1> SUFFICES ASSUME VoucherInv, [Next]_vars PROVE VoucherInv'
  OBVIOUS
<1>0. MoneyInv /\ QuoteInv /\ TypeInv
  BY DEF VoucherInv, QuoteInv
<1>1. MoneyInv' /\ QuoteInv'
  BY <1>0, MoneyStep, QuoteStep
<1>2. DeliveredIsRecorded'
  <2> SUFFICES ASSUME NEW e \in Drivers, drv'[e].pc = "deliver", drv'[e].verdict = "paid"
               PROVE  drv'[e].job \in Intents /\ row'[drv'[e].job].txHash = drv'[e].txHash
    BY DEF DeliveredIsRecorded
  <2>1. DriverMove(e)
    BY <1>0, DriverMoves
  <2>2. CASE drv'[e] = drv[e] \/ drv[e].pc = "deliver"
    <3>1. /\ drv[e].pc = "deliver" /\ drv[e].verdict = "paid"
          /\ drv'[e].job = drv[e].job /\ drv'[e].txHash = drv[e].txHash
      <4>1. drv'[e] # Idle /\ drv'[e].pc \notin {"read", "claim"}
        BY DEF Idle
      <4> QED
        BY <2>1, <2>2, <4>1 DEF DriverMove
    <3>2. drv[e].job \in Intents /\ row[drv[e].job].txHash = drv[e].txHash
      BY <3>1 DEF VoucherInv, DeliveredIsRecorded
    <3>3. drv[e].txHash # NoTx
      <4>1. Holds(drv[e], tx)
        BY <1>0 DEF MoneyInv, DriversHold
      <4>2. drv[e].txHash \in Txs
        BY <3>1, <4>1 DEF Holds
      <4> QED
        BY <4>2
    <3> DEFINE i == drv[e].job
    <3>4. i \in Intents /\ row[i].txHash # NoTx
      BY <3>2, <3>3
    <3> HIDE DEF i
    <3>5. row'[i].txHash = row[i].txHash
      BY <1>0, <3>4, RecordKept
    <3> QED
      BY <3>1, <3>2, <3>5 DEF i
  <2>3. CASE Mark(e)
    <3>1. /\ drv'[e].job = drv[e].job /\ drv'[e].txHash = drv[e].txHash
          /\ drv[e].verdict = "paid" /\ drv[e].pc = "mark"
      BY <2>1, <2>3 DEF DriverMove, Read, Bill, SettleRejected, Mark, Idle
    <3>2. drv[e].job \in Intents /\ row[drv[e].job] \in RowType
      BY <1>0, <3>1 DEF TypeInv, TypeOK, HasJob
    <3>3. row'[drv[e].job] = Marked(row[drv[e].job], e)
      BY <1>0, <2>3, <3>2 DEF Mark, TypeInv, TypeOK
    <3> QED
      BY <3>1, <3>2, <3>3 DEF Marked, RowType
  <2> QED
    BY <2>1, <2>2, <2>3 DEF DriverMove, Idle
<1> QED
  BY <1>1, <1>2 DEF VoucherInv

\* The mapped sets, named so that the steps below can speak of them.
Opened  == {i \in Intents : row[i].startBlockNum # NoBlock}
Charged == {OnChain(t) : t \in MinedTxs}
Booked  == {InBooks(i) : i \in {j \in Intents : row[j].txHash # NoTx}}
Told    == {OnChain(t) : t \in {u \in MinedTxs : \E n \in notices : n.txHash = u}}

\* What each action of the engine does to the mapped sets.
LEMMA OpenedMoves ==
    ASSUME TypeInv, [Next]_vars
    PROVE  Opened' = Opened \/ \E i \in Intents : OpenWindow(i) /\ Opened' = Opened \cup {i}
<1>1. ASSUME NEW i \in Intents, OpenWindow(i) PROVE Opened' = Opened \cup {i}
  <2>1. row'[i].startBlockNum = block /\ block # NoBlock
    BY <1>1 DEF OpenWindow, TypeInv, TypeOK, RowType
  <2>2. \A j \in Intents : j # i => row'[j] = row[j]
    BY <1>1 DEF OpenWindow, TypeInv, TypeOK
  <2> QED
    BY <2>1, <2>2 DEF Opened
<1>2. ASSUME ~\E i \in Intents : OpenWindow(i) PROVE Opened' = Opened
  <2>1. ASSUME NEW j \in Intents PROVE row'[j].startBlockNum = row[j].startBlockNum
    <3>0. row[j] \in RowType
      BY DEF TypeInv, TypeOK
    <3>1. ASSUME NEW i \in Intents, GoStale(i)
          PROVE  row'[j].startBlockNum = row[j].startBlockNum
      BY <3>0, <3>1 DEF GoStale, TypeInv, TypeOK, RowType
    <3>2. ASSUME NEW M \in SUBSET Intents, CommitBlock(M)
          PROVE  row'[j].startBlockNum = row[j].startBlockNum
      BY <3>0, <3>2 DEF CommitBlock, RowType
    <3>3. ASSUME NEW d \in Drivers, Claim(d)
          PROVE  row'[j].startBlockNum = row[j].startBlockNum
      BY <3>0, <3>3 DEF Claim, TypeInv, TypeOK, RowType
    <3>4. ASSUME NEW d \in Drivers, Mark(d)
          PROVE  row'[j].startBlockNum = row[j].startBlockNum
      <4>1. row'[j] = row[j] \/ row'[j] = Marked(row[j], d)
        BY <3>4 DEF Mark, TypeInv, TypeOK
      <4> QED
        BY <3>0, <4>1 DEF Marked, RowType
    <3> QED
      BY <1>2, <3>1, <3>2, <3>3, <3>4
      DEF Next, vars, PassTtl, PassDeadline, BeginBlock, HandlerFails, Undo,
          Trigger, Sweep, Drive, Read, Bill, Settle, SettleAccepted,
          SettleAnswerLost, SettleRejected, Receipt, ReceiptConfirmed,
          ReceiptMissing, Deliver, Abort, Crash, Mine, Revert
  <2> QED
    BY <2>1 DEF Opened
<1> QED
  BY <1>1, <1>2

LEMMA ChargedMoves ==
    ASSUME TypeInv, [Next]_vars
    PROVE  \/ Charged' = Charged /\ MinedTxs' = MinedTxs
           \/ \E t \in Txs : /\ Mine(t) /\ MinedTxs' = MinedTxs \cup {t}
                             /\ Charged' = Charged \cup {OnChain(t)}
<1> USE DEF TypeInv, TypeOK
<1>1. CASE UNCHANGED tx
  BY <1>1 DEF Charged, MinedTxs, OnChain
<1>2. ASSUME NEW d \in Drivers, NEW t \in Txs, Submit(d, t)
      PROVE  Charged' = Charged /\ MinedTxs' = MinedTxs
  <2>1. \A u \in Txs : u # t => tx'[u] = tx[u]
    BY <1>2 DEF Submit
  <2>2. tx[t].state # "mined" /\ tx'[t].state # "mined"
    BY <1>2 DEF Submit, TxType
  <2>3. MinedTxs' = MinedTxs
    BY <2>1, <2>2 DEF MinedTxs
  <2>4. \A u \in MinedTxs : tx'[u] = tx[u]
    BY <2>1, <2>2 DEF MinedTxs
  <2> QED
    BY <2>3, <2>4 DEF Charged, OnChain
<1>3. ASSUME NEW t \in Txs, Mine(t)
      PROVE  MinedTxs' = MinedTxs \cup {t} /\ Charged' = Charged \cup {OnChain(t)}
  <2>1. \A u \in Txs : u # t => tx'[u] = tx[u]
    BY <1>3 DEF Mine
  <2>2. /\ tx'[t].state = "mined" /\ tx'[t].intent = tx[t].intent
        /\ tx'[t].amount = tx[t].amount /\ tx[t].state # "mined"
    BY <1>3 DEF Mine, TxType
  <2>3. MinedTxs' = MinedTxs \cup {t}
    BY <2>1, <2>2 DEF MinedTxs
  <2>4. \A u \in MinedTxs \cup {t} : OnChain(u)' = OnChain(u)
    BY <2>1, <2>2 DEF MinedTxs, OnChain
  <2> QED
    BY <2>3, <2>4 DEF Charged
<1>4. \/ UNCHANGED tx
      \/ \E d \in Drivers, t \in Txs : Submit(d, t)
      \/ \E t \in Txs : Mine(t) \/ Revert(t)
  BY DEF Next, vars, PassTtl, PassDeadline, GoStale, BeginBlock, HandlerFails,
         OpenWindow, CommitBlock, Undo, Trigger, Sweep, Drive, Read, Claim, Bill,
         Settle, SettleAccepted, SettleAnswerLost, SettleRejected, Receipt,
         ReceiptConfirmed, ReceiptMissing, Mark, Deliver, Abort, Crash
<1>5. ASSUME NEW t \in Txs, Revert(t) PROVE Charged' = Charged /\ MinedTxs' = MinedTxs
  <2>1. \A u \in Txs : u # t => tx'[u] = tx[u]
    BY <1>5 DEF Revert
  <2>2. tx[t].state # "mined" /\ tx'[t].state # "mined"
    BY <1>5 DEF Revert, TxType
  <2>3. MinedTxs' = MinedTxs /\ \A u \in MinedTxs : tx'[u] = tx[u]
    BY <2>1, <2>2 DEF MinedTxs
  <2> QED
    BY <2>3 DEF Charged, OnChain
<1> QED
  BY <1>1, <1>2, <1>3, <1>4, <1>5

\* The row and the notices move the books and what was told.
LEMMA BookedMoves ==
    ASSUME VoucherInv, [Next]_vars
    PROVE  \/ Booked' = Booked
           \/ \E d \in Drivers : /\ Mark(d) /\ drv[d].verdict = "paid"
                                 /\ Booked' = Booked \cup {OnChain(drv[d].txHash)}
<1>0. TypeInv /\ MoneyInv
  BY DEF VoucherInv, QuoteInv
<1>1. \A i \in Intents : row[i].txHash # NoTx => InBooks(i)' = InBooks(i)
  BY <1>0, RecordKept DEF InBooks
<1>2. CASE \A i \in Intents : row'[i].txHash = row[i].txHash
  BY <1>1, <1>2 DEF Booked
<1>3. ASSUME NEW i \in Intents, row'[i].txHash # row[i].txHash,
             NEW d \in Drivers, Mark(d), drv[d].job = i, row'[i] = Marked(row[i], d)
      PROVE  drv[d].verdict = "paid" /\ Booked' = Booked \cup {OnChain(drv[d].txHash)}
  <2>0. row[i] \in RowType
    BY <1>0 DEF TypeInv, TypeOK
  <2>1. drv[d].verdict = "paid"
    <3>1. CASE drv[d].verdict = "void"
      BY <1>3, <2>0, <3>1 DEF Marked, RowType
    <3>2. CASE drv[d].verdict \notin {"paid", "void"}
      BY <1>3, <2>0, <3>2 DEF Marked, RowType
    <3> QED
      BY <3>1, <3>2
  <2>2. row'[i].txHash = drv[d].txHash /\ row'[i].charged = drv[d].amount
    BY <1>3, <2>0, <2>1 DEF Marked, RowType
  <2>3. Holds(drv[d], tx)
    BY <1>0 DEF MoneyInv, DriversHold
  <2>4. /\ drv[d].txHash \in Txs /\ tx[drv[d].txHash].intent = i
        /\ tx[drv[d].txHash].amount = drv[d].amount
    BY <1>3, <2>1, <2>3 DEF Holds
  <2>5. drv[d].txHash # NoTx
    BY <2>4
  <2>6. row[i].txHash = NoTx
    BY <1>0, <1>3, RecordKept
  <2>7. \A j \in Intents : j # i => row'[j] = row[j]
    BY <1>0, <1>3 DEF Mark, TypeInv, TypeOK
  <2>8. InBooks(i)' = OnChain(drv[d].txHash)
    BY <1>3, <2>2, <2>4 DEF InBooks, OnChain
  <2> DEFINE Have == {j \in Intents : row[j].txHash # NoTx}
  <2>9. Have' = Have \cup {i}
    BY <2>2, <2>5, <2>6, <2>7
  <2>10. \A j \in Have : InBooks(j)' = InBooks(j)
    BY <1>1
  <2>11. Booked = {InBooks(j) : j \in Have} /\ Booked' = {InBooks(j)' : j \in Have'}
    BY DEF Booked
  <2> HIDE DEF Have
  <2> QED
    BY <2>1, <2>8, <2>9, <2>10, <2>11
<1>4. ASSUME NEW i \in Intents, row'[i].txHash # row[i].txHash
      PROVE  \E d \in Drivers : Mark(d) /\ drv[d].job = i /\ row'[i] = Marked(row[i], d)
  BY <1>0, <1>4, RowKeeps
<1> QED
  BY <1>2, <1>3, <1>4

LEMMA NoticesMove ==
    ASSUME [Next]_vars
    PROVE  \/ notices' = notices
           \/ \E d \in Drivers : Deliver(d) /\ notices' = notices \cup {Notice(d)}
<1>1. ASSUME NEW d \in Drivers, Deliver(d)
      PROVE  notices' = notices \/ notices' = notices \cup {Notice(d)}
  BY <1>1 DEF Deliver
<1>2. (\E d \in Drivers : Deliver(d)) \/ UNCHANGED notices
  BY DEF Next, vars, PassTtl, PassDeadline, GoStale, BeginBlock, HandlerFails,
         OpenWindow, CommitBlock, Undo, Trigger, Sweep, Drive, Read, Claim, Bill,
         Settle, SettleAccepted, SettleAnswerLost, SettleRejected, Receipt,
         ReceiptConfirmed, ReceiptMissing, Mark, Abort, Crash, Mine, Revert
<1> QED
  BY <1>1, <1>2

\* A step that changes one of rows, chain and notices leaves the others alone.
LEMMA OneAtATime ==
    ASSUME [Next]_vars
    PROVE  /\ UNCHANGED row \/ UNCHANGED tx
           /\ UNCHANGED row \/ UNCHANGED notices
           /\ UNCHANGED tx \/ UNCHANGED notices
BY DEF Next, vars, PassTtl, PassDeadline, GoStale, BeginBlock, HandlerFails,
       OpenWindow, CommitBlock, Undo, Trigger, Sweep, Drive, Read, Claim, Bill,
       Settle, SettleAccepted, SettleAnswerLost, SettleRejected, Receipt, Submit,
       ReceiptConfirmed, ReceiptMissing, Mark, Deliver, Abort, Crash, Mine, Revert

LEMMA RefinesInit == Init => Ledger!Init
<1> SUFFICES ASSUME Init PROVE Ledger!Init
  OBVIOUS
<1>1. Opened = {}
  BY DEF Init, Opened
<1>2. MinedTxs = {}
  BY DEF Init, MinedTxs
<1>3. {i \in Intents : row[i].txHash # NoTx} = {}
  BY DEF Init
<1>4. Charged = {} /\ Told = {} /\ Booked = {}
  BY <1>2, <1>3 DEF Charged, Told, Booked
<1> QED
  BY <1>1, <1>4 DEF Ledger!Init, Opened, Charged, Booked, Told

\* A mined settlement is a charge of the abstract voucher.
LEMMA RefinesMine ==
    ASSUME VoucherInv, NEW t \in Txs, Mine(t), Opened' = Opened,
           Charged' = Charged \cup {OnChain(t)}, Booked' = Booked, Told' = Told
    PROVE  Ledger!Next
<1>0. TypeInv /\ QuoteInv
  BY DEF VoucherInv, QuoteInv
<1> DEFINE c == OnChain(t)
<1>1. tx[t].state = "pending" /\ ~NonceUsed(tx[t].intent) /\ tx[t] \in TxType
  BY <1>0 DEF Mine, TypeInv, TypeOK
<1>2. /\ tx[t].intent \in Intents
      /\ Rate <= tx[t].amount /\ tx[t].amount <= Ceiling(Budget, Rate)
      /\ row[tx[t].intent].startBlockNum # NoBlock
  BY <1>0, <1>1 DEF QuoteInv, TxsAreOfIntents, ChargeWithinQuote
<1>3. c \in Ledger!Charges
  <2>1. tx[t].amount \in Nat
    BY <1>1, RateMonotone DEF TxType, Amounts
  <2> QED
    BY <1>2, <2>1 DEF Ledger!Charges, OnChain
<1>4. c.intent \in Opened /\ \A b \in Charged : b.intent # c.intent
  BY <1>1, <1>2 DEF OnChain, Opened, Charged, MinedTxs, NonceUsed
<1>5. PICK k \in Ledger!Charges : k = c
  BY <1>3
<1>6. Ledger!Charge(k)
  BY <1>4, <1>5 DEF Ledger!Charge, Opened, Charged, Booked, Told
<1> QED
  BY <1>6 DEF Ledger!Next

\* A terminal write that records a mined settlement puts it on the books.
LEMMA RefinesMark ==
    ASSUME VoucherInv, NEW d \in Drivers, Mark(d), drv[d].verdict = "paid",
           Opened' = Opened, Charged' = Charged, Told' = Told,
           Booked' = Booked \cup {OnChain(drv[d].txHash)}
    PROVE  Ledger!Next
<1>0. TypeInv /\ MoneyInv /\ QuoteInv
  BY DEF VoucherInv, QuoteInv
<1> DEFINE t == drv[d].txHash
           c == OnChain(t)
<1>1. Holds(drv[d], tx)
  BY <1>0 DEF MoneyInv, DriversHold
<1>2. t \in Txs /\ tx[t].state = "mined"
  BY <1>1 DEF Holds
<1>3. c \in Charged
  BY <1>2 DEF Charged, MinedTxs
<1>4. /\ tx[t] \in TxType /\ tx[t].intent \in Intents
      /\ Rate <= tx[t].amount /\ tx[t].amount <= Ceiling(Budget, Rate)
  BY <1>0, <1>2 DEF TypeInv, TypeOK, QuoteInv, TxsAreOfIntents, ChargeWithinQuote
<1>5. c \in Ledger!Charges
  <2>1. tx[t].amount \in Nat
    BY <1>4, RateMonotone DEF TxType, Amounts
  <2> QED
    BY <1>2, <1>4, <2>1 DEF Ledger!Charges, OnChain
<1>6. PICK k \in Ledger!Charges : k = c
  BY <1>5
<1>7. Ledger!Record(k)
  BY <1>3, <1>6 DEF Ledger!Record, Opened, Charged, Booked, Told
<1> QED
  BY <1>7 DEF Ledger!Next

\* A delivery tells of a charge that is on the books, or of no charge.
LEMMA RefinesDeliver ==
    ASSUME VoucherInv, NEW d \in Drivers, Deliver(d),
           notices' = notices \cup {Notice(d)},
           Opened' = Opened, Charged' = Charged, Booked' = Booked
    PROVE  Ledger!Next \/ Told' = Told
<1>0. TypeInv /\ MoneyInv /\ QuoteInv
  BY DEF VoucherInv, QuoteInv
<1>a. MinedTxs' = MinedTxs /\ \A u \in MinedTxs : OnChain(u)' = OnChain(u)
  BY DEF Deliver, MinedTxs, OnChain
<1>1. CASE drv[d].verdict # "paid"
  <2>1. Notice(d).txHash = NoTx
    BY <1>1 DEF Notice
  <2>2. \A u \in MinedTxs : (\E n \in notices' : n.txHash = u)
                              <=> (\E n \in notices : n.txHash = u)
    BY <2>1 DEF MinedTxs
  <2> QED
    BY <1>a, <2>2 DEF Told
<1>2. CASE drv[d].verdict = "paid"
  <2> DEFINE t == drv[d].txHash
             c == OnChain(t)
  <2>1. drv[d].job \in Intents /\ row[drv[d].job].txHash = t
    BY <1>2 DEF VoucherInv, DeliveredIsRecorded, Deliver
  <2>2. Holds(drv[d], tx)
    BY <1>0 DEF MoneyInv, DriversHold
  <2>3. t \in Txs /\ tx[t].state = "mined"
    BY <1>2, <2>2 DEF Holds
  <2>4. tx[t] = [state |-> "mined", intent |-> drv[d].job,
                 amount |-> row[drv[d].job].charged]
    BY <1>0, <2>1, <2>3 DEF MoneyInv, RecordedChargeIsOnChain
  <2>5. c \in Booked
    <3>1. c = InBooks(drv[d].job)
      BY <2>1, <2>4 DEF OnChain, InBooks
    <3>2. row[drv[d].job].txHash # NoTx
      BY <2>1, <2>3
    <3> QED
      BY <2>1, <3>1, <3>2 DEF Booked
  <2>6. Told' = Told \cup {c}
    <3>1. Notice(d).txHash = t
      BY <1>2 DEF Notice
    <3> DEFINE Heard == {u \in MinedTxs : \E n \in notices : n.txHash = u}
    <3>2. Heard' = Heard \cup {t}
      BY <1>a, <2>3, <3>1 DEF MinedTxs
    <3>3. Told = {OnChain(u) : u \in Heard} /\ Told' = {OnChain(u)' : u \in Heard'}
      BY DEF Told
    <3>4. \A u \in Heard \cup {t} : OnChain(u)' = OnChain(u)
      BY <1>a, <2>3 DEF MinedTxs
    <3> HIDE DEF Heard
    <3> QED
      BY <3>2, <3>3, <3>4
  <2>7. /\ tx[t].intent \in Intents
        /\ Rate <= tx[t].amount /\ tx[t].amount <= Ceiling(Budget, Rate)
        /\ tx[t] \in TxType
    BY <1>0, <2>3 DEF TypeInv, TypeOK, QuoteInv, TxsAreOfIntents, ChargeWithinQuote
  <2>8. c \in Ledger!Charges
    <3>1. tx[t].amount \in Nat
      BY <2>7, RateMonotone DEF TxType, Amounts
    <3> QED
      BY <2>3, <2>7, <3>1 DEF Ledger!Charges, OnChain
  <2>9. PICK k \in Ledger!Charges : k = c
    BY <2>8
  <2>10. Ledger!Tell(k)
    BY <2>5, <2>6, <2>9 DEF Ledger!Tell, Opened, Charged, Booked, Told
  <2> QED
    BY <2>10 DEF Ledger!Next
<1> QED
  BY <1>1, <1>2

LEMMA RefinesStep ==
    VoucherInv /\ [Next]_vars => [Ledger!Next]_(Ledger!voucherVars)
<1> SUFFICES ASSUME VoucherInv, [Next]_vars
             PROVE  [Ledger!Next]_(Ledger!voucherVars)
  OBVIOUS
<1>0. TypeInv /\ MoneyInv
  BY DEF VoucherInv, QuoteInv
<1>1. UNCHANGED row => Opened' = Opened /\ Booked' = Booked
  BY DEF Opened, Booked, InBooks
<1>2. UNCHANGED tx => Charged' = Charged
  BY DEF Charged, MinedTxs, OnChain
<1>3. UNCHANGED <<tx, notices>> => Told' = Told
  BY DEF Told, MinedTxs, OnChain
<1>4. Opened' = Opened /\ Charged' = Charged /\ Booked' = Booked /\ Told' = Told
        => [Ledger!Next]_(Ledger!voucherVars)
  BY DEF Ledger!voucherVars, Opened, Charged, Booked, Told
<1>5. CASE UNCHANGED <<row, tx>>
  <2>1. CASE notices' = notices
    BY <1>1, <1>2, <1>3, <1>4, <1>5, <2>1
  <2>2. ASSUME NEW d \in Drivers, Deliver(d), notices' = notices \cup {Notice(d)}
        PROVE  [Ledger!Next]_(Ledger!voucherVars)
    BY <1>1, <1>2, <1>4, <1>5, <2>2, RefinesDeliver
  <2> QED
    BY <2>1, <2>2, NoticesMove
<1>6. CASE UNCHANGED <<row, notices>>
  <2>1. CASE Charged' = Charged /\ MinedTxs' = MinedTxs
    <3>1. \A u \in MinedTxs : tx'[u] = tx[u]
      BY <1>0, ChainForward DEF ChainMoves, MinedTxs
    <3>2. Told' = Told
      BY <1>6, <2>1, <3>1 DEF Told, OnChain
    <3> QED
      BY <1>1, <1>4, <1>6, <2>1, <3>2
  <2>2. ASSUME NEW t \in Txs, Mine(t), MinedTxs' = MinedTxs \cup {t},
               Charged' = Charged \cup {OnChain(t)}
        PROVE  [Ledger!Next]_(Ledger!voucherVars)
    <3>1. \A u \in MinedTxs : tx'[u] = tx[u]
      BY <1>0, ChainForward DEF ChainMoves, MinedTxs
    <3>2. \A n \in notices : n.txHash # t
      <4>1. tx[t].state = "pending"
        BY <2>2 DEF Mine
      <4>2. t # NoTx
        BY <2>2
      <4> QED
        BY <1>0, <4>1, <4>2 DEF MoneyInv, DataOnlyAfterReceipt
    <3> DEFINE Heard == {u \in MinedTxs : \E n \in notices : n.txHash = u}
    <3>3. Heard' = Heard
      BY <1>6, <2>2, <3>2
    <3>4. \A u \in Heard : OnChain(u)' = OnChain(u)
      BY <3>1 DEF OnChain
    <3>5. Told = {OnChain(u) : u \in Heard} /\ Told' = {OnChain(u)' : u \in Heard'}
      BY DEF Told
    <3> HIDE DEF Heard
    <3>6. Told' = Told
      BY <3>3, <3>4, <3>5
    <3> QED
      BY <1>1, <1>6, <2>2, <3>6, RefinesMine
  <2> QED
    BY <1>0, <2>1, <2>2, ChargedMoves
<1>7. CASE UNCHANGED <<tx, notices>>
  <2>1. Charged' = Charged /\ Told' = Told
    BY <1>2, <1>3, <1>7
  <2>2. ASSUME NEW i \in Intents, OpenWindow(i), Opened' = Opened \cup {i}
        PROVE  [Ledger!Next]_(Ledger!voucherVars)
    <3>1. Booked' = Booked
      <4>1. \A j \in Intents : /\ row'[j].txHash = row[j].txHash
                               /\ row'[j].charged = row[j].charged
        BY <1>0, <2>2 DEF OpenWindow, TypeInv, TypeOK, RowType
      <4>2. \A j \in Intents : InBooks(j)' = InBooks(j)
        BY <4>1 DEF InBooks
      <4> QED
        BY <4>1, <4>2 DEF Booked
    <3>2. Ledger!Open(i)
      BY <2>1, <2>2, <3>1 DEF Ledger!Open, Opened, Charged, Booked, Told
    <3> QED
      BY <3>2 DEF Ledger!Next
  <2>3. CASE Opened' = Opened
    <3>1. CASE Booked' = Booked
      BY <1>4, <2>1, <2>3, <3>1
    <3>2. ASSUME NEW d \in Drivers, Mark(d), drv[d].verdict = "paid",
                 Booked' = Booked \cup {OnChain(drv[d].txHash)}
          PROVE  [Ledger!Next]_(Ledger!voucherVars)
      BY <2>1, <2>3, <3>2, RefinesMark
    <3> QED
      BY <3>1, <3>2, BookedMoves
  <2> QED
    BY <1>0, <2>2, <2>3, OpenedMoves
<1> QED
  BY <1>5, <1>6, <1>7, OneAtATime

\* The settlement engine implements the abstract voucher.
THEOREM EngineImplementsVoucher == Spec => ImplementsVoucher
<1>1. Spec => []VoucherInv
  BY VoucherInit, VoucherStep, PTL DEF Spec
<1> QED
  BY <1>1, RefinesInit, RefinesStep, PTL DEF Spec, ImplementsVoucher, Ledger!Spec
-----------------------------------------------------------------------------
(* One outcome is announced.                                               *)

Delivering(d, i) == drv[d].pc = "deliver" /\ drv[d].job = i

\* What was told or is being told of an intent whose calls were in time is
\* one thing, and the row is terminal by then.
OutcomeOf(i) ==
    /\ \A d \in Drivers : Delivering(d, i) => row[i].status \in Terminal
    /\ \A n \in notices : n.intent = i => row[i].status \in Terminal
    /\ \A d, e \in Drivers :
          Delivering(d, i) /\ Delivering(e, i) => Notice(d) = Notice(e)
    /\ \A n \in notices, d \in Drivers :
          n.intent = i /\ Delivering(d, i) => n = Notice(d)
    /\ \A m, n \in notices : m.intent = i /\ n.intent = i => m = n

OneOutcome == \A i \in Intents : InTime(i) => OutcomeOf(i)

LEMMA DeliverMoves ==
    ASSUME TypeInv, [Next]_vars, NEW e \in Drivers, drv'[e].pc = "deliver"
    PROVE  /\ drv'[e].job = drv[e].job /\ Notice(e)' = Notice(e)
           /\ drv[e].pc = "deliver" \/ Mark(e)
<1>1. DriverMove(e)
  BY DriverMoves
<1>2. drv'[e] # Idle
  BY DEF Idle
<1>3. /\ drv'[e].job = drv[e].job /\ drv'[e].txHash = drv[e].txHash
      /\ drv'[e].verdict = drv[e].verdict /\ drv'[e].path = drv[e].path
      /\ drv[e].pc = "deliver" \/ Mark(e)
  BY <1>1, <1>2 DEF DriverMove
<1> QED
  BY <1>3 DEF Notice

LEMMA OutcomeInit == Init => OneOutcome
BY DEF Init, Idle, OneOutcome, OutcomeOf, Delivering

LEMMA OutcomeStep ==
    OwnerInv /\ OneOutcome /\ [Next]_vars => OneOutcome'
<1> SUFFICES ASSUME OwnerInv, OneOutcome, [Next]_vars, NEW i \in Intents,
                    i \notin overran'
             PROVE  OutcomeOf(i)'
  BY DEF OneOutcome, InTime
<1>0. TypeInv /\ InTime(i) /\ OutcomeOf(i)
  BY OverranGrows DEF OwnerInv, OneOutcome, InTime
<1>1. \A e \in Drivers : drv'[e].pc = "deliver" =>
        /\ drv'[e].job = drv[e].job /\ Notice(e)' = Notice(e)
        /\ drv[e].pc = "deliver" \/ Mark(e)
  BY <1>0, DeliverMoves
<1>2. CASE \E d \in Drivers : Mark(d) /\ drv[d].job = i
  <2>1. PICK d \in Drivers : Mark(d) /\ drv[d].job = i
    BY <1>2
  <2>2. Working(d) /\ row[i].status = "SETTLING"
    BY <1>0, <2>1 DEF OwnerInv, ClaimsStand, Working, Mark
  <2>3. /\ \A e \in Drivers : ~Delivering(e, i)
        /\ \A n \in notices : n.intent # i
    BY <1>0, <2>2 DEF OutcomeOf, Terminal
  <2>4. \A e \in Drivers : Delivering(e, i)' => e = d
    <3> SUFFICES ASSUME NEW e \in Drivers, Delivering(e, i)' PROVE e = d
      OBVIOUS
    <3>1. drv[e].job = i /\ Mark(e)
      BY <1>1, <2>3 DEF Delivering
    <3>2. Working(e)
      BY <3>1 DEF Mark, Working
    <3> QED
      BY <1>0, <2>1, <2>2, <3>1, <3>2 DEF OwnerInv, ClaimExclusive
  <2>5. notices' = notices
    BY <2>1 DEF Mark
  <2>6. row'[i].status \in Terminal
    <3>1. row[i] \in RowType /\ row'[i] = Marked(row[i], d)
      BY <1>0, <2>1 DEF Mark, TypeInv, TypeOK
    <3> QED
      BY <3>1 DEF Marked, RowType, Terminal
  <2> QED
    BY <2>3, <2>4, <2>5, <2>6 DEF OutcomeOf
<1>3. CASE ~\E d \in Drivers : Mark(d) /\ drv[d].job = i
  <2>1. \A e \in Drivers : Delivering(e, i)' =>
          Delivering(e, i) /\ Notice(e)' = Notice(e)
    BY <1>1, <1>3 DEF Delivering
  <2>2. row[i].status \in Terminal => row'[i].status \in Terminal
    <3>1. \A d \in Drivers : ~Claimable(drv[d].status, i) \/ row[i].status \notin Terminal
      BY DEF Claimable, Terminal
    <3> QED
      BY <1>0, <1>3, <3>1, RowMoves
  <2>3. \A n \in notices' : n \in notices \/ \E d \in Drivers :
          drv[d].pc = "deliver" /\ n = Notice(d)
    BY NoticesMove DEF Deliver
  <2>4. \A n \in notices' : n.intent = i =>
          n \in notices \/ \E d \in Drivers : Delivering(d, i) /\ n = Notice(d)
    BY <2>3 DEF Delivering, Notice
  <2> QED
    BY <1>0, <2>1, <2>2, <2>4 DEF OutcomeOf
<1> QED
  BY <1>2, <1>3

\* The agent never hears two outcomes of one intent, until a claim goes stale
\* under a call that is still at work.
THEOREM NoticesOfOneIntentAgree == Spec => []NoticesAgree
<1>1. Spec => [](OwnerInv /\ OneOutcome)
  BY OwnerInit, OwnerStep, OutcomeInit, OutcomeStep, PTL DEF Spec
<1>2. OwnerInv /\ OneOutcome => NoticesAgree
  <2>1. TypeInv => \A n \in notices : n.intent \in Intents
    BY DEF TypeInv, TypeOK, NoticeType
  <2> QED
    BY <2>1 DEF OwnerInv, OneOutcome, OutcomeOf, NoticesAgree
<1> QED
  BY <1>1, <1>2, PTL
=============================================================================
