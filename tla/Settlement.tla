----------------------------- MODULE Settlement -----------------------------
(***************************************************************************)
(* The settlement engine: how a paid intent leaves MONITORING and how the  *)
(* money of its voucher moves, once or not at all.                         *)
(*                                                                         *)
(* A driver is one running call of executeSuccessSettlement or             *)
(* executeTimeoutSettlement.  The stream starts one after the block that   *)
(* metered an intent's first match; every sweep pass starts one for each   *)
(* candidate.  Passes are not serialised, and a driver's awaits interleave *)
(* with every other driver's, with the stream's writes and with the chain: *)
(* each await of the code is a boundary between two actions here.          *)
(*                                                                         *)
(* Time appears as the three facts the code asks of it.  window[i] is      *)
(* "open" until the intent's TTL, "expired" after it, and "void" once the  *)
(* Permit2 deadline of the voucher (TTL plus the settlement buffer) has    *)
(* passed; row[i].stale says that updatedAt is more than STALE_SETTLING_MS *)
(* old, and every write of the row resets it.  overran is not state of the *)
(* code: it remembers the intents whose claim went stale while the call    *)
(* that owned it was still at work.                                        *)
(*                                                                         *)
(* The facilitator and the chain are external: a submitted transaction is  *)
(* mined or reverts at any time, at most one per voucher nonce is mined,   *)
(* and the answer to a settle call may be lost after the submission.       *)
(***************************************************************************)
EXTENDS Billing, FiniteSets

CONSTANTS
    Intents,      \* the paid intents
    Drivers,      \* settlement calls that can run at the same time
    Txs,          \* the settlement transactions that can be submitted
    NoTx,         \* the absent transaction hash
    NoIntent,     \* the job of a driver that has none
    Rate,         \* atomic units per block
    Budget,       \* blocks quoted to each intent
    MaxBlock,     \* bound: highest block the stream delivers
    MaxFailures,  \* bound: crashes, failed calls and undo signals
    SlowSteps     \* the awaits that may outlast STALE_SETTLING_MS

ASSUME BillingAssumption ==
    /\ Rate \in Nat \ {0}
    /\ Budget \in Nat \ {0}
    /\ MaxBlock \in Nat
    /\ MaxFailures \in Nat
ASSUME NoTxAssumption == NoTx \notin Txs
ASSUME NoIntentAssumption == NoIntent \notin Intents
ASSUME SlowStepsAssumption == SlowSteps \subseteq {"bill", "settle", "receipt", "mark"}

VARIABLES
    row,       \* the intents table
    window,    \* "open", "expired" or "void"
    overran,   \* intents whose claim went stale under a driver still at work
    cursor,    \* blockNum of the stream cursor row
    pos,       \* the last block the stream delivered
    block,     \* the block whose handler is running, or NoBlock
    seen,      \* the intents that handler read as MONITORING
    triggers,  \* intents the last commit must settle, not yet started
    drv,       \* the drivers
    tx,        \* the chain's view of the settlement transactions
    notices,   \* the webhook notices that reached the agent
    failures   \* how many failures have happened

streamVars == <<cursor, pos, block, seen>>
vars == <<row, window, overran, cursor, pos, block, seen, triggers, drv, tx,
          notices, failures>>

Terminal == {"SETTLED", "TIMEOUT", "SETTLE_FAILED"}
Statuses == {"MONITORING", "SETTLING"} \cup Terminal
Paths    == {"success", "timeout"}
Verdicts == {"none", "paid", "void", "failed"}
PCs      == {"idle", "read", "claim", "bill", "settle", "receipt", "mark",
             "deliver"}

\* "malformed": a voucher the facilitator can never settle; "missing": a row
\* without a stored voucher.
Payloads == {"good", "malformed", "missing"}

Amounts == 0 .. Ceiling(Budget, Rate)

RowType == [status : Statuses, startBlockNum : 0 .. MaxBlock,
            matched : BOOLEAN, stale : BOOLEAN, payload : Payloads,
            webhook : BOOLEAN, txHash : Txs \cup {NoTx}, charged : Amounts]

DriverType == [pc : PCs, job : Intents \cup {NoIntent}, path : Paths,
               status : Statuses, start : 0 .. MaxBlock, amount : Amounts,
               txHash : Txs \cup {NoTx}, verdict : Verdicts, tries : 0 .. 2]

TxType == [state : {"unsent", "pending", "mined", "reverted"},
           intent : Intents \cup {NoIntent}, amount : Amounts]

\* What a notice says: the intent, its kind, and the settlement transaction.
\* A notice carries the matched events exactly when it names a transaction.
NoticeType == [intent : Intents, type : {"settlement.confirmed", "intent.timeout"},
               txHash : Txs \cup {NoTx}]

Idle == [pc |-> "idle", job |-> NoIntent, path |-> "success",
         status |-> "MONITORING", start |-> NoBlock, amount |-> 0,
         txHash |-> NoTx, verdict |-> "none", tries |-> 0]

\* A verified intent: MONITORING, with a voucher unless the row was made by
\* hand, and a webhook if the agent asked for one.
Init ==
    /\ \E payload \in [Intents -> Payloads], webhook \in [Intents -> BOOLEAN] :
          row = [i \in Intents |->
                   [status |-> "MONITORING", startBlockNum |-> NoBlock,
                    matched |-> FALSE, stale |-> FALSE, payload |-> payload[i],
                    webhook |-> webhook[i], txHash |-> NoTx, charged |-> 0]]
    /\ window = [i \in Intents |-> "open"] /\ overran = {}
    /\ cursor = NoBlock /\ pos = 0 /\ block = NoBlock
    /\ seen = {} /\ triggers = {}
    /\ drv = [d \in Drivers |-> Idle]
    /\ tx = [t \in Txs |-> [state |-> "unsent", intent |-> NoIntent, amount |-> 0]]
    /\ notices = {}
    /\ failures = 0
-----------------------------------------------------------------------------
(* Time.                                                                   *)

PassTtl(i) ==
    /\ window[i] = "open"
    /\ window' = [window EXCEPT ![i] = "expired"]
    /\ UNCHANGED <<row, overran, streamVars, triggers, drv, tx, notices, failures>>

PassDeadline(i) ==
    /\ window[i] = "expired"
    /\ window' = [window EXCEPT ![i] = "void"]
    /\ UNCHANGED <<row, overran, streamVars, triggers, drv, tx, notices, failures>>

\* A driver that owns its job's claim and has not yet written the outcome.
Working(d) == drv[d].pc \in {"bill", "settle", "receipt", "mark"}

\* STALE_SETTLING_MS pass without a write of the row.  A driver that owns the
\* claim can still be at work on it only in one of SlowSteps.
GoStale(i) ==
    /\ row[i].status = "SETTLING" /\ ~row[i].stale
    /\ \A d \in Drivers :
          Working(d) /\ drv[d].job = i => drv[d].pc \in SlowSteps
    /\ row' = [row EXCEPT ![i].stale = TRUE]
    /\ overran' = IF \E d \in Drivers : Working(d) /\ drv[d].job = i
                  THEN overran \cup {i} ELSE overran
    /\ UNCHANGED <<window, streamVars, triggers, drv, tx, notices, failures>>
-----------------------------------------------------------------------------
(* The stream, as far as it writes what the engine reads.                  *)

\* The handler of the next block reads the monitoring intents.
BeginBlock ==
    /\ block = NoBlock /\ triggers = {}
    /\ pos < MaxBlock
    /\ block' = pos + 1 /\ pos' = pos + 1
    /\ seen' = {i \in Intents : row[i].status = "MONITORING"}
    /\ UNCHANGED <<row, window, overran, cursor, triggers, drv, tx, notices, failures>>

\* setStartBlockNum: a compare-and-swap on null, whatever the status is now.
\* A block that predates the intent or has no timestamp skips it.
OpenWindow(i) ==
    /\ block # NoBlock /\ i \in seen
    /\ row[i].startBlockNum = NoBlock
    /\ row' = [row EXCEPT ![i].startBlockNum = block, ![i].stale = FALSE]
    /\ UNCHANGED <<window, overran, streamVars, triggers, drv, tx, notices, failures>>

\* meterAndCommit: the matches and the cursor in one transaction; the first
\* match of an intent owes it a settlement.  With no match, saveCursor.
CommitBlock(M) ==
    /\ block # NoBlock
    /\ M \subseteq {i \in seen : InBudget(row[i].startBlockNum, Budget, block)}
    /\ row' = [i \in Intents |->
                 IF i \in M THEN [row[i] EXCEPT !.matched = TRUE, !.stale = FALSE]
                            ELSE row[i]]
    /\ triggers' = {i \in M : ~row[i].matched}
    /\ cursor' = block /\ block' = NoBlock /\ seen' = {}
    /\ UNCHANGED <<pos, window, overran, drv, tx, notices, failures>>

\* The handler throws: the error is logged and the next block goes on.
HandlerFails ==
    /\ block # NoBlock /\ failures < MaxFailures
    /\ block' = NoBlock /\ seen' = {}
    /\ failures' = failures + 1
    /\ UNCHANGED <<row, window, overran, cursor, pos, triggers, drv, tx, notices>>

\* An undo signal: resume after an earlier block; the stored number is 0.
Undo(p) ==
    /\ block = NoBlock /\ p < pos /\ failures < MaxFailures
    /\ pos' = p /\ cursor' = NoBlock
    /\ failures' = failures + 1
    /\ UNCHANGED <<row, window, overran, block, seen, triggers, drv, tx, notices>>
-----------------------------------------------------------------------------
(* Dispatch.                                                               *)

Start(d, i, path) ==
    /\ drv[d].pc = "idle"
    /\ drv' = [drv EXCEPT ![d] = [Idle EXCEPT !.pc = "read", !.job = i,
                                              !.path = path]]

\* After the commit: the success path of an intent's first match.
Trigger(d, i) ==
    /\ i \in triggers
    /\ Start(d, i, "success")
    /\ triggers' = triggers \ {i}
    /\ UNCHANGED <<row, window, overran, streamVars, tx, notices, failures>>

WindowOver(i) ==
    \/ window[i] # "open"
    \/ BudgetSpent(row[i].startBlockNum, Budget, cursor)

\* Mutant: the sweep forgets the windows that are over.
CandidateMetered(i) ==
    \/ row[i].status = "SETTLING" /\ row[i].stale
    \/ row[i].status = "MONITORING" /\ row[i].matched

\* getSettlementCandidates: expired or metered MONITORING rows, stale claims.
Candidate(i) ==
    \/ row[i].status = "SETTLING" /\ row[i].stale
    \/ row[i].status = "MONITORING" /\ (WindowOver(i) \/ row[i].matched)

\* One candidate of a sweep pass goes to the path its window calls for; a
\* stale claim whose window is open and that has no match stays where it is.
Sweep(d, i) ==
    /\ Candidate(i)
    /\ \/ WindowOver(i) /\ Start(d, i, "timeout")
       \/ ~WindowOver(i) /\ row[i].matched /\ Start(d, i, "success")
    /\ UNCHANGED <<row, window, overran, streamVars, triggers, tx, notices, failures>>
-----------------------------------------------------------------------------
(* One driver, await by await.                                             *)

\* getIntent: the status and the start block the rest of the call relies on.
Read(d) ==
    /\ drv[d].pc = "read"
    /\ drv' = [drv EXCEPT ![d].pc = "claim",
                          ![d].status = row[drv[d].job].status,
                          ![d].start = row[drv[d].job].startBlockNum]
    /\ UNCHANGED <<row, window, overran, streamVars, triggers, tx, notices, failures>>

\* Mutants of the claims: without the re-drive branch, without the staleness
\* condition, and trusting the status read before instead of comparing.
ClaimableOnce(readStatus, i) ==
    readStatus = "MONITORING" /\ row[i].status = "MONITORING"
ClaimableAnyAge(readStatus, i) ==
    readStatus \in {"MONITORING", "SETTLING"} /\ row[i].status = readStatus
ClaimableAsRead(readStatus, i) ==
    readStatus = "MONITORING" \/ (readStatus = "SETTLING" /\ row[i].stale)

\* The row condition of the claim that fits the status read before:
\* claimForSettlement, or claimStaleSettlement.
Claimable(readStatus, i) ==
    \/ readStatus = "MONITORING" /\ row[i].status = "MONITORING"
    \/ readStatus = "SETTLING" /\ row[i].status = "SETTLING" /\ row[i].stale

Claim(d) ==
    LET i == drv[d].job IN
    /\ drv[d].pc = "claim"
    /\ \/ /\ Claimable(drv[d].status, i)
          /\ row' = [row EXCEPT ![i].status = "SETTLING", ![i].stale = FALSE]
          /\ drv' = [drv EXCEPT ![d].pc = "bill"]
       \/ /\ ~Claimable(drv[d].status, i)
          /\ drv' = [drv EXCEPT ![d] = Idle]
          /\ UNCHANGED row
    /\ UNCHANGED <<window, overran, streamVars, triggers, tx, notices, failures>>

\* The next step of a driver that read the cursor and owes due.
AfterBill(path, payload, due) ==
    IF path = "timeout" /\ due = 0 THEN [pc |-> "mark", verdict |-> "void"]
    ELSE IF payload = "missing" THEN [pc |-> "mark", verdict |-> "failed"]
    ELSE [pc |-> "settle", verdict |-> "none"]

\* getCursor and the amount, from the start block read before the claim.
Bill(d) ==
    LET due  == AmountDue(drv[d].start, Budget, cursor, Rate)
        next == AfterBill(drv[d].path, row[drv[d].job].payload, due)
    IN  /\ drv[d].pc = "bill"
        /\ drv' = [drv EXCEPT ![d].pc = next.pc, ![d].verdict = next.verdict,
                              ![d].amount = due]
        /\ UNCHANGED <<row, window, overran, streamVars, triggers, tx, notices, failures>>

NonceUsed(i) == \E t \in Txs : tx[t].state = "mined" /\ tx[t].intent = i

\* The facilitator submits a transaction for a settleable voucher; nothing
\* is submitted for an amount of zero.
Submit(d, t) ==
    /\ drv[d].pc = "settle"
    /\ tx[t].state = "unsent"
    /\ row[drv[d].job].payload = "good" /\ drv[d].amount > 0
    /\ window[drv[d].job] # "void" /\ ~NonceUsed(drv[d].job)
    /\ tx' = [tx EXCEPT ![t] = [state |-> "pending", intent |-> drv[d].job,
                                amount |-> drv[d].amount]]

SettleAccepted(d, t) ==
    /\ Submit(d, t)
    /\ drv' = [drv EXCEPT ![d].pc = "receipt", ![d].txHash = t]
    /\ UNCHANGED <<row, window, overran, streamVars, triggers, notices, failures>>

\* The submission goes through and its answer does not: the call throws.
SettleAnswerLost(d, t) ==
    /\ failures < MaxFailures
    /\ Submit(d, t)
    /\ drv' = [drv EXCEPT ![d] = Idle]
    /\ failures' = failures + 1
    /\ UNCHANGED <<row, window, overran, streamVars, triggers, notices>>

\* The rejections the facilitator can give for the voucher of intent i.
Rejections(i) ==
    {"transient"}
    \cup (IF NonceUsed(i) THEN {"uncertain"} ELSE {})
    \cup (IF window[i] = "void" THEN {"deadline"} ELSE {})
    \cup (IF row[i].payload = "malformed" THEN {"structural"} ELSE {})

\* Mutant: an unrecognised rejection ends the intent.
RejectionIsFinal(class) ==
    CASE class = "deadline"  -> "void"
      [] class = "uncertain" -> "none"
      [] OTHER               -> "failed"

\* handleSettleRejection: the verdict a rejection leads to, none to leave the
\* intent SETTLING for a later sweep.
RejectionVerdict(class) ==
    CASE class = "deadline"   -> "void"
      [] class = "structural" -> "failed"
      [] OTHER                -> "none"

SettleRejected(d) ==
    /\ drv[d].pc = "settle"
    /\ \E class \in Rejections(drv[d].job) :
          LET verdict == RejectionVerdict(class)
          IN  drv' = IF verdict = "none" THEN [drv EXCEPT ![d] = Idle]
                     ELSE [drv EXCEPT ![d].pc = "mark", ![d].verdict = verdict]
    /\ UNCHANGED <<row, window, overran, streamVars, triggers, tx, notices, failures>>

\* Mutant: any receipt will do, whatever its status.
ReceiptOfAnyStatus(d) ==
    /\ drv[d].pc = "receipt"
    /\ tx[drv[d].txHash].state \in {"mined", "reverted"}
    /\ drv' = [drv EXCEPT ![d].pc = "mark", ![d].verdict = "paid"]
    /\ UNCHANGED <<row, window, overran, streamVars, triggers, tx, notices, failures>>

\* receiptConfirmed: only a successful receipt lets the driver go on.
ReceiptConfirmed(d) ==
    /\ drv[d].pc = "receipt"
    /\ tx[drv[d].txHash].state = "mined"
    /\ drv' = [drv EXCEPT ![d].pc = "mark", ![d].verdict = "paid"]
    /\ UNCHANGED <<row, window, overran, streamVars, triggers, tx, notices, failures>>

\* A revert, or a minute without a receipt: the intent stays SETTLING.
ReceiptMissing(d) ==
    /\ drv[d].pc = "receipt"
    /\ tx[drv[d].txHash].state # "mined" \/ failures < MaxFailures
    /\ failures' = IF tx[drv[d].txHash].state # "mined" THEN failures
                                                        ELSE failures + 1
    /\ drv' = [drv EXCEPT ![d] = Idle]
    /\ UNCHANGED <<row, window, overran, streamVars, triggers, tx, notices>>

\* Mutant: the amount is computed again at the time of the write.
MarkedAnew(r, d) ==
    [r EXCEPT !.status = IF drv[d].verdict = "paid" THEN "SETTLED" ELSE "TIMEOUT",
              !.txHash = IF drv[d].verdict = "paid" THEN drv[d].txHash ELSE @,
              !.charged = IF drv[d].verdict = "paid"
                          THEN AmountDue(r.startBlockNum, Budget, cursor, Rate)
                          ELSE @]

\* markSettled, markTimeout and markSettleFailed write whatever the status is.
Marked(r, d) ==
    CASE drv[d].verdict = "paid" ->
           [r EXCEPT !.status = IF drv[d].path = "success" THEN "SETTLED"
                                                           ELSE "TIMEOUT",
                     !.txHash = drv[d].txHash, !.charged = drv[d].amount,
                     !.stale = FALSE]
      [] drv[d].verdict = "void" ->
           [r EXCEPT !.status = "TIMEOUT", !.stale = FALSE]
      [] OTHER ->
           [r EXCEPT !.status = "SETTLE_FAILED", !.stale = FALSE]

Mark(d) ==
    LET i == drv[d].job IN
    /\ drv[d].pc = "mark"
    /\ row' = [row EXCEPT ![i] = Marked(row[i], d)]
    /\ drv' = IF drv[d].verdict # "failed" /\ row[i].webhook
              THEN [drv EXCEPT ![d].pc = "deliver"]
              ELSE [drv EXCEPT ![d] = Idle]
    /\ UNCHANGED <<window, overran, streamVars, triggers, tx, notices, failures>>

Notice(d) ==
    [intent |-> drv[d].job,
     type   |-> IF drv[d].verdict = "paid" /\ drv[d].path = "success"
                THEN "settlement.confirmed" ELSE "intent.timeout",
     txHash |-> IF drv[d].verdict = "paid" THEN drv[d].txHash ELSE NoTx]

\* deliverWebhook: up to three attempts; a failed one may still have reached
\* the agent.
Deliver(d) ==
    /\ drv[d].pc = "deliver"
    /\ \/ /\ notices' = notices \cup {Notice(d)}
          /\ drv' = [drv EXCEPT ![d] = Idle]
       \/ /\ notices' \in {notices, notices \cup {Notice(d)}}
          /\ drv' = IF drv[d].tries = 2 THEN [drv EXCEPT ![d] = Idle]
                    ELSE [drv EXCEPT ![d].tries = @ + 1]
    /\ UNCHANGED <<row, window, overran, streamVars, triggers, tx, failures>>
-----------------------------------------------------------------------------
(* Failures.                                                               *)

\* A database call of one driver throws; the sweep or the write chain logs
\* it.  In the write chain the triggers behind it are lost with it.
Abort(d) ==
    /\ drv[d].pc # "idle" /\ failures < MaxFailures
    /\ drv' = [drv EXCEPT ![d] = Idle]
    /\ triggers' \in {triggers, {}}
    /\ failures' = failures + 1
    /\ UNCHANGED <<row, window, overran, streamVars, tx, notices>>

\* The process dies and restarts: every driver, the running handler and the
\* pending triggers are gone; the stream resumes from the saved cursor.
Crash ==
    /\ failures < MaxFailures
    /\ drv' = [d \in Drivers |-> Idle]
    /\ triggers' = {} /\ block' = NoBlock /\ seen' = {}
    /\ pos' \in {p \in 0 .. pos : cursor # NoBlock => p = cursor}
    /\ failures' = failures + 1
    /\ UNCHANGED <<row, window, overran, cursor, tx, notices>>
-----------------------------------------------------------------------------
(* The chain.                                                              *)

Mine(t) ==
    /\ tx[t].state = "pending"
    /\ window[tx[t].intent] # "void" /\ ~NonceUsed(tx[t].intent)
    /\ tx' = [tx EXCEPT ![t].state = "mined"]
    /\ UNCHANGED <<row, window, overran, streamVars, triggers, drv, notices, failures>>

Revert(t) ==
    /\ tx[t].state = "pending"
    /\ tx' = [tx EXCEPT ![t].state = "reverted"]
    /\ UNCHANGED <<row, window, overran, streamVars, triggers, drv, notices, failures>>
-----------------------------------------------------------------------------
Settle(d) ==
    \/ \E t \in Txs : SettleAccepted(d, t) \/ SettleAnswerLost(d, t)
    \/ SettleRejected(d)

Receipt(d) == ReceiptConfirmed(d) \/ ReceiptMissing(d)

\* The steps of a driver that is running.
Drive(d) == \/ Read(d) \/ Claim(d) \/ Bill(d) \/ Settle(d) \/ Receipt(d)
            \/ Mark(d) \/ Deliver(d)

Next ==
    \/ \E i \in Intents : PassTtl(i) \/ PassDeadline(i) \/ GoStale(i)
    \/ BeginBlock \/ HandlerFails
    \/ \E i \in Intents : OpenWindow(i)
    \/ \E M \in SUBSET Intents : CommitBlock(M)
    \/ \E p \in 0 .. MaxBlock : Undo(p)
    \/ \E d \in Drivers, i \in Intents : Trigger(d, i) \/ Sweep(d, i)
    \/ \E d \in Drivers : Drive(d) \/ Abort(d)
    \/ Crash
    \/ \E t \in Txs : Mine(t) \/ Revert(t)

Spec == Init /\ [][Next]_vars
-----------------------------------------------------------------------------
(* Properties.                                                             *)

\* Every variable has its type.
TypeOK ==
    /\ row \in [Intents -> RowType]
    /\ window \in [Intents -> {"open", "expired", "void"}]
    /\ overran \subseteq Intents
    /\ cursor \in 0 .. MaxBlock /\ pos \in 0 .. MaxBlock
    /\ block \in 0 .. MaxBlock
    /\ seen \subseteq Intents /\ triggers \subseteq Intents
    /\ drv \in [Drivers -> DriverType]
    /\ tx \in [Txs -> TxType]
    /\ notices \subseteq NoticeType
    /\ failures \in 0 .. MaxFailures

\* Fail-closed delivery: a notice that carries data names a mined transaction
\* of the same intent, whatever raced, crashed or was retried on the way.
DataOnlyAfterReceipt ==
    \A n \in notices : n.txHash # NoTx =>
        tx[n.txHash].state = "mined" /\ tx[n.txHash].intent = n.intent

\* The settlement recorded in a row is the transfer the chain made: that
\* transaction, mined for that intent, for exactly the recorded amount; and a
\* row is SETTLED only with such a record.
RecordedChargeIsOnChain ==
    \A i \in Intents :
        /\ row[i].txHash # NoTx =>
             tx[row[i].txHash] = [state |-> "mined", intent |-> i,
                                  amount |-> row[i].charged]
        /\ row[i].status = "SETTLED" => row[i].txHash # NoTx

\* No voucher is charged above its ceiling, nor before the stream opened the
\* intent's window: the amount is at least one block and at most the quote.
ChargeWithinQuote ==
    \A t \in Txs : tx[t].state # "unsent" =>
        /\ Rate <= tx[t].amount /\ tx[t].amount <= Ceiling(Budget, Rate)
        /\ row[tx[t].intent].startBlockNum # NoBlock

\* SETTLE_FAILED is honest: the voucher of such an intent was never charged
\* and no later transaction can charge it.
FailedIsUncharged ==
    \A i \in Intents : row[i].status = "SETTLE_FAILED" =>
        \A t \in Txs : tx[t].state # "unsent" => tx[t].intent # i

\* The record of a settlement is never overwritten or erased by a driver
\* that comes later with another outcome.
RecordIsPermanent ==
    [][\A i \in Intents : row[i].txHash # NoTx =>
          row'[i].txHash = row[i].txHash /\ row'[i].charged = row[i].charged]_vars

\* No call that owned the claim of i took longer than STALE_SETTLING_MS.
InTime(i) == i \notin overran

\* The claim is exclusive: two drivers never work on one intent, unless one of
\* them was still at work when its claim went stale.
ClaimExclusive ==
    \A d, e \in Drivers :
        Working(d) /\ Working(e) /\ drv[d].job = drv[e].job /\ InTime(drv[d].job)
            => d = e

\* SETTLED, TIMEOUT and SETTLE_FAILED are terminal, although the writes of
\* markSettled and the others are unconditional.
TerminalIsFinal ==
    [][\A i \in Intents : row[i].status \in Terminal /\ InTime(i) =>
          row'[i].status = row[i].status]_vars

\* The agent never hears two different outcomes of one intent.
NoticesAgree ==
    \A m, n \in notices : m.intent = n.intent /\ InTime(m.intent) => m = n

\* A row that says nothing was charged is right about the chain.
UnchargedIsUncharged ==
    \A i \in Intents :
        row[i].status = "TIMEOUT" /\ row[i].txHash = NoTx => ~NonceUsed(i)

\* The table, the chain and the notices as the abstract voucher sees them.
OnChain(t) == [tx |-> t, intent |-> tx[t].intent, amount |-> tx[t].amount]
InBooks(i) == [tx |-> row[i].txHash, intent |-> i, amount |-> row[i].charged]
MinedTxs   == {t \in Txs : tx[t].state = "mined"}

Ledger == INSTANCE Voucher WITH
    MaxCharge <- Ceiling(Budget, Rate),
    opened  <- {i \in Intents : row[i].startBlockNum # NoBlock},
    charges <- {OnChain(t) : t \in MinedTxs},
    books   <- {InBooks(i) : i \in {j \in Intents : row[j].txHash # NoTx}},
    told    <- {OnChain(t) : t \in {u \in MinedTxs : \E n \in notices : n.txHash = u}}

\* The engine, with all that races and fails in it, implements the voucher:
\* one charge within the quote after the window opened, then its record, then
\* the data.
ImplementsVoucher == Ledger!Spec
-----------------------------------------------------------------------------
(* Liveness.  Time passes; every minute a sweep takes each candidate; a    *)
(* call of the database, the facilitator or the RPC node returns; a        *)
(* pending transaction is mined or reverts.  Failures are finitely many.   *)

\* After the deadline the facilitator does not answer "transient" for ever.
DeadlineRejected(d) ==
    SettleRejected(d) /\ drv'[d].verdict # "none"

Fairness ==
    /\ \A i \in Intents : WF_vars(PassTtl(i)) /\ WF_vars(PassDeadline(i))
                            /\ WF_vars(GoStale(i))
    /\ \A i \in Intents : WF_vars(\E d \in Drivers : Sweep(d, i))
    /\ \A d \in Drivers : WF_vars(Drive(d)) /\ SF_vars(DeadlineRejected(d))
    /\ \A t \in Txs : WF_vars(Mine(t) \/ Revert(t))

FairSpec == Spec /\ Fairness

\* An intent whose TTL is over does not stay MONITORING.
ExpiredIsDriven ==
    \A i \in Intents :
        (row[i].status = "MONITORING" /\ window[i] # "open")
            ~> (row[i].status # "MONITORING")

\* A claim is never abandoned: in the end the intent is terminal, or its
\* voucher has been charged.
ClaimResolved ==
    \A i \in Intents :
        (row[i].status = "SETTLING")
            ~> (row[i].status \in Terminal \/ NonceUsed(i))

=============================================================================
