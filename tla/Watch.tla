--------------------------------- MODULE Watch ---------------------------------
(***************************************************************************)
(* One paid watch, from its first block to its last notice: what the       *)
(* stream's handler writes into the row while it is MONITORING, what the   *)
(* settlement charges for, and what the agent and the public report are    *)
(* then told.                                                              *)
(*                                                                         *)
(* Three parties write the row: the block handler, the settlement calls,   *)
(* and the annotations anyone may post.  The success call that a first     *)
(* match triggers runs inside the handler's write chain and holds up the   *)
(* next block, until a fatal error of the stream leaves that chain behind; *)
(* a sweep's call runs beside it.  Each await is a boundary between two    *)
(* actions.  How several calls of the engine race for a claim              *)
(* is the subject of Settlement: here a sweep starts a call only while no  *)
(* other call of the engine is at work, and an undo is left to Stream.     *)
(*                                                                         *)
(* A block is "early" before the intent's creation, "late" after its TTL,  *)
(* "in" between, and "none" when its clock has no timestamp.               *)
(***************************************************************************)
EXTENDS Billing, SequencesExt

CONSTANTS
    Contents,     \* the transfers a block may carry, in log order
    Selectors,    \* what an intent may watch
    Nothing,      \* an absent contract or wallet
    Budget,       \* blocks quoted
    Rate,         \* atomic units per block
    LastBlock,    \* bound: highest block the stream delivers
    Undated,      \* bound: blocks that may come without a timestamp
    MaxEvents,    \* MAX_PERSISTED_EVENTS
    MaxSteps,     \* MAX_LIFECYCLE_STEPS
    Attempts,     \* webhook attempts
    MaxUpsets     \* bound: crashes, failed database calls and annotations

ASSUME WatchAssumption ==
    /\ {Budget, Rate, MaxEvents, MaxSteps, Attempts, LastBlock} \subseteq Nat \ {0}
    /\ MaxUpsets \in Nat /\ Undated \subseteq 1 .. LastBlock

VARIABLES
    watch,      \* what the intent watches
    when,       \* the time of each block
    expired,    \* the TTL is over
    row,        \* the intent's row
    voucher,    \* "open", or "spent" by a transfer on the chain
    cursor,     \* blockNum of the stream cursor row
    pos,        \* the last block delivered
    handler,    \* the running block handler
    drv,        \* the settlement call of the trigger, and that of a sweep
    copy,       \* the log each appendLifecycle read and has not written yet
    notices,    \* the notices that reached the agent
    upsets,     \* crashes, failed calls and annotations so far
    metered,    \* history: every event ever counted
    steps,      \* history: every log entry ever written
    overlapped, \* history: two appendLifecycle calls ran at the same time
    skipped,    \* history: blocks whose handler failed
    committed   \* history: blocks whose handler committed

dbVars   == <<row, cursor>>
histVars == <<metered, steps, overlapped, skipped, committed>>
vars == <<watch, when, expired, voucher, dbVars, pos, handler, drv, copy, notices,
          upsets, histVars>>

Blocks  == 1 .. LastBlock
Calls   == {"trigger", "sweep"}
Writers == Calls \cup {"handler", "agent"}
NoCopy  == <<"none">>

\* A call of the engine: what it read of the row, what it asked for, what it was
\* told, the webhook attempts made, whether the stream left its write chain
\* behind (only the trigger's can be); as history, the last block begun at its
\* read (seen) and at its bill (begun, busy if still under way), and the cursor
\* it billed up to.
Idle == [pc |-> "idle", path |-> "success", status |-> "MONITORING",
         start |-> NoBlock, count |-> 0, amount |-> 0, verdict |-> "none",
         tries |-> 0, notice |-> <<>>, left |-> FALSE,
         seen |-> NoBlock, upto |-> NoBlock, begun |-> NoBlock, busy |-> FALSE]

Resting == [pc |-> "idle", start |-> NoBlock, found |-> <<>>]

\* A verified intent, and blocks whose times go from early to late; one of
\* them may have no timestamp.
Init ==
    /\ watch \in Selectors
    /\ \E opens \in Blocks, closes \in Blocks, blind \in Undated \cup {NoBlock} :
          when = [b \in Blocks |-> IF b = blind THEN "none" ELSE IF b < opens THEN "early"
                                   ELSE IF b > closes THEN "late" ELSE "in"]
    /\ expired = FALSE /\ voucher = "open"
    /\ row = [status |-> "MONITORING", start |-> NoBlock, count |-> 0,
              stored |-> <<>>, log |-> <<>>, amount |-> 0, paid |-> FALSE]
    /\ cursor = NoBlock /\ pos = NoBlock
    /\ handler = Resting /\ drv = [c \in Calls |-> Idle]
    /\ copy = [w \in Writers |-> NoCopy]
    /\ notices = {} /\ upsets = 0
    /\ metered = <<>> /\ steps = <<>> /\ overlapped = FALSE
    /\ skipped = {} /\ committed = {}

Upset == upsets < MaxUpsets /\ upsets' = upsets + 1
-----------------------------------------------------------------------------
(* appendLifecycle: the log is read, and written back with one entry more. *)

ReadLog(w) ==
    /\ copy[w] = NoCopy
    /\ copy' = [copy EXCEPT ![w] = row.log]
    /\ overlapped' = (overlapped \/ \E v \in Writers \ {w} : copy[v] # NoCopy)
    /\ UNCHANGED <<row, steps>>

\* Mutant: the first entries are kept, the new ones dropped.
CappedFirst(log) == SubSeq(log, 1, AtMost(Len(log), MaxSteps))

\* slice(-MAX_LIFECYCLE_STEPS)
Capped(log) == SubSeq(log, AtLeast(1, Len(log) - MaxSteps + 1), Len(log))

WriteLog(w, entry) ==
    /\ copy[w] # NoCopy
    /\ row' = [row EXCEPT !.log = Capped(Append(copy[w], entry))]
    /\ copy' = [copy EXCEPT ![w] = NoCopy]
    /\ steps' = Append(steps, entry)
    /\ UNCHANGED overlapped
-----------------------------------------------------------------------------
(* The block handler.                                                      *)

\* matchesIntent: the time guards, open when the block has no time, and the
\* selectors.
InTime(b) == when[b] \in {"in", "none"}

Touches(t) ==
    CASE watch.direction = "incoming" -> t.to = watch.wallet
      [] watch.direction = "outgoing" -> t.from = watch.wallet
      [] OTHER -> watch.wallet \in {t.to, t.from}

Selects(t) ==
    /\ watch.contract # Nothing => t.contract = watch.contract
    /\ watch.wallet # Nothing => Touches(t)
    /\ watch.contract # Nothing \/ watch.wallet # Nothing
    /\ t.value >= watch.minAmount

\* Mutant: a claimed intent is still matched.
WatchedSettling == row.status \in {"MONITORING", "SETTLING"}

\* getMonitoringIntents.
Watched == row.status = "MONITORING"

\* The next block is delivered: the handler reads the monitoring intents.  It
\* waits for the success call of the block before, if that is in its chain.
BeginBlock ==
    /\ handler.pc = "idle"
    /\ drv["trigger"].pc = "idle" \/ drv["trigger"].left
    /\ pos < LastBlock
    /\ when[pos + 1] = "late" => expired
    /\ pos' = pos + 1
    /\ handler' = [Resting EXCEPT !.pc = IF Watched THEN "open" ELSE "commit",
                                  !.start = row.start]
    /\ UNCHANGED <<watch, when, expired, voucher, dbVars, drv, copy, notices,
                   upsets, histVars>>

\* Mutant: any block with a time opens the window.
OpensEarly == handler.start = NoBlock /\ when[pos] # "none"

\* The window opens at the first block that is not early.
Opens == handler.start = NoBlock /\ when[pos] \in {"in", "late"}

\* setStartBlockNum, and its log entry when it was the first.
OpenWindow ==
    /\ handler.pc = "open" /\ Opens
    /\ IF row.start = NoBlock
       THEN row' = [row EXCEPT !.start = pos] /\ handler' = [handler EXCEPT !.pc = "log"]
       ELSE handler' = [handler EXCEPT !.pc = "match"] /\ UNCHANGED row
    /\ UNCHANGED <<watch, when, expired, voucher, cursor, pos, drv, copy, notices,
                   upsets, histVars>>

LogOpened ==
    /\ handler.pc = "log"
    /\ \/ ReadLog("handler") /\ UNCHANGED handler
       \/ /\ WriteLog("handler", "window_opened")
          /\ handler' = [handler EXCEPT !.pc = "match"]
    /\ UNCHANGED <<watch, when, expired, voucher, cursor, pos, drv, notices,
                   upsets, metered, skipped, committed>>

\* matchTransfers, with the start block read before the window opened.
Match(content) ==
    /\ handler.pc = "match" \/ (handler.pc = "open" /\ ~Opens)
    /\ handler' = [handler EXCEPT
         !.pc = "commit",
         !.found = IF InTime(pos) /\ InBudget(handler.start, Budget, pos)
                   THEN SelectSeq(content, Selects) ELSE <<>>]
    /\ UNCHANGED <<watch, when, expired, voucher, dbVars, pos, drv, copy, notices,
                   upsets, histVars>>

Found == [k \in 1 .. Len(handler.found) |->
            [block |-> pos, transfer |-> handler.found[k]]]

\* Mutant: room is made for the newest events.
MergedLast(stored, fresh) ==
    LET all == stored \o fresh
    IN  SubSeq(all, AtLeast(1, Len(all) - MaxEvents + 1), Len(all))

\* Once MAX_PERSISTED_EVENTS are stored, later ones are only counted.
Merged(stored, fresh) ==
    LET all == stored \o fresh IN SubSeq(all, 1, AtMost(Len(all), MaxEvents))

\* Mutant: every block with a match triggers, not only the first.
TriggersAlways == Found # <<>>

\* The block that takes the counter from zero.
Triggers == Found # <<>> /\ row.count = 0

\* meterAndCommit, or saveCursor when nothing was found.  The trigger follows
\* the commit in the same link of the write chain.
CommitBlock ==
    /\ handler.pc = "commit"
    /\ row' = [row EXCEPT !.count = @ + Len(Found), !.stored = Merged(@, Found)]
    /\ cursor' = pos
    /\ metered' = metered \o Found
    /\ handler' = Resting
    /\ drv' = IF Triggers
              THEN [drv EXCEPT !["trigger"] = [Idle EXCEPT !.pc = "read"]]
              ELSE drv
    /\ committed' = committed \cup {pos}
    /\ UNCHANGED <<watch, when, expired, voucher, pos, copy, notices, upsets,
                   steps, overlapped, skipped>>

Working == handler.pc \notin {"idle", "starting"}

\* A database call of the handler throws: the block is logged and skipped.
HandlerFails ==
    /\ Working /\ Upset
    /\ handler' = Resting /\ copy' = [copy EXCEPT !["handler"] = NoCopy]
    /\ skipped' = skipped \cup {pos}
    /\ UNCHANGED <<watch, when, expired, voucher, dbVars, pos, drv, notices,
                   metered, steps, overlapped, committed>>

\* A fatal error ends the stream, and the next attempt goes on from the last
\* cursor delivered with a write chain of its own, while the trigger's call
\* runs on.  Bound: the call is the last link of the chain left behind; block
\* handlers left behind beside new ones are Stream's.
FatalError ==
    /\ handler.pc = "idle" /\ pos < LastBlock /\ Upset
    /\ drv["trigger"].pc # "idle" /\ ~drv["trigger"].left
    /\ drv' = [drv EXCEPT !["trigger"].left = TRUE]
    /\ UNCHANGED <<watch, when, expired, voucher, dbVars, pos, handler, copy,
                   notices, histVars>>
-----------------------------------------------------------------------------
(* A call of the settlement engine, one action per await.                  *)

Busy == \E d \in Calls : drv[d].pc # "idle"

\* windowOver: the TTL or the block budget ran out.
WindowOver == expired \/ BudgetSpent(row.start, Budget, cursor)

\* getSettlementCandidates, for a claim old enough to be driven again.
Owed == row.status \in {"MONITORING", "SETTLING"} /\ (WindowOver \/ row.count > 0)

\* runSettlementSweep dispatches the row it read.
Sweep ==
    /\ ~Busy /\ Owed
    /\ drv' = [drv EXCEPT !["sweep"] =
                 [Idle EXCEPT !.pc = "read",
                              !.path = IF WindowOver THEN "timeout" ELSE "success"]]
    /\ UNCHANGED <<watch, when, expired, voucher, dbVars, pos, handler, copy,
                   notices, upsets, histVars>>

\* Only the call d changes, to the record call.
Becomes(d, call) == drv' = [drv EXCEPT ![d] = call]

\* getIntent
Read(d) ==
    /\ drv[d].pc = "read"
    /\ Becomes(d, IF row.status \in {"MONITORING", "SETTLING"}
                  THEN [drv[d] EXCEPT !.pc = "claim", !.status = row.status,
                          !.start = row.start, !.count = row.count, !.seen = pos]
                  ELSE Idle)
    /\ UNCHANGED <<watch, when, expired, voucher, dbVars, pos, handler, copy,
                   notices, upsets, histVars>>

\* acquireToSettle: a fresh claim, or one that went stale while nobody drove it.
Claimable(d) ==
    \/ drv[d].status = "MONITORING" /\ row.status = "MONITORING"
    \/ drv[d].status = "SETTLING" /\ row.status = "SETTLING"
          /\ \A c \in Calls \ {d} : drv[c].pc = "idle"

Claim(d) ==
    /\ drv[d].pc = "claim"
    /\ \/ /\ Claimable(d)
          /\ row' = [row EXCEPT !.status = "SETTLING"]
          /\ Becomes(d, [drv[d] EXCEPT !.pc = "bill"])
       \/ /\ Claimable(d) => drv[d].status = "SETTLING"   \* not stale yet
          /\ Becomes(d, Idle) /\ UNCHANGED row
    /\ UNCHANGED <<watch, when, expired, voucher, cursor, pos, handler, copy,
                   notices, upsets, histVars>>

\* The cursor is read and the amount fixed.  Only the timeout path asks whether
\* anything is due.
Bill(d) ==
    LET due == AmountDue(drv[d].start, Budget, cursor, Rate)
    IN  /\ drv[d].pc = "bill"
        /\ Becomes(d, [drv[d] EXCEPT
              !.pc      = IF drv[d].path = "timeout" /\ due = 0 THEN "mark" ELSE "settle",
              !.verdict = IF drv[d].path = "timeout" /\ due = 0 THEN "free" ELSE "none",
              !.amount  = due, !.upto = cursor,
              !.begun   = pos, !.busy = Working])
        /\ UNCHANGED <<watch, when, expired, voucher, dbVars, pos, handler, copy,
                       notices, upsets, histVars>>

\* settleVoucher and receiptConfirmed.  "left" is every answer after which the
\* row stays SETTLING: a transient rejection, a consumed nonce, no receipt.
Answers ==
    {"left"} \cup (IF expired THEN {"void"} ELSE {})
             \cup (IF voucher = "open" THEN {"paid", "failed"} ELSE {})

Settle(d) ==
    /\ drv[d].pc = "settle"
    /\ \E answer \in Answers :
          /\ Becomes(d, IF answer = "left" THEN Idle
                        ELSE [drv[d] EXCEPT !.pc = "mark", !.verdict = answer])
          /\ \/ voucher' = IF answer = "paid" THEN "spent" ELSE voucher
             \/ answer = "left" /\ voucher' = "spent"      \* the answer is lost
    /\ UNCHANGED <<watch, when, expired, dbVars, pos, handler, copy, notices,
                   upsets, histVars>>

\* What the webhook tells the agent of the row that the mark returned.
Notice(d, r) ==
    [verdict |-> drv[d].verdict, amount |-> drv[d].amount,
     matched |-> CASE drv[d].verdict = "paid" -> r.count
                   [] drv[d].verdict = "void" -> drv[d].count [] OTHER -> 0,
     events  |-> IF drv[d].verdict = "paid" THEN r.stored ELSE <<>>,
     truncated |-> drv[d].verdict = "paid" /\ r.count > Len(r.stored),
     by |-> d, start |-> drv[d].start, seen |-> drv[d].seen, upto |-> drv[d].upto,
     begun |-> drv[d].begun, busy |-> drv[d].busy, left |-> drv[d].left]

\* markSettled, markTimeout, markSettleFailed: the row, before its log.
Mark(d) ==
    /\ drv[d].pc = "mark"
    /\ row' = IF drv[d].verdict = "paid"
              THEN [row EXCEPT !.amount = drv[d].amount, !.paid = TRUE,
                      !.status = IF drv[d].path = "success" THEN "SETTLED" ELSE "TIMEOUT"]
              ELSE [row EXCEPT !.status = IF drv[d].verdict = "failed"
                                          THEN "SETTLE_FAILED" ELSE "TIMEOUT"]
    /\ Becomes(d, [drv[d] EXCEPT !.pc = "log", !.notice = Notice(d, row)])
    /\ UNCHANGED <<watch, when, expired, voucher, cursor, pos, handler, copy,
                   notices, upsets, histVars>>

\* buildReport: what the public page shows of the row's charge and matches.
Report ==
    [settled |-> row.paid, amount |-> row.amount, count |-> row.count,
     events |-> row.stored, truncated |-> row.count > Len(row.stored)]

Outcome(d) == CASE drv[d].verdict = "failed" -> "settle_failed"
                [] drv[d].verdict = "paid" /\ drv[d].path = "success" -> "settled"
                [] OTHER -> "expired"

LogMark(d) ==
    /\ drv[d].pc = "log"
    /\ \/ ReadLog(d) /\ UNCHANGED drv
       \/ /\ WriteLog(d, Outcome(d))
          /\ Becomes(d, IF drv[d].verdict = "failed" THEN Idle
                        ELSE [drv[d] EXCEPT !.pc = "deliver", !.tries = 1])
    /\ UNCHANGED <<watch, when, expired, voucher, cursor, pos, handler, notices,
                   upsets, metered, skipped, committed>>

\* One attempt of deliverWebhook.  Any response ends the attempts, whatever its
\* status; a request that fails may still have reached the agent.
Deliver(d) ==
    /\ drv[d].pc = "deliver"
    /\ \/ /\ notices' = notices \cup {drv[d].notice}
          /\ Becomes(d, [drv[d] EXCEPT !.pc = "delivered"])
       \/ /\ notices' \in {notices, notices \cup {drv[d].notice}}
          /\ Becomes(d, IF drv[d].tries < Attempts
                        THEN [drv[d] EXCEPT !.tries = @ + 1]
                        ELSE [drv[d] EXCEPT !.pc = "unreached"])
    /\ UNCHANGED <<watch, when, expired, voucher, dbVars, pos, handler, copy,
                   upsets, histVars>>

LogDelivery(d) ==
    /\ drv[d].pc \in {"delivered", "unreached"}
    /\ \/ ReadLog(d) /\ UNCHANGED drv
       \/ WriteLog(d, "delivered") /\ Becomes(d, Idle)
    /\ UNCHANGED <<watch, when, expired, voucher, cursor, pos, handler, notices,
                   upsets, metered, skipped, committed>>

\* A database call throws and ends the call; but the log entry of a delivery is
\* written inside the retry loop, and its failure sends the notice again.
CallFails(d) ==
    /\ drv[d].pc \notin {"idle", "settle", "deliver"} /\ Upset
    /\ copy' = [copy EXCEPT ![d] = NoCopy]
    /\ Becomes(d, IF drv[d].pc # "delivered" THEN Idle
                  ELSE IF drv[d].tries < Attempts
                  THEN [drv[d] EXCEPT !.pc = "deliver", !.tries = @ + 1]
                  ELSE [drv[d] EXCEPT !.pc = "unreached"])
    /\ handler' = IF handler.pc = "starting" THEN Resting ELSE handler
    /\ UNCHANGED <<watch, when, expired, voucher, dbVars, pos, notices, histVars>>
-----------------------------------------------------------------------------
(* Everybody else.                                                         *)

\* POST /intents/:id/annotate, by anyone, at any time.
Annotate ==
    /\ \/ Upset /\ ReadLog("agent")
       \/ WriteLog("agent", "agent") /\ UNCHANGED upsets
    /\ UNCHANGED <<watch, when, expired, voucher, cursor, pos, handler, drv,
                   notices, metered, skipped, committed>>

Expire ==
    /\ ~expired /\ expired' = TRUE
    /\ UNCHANGED <<watch, when, voucher, dbVars, pos, handler, drv, copy, notices,
                   upsets, histVars>>

\* Mutant: the cursor was saved as the block was delivered.
ResumedInMemory == pos

\* getSavedCursor, when a process starts.
Resumed == cursor

\* The process stops.  The next one sweeps before it streams from the cursor.
Crash ==
    /\ Upset
    /\ handler' = [Resting EXCEPT !.pc = "starting"]
    /\ drv' = [d \in Calls |-> Idle] /\ copy' = [w \in Writers |-> NoCopy]
    /\ pos' = Resumed
    /\ UNCHANGED <<watch, when, expired, voucher, dbVars, notices, histVars>>

StartStream ==
    /\ handler.pc = "starting" /\ ~Busy
    /\ ~(row.status = "MONITORING" /\ Owed)
    /\ handler' = Resting
    /\ UNCHANGED <<watch, when, expired, voucher, dbVars, pos, drv, copy, notices,
                   upsets, histVars>>
-----------------------------------------------------------------------------
Block == BeginBlock \/ OpenWindow \/ LogOpened \/ CommitBlock
           \/ \E content \in Contents : Match(content)

Call(d) == Read(d) \/ Claim(d) \/ Bill(d) \/ Settle(d) \/ Mark(d) \/ LogMark(d)
             \/ Deliver(d) \/ LogDelivery(d)

Next ==
    \/ Block \/ Sweep \/ \E d \in Calls : Call(d)
    \/ HandlerFails \/ FatalError \/ \E d \in Calls : CallFails(d)
    \/ Annotate \/ Expire \/ Crash \/ StartStream

Spec == Init /\ [][Next]_vars
-----------------------------------------------------------------------------
(* Properties.                                                             *)

\* Whatever blocks are replayed, skipped or metered late, the counter counts
\* every event once and the row holds the first of them, so that "truncated"
\* in a notice and in the report is honest (db.ts meterAndCommit).
StoredAreTheFirst ==
    /\ row.count = Len(metered)
    /\ row.stored = SubSeq(metered, 1, AtMost(Len(metered), MaxEvents))

\* No event is metered from a block outside the intent's time or past its quoted
\* blocks, and none from a dated block before the one that opened the window,
\* unless that block was skipped by a failed handler and came again.
MeteredIsInPaidWindow ==
    \A k \in 1 .. Len(metered) :
      LET block == metered[k].block
      IN  /\ InTime(block)
          /\ row.start # NoBlock => block < row.start + Budget
          /\ when[block] = "in" =>
                row.start # NoBlock /\ (block >= row.start \/ block \in skipped)

\* The agent is never given, in a paid notice, an event of a dated block that its
\* charge does not reach, but for the block under way when the call read the
\* cursor, and the blocks of a window that opened after the call read the row.
DeliveredIsPaid ==
    \A n \in notices : \A k \in 1 .. Len(n.events) :
      LET block == n.events[k].block
      IN  \/ when[block] = "none"
          \/ n.amount >= Rate * (block - row.start + 1)
          \/ n.busy /\ block = n.begun
          \/ n.start = NoBlock /\ row.start >= n.seen

\* A watch whose first match triggered its settlement is billed through the block
\* of that match exactly, unless a fatal error left the write chain of the trigger
\* behind before it was done (substreamsManager.ts: only the block that took the
\* counter from zero triggers, and the next block of its chain waits for the call;
\* after a fatal error the next attempt's blocks do not).
FirstMatchIsBilledThrough ==
    \A n \in notices : n.by = "trigger" /\ ~n.left => n.upto = metered[1].block

\* A paid notice charges for exactly the blocks from the start block to the
\* cursor at which the matcher's budget guard lets the intent be metered, and
\* for none as long as the window is unopened.
ChargeIsMetered ==
    \A n \in notices : n.verdict = "paid" =>
      n.amount = Rate * Cardinality({b \in n.start .. n.upto :
                          n.start # NoBlock /\ InBudget(n.start, Budget, b)})

\* A watch is let off free only when no block of its window had been committed
\* when the call read the row and the cursor.
FreeOnlyIfUnprocessed ==
    \A n \in notices : n.verdict = "free" =>
      \/ row.start = NoBlock
      \/ row.start >= n.seen
      \/ n.upto < row.start

Latest(log) == SubSeq(log, AtLeast(1, Len(log) + 1 - MaxSteps), Len(log))

\* As long as no two appendLifecycle calls overlap, the log is the last
\* MAX_LIFECYCLE_STEPS of the steps taken.
LogOfOneWriter == ~overlapped => row.log = Latest(steps)

\* What a paid notice told the agent, the public report keeps confirming: the
\* charge, at least as many matches, and the same events first (report.ts
\* buildReport), whatever is committed or posted after it.
ReportConfirmsNotice ==
    \A n \in notices : n.verdict = "paid" =>
      /\ Report.settled /\ Report.amount = n.amount
      /\ Report.count >= n.matched /\ IsPrefix(n.events, Report.events)
      /\ n.truncated => Report.truncated

BilledBlocks == row.start .. cursor

\* No block is billed that the stream did not take up: of the blocks from the
\* start block to the cursor each was committed, or lost by a handler that failed,
\* whatever was replayed after a crash; and the first is not from before the intent,
\* so that during a catch-up pre-creation blocks are never billed.  (It may be late:
\* nothing keeps a window from opening after the TTL.)  That lost blocks are billed
\* is not what pricing.ts says, which is that the blocks actually processed are
\* settled and exactly those; the cursor moves past a lost block, and the bill with it.
ChargedIsProcessedOrLost ==
    row.paid /\ row.amount > 0 =>
      /\ when[row.start] \in {"in", "late"}
      /\ row.amount <= Rate * (Cardinality(BilledBlocks \cap committed)
                                + Cardinality(BilledBlocks \cap (skipped \ committed)))
=============================================================================
