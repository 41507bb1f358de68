-------------------------------- MODULE Stream --------------------------------
(***************************************************************************)
(* The data plane: the manager's retry loop, the connection to the         *)
(* endpoint, the write chain, and what it leaves in the database.          *)
(*                                                                         *)
(* A connection delivers blocks in order; each is queued on the write      *)
(* chain of its attempt, and the cursor in memory moves at once.  A queued *)
(* block commits its matches, its capture rows and the cursor in one       *)
(* transaction; a block carries one match and one capture row, or is       *)
(* quiet.  A connection that closes drains its chain before the next       *)
(* attempt; one that ends in a fatal error does not, and its chain goes on *)
(* beside the new one.  So does the chain of a process that is shut down:  *)
(* its lease is released at once, and its successor starts beside it.      *)
(*                                                                         *)
(* A reorganisation gives the blocks above some point a new version.  A    *)
(* cursor is a block with its version, and so is a capture row.            *)
(***************************************************************************)
EXTENDS Integers, Sequences, FiniteSetsExt

CONSTANTS
    MaxBlock,    \* bound: the highest block of the chain
    Quiet,       \* the blocks without a match and without an allowlisted transfer
    HeadOffset,  \* -RESTART_HEAD_OFFSET
    MaxEmpty,    \* MAX_EMPTY_ATTEMPTS
    WipeAfter,   \* failed resumes before the cursor is wiped
    Faults,      \* the kinds of fault that can happen
    MaxFaults    \* bound: how many of them

ASSUME StreamAssumption ==
    /\ MaxBlock \in Nat \ {0} /\ HeadOffset \in Nat /\ Quiet \subseteq 1 .. MaxBlock
    /\ MaxEmpty \in Nat \ {0} /\ WipeAfter \in Nat \ {0}
    /\ Faults \subseteq {"handler", "reorg", "fatal", "crash", "handover"}
    /\ MaxFaults \in Nat

Blocks   == 1 .. MaxBlock
Versions == 0 .. MaxFaults
Cursors  == [block : Blocks, version : Versions]
NoCursor == [block |-> 0, version |-> 0]
Many     == 2   \* bound: a block metered twice or more
Chains   == {"current", "old"}

VARIABLES
    head,       \* the head of the endpoint's chain
    version,    \* the version of each of its blocks
    saved,      \* the cursor row: its cursor and its blockNum
    captured,   \* the capture rows
    aged,       \* the highest block whose capture passed the retention
    metered,    \* how often each block's match was counted
    delivered,  \* the blocks delivered so far
    pc,         \* "attempt", "up", "closing" or "gaveup"
    resuming,   \* the attempt started from a cursor
    last,       \* state.lastCursor
    some,       \* the attempt has delivered a block
    chain,      \* the write chain of the attempt, and of one left behind
    empty,      \* emptyAttempts
    onCursor,   \* failuresOnCursor
    happened,   \* what went wrong so far; "fresh": started again from the head
    faults      \* how many of Faults

dbVars   == <<saved, captured, aged, metered>>
loopVars == <<pc, resuming, last, some, empty, onCursor>>
vars     == <<head, version, dbVars, delivered, loopVars, chain, happened, faults>>

\* A queued task: a block, the cursor save of an undo, or the prune after it.
Task == [kind : {"block", "undo", "prune"}, cursor : Cursors]

Cursor(b) == [block |-> b, version |-> version[b]]

NoRow == [cursor |-> NoCursor, blockNum |-> 0]

Init ==
    /\ head \in Blocks
    /\ version = [b \in Blocks |-> 0]
    /\ saved = NoRow /\ captured = {} /\ aged = 0 /\ metered = [b \in Blocks |-> 0]
    /\ delivered = {}
    /\ pc = "attempt" /\ resuming = FALSE /\ last = NoCursor /\ some = FALSE
    /\ chain = [c \in Chains |-> <<>>]
    /\ empty = 0 /\ onCursor = 0
    /\ happened = {} /\ faults = 0

Fault(kind) == kind \in Faults /\ faults < MaxFaults /\ faults' = faults + 1
-----------------------------------------------------------------------------
(* The endpoint.                                                           *)

NewBlock ==
    /\ head < MaxBlock
    /\ head' = head + 1
    /\ UNCHANGED <<version, dbVars, delivered, loopVars, chain, happened, faults>>

\* The blocks above p are replaced.
Reorg(p) ==
    /\ p < head /\ Fault("reorg")
    /\ version' = [b \in Blocks |-> IF b > p THEN faults' ELSE version[b]]
    /\ UNCHANGED <<head, dbVars, delivered, loopVars, chain, happened>>

\* The block of the cursor was replaced since.
Stale(c) == c # NoCursor /\ c # Cursor(c.block)

\* The last block before a stale cursor that was not.
LastValid(c) == Max({b \in 1 .. c.block - 1 : version[b] <= c.version})

\* The block an attempt goes on with: after its cursor, or a little behind the
\* head.
NextBlock ==
    IF last = NoCursor THEN Max({1, head - HeadOffset}) ELSE last.block + 1

Enqueue(kind, c) ==
    chain' = [chain EXCEPT !["current"] = Append(@, [kind |-> kind, cursor |-> c])]

\* runStream connects.
Connect ==
    /\ pc = "attempt"
    /\ pc' = "up" /\ resuming' = (last # NoCursor) /\ some' = FALSE
    /\ UNCHANGED <<head, version, dbVars, delivered, last, chain, empty, onCursor,
                   happened, faults>>

\* anyMessage: the cursor in memory moves, the writes are queued.
Deliver ==
    /\ pc = "up" /\ ~Stale(last) /\ NextBlock <= head
    /\ last' = Cursor(NextBlock) /\ some' = TRUE
    /\ delivered' = delivered \cup {Cursor(NextBlock)}
    /\ Enqueue("block", Cursor(NextBlock))
    /\ UNCHANGED <<head, version, dbVars, pc, resuming, empty, onCursor, happened, faults>>

\* undo: the endpoint takes a stale cursor back to its last valid block.
UndoSignal ==
    /\ pc = "up" /\ Stale(last)
    /\ last' = Cursor(LastValid(last))
    /\ Enqueue("undo", Cursor(LastValid(last)))
    /\ happened' = happened \cup {"undo"}
    /\ UNCHANGED <<head, version, dbVars, delivered, pc, resuming, some, empty,
                   onCursor, faults>>
-----------------------------------------------------------------------------
(* The write chain.                                                        *)

Done(c) == chain' = [chain EXCEPT ![c] = Tail(@)]

MeterOnce(b) == metered' = [metered EXCEPT ![b] = Min({Many, @ + 1})]

\* Mutant: the cursor is saved and the rest is skipped.
CommitCursorOnly(c) ==
    /\ saved' = [cursor |-> Head(chain[c]).cursor, blockNum |-> Head(chain[c]).cursor.block]
    /\ UNCHANGED <<captured, metered>>

\* captureTransfers: the allowlisted transfers of a block.
Capture(t) == IF t.block \in Quiet THEN {} ELSE {t}

\* meterAndCommit, or saveCursor when the block has neither match nor capture.
CommitBlock(c) ==
    LET t == Head(chain[c]).cursor IN
    /\ saved' = [cursor |-> t, blockNum |-> t.block]
    /\ captured' = captured \cup Capture(t)
    /\ IF t.block \in Quiet THEN UNCHANGED metered ELSE MeterOnce(t.block)

\* Mutant: nothing is pruned.
PruneNothing == captured

\* pruneCapturesAboveBlock, with the block number of the cursor row as it is
\* now; nothing without a row.
Pruned == IF saved = NoRow THEN captured
          ELSE {r \in captured : r.block <= saved.blockNum}

\* saveCursor(lastValidCursor, 0); the prune is the next link of the chain.
RunTask(c) ==
    /\ chain[c] # <<>>
    /\ CASE Head(chain[c]).kind = "block" -> Done(c) /\ CommitBlock(c)
         [] Head(chain[c]).kind = "undo"  ->
              /\ chain' = [chain EXCEPT ![c][1].kind = "prune"]
              /\ saved' = [cursor |-> Head(chain[c]).cursor, blockNum |-> 0]
              /\ UNCHANGED <<captured, metered>>
         [] OTHER -> Done(c) /\ captured' = Pruned /\ UNCHANGED <<saved, metered>>
    /\ UNCHANGED <<head, version, aged, delivered, loopVars, happened, faults>>

\* A task throws: it is logged, and the chain goes on with the next one.
TaskFails(c) ==
    /\ chain[c] # <<>>
    /\ Fault("handler") /\ happened' = happened \cup {"handler"}
    /\ Done(c)
    /\ UNCHANGED <<head, version, dbVars, delivered, loopVars>>
-----------------------------------------------------------------------------
(* The end of an attempt.                                                  *)

\* close, or the stall watchdog stops the handle: no more blocks.
Close ==
    /\ pc = "up"
    /\ pc' = "closing"
    /\ UNCHANGED <<head, version, dbVars, delivered, resuming, last, some, chain,
                   empty, onCursor, happened, faults>>

\* The catch clause when emptyAttempts is n and what went wrong is kinds: it
\* counts the failure, wipes a cursor that keeps failing, and gives up or tries
\* again.
Caught(n, kinds) ==
    LET failed == IF resuming THEN onCursor + 1 ELSE onCursor
        wipe   == resuming /\ failed >= WipeAfter
    IN  /\ empty' = n + 1
        /\ onCursor' = IF wipe THEN 0 ELSE failed
        /\ saved' = IF wipe THEN NoRow ELSE saved
        /\ last' = IF wipe THEN NoCursor ELSE last
        /\ happened' = happened \cup kinds \cup (IF wipe THEN {"fresh"} ELSE {})
        /\ pc' = IF n + 1 >= MaxEmpty THEN "gaveup" ELSE "attempt"

\* Mutant: an attempt without blocks is not counted.
EmptyUncounted ==
    /\ pc' = "attempt" /\ UNCHANGED <<saved, last, empty, onCursor, happened>>

\* An attempt without blocks is counted, and the loop goes on; a mutant where
\* it is all that happens.
EmptyCounted ==
    /\ empty' = empty + 1 /\ pc' = "attempt"
    /\ UNCHANGED <<saved, last, onCursor, happened>>

\* One too many throws into the catch clause.
EmptyAttempt ==
    IF empty + 1 >= MaxEmpty THEN Caught(empty + 1, {}) ELSE EmptyCounted

\* Mutant: the loop does not wait for the chain.
DrainedNever == TRUE

\* close resolves once the chain is drained.
Drained == chain["current"] = <<>>

\* handle.done resolves; what the chain still held would go on beside the next
\* attempt.
AttemptEnds ==
    /\ pc = "closing" /\ Drained
    /\ IF some
       THEN /\ empty' = 0 /\ onCursor' = 0 /\ pc' = "attempt"
            /\ UNCHANGED <<saved, last, happened>>
       ELSE EmptyAttempt
    /\ chain' = [old |-> chain["old"] \o chain["current"], current |-> <<>>]
    /\ UNCHANGED <<head, version, captured, aged, metered, delivered, resuming, some,
                   faults>>

\* fatalError, or runStream itself throws: the chain is left behind.  Bound:
\* one chain is left behind at a time.
FatalError ==
    /\ pc = "up" /\ chain["old"] = <<>>
    /\ Fault("fatal") /\ Caught(empty, {"fatal"})
    /\ chain' = [old |-> chain["current"], current |-> <<>>]
    /\ UNCHANGED <<head, version, captured, aged, metered, delivered, resuming, some>>

\* Mutant: the cursor was saved as the block was delivered.
ResumedInMemory == last

\* getCursor, when a process starts.
Resumed == saved.cursor

\* The process dies and starts again from the saved cursor.
Restart ==
    /\ Fault("crash")
    /\ happened' = happened \cup {"crash"} \cup (IF saved = NoRow THEN {"fresh"} ELSE {})
    /\ chain' = [c \in Chains |-> <<>>]
    /\ pc' = "attempt" /\ resuming' = FALSE /\ some' = FALSE
    /\ last' = Resumed
    /\ empty' = 0 /\ onCursor' = 0
    /\ UNCHANGED <<head, version, dbVars, delivered>>

\* gracefulShutdown: the stream stops and the lease is released, whatever the
\* chain still holds.  Another process claims the lease and starts from the saved
\* cursor, while the first one still runs the first n of its tasks.  Bound: one
\* chain is left behind at a time.
Handover ==
    /\ chain["old"] = <<>> /\ Fault("handover")
    /\ happened' = happened \cup {"handover"} \cup (IF saved = NoRow THEN {"fresh"} ELSE {})
    /\ \E n \in 0 .. Len(chain["current"]) :
          chain' = [old |-> SubSeq(chain["current"], 1, n), current |-> <<>>]
    /\ pc' = "attempt" /\ resuming' = FALSE /\ some' = FALSE
    /\ last' = Resumed
    /\ empty' = 0 /\ onCursor' = 0
    /\ UNCHANGED <<head, version, dbVars, delivered>>
-----------------------------------------------------------------------------
(* The maintenance pass.                                                   *)

\* pruneProcessedTransfers: the rows captured longest ago go.
Retention ==
    /\ captured # {}
    /\ \E b \in {r.block : r \in captured} :
          /\ captured' = {r \in captured : r.block > b}
          /\ aged' = Max({aged, b})
    /\ UNCHANGED <<head, version, saved, metered, delivered, loopVars, chain,
                   happened, faults>>
-----------------------------------------------------------------------------
Next ==
    \/ NewBlock \/ Connect \/ Deliver \/ UndoSignal \/ Close
    \/ AttemptEnds \/ FatalError \/ Restart \/ Handover \/ Retention
    \/ \E p \in Blocks : Reorg(p)
    \/ \E c \in Chains : RunTask(c) \/ TaskFails(c)

Spec == Init /\ [][Next]_vars

\* The loop and the chains go on; the stall watchdog ends a silent attempt.
Fairness ==
    /\ WF_vars(Connect) /\ WF_vars(AttemptEnds)
    /\ WF_vars(Deliver \/ UndoSignal \/ Close)
    /\ \A c \in Chains : WF_vars(RunTask(c))

FairSpec == Spec /\ Fairness
-----------------------------------------------------------------------------
(* Properties.                                                             *)

\* Every variable has its type; emptyAttempts passes its limit by at most one.
TypeOK ==
    /\ head \in Blocks /\ version \in [Blocks -> Versions]
    /\ saved \in [cursor : Cursors \cup {NoCursor}, blockNum : 0 .. MaxBlock]
    /\ captured \subseteq delivered /\ delivered \subseteq Cursors
    /\ aged \in 0 .. MaxBlock
    /\ metered \in [Blocks -> 0 .. Many]
    /\ pc \in {"attempt", "up", "closing", "gaveup"}
    /\ resuming \in BOOLEAN /\ some \in BOOLEAN
    /\ last \in Cursors \cup {NoCursor}
    /\ DOMAIN chain = Chains /\ \A c \in Chains : chain[c] \in Seq(Task)
    /\ empty \in 0 .. MaxEmpty + 1 /\ onCursor \in 0 .. WipeAfter - 1
    /\ happened \subseteq {"handler", "undo", "fatal", "crash", "handover", "fresh"}
    /\ faults \in 0 .. MaxFaults

Without(kinds) == happened \cap kinds = {}

\* A process that was shut down may commit a replaced block over its successor's.
Torn == "handover" \in happened /\ \E b \in Blocks : version[b] > 0

\* What the lookback and the meter rest on: a delivered block at or below the
\* saved cursor is captured (until its retention is over) and metered, unless it
\* is quiet, across reconnects, crashes and a shutdown with blocks queued.  Lost
\* by a failed task, by an undo (which empties the capture table), while a chain
\* is left behind by a fatal error, by a start from the head, and by a shutdown
\* when a queued block is replaced.
CursorCoversCapture ==
    Without({"handler", "undo", "fatal", "fresh"}) /\ ~Torn =>
        \A r \in delivered :
            r.block <= saved.cursor.block /\ ~Stale(r) /\ r.block \notin Quiet
                => (r \in captured \/ r.block <= aged) /\ metered[r.block] > 0

\* A block is metered at most once, across reconnects and crashes.  An undo or
\* a start from the head replays blocks, and so does a crash after a chain was
\* left behind, which can save an older cursor; a process that is shut down and
\* its successor can both meter a block.
MeteredOnce ==
    Without({"undo", "fresh", "handover"}) /\ ~({"fatal", "crash"} \subseteq happened) =>
        \A b \in Blocks : metered[b] < Many

\* Once the chain is drained the lookback serves no row of a replaced block
\* the endpoint has taken back.  Lost by a crash between the cursor save of an
\* undo and its prune, by a failed prune and by a chain left behind.
NoStaleRowIsServed ==
    Drained /\ ~Stale(last)
            /\ Without({"handler", "fatal", "crash", "handover", "fresh"}) =>
        \A r \in captured : r.block <= saved.blockNum => ~Stale(r)

\* The manager catches up with the head, everything written, or gives up.
CatchesUp ==
    []<>(\/ pc = "gaveup"
         \/ /\ last.block = head /\ ~Stale(last)
            /\ \A c \in Chains : chain[c] = <<>>
            /\ Without({"handler", "fatal", "handover"}) => saved.cursor = last)

\* An undo takes away only capture rows above the cursor it goes back to, and the
\* retention only rows it has aged.
UndoKeepsHistory ==
    [][\A r \in captured \ captured' : r.block > saved.cursor.block
                                        \/ r.block <= aged']_vars
=============================================================================
