------------------------------- MODULE Lookback -------------------------------
(***************************************************************************)
(* The oneshot endpoint over the data plane: a query is parsed, the cursor *)
(* row is read, then the capture rows of the window behind it.  Two reads, *)
(* no transaction: the stream commits, undoes and prunes between them.     *)
(*                                                                         *)
(* One request is in flight at a time: a request changes nothing that      *)
(* another one reads.  The middleware verifies the payment before the      *)
(* handler and settles it after a response below 400.                      *)
(***************************************************************************)
EXTENDS Stream, FiniteSets

CONSTANTS
    Asked,        \* the lookbacks a body may ask for
    AskedLimits,  \* the limits a body may ask for
    Absent,       \* no number in the body
    MaxLookback,  \* ONESHOT_LOOKBACK_BLOCKS_MAX
    MaxLimit,     \* MAX_RESULT_LIMIT
    DefaultLimit, \* the limit without a number, 100
    PerBlock      \* the transfers of the asked contract in a block that has any

ASSUME LookbackAssumption ==
    /\ {MaxLookback, MaxLimit, DefaultLimit, PerBlock} \subseteq Nat \ {0}
    /\ Asked \subseteq Int \cup {Absent} /\ AskedLimits \subseteq Int \cup {Absent}

\* The log indices of a block's transfers.  createMany captures them all, and the
\* prunes take them all: a row of the stream stands for all of its block's.
Logs == 1 .. PerBlock

VARIABLE request    \* where the request is, and what it read
lookVars == <<vars, request>>

NoRequest == [pc |-> "idle", lookback |-> 1, limit |-> 1, head |-> 0]

LookInit == Init /\ request = NoRequest

\* parseOneshotQuery: the numbers are clamped to what the server sells, never
\* rejected.
Clamped(n, default, max) ==
    IF n = Absent THEN default ELSE Min({max, Max({1, n})})

Ask ==
    /\ request.pc = "idle"
    /\ \E lookback \in Asked, limit \in AskedLimits :
          request' = [NoRequest EXCEPT
            !.pc = "head", !.lookback = Clamped(lookback, MaxLookback, MaxLookback),
            !.limit = Clamped(limit, DefaultLimit, MaxLimit)]
    /\ UNCHANGED vars

\* The first read of lookbackTransfers; without a cursor row the answer is 503,
\* which nobody pays for.
ReadHead ==
    /\ request.pc = "head"
    /\ request' = IF saved = NoRow THEN NoRequest
                  ELSE [request EXCEPT !.pc = "rows", !.head = saved.blockNum]
    /\ UNCHANGED vars

FromBlock == Max({0, request.head - request.lookback})

InWindow(r) == r.block >= FromBlock /\ r.block <= request.head

\* The transfers in the window, were the second read to happen now.
Window == {[row |-> r, log |-> l] : r \in {r \in captured : InWindow(r)}, l \in Logs}

\* Mutant: the order of the blocks is ascending too.
BeforeOldest(s, t) ==
    \/ s.row.block < t.row.block
    \/ s.row.block = t.row.block /\ s.log < t.log

\* The order of the query: blockNum descending, logIndex ascending.
Before(s, t) ==
    \/ s.row.block > t.row.block
    \/ s.row.block = t.row.block /\ s.log < t.log

\* The answers the second read may give: the first limit transfers of the window;
\* the order of those with the same block and log is the database's.
Answers ==
    {A \in SUBSET Window :
        /\ Cardinality(A) = Min({request.limit, Cardinality(Window)})
        /\ \A s \in Window \ A, a \in A : ~Before(s, a)}

Reply == request.pc = "rows" /\ request' = NoRequest /\ UNCHANGED vars

LookNext == Ask \/ ReadHead \/ Reply \/ (Next /\ UNCHANGED request)

LookSpec ==
    /\ LookInit /\ [][LookNext]_lookVars
    /\ Fairness
-----------------------------------------------------------------------------
(* Properties.                                                             *)

Replying == request.pc = "rows"

\* A paid answer leaves out a processed transfer of the window it names only when
\* its limit is used up by transfers of later blocks, or of the same block with
\* smaller log indices, whatever the stream commits between the two reads.  In the
\* block where the limit cuts, that drops the newest transfers, not the oldest.  It
\* rests on CursorCoversCapture and is lost with it.
AnswerIsComplete ==
    Replying /\ Without({"handler", "undo", "fatal", "fresh"}) /\ ~Torn =>
        \A A \in Answers, r \in delivered, l \in Logs :
            InWindow(r) /\ ~Stale(r) /\ r.block \notin Quiet /\ r.block > aged =>
                \/ [row |-> r, log |-> l] \in A
                \/ /\ Cardinality(A) = request.limit
                   /\ \A a \in A : \/ a.row.block > r.block
                                   \/ a.row.block = r.block /\ a.log <= l
===============================================================================
