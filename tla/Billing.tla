------------------------------- MODULE Billing -------------------------------
(***************************************************************************)
(* The arithmetic of the per-block price: what the 402 quotes, how many    *)
(* blocks an intent owes for, what the voucher is settled for, and when    *)
(* its window is over.  These are pure functions of the program            *)
(* (src/payments/pricing.ts, src/payments/settlementEngine.ts, src/db.ts); *)
(* every other module takes its amounts from here.                         *)
(*                                                                         *)
(* Block numbers are positive.  NoBlock stands for a null column, and also *)
(* for the block number 0 that an undo signal stores: the two are          *)
(* indistinguishable to every function below.                              *)
(***************************************************************************)
EXTENDS Integers

NoBlock == 0

AtMost(a, b)  == IF a <= b THEN a ELSE b
AtLeast(a, b) == IF a >= b THEN a ELSE b

\* a \div b rounded up, for b > 0.
CeilDiv(a, b) == (a + b - 1) \div b

\* The quote of a window: the requested seconds clamped to what the router
\* sells, the blocks that fit in them, and the ceiling of the voucher.
QuotedTtl(requested, minTtl, maxTtl) ==
    AtMost(maxTtl, AtLeast(minTtl, requested))

QuotedBudget(ttl, blockTime) == AtLeast(1, CeilDiv(ttl, blockTime))

Ceiling(budget, rate) == budget * rate

\* Mutants: a null start taken for block 0, and the last block left out.
BlocksFromZero(start, budget, cursor) ==
    AtLeast(0, AtMost(cursor - start + 1, budget))
BlocksExclusive(start, budget, cursor) ==
    IF start = NoBlock \/ cursor = NoBlock THEN 0
    ELSE AtLeast(0, AtMost(cursor - start, budget))

\* Blocks owed: from the block that opened the window to the cursor, both
\* included, never more than were quoted, none while either is unknown.
BlocksConsumed(start, budget, cursor) ==
    IF start = NoBlock \/ cursor = NoBlock
    THEN 0
    ELSE AtLeast(0, AtMost(cursor - start + 1, budget))

SettleAmount(blocks, rate) == AtLeast(0, blocks) * rate

\* The amount a driver asks the facilitator for.
AmountDue(start, budget, cursor, rate) ==
    SettleAmount(BlocksConsumed(start, budget, cursor), rate)

\* The block budget half of windowOver: the cursor has passed the last
\* quoted block.
BudgetSpent(start, budget, cursor) ==
    start # NoBlock /\ cursor # NoBlock /\ cursor >= start + budget

\* Mutant: the matcher stops one block late.
InBudgetLate(start, budget, block) ==
    start = NoBlock \/ block <= start + budget

\* The matcher's guard: a block at which this intent may still be metered.
InBudget(start, budget, block) ==
    start = NoBlock \/ block < start + budget
==============================================================================
