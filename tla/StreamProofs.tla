---------------------------- MODULE StreamProofs ----------------------------
(***************************************************************************)
(* Proofs about the data plane.                                            *)
(***************************************************************************)
EXTENDS Stream, FiniteSetTheorems, SequenceTheorems, TLAPS

USE StreamAssumption DEF NoCursor, Many

\* The cursors the endpoint may have handed out.
Issued == {c \in Cursors : c.version <= version[c.block]}

\* TypeOK, and why the last valid block of a stale cursor exists: the first block
\* is never replaced, and no cursor is newer than its block.
TypeInv ==
    /\ TypeOK
    /\ version[1] = 0 /\ \A b \in Blocks : version[b] <= faults
    /\ delivered \subseteq Issued
    /\ last \in Issued \cup {NoCursor} /\ saved.cursor \in Issued \cup {NoCursor}
    /\ \A c \in Chains : \A i \in 1 .. Len(chain[c]) :
          /\ chain[c][i].cursor \in Issued
          /\ chain[c][i].kind = "block" => chain[c][i].cursor \in delivered
    /\ pc # "gaveup" => empty < MaxEmpty
-----------------------------------------------------------------------------
(* What the operators compute.                                             *)

\* A set of numbers with an upper bound has a maximum.
LEMMA MaxOfBounded ==
  ASSUME NEW n \in Nat, NEW S, S \subseteq 0 .. n, S # {}
  PROVE  Max(S) \in S /\ \A x \in S : x <= Max(S)
<1> DEFINE T == {n - x : x \in S}
<1>1. T \subseteq Nat /\ T # {}
  <2>1. \A x \in S : n - x \in Nat OBVIOUS
  <2>2. PICK x \in S : TRUE OBVIOUS
  <2>3. n - x \in T BY <2>2
  <2> QED BY <2>1, <2>3
<1>2. PICK m \in T : \A y \in T : ~(<<y, m>> \in OpToRel(<, Nat))
    BY <1>1, NatLessThanWellFounded, WFMin
<1>3. PICK x \in S : m = n - x BY <1>2
<1>4. \A y \in S : x >= y
  <2> TAKE y \in S
  <2>1. n - y \in T /\ n - y \in Nat /\ m \in Nat BY <1>1
  <2>2. ~(n - y < m) BY <1>2, <2>1 DEF OpToRel
  <2> QED BY <2>2, <1>3
<1>5. \E z \in S : \A y \in S : z >= y BY <1>4
<1>6. Max(S) \in S /\ \A y \in S : Max(S) >= y BY <1>5 DEF Max
<1> QED BY <1>6

\* Of two numbers.
LEMMA MaxOfTwo ==
  ASSUME NEW a \in Int, NEW b \in Int
  PROVE  Max({a, b}) = IF a >= b THEN a ELSE b
<1>1. \E z \in {a, b} : \A y \in {a, b} : z >= y OBVIOUS
<1>2. Max({a, b}) \in {a, b} /\ \A y \in {a, b} : Max({a, b}) >= y
    BY <1>1 DEF Max
<1> QED BY <1>2

\* The smaller of two numbers.
LEMMA MinOfTwo ==
  ASSUME NEW a \in Int, NEW b \in Int
  PROVE  Min({a, b}) = IF a <= b THEN a ELSE b
<1>1. \E z \in {a, b} : \A y \in {a, b} : z <= y OBVIOUS
<1>2. Min({a, b}) \in {a, b} /\ \A y \in {a, b} : Min({a, b}) <= y
    BY <1>1 DEF Min
<1> QED BY <1>2

\* The last valid block of a stale cursor exists, and lies before it.
LEMMA LastValidExists ==
  ASSUME TypeInv, last # NoCursor, Stale(last)
  PROVE  /\ last \in Issued
         /\ LastValid(last) \in Blocks /\ LastValid(last) < last.block
         /\ Cursor(LastValid(last)) \in Issued
<1>0. last \in Issued /\ version \in [Blocks -> Versions] BY DEF TypeInv, TypeOK
<1> DEFINE S == {b \in 1 .. last.block - 1 : version[b] <= last.version}
<1>1. last.block \in Blocks /\ last.version \in Versions
        /\ last.version <= version[last.block]
    BY <1>0 DEF Issued, Cursors
<1>2. last = [block |-> last.block, version |-> last.version]
    BY <1>0 DEF Issued, Cursors
<1>3. last.block # 1
  <2> SUFFICES ASSUME last.block = 1 PROVE FALSE OBVIOUS
  <2>1. last.version = 0 /\ version[last.block] = 0
      BY <1>1 DEF TypeInv, Versions
  <2> QED BY <1>2, <2>1 DEF Stale, Cursor
<1>4. 1 \in S BY <1>1, <1>3 DEF TypeInv, Versions, Blocks
<1>5. S \subseteq 0 .. MaxBlock BY <1>1 DEF Blocks
<1>6. LastValid(last) \in S BY <1>4, <1>5, MaxOfBounded DEF LastValid
<1>7. LastValid(last) \in Blocks /\ LastValid(last) < last.block
    BY <1>6, <1>1 DEF Blocks
<1>8. Cursor(LastValid(last)) \in Issued
    BY <1>7, <1>0 DEF Issued, Cursors, Cursor, Versions
<1> QED BY <1>0, <1>7, <1>8

\* A delivery goes forward.
LEMMA NextBlockIsNew ==
  ASSUME TypeInv, NextBlock <= head
  PROVE  /\ NextBlock \in Blocks /\ NextBlock > last.block
         /\ last # NoCursor => NextBlock = last.block + 1
         /\ Cursor(NextBlock) \in Issued
         /\ last.block \in 0 .. MaxBlock
<1>1. head \in Blocks /\ version \in [Blocks -> Versions] /\ last \in Issued \cup {NoCursor}
    BY DEF TypeInv, TypeOK
<1>2. last # NoCursor => last.block \in Blocks BY <1>1 DEF Issued, Cursors
<1>3. last = NoCursor => last.block = 0 OBVIOUS
<1>4. head - HeadOffset \in Int BY <1>1 DEF Blocks
<1>5. Max({1, head - HeadOffset}) \in Int /\ Max({1, head - HeadOffset}) >= 1
    BY <1>4, MaxOfTwo
<1>6. NextBlock \in Blocks /\ NextBlock > last.block
    BY <1>1, <1>2, <1>3, <1>5 DEF NextBlock, Blocks
<1>7. last # NoCursor => NextBlock = last.block + 1 BY DEF NextBlock
<1>8. Cursor(NextBlock) \in Issued
    BY <1>6, <1>1 DEF Issued, Cursors, Cursor, Versions
<1> QED BY <1>2, <1>3, <1>6, <1>7, <1>8 DEF Blocks

\* A task leaves its chain.
LEMMA DoneFacts ==
  ASSUME TypeInv, NEW c \in Chains, chain[c] # <<>>, Done(c)
  PROVE  /\ DOMAIN chain' = Chains /\ chain'[c] \in Seq(Task)
         /\ Len(chain[c]) \in Nat /\ Len(chain[c]) >= 1
         /\ Head(chain[c]) = chain[c][1]
         /\ Len(chain'[c]) = Len(chain[c]) - 1
         /\ \A i \in 1 .. Len(chain'[c]) : chain'[c][i] = chain[c][i + 1]
         /\ \A d \in Chains : d # c => chain'[d] = chain[d]
<1>1. DOMAIN chain = Chains /\ chain[c] \in Seq(Task) BY DEF TypeInv, TypeOK
<1>2. chain'[c] = Tail(chain[c]) /\ DOMAIN chain' = Chains
        /\ \A d \in Chains : d # c => chain'[d] = chain[d]
    BY <1>1 DEF Done
<1>3. Len(chain[c]) \in Nat \ {0} BY <1>1, EmptySeq
<1>4. /\ Tail(chain[c]) \in Seq(Task) /\ Len(Tail(chain[c])) = Len(chain[c]) - 1
      /\ \A i \in 1 .. Len(Tail(chain[c])) : Tail(chain[c])[i] = chain[c][i + 1]
    BY <1>1, HeadTailProperties
<1>5. Head(chain[c]) = chain[c][1] BY <1>1, <1>3
<1> QED BY <1>2, <1>3, <1>4, <1>5

\* A task joins the current chain.
LEMMA EnqueueFacts ==
  ASSUME TypeInv, NEW kind \in {"block", "undo", "prune"}, NEW t \in Cursors,
         Enqueue(kind, t)
  PROVE  /\ DOMAIN chain' = Chains /\ chain'["current"] \in Seq(Task)
         /\ Len(chain["current"]) \in Nat
         /\ Len(chain'["current"]) = Len(chain["current"]) + 1
         /\ \A i \in 1 .. Len(chain["current"]) :
               chain'["current"][i] = chain["current"][i]
         /\ chain'["current"][Len(chain["current"]) + 1] = [kind |-> kind, cursor |-> t]
         /\ chain'["old"] = chain["old"]
<1>1. DOMAIN chain = Chains /\ chain["current"] \in Seq(Task)
    BY DEF TypeInv, TypeOK, Chains
<1>2. chain'["current"] = Append(chain["current"], [kind |-> kind, cursor |-> t])
        /\ DOMAIN chain' = Chains /\ chain'["old"] = chain["old"]
    BY <1>1 DEF Enqueue, Chains
<1>3. [kind |-> kind, cursor |-> t] \in Task BY DEF Task
<1>4. Len(chain["current"]) \in Nat BY <1>1, LenProperties
<1> QED BY <1>1, <1>2, <1>3, <1>4, AppendProperties

\* The first half of an undo: the task becomes its prune.
LEMMA UndoFacts ==
  ASSUME TypeInv, NEW c \in Chains, chain[c] # <<>>,
         chain' = [chain EXCEPT ![c][1].kind = "prune"]
  PROVE  /\ DOMAIN chain' = Chains /\ chain'[c] \in Seq(Task)
         /\ Len(chain[c]) \in Nat /\ Len(chain[c]) >= 1
         /\ Head(chain[c]) = chain[c][1]
         /\ Len(chain'[c]) = Len(chain[c])
         /\ chain'[c][1] = [kind |-> "prune", cursor |-> chain[c][1].cursor]
         /\ \A i \in 2 .. Len(chain[c]) : chain'[c][i] = chain[c][i]
         /\ \A d \in Chains : d # c => chain'[d] = chain[d]
<1>1. DOMAIN chain = Chains /\ chain[c] \in Seq(Task) BY DEF TypeInv, TypeOK
<1>2. Len(chain[c]) \in Nat \ {0} BY <1>1, EmptySeq
<1>3. chain[c][1] \in Task BY <1>1, <1>2, ElementOfSeq
<1> DEFINE t == [chain[c][1] EXCEPT !.kind = "prune"]
<1>4. t = [kind |-> "prune", cursor |-> chain[c][1].cursor] /\ t \in Task
    BY <1>3 DEF Task
<1>5. chain'[c] = [chain[c] EXCEPT ![1] = t] /\ DOMAIN chain' = Chains
        /\ \A d \in Chains : d # c => chain'[d] = chain[d]
    BY <1>1
<1> HIDE DEF t
<1>6. 1 \in 1 .. Len(chain[c]) BY <1>2
<1>7. /\ [chain[c] EXCEPT ![1] = t] \in Seq(Task)
      /\ Len([chain[c] EXCEPT ![1] = t]) = Len(chain[c])
      /\ \A j \in 1 .. Len(chain[c]) :
            [chain[c] EXCEPT ![1] = t][j] = IF j = 1 THEN t ELSE chain[c][j]
    BY <1>1, <1>4, <1>6, ExceptSeq
<1>8. Head(chain[c]) = chain[c][1] BY <1>1, <1>2
<1> QED BY <1>2, <1>4, <1>5, <1>7, <1>8

-----------------------------------------------------------------------------
(* The invariants.                                                         *)

\* The block of the i-th task of a chain.
Block(c, i) == chain[c][i].cursor.block

\* When a block is metered at most once.
MeterScope ==
    /\ Without({"undo", "fresh", "handover"})
    /\ ~({"fatal", "crash"} \subseteq happened)

\* Queued blocks are not metered yet, and none is beyond the cursor in memory.
QueueUnmetered ==
    \A c \in Chains : \A i \in 1 .. Len(chain[c]) :
        /\ chain[c][i].kind = "block" /\ Block(c, i) <= last.block
        /\ metered[Block(c, i)] = 0

\* No block is queued twice.
QueueDistinct ==
    \A c, d \in Chains : \A i \in 1 .. Len(chain[c]), j \in 1 .. Len(chain[d]) :
        Block(c, i) = Block(d, j) => c = d /\ i = j

MeteredBound ==
    \A b \in Blocks : metered[b] < Many /\ (metered[b] > 0 => b <= last.block)

\* Before the first fatal error there is one chain, in order, behind the saved
\* cursor from which a crash replays.
OneChain ==
    /\ chain["old"] = <<>> /\ saved.cursor.block <= last.block
    /\ \A i \in 1 .. Len(chain["current"]) :
          /\ Block("current", i) > saved.cursor.block
          /\ \A j \in 1 .. Len(chain["current"]) :
                i < j => Block("current", i) < Block("current", j)
    /\ \A b \in Blocks : metered[b] > 0 => b <= saved.cursor.block

MeterInv ==
    MeterScope =>
        /\ QueueUnmetered /\ QueueDistinct /\ MeteredBound
        /\ "fatal" \notin happened => OneChain

\* When a saved cursor covers what was delivered.
CoverScope == Without({"handler", "undo", "fatal", "fresh"}) /\ ~Torn

\* Every delivered block up to n has been captured and metered.
Covered(n) ==
    \A r \in delivered :
        r.block <= n /\ ~Stale(r) /\ r.block \notin Quiet
            => (r \in captured \/ r.block <= aged) /\ metered[r.block] > 0

\* The cursors in memory and in the database were delivered.
EndsDelivered ==
    /\ IF last = NoCursor THEN delivered = {} ELSE last \in delivered
    /\ saved.cursor # NoCursor => saved.cursor \in delivered
    /\ saved.blockNum = saved.cursor.block

\* A chain is a run of blocks, each with the latest version delivered.
ChainIsRun ==
    \A c \in Chains : \A i \in 1 .. Len(chain[c]) :
        /\ chain[c][i].kind = "block" /\ Block(c, i) = Block(c, 1) + i - 1
        /\ \A r \in delivered :
              r.block = Block(c, i) => r.version <= chain[c][i].cursor.version

\* The current chain ends at the cursor in memory.
ChainMeetsCursor ==
    chain["current"] # <<>> => Block("current", 1) + Len(chain["current"]) - 1 = last.block

\* What was delivered before the chains and up to the saved cursor is covered.
CoveredBehind ==
    /\ \A c \in Chains : chain[c] # <<>> => Covered(Block(c, 1) - 1)
    /\ chain["current"] = <<>> => Covered(last.block)
    /\ Covered(saved.cursor.block)

\* What was delivered is one interval of blocks.
DeliveredInterval ==
    \A r, s \in delivered : \A b \in Blocks :
        r.block <= b /\ b <= s.block => \E t \in delivered : t.block = b

\* Before the first shutdown there is one chain, ahead of the saved cursor.
ChainAhead ==
    /\ chain["old"] = <<>> /\ saved.cursor.block <= last.block
    /\ chain["current"] # <<>> => saved.cursor.block < Block("current", 1)

CoverParts ==
    /\ EndsDelivered /\ ChainIsRun /\ ChainMeetsCursor /\ CoveredBehind
    /\ DeliveredInterval
    /\ "handover" \notin happened => ChainAhead

CoverInv == CoverScope => CoverParts

\* When an undo leaves no row of a replaced block behind.
UndoScope == Without({"handler", "fatal", "crash", "handover", "fresh"})

\* A row that was delivered in the run of blocks that ends in the cursor in memory:
\* it is not replaced without the cursor being replaced as well.
Live(r) == r.block <= last.block /\ (Stale(r) => Stale(last))

AllBlocks(i, j) == \A k \in i .. j : chain["current"][k].kind = "block"

\* An undo that is half done has saved block number 0.
PruneFirst ==
    \A i \in 1 .. Len(chain["current"]) :
        chain["current"][i].kind = "prune" =>
            i = 1 /\ saved.cursor # NoCursor /\ saved.blockNum = 0

QueueLive ==
    \A i \in 1 .. Len(chain["current"]) :
        AllBlocks(i, Len(chain["current"])) => Live(chain["current"][i].cursor)

RowsLive == AllBlocks(1, Len(chain["current"])) => \A r \in captured : Live(r)

UndoInv == UndoScope => chain["old"] = <<>> /\ PruneFirst /\ QueueLive /\ RowsLive

-----------------------------------------------------------------------------
(* Type correctness.                                                       *)

\* The row of a deployment that never saved a cursor has its type.
LEMMA NoRowTyped ==
  /\ NoRow \in [cursor : Cursors \cup {NoCursor}, blockNum : 0 .. MaxBlock]
  /\ NoRow.cursor = NoCursor /\ NoRow.blockNum = 0
BY DEF NoRow

\* TypeInv holds initially.
LEMMA TypeInit == Init => TypeInv
<1> SUFFICES ASSUME Init PROVE TypeInv OBVIOUS
<1>1. \A c \in Chains : chain[c] = <<>> /\ Len(chain[c]) = 0 /\ chain[c] \in Seq(Task)
    BY DEF Init, Chains
<1>2. NoRow \in [cursor : Cursors \cup {NoCursor}, blockNum : 0 .. MaxBlock]
        /\ NoRow.cursor = NoCursor
    BY NoRowTyped
<1>3. head \in Blocks /\ version \in [Blocks -> Versions] /\ faults \in 0 .. MaxFaults
        /\ version[1] = 0 /\ \A b \in Blocks : version[b] <= faults
    BY DEF Init, Blocks, Versions
<1>4. metered \in [Blocks -> 0 .. 2] /\ aged \in 0 .. MaxBlock BY DEF Init
<1>5. empty \in 0 .. MaxEmpty + 1 /\ onCursor \in 0 .. WipeAfter - 1 /\ empty < MaxEmpty
    BY DEF Init
<1>6. DOMAIN chain = Chains BY DEF Init
<1>7. TypeOK BY <1>1, <1>2, <1>3, <1>4, <1>5, <1>6 DEF Init, TypeOK
<1>8. \A c \in Chains : 1 .. Len(chain[c]) = {} BY <1>1
<1>9. delivered = {} /\ last = NoCursor /\ saved.cursor = NoCursor BY <1>2 DEF Init
<1> QED BY <1>3, <1>5, <1>7, <1>8, <1>9 DEF TypeInv

\* What holds of the chains in TypeInv.
Queued(c) ==
    /\ chain[c] \in Seq(Task)
    /\ \A i \in 1 .. Len(chain[c]) :
          /\ chain[c][i].cursor \in Issued
          /\ chain[c][i].kind = "block" => chain[c][i].cursor \in delivered

\* What holds of the rest of the loop and of the database.
Typed ==
    /\ head \in Blocks /\ version \in [Blocks -> Versions]
    /\ saved \in [cursor : Cursors \cup {NoCursor}, blockNum : 0 .. MaxBlock]
    /\ captured \subseteq delivered /\ aged \in 0 .. MaxBlock
    /\ metered \in [Blocks -> 0 .. Many]
    /\ pc \in {"attempt", "up", "closing", "gaveup"}
    /\ resuming \in BOOLEAN /\ some \in BOOLEAN
    /\ empty \in 0 .. MaxEmpty + 1 /\ onCursor \in 0 .. WipeAfter - 1
    /\ happened \subseteq {"handler", "undo", "fatal", "crash", "handover", "fresh"}
    /\ faults \in 0 .. MaxFaults
    /\ version[1] = 0 /\ \A b \in Blocks : version[b] <= faults
    /\ delivered \subseteq Issued
    /\ last \in Issued \cup {NoCursor} /\ saved.cursor \in Issued \cup {NoCursor}
    /\ pc # "gaveup" => empty < MaxEmpty

\* TypeInv follows from the types and from the cursors of each chain.
LEMMA TypeParts ==
  TypeInv <=> Typed /\ DOMAIN chain = Chains /\ \A c \in Chains : Queued(c)
<1>1. Issued \subseteq Cursors BY DEF Issued
<1> QED BY <1>1 DEF TypeInv, TypeOK, Typed, Queued

\* A fault is counted.
LEMMA FaultCounts ==
  ASSUME Typed, NEW kind, Fault(kind)
  PROVE  /\ kind \in Faults /\ faults' = faults + 1 /\ faults' \in 0 .. MaxFaults
         /\ \A b \in Blocks : version[b] <= faults'
BY DEF Typed, Fault, Versions

\* The catch clause.
LEMMA CaughtTyped ==
  ASSUME Typed, pc # "gaveup", NEW n \in {empty, empty + 1}, n = empty + 1 => n >= MaxEmpty,
         NEW kinds \in SUBSET {"fatal"}, Caught(n, kinds)
  PROVE  /\ saved' \in {saved, NoRow} /\ last' \in {last, NoCursor}
         /\ pc' \in {"attempt", "gaveup"} /\ (pc' # "gaveup" => empty' < MaxEmpty)
         /\ empty' \in 0 .. MaxEmpty + 1 /\ onCursor' \in 0 .. WipeAfter - 1
         /\ happened' \subseteq {"handler", "undo", "fatal", "crash", "handover", "fresh"}
         /\ happened \cup kinds \subseteq happened'
         /\ "fresh" \notin happened' => UNCHANGED <<saved, last>>
BY DEF Typed, Caught

\* A new attempt starts from a typed cursor.
LEMMA AttemptTyped ==
  ASSUME Typed, pc = "closing", EmptyAttempt
  PROVE  /\ saved' \in {saved, NoRow} /\ last' \in {last, NoCursor}
         /\ pc' \in {"attempt", "gaveup"} /\ (pc' # "gaveup" => empty' < MaxEmpty)
         /\ empty' \in 0 .. MaxEmpty + 1 /\ onCursor' \in 0 .. WipeAfter - 1
         /\ happened' \subseteq {"handler", "undo", "fatal", "crash", "handover", "fresh"}
         /\ happened \subseteq happened'
         /\ "fresh" \notin happened' => UNCHANGED <<saved, last>>
<1>1. CASE empty + 1 >= MaxEmpty
  <2>1. Caught(empty + 1, {}) BY <1>1 DEF EmptyAttempt
  <2> QED BY <2>1, <1>1, CaughtTyped
<1>2. CASE ~(empty + 1 >= MaxEmpty)
  <2>1. /\ empty' = empty + 1 /\ pc' = "attempt"
        /\ UNCHANGED <<saved, last, onCursor, happened>>
      BY <1>2 DEF EmptyAttempt, EmptyCounted
  <2>2. /\ empty \in 0 .. MaxEmpty + 1 /\ onCursor \in 0 .. WipeAfter - 1
        /\ happened \subseteq {"handler", "undo", "fatal", "crash", "handover", "fresh"}
      BY DEF Typed
  <2> QED BY <1>2, <2>1, <2>2
<1> QED BY <1>1, <1>2

\* TypeInv across a step.
LEMMA TypeNext == TypeInv /\ [Next]_vars => TypeInv'
<1> SUFFICES ASSUME TypeInv, [Next]_vars PROVE TypeInv' OBVIOUS
<1>0. Typed /\ DOMAIN chain = Chains /\ \A c \in Chains : Queued(c) BY TypeParts
<1> SUFFICES Typed' /\ DOMAIN chain' = Chains /\ \A c \in Chains : Queued(c)'
  <2>1. (Typed /\ DOMAIN chain = Chains /\ \A c \in Chains : Queued(c))' => TypeInv'
      BY TypeParts, PTL
  <2> QED BY <2>1
<1>1. CASE UNCHANGED vars
    BY <1>1, <1>0 DEF vars, dbVars, loopVars, Typed, Queued, Issued
<1>2. CASE NewBlock
    BY <1>2, <1>0 DEF NewBlock, dbVars, loopVars, Typed, Queued, Issued, Blocks
<1>3. CASE Connect
    BY <1>3, <1>0 DEF Connect, dbVars, Typed, Queued, Issued
<1>4. CASE Close
    BY <1>4, <1>0 DEF Close, dbVars, Typed, Queued, Issued
<1>5. CASE Deliver
  <2> DEFINE t == Cursor(NextBlock)
  <2>1. t \in Issued BY <1>5, NextBlockIsNew DEF Deliver
  <2> HIDE DEF t
  <2>2. /\ last' = t /\ delivered' = delivered \cup {t} /\ Enqueue("block", t)
        /\ UNCHANGED <<head, version, dbVars, pc, resuming, empty, onCursor, happened, faults>>
        /\ some' = TRUE
      BY <1>5 DEF Deliver, t
  <2>3. t \in Cursors BY <2>1 DEF Issued
  <2>4. Typed'
      BY <2>1, <2>2, <1>0 DEF Typed, dbVars, Issued
  <2>5. /\ DOMAIN chain' = Chains /\ chain'["current"] \in Seq(Task)
        /\ Len(chain["current"]) \in Nat
        /\ Len(chain'["current"]) = Len(chain["current"]) + 1
        /\ \A i \in 1 .. Len(chain["current"]) :
              chain'["current"][i] = chain["current"][i]
        /\ chain'["current"][Len(chain["current"]) + 1] = [kind |-> "block", cursor |-> t]
        /\ chain'["old"] = chain["old"]
      BY <2>2, <2>3, EnqueueFacts
  <2>6. Issued' = Issued BY <2>2 DEF Issued
  <2>7. Queued("current")'
    <3> SUFFICES ASSUME NEW i \in 1 .. Len(chain'["current"])
                 PROVE  /\ chain'["current"][i].cursor \in Issued
                        /\ chain'["current"][i].kind = "block"
                              => chain'["current"][i].cursor \in delivered'
        BY <2>5, <2>6 DEF Queued
    <3>1. CASE i = Len(chain["current"]) + 1 BY <3>1, <2>1, <2>2, <2>5
    <3>2. CASE i \in 1 .. Len(chain["current"])
        BY <3>2, <2>2, <2>5, <1>0 DEF Queued, Chains
    <3> QED BY <3>1, <3>2, <2>5
  <2>8. Queued("old")' BY <2>2, <2>5, <2>6, <1>0 DEF Queued, Chains
  <2> QED BY <2>4, <2>5, <2>7, <2>8 DEF Chains
<1>6. CASE UndoSignal
  <2> DEFINE t == Cursor(LastValid(last))
  <2>1. t \in Issued
    <3>1. last # NoCursor BY <1>6 DEF UndoSignal, Stale
    <3> QED BY <3>1, <1>6, LastValidExists DEF UndoSignal
  <2> HIDE DEF t
  <2>2. /\ last' = t /\ Enqueue("undo", t) /\ happened' = happened \cup {"undo"}
        /\ UNCHANGED <<head, version, dbVars, delivered, pc, resuming, some, empty,
                       onCursor, faults>>
      BY <1>6 DEF UndoSignal, t
  <2>3. t \in Cursors BY <2>1 DEF Issued
  <2>4. Typed' BY <2>1, <2>2, <1>0 DEF Typed, dbVars, Issued
  <2>5. /\ DOMAIN chain' = Chains /\ chain'["current"] \in Seq(Task)
        /\ Len(chain["current"]) \in Nat
        /\ Len(chain'["current"]) = Len(chain["current"]) + 1
        /\ \A i \in 1 .. Len(chain["current"]) :
              chain'["current"][i] = chain["current"][i]
        /\ chain'["current"][Len(chain["current"]) + 1] = [kind |-> "undo", cursor |-> t]
        /\ chain'["old"] = chain["old"]
      BY <2>2, <2>3, EnqueueFacts
  <2>6. Issued' = Issued BY <2>2 DEF Issued
  <2>7. Queued("current")'
    <3> SUFFICES ASSUME NEW i \in 1 .. Len(chain'["current"])
                 PROVE  /\ chain'["current"][i].cursor \in Issued
                        /\ chain'["current"][i].kind = "block"
                              => chain'["current"][i].cursor \in delivered'
        BY <2>5, <2>6 DEF Queued
    <3>1. CASE i = Len(chain["current"]) + 1 BY <3>1, <2>1, <2>2, <2>5
    <3>2. CASE i \in 1 .. Len(chain["current"])
        BY <3>2, <2>2, <2>5, <1>0 DEF Queued, Chains
    <3> QED BY <3>1, <3>2, <2>5
  <2>8. Queued("old")' BY <2>2, <2>5, <2>6, <1>0 DEF Queued, Chains
  <2> QED BY <2>4, <2>5, <2>7, <2>8 DEF Chains
<1>7. CASE AttemptEnds
  <2>1. /\ saved' \in {saved, NoRow} /\ last' \in {last, NoCursor}
        /\ pc' \in {"attempt", "gaveup"} /\ (pc' # "gaveup" => empty' < MaxEmpty)
        /\ empty' \in 0 .. MaxEmpty + 1 /\ onCursor' \in 0 .. WipeAfter - 1
        /\ happened' \subseteq {"handler", "undo", "fatal", "crash", "handover", "fresh"}
    <3>1. CASE some
      <4>1. /\ empty' = 0 /\ onCursor' = 0 /\ pc' = "attempt"
            /\ UNCHANGED <<saved, last, happened>>
          BY <3>1, <1>7 DEF AttemptEnds
      <4>2. happened \subseteq {"handler", "undo", "fatal", "crash", "handover", "fresh"}
          BY <1>0 DEF Typed
      <4> QED BY <4>1, <4>2
    <3>2. CASE ~some BY <3>2, <1>7, <1>0, AttemptTyped DEF AttemptEnds
    <3> QED BY <3>1, <3>2
  <2>2. UNCHANGED <<head, version, captured, aged, metered, delivered, resuming, some, faults>>
      BY <1>7 DEF AttemptEnds
  <2>3. Typed'
    <3>1. saved \in [cursor : Cursors \cup {NoCursor}, blockNum : 0 .. MaxBlock]
            /\ saved.cursor \in Issued \cup {NoCursor} /\ last \in Issued \cup {NoCursor}
        BY <1>0 DEF Typed
    <3>2. saved' \in [cursor : Cursors \cup {NoCursor}, blockNum : 0 .. MaxBlock]
        BY <3>1, <2>1, <2>2, NoRowTyped
    <3>3. saved'.cursor \in Issued \cup {NoCursor} /\ last' \in Issued \cup {NoCursor}
      <4>1. saved' = saved \/ saved' = NoRow BY <2>1
      <4>2. last' = last \/ last' = NoCursor BY <2>1
      <4>3. saved'.cursor = saved.cursor \/ saved'.cursor = NoCursor
          BY <4>1, NoRowTyped
      <4> QED BY <3>1, <4>2, <4>3
    <3>4. Issued' = Issued BY <2>1, <2>2 DEF Issued
    <3>5. /\ pc' \in {"attempt", "gaveup"} /\ (pc' # "gaveup" => empty' < MaxEmpty)
          /\ empty' \in 0 .. MaxEmpty + 1 /\ onCursor' \in 0 .. WipeAfter - 1
          /\ happened' \subseteq {"handler", "undo", "fatal", "crash", "handover", "fresh"}
        BY <2>1
    <3> QED BY <3>2, <3>3, <3>4, <3>5, <2>2, <1>0 DEF Typed
  <2>4. DOMAIN chain' = Chains /\ chain'["old"] = chain["old"] /\ chain'["current"] = <<>>
    <3>1. chain["old"] \in Seq(Task) /\ chain["current"] = <<>>
        BY <1>7, <1>0 DEF AttemptEnds, Drained, Queued, Chains
    <3> QED BY <3>1, <1>7, ConcatEmptySeq DEF AttemptEnds, Chains
  <2>5. Issued' = Issued BY <2>2 DEF Issued
  <2>6. Queued("old")' BY <2>2, <2>4, <2>5, <1>0 DEF Queued, Chains
  <2>7. Queued("current")' BY <2>4 DEF Queued
  <2> QED BY <2>3, <2>4, <2>6, <2>7 DEF Chains
<1>8. CASE FatalError
  <2>1. Caught(empty, {"fatal"}) /\ pc # "gaveup" /\ Fault("fatal") BY <1>8 DEF FatalError
  <2>2. /\ saved' \in {saved, NoRow} /\ last' \in {last, NoCursor}
        /\ pc' \in {"attempt", "gaveup"} /\ (pc' # "gaveup" => empty' < MaxEmpty)
        /\ empty' \in 0 .. MaxEmpty + 1 /\ onCursor' \in 0 .. WipeAfter - 1
        /\ happened' \subseteq {"handler", "undo", "fatal", "crash", "handover", "fresh"}
    <3>1. empty = empty + 1 => empty >= MaxEmpty BY <1>0 DEF Typed
    <3> QED BY <2>1, <3>1, <1>0, CaughtTyped
  <2>3. UNCHANGED <<head, version, captured, aged, metered, delivered, resuming, some>>
      BY <1>8 DEF FatalError
  <2>4. faults' \in 0 .. MaxFaults /\ \A b \in Blocks : version[b] <= faults'
      BY <2>1, <1>0, FaultCounts
  <2>5. Typed'
    <3>1. saved \in [cursor : Cursors \cup {NoCursor}, blockNum : 0 .. MaxBlock]
            /\ saved.cursor \in Issued \cup {NoCursor} /\ last \in Issued \cup {NoCursor}
        BY <1>0 DEF Typed
    <3>2. saved' \in [cursor : Cursors \cup {NoCursor}, blockNum : 0 .. MaxBlock]
        BY <3>1, <2>2, <2>3, <2>4, NoRowTyped
    <3>3. saved'.cursor \in Issued \cup {NoCursor} /\ last' \in Issued \cup {NoCursor}
      <4>1. saved' = saved \/ saved' = NoRow BY <2>2
      <4>2. last' = last \/ last' = NoCursor BY <2>2
      <4>3. saved'.cursor = saved.cursor \/ saved'.cursor = NoCursor
          BY <4>1, NoRowTyped
      <4> QED BY <3>1, <4>2, <4>3
    <3>4. Issued' = Issued BY <2>2, <2>3, <2>4 DEF Issued
    <3>5. /\ pc' \in {"attempt", "gaveup"} /\ (pc' # "gaveup" => empty' < MaxEmpty)
          /\ empty' \in 0 .. MaxEmpty + 1 /\ onCursor' \in 0 .. WipeAfter - 1
          /\ happened' \subseteq {"handler", "undo", "fatal", "crash", "handover", "fresh"}
        BY <2>2
    <3> QED BY <3>2, <3>3, <3>4, <3>5, <2>3, <2>4, <1>0 DEF Typed
  <2>6. DOMAIN chain' = Chains /\ chain'["old"] = chain["current"] /\ chain'["current"] = <<>>
      BY <1>8 DEF FatalError, Chains
  <2>7. Issued' = Issued BY <2>3 DEF Issued
  <2>8. Queued("old")' BY <2>3, <2>6, <2>7, <1>0 DEF Queued, Chains
  <2>9. Queued("current")' BY <2>6 DEF Queued
  <2> QED BY <2>5, <2>6, <2>8, <2>9 DEF Chains
<1>9. CASE Restart
  <2>1. Fault("crash") BY <1>9 DEF Restart
  <2>2. faults' \in 0 .. MaxFaults /\ \A b \in Blocks : version[b] <= faults'
      BY <2>1, <1>0, FaultCounts
  <2>3. Typed'
    <3>1. /\ pc' = "attempt" /\ resuming' = FALSE /\ some' = FALSE /\ last' = saved.cursor
          /\ empty' = 0 /\ onCursor' = 0
          /\ UNCHANGED <<head, version, saved, captured, aged, metered, delivered>>
        BY <1>9 DEF Restart, Resumed, dbVars
    <3>2. happened' \subseteq {"handler", "undo", "fatal", "crash", "handover", "fresh"}
      <4>1. happened' \subseteq happened \cup {"crash", "fresh"} BY <1>9 DEF Restart
      <4> QED BY <4>1, <1>0 DEF Typed
    <3>3. 0 \in 0 .. MaxEmpty + 1 /\ 0 \in 0 .. WipeAfter - 1 /\ 0 < MaxEmpty OBVIOUS
    <3> QED BY <2>2, <3>1, <3>2, <3>3, <1>0 DEF Typed, Issued
  <2>4. \A c \in Chains : chain'[c] = <<>> BY <1>9 DEF Restart
  <2>5. \A c \in Chains : Queued(c)'
    <3> SUFFICES ASSUME NEW c \in Chains PROVE Queued(c)' OBVIOUS
    <3>1. chain'[c] = <<>> /\ Len(chain'[c]) = 0 BY <2>4
    <3> QED BY <3>1 DEF Queued
  <2> QED BY <2>3, <2>5, <1>9 DEF Restart
<1>10. CASE Handover
  <2>1. Fault("handover") BY <1>10 DEF Handover
  <2>2. faults' \in 0 .. MaxFaults /\ \A b \in Blocks : version[b] <= faults'
      BY <2>1, <1>0, FaultCounts
  <2>3. Typed'
    <3>1. /\ pc' = "attempt" /\ resuming' = FALSE /\ some' = FALSE /\ last' = saved.cursor
          /\ empty' = 0 /\ onCursor' = 0
          /\ UNCHANGED <<head, version, saved, captured, aged, metered, delivered>>
        BY <1>10 DEF Handover, Resumed, dbVars
    <3>2. happened' \subseteq {"handler", "undo", "fatal", "crash", "handover", "fresh"}
      <4>1. happened' \subseteq happened \cup {"handover", "fresh"} BY <1>10 DEF Handover
      <4> QED BY <4>1, <1>0 DEF Typed
    <3>3. 0 \in 0 .. MaxEmpty + 1 /\ 0 \in 0 .. WipeAfter - 1 /\ 0 < MaxEmpty OBVIOUS
    <3> QED BY <2>2, <3>1, <3>2, <3>3, <1>0 DEF Typed, Issued
  <2>4. PICK n \in 0 .. Len(chain["current"]) :
           chain' = [old |-> SubSeq(chain["current"], 1, n), current |-> <<>>]
      BY <1>10 DEF Handover
  <2>5. chain["current"] \in Seq(Task) /\ Len(chain["current"]) \in Nat
      BY <1>0, LenProperties DEF Queued, Chains
  <2>6. /\ chain'["old"] \in Seq(Task) /\ Len(chain'["old"]) = n
        /\ \A i \in 1 .. n : chain'["old"][i] = chain["current"][i]
      BY <2>4, <2>5, SubSeqProperties, ElementOfSeq
  <2>7. DOMAIN chain' = Chains /\ chain'["current"] = <<>> BY <2>4 DEF Chains
  <2>8. Issued' = Issued /\ delivered' = delivered BY <1>10 DEF Handover, Issued
  <2>9. Queued("old")' BY <2>5, <2>6, <2>8, <1>0 DEF Queued, Chains
  <2>10. Queued("current")' BY <2>7 DEF Queued
  <2> QED BY <2>3, <2>7, <2>9, <2>10 DEF Chains
<1>11. CASE Retention
  <2>1. PICK b \in {r.block : r \in captured} :
           captured' = {r \in captured : r.block > b} /\ aged' = Max({aged, b})
      BY <1>11 DEF Retention
  <2>2. b \in Blocks BY <2>1, <1>0 DEF Typed, Issued, Cursors
  <2>3. aged' \in 0 .. MaxBlock
      BY <2>1, <2>2, <1>0, MaxOfTwo DEF Typed, Blocks
  <2>4. UNCHANGED <<head, version, saved, metered, delivered, loopVars, chain,
                    happened, faults>>
      BY <1>11 DEF Retention
  <2>5. Typed' BY <2>1, <2>3, <2>4, <1>0 DEF Typed, loopVars, Issued
  <2> QED BY <2>4, <2>5, <1>0 DEF Queued, Issued
<1>12. ASSUME NEW p \in Blocks, Reorg(p)
       PROVE  Typed' /\ DOMAIN chain' = Chains /\ \A c \in Chains : Queued(c)'
  <2>1. faults' = faults + 1 /\ faults' \in 0 .. MaxFaults
      BY <1>12, <1>0, FaultCounts DEF Reorg
  <2>2. /\ version' = [b \in Blocks |-> IF b > p THEN faults' ELSE version[b]]
        /\ UNCHANGED <<head, dbVars, delivered, loopVars, chain, happened>>
      BY <1>12 DEF Reorg
  <2>3. \A b \in Blocks : version[b] \in Int /\ version[b] <= faults /\ version[b] \in Versions
      BY <1>0 DEF Typed, Versions
  <2>4. \A b \in Blocks : version'[b] <= faults' /\ version[b] <= version'[b]
      BY <2>1, <2>2, <2>3, <1>0 DEF Typed
  <2>5. version' \in [Blocks -> Versions] BY <2>1, <2>2, <2>3 DEF Versions
  <2>6. version'[1] = 0 BY <2>2, <1>0 DEF Blocks, Typed
  <2>7. Issued \subseteq Issued'
    <3> SUFFICES ASSUME NEW c \in Issued PROVE c.version <= version'[c.block] BY DEF Issued
    <3>1. c.block \in Blocks /\ c.version \in Versions /\ c.version <= version[c.block]
        BY DEF Issued, Cursors
    <3>2. version'[c.block] \in Versions BY <3>1, <2>5
    <3> QED BY <3>1, <3>2, <2>3, <2>4 DEF Versions
  <2>8. Typed' BY <2>1, <2>2, <2>4, <2>5, <2>6, <2>7, <1>0 DEF Typed, dbVars, loopVars
  <2> QED BY <2>2, <2>7, <2>8, <1>0 DEF Queued
<1>13. ASSUME NEW c \in Chains, RunTask(c)
       PROVE  Typed' /\ DOMAIN chain' = Chains /\ \A d \in Chains : Queued(d)'
  <2>0. /\ chain[c] # <<>>
        /\ UNCHANGED <<head, version, aged, delivered, loopVars, happened, faults>>
      BY <1>13 DEF RunTask
  <2>1. Issued' = Issued BY <2>0 DEF Issued
  <2>2. Len(chain[c]) \in Nat /\ Len(chain[c]) >= 1 /\ Head(chain[c]) = chain[c][1]
      BY <2>0, <1>0, EmptySeq DEF Queued
  <2> DEFINE t == chain[c][1].cursor
  <2>3. t \in Issued /\ t.block \in Blocks /\ t \in Cursors
      BY <2>2, <1>0 DEF Queued, Issued, Cursors
  <2>4. CASE chain[c][1].kind = "block"
    <3>1. Done(c) /\ CommitBlock(c) BY <2>4, <2>2, <1>13 DEF RunTask
    <3>2. t \in delivered BY <2>2, <2>4, <1>0 DEF Queued
    <3>3. saved' = [cursor |-> t, blockNum |-> t.block]
            /\ captured' \subseteq captured \cup {t}
        BY <3>1, <2>2 DEF CommitBlock, Capture
    <3>4. metered' \in [Blocks -> 0 .. Many]
      <4>1. CASE t.block \in Quiet
          BY <4>1, <3>1, <2>2, <1>0 DEF CommitBlock, Typed
      <4>2. CASE t.block \notin Quiet
        <5>1. metered' = [metered EXCEPT ![t.block] = Min({2, @ + 1})]
            BY <4>2, <3>1, <2>2 DEF CommitBlock, MeterOnce
        <5>2. metered[t.block] \in 0 .. 2 BY <2>3, <1>0 DEF Typed
        <5>3. Min({2, metered[t.block] + 1}) \in 0 .. 2 BY <5>2, MinOfTwo
        <5> QED BY <5>1, <5>3, <1>0 DEF Typed
      <4> QED BY <4>1, <4>2
    <3>5. Typed' BY <2>0, <2>1, <2>3, <3>2, <3>3, <3>4, <1>0 DEF Typed, loopVars, Blocks
    <3>6. /\ DOMAIN chain' = Chains /\ chain'[c] \in Seq(Task)
          /\ Len(chain'[c]) = Len(chain[c]) - 1
          /\ \A i \in 1 .. Len(chain'[c]) : chain'[c][i] = chain[c][i + 1]
          /\ \A d \in Chains : d # c => chain'[d] = chain[d]
        BY <3>1, <2>0, DoneFacts
    <3>7. Queued(c)' BY <3>6, <2>0, <2>1, <2>2, <1>0 DEF Queued
    <3>8. \A d \in Chains : d # c => Queued(d)' BY <3>6, <2>0, <2>1, <1>0 DEF Queued
    <3> QED BY <3>5, <3>6, <3>7, <3>8
  <2>5. CASE chain[c][1].kind = "undo"
    <3>1. /\ chain' = [chain EXCEPT ![c][1].kind = "prune"]
          /\ saved' = [cursor |-> t, blockNum |-> 0]
          /\ UNCHANGED <<captured, metered>>
        BY <2>5, <2>2, <1>13 DEF RunTask
    <3>2. Typed' BY <2>0, <2>1, <2>3, <3>1, <1>0 DEF Typed, loopVars
    <3>3. /\ DOMAIN chain' = Chains /\ chain'[c] \in Seq(Task)
          /\ Len(chain'[c]) = Len(chain[c])
          /\ chain'[c][1] = [kind |-> "prune", cursor |-> t]
          /\ \A i \in 2 .. Len(chain[c]) : chain'[c][i] = chain[c][i]
          /\ \A d \in Chains : d # c => chain'[d] = chain[d]
        BY <3>1, <2>0, UndoFacts
    <3> HIDE DEF t
    <3>4. Queued(c)' BY <3>3, <2>0, <2>1, <2>2, <2>3, <1>0 DEF Queued
    <3>5. \A d \in Chains : d # c => Queued(d)' BY <3>3, <2>0, <2>1, <1>0 DEF Queued
    <3> QED BY <3>2, <3>3, <3>4, <3>5
  <2>6. CASE chain[c][1].kind \notin {"block", "undo"}
    <3>1. Done(c) /\ captured' = Pruned /\ UNCHANGED <<saved, metered>>
        BY <2>6, <2>2, <1>13 DEF RunTask
    <3>2. captured' \subseteq captured BY <3>1 DEF Pruned
    <3>3. Typed' BY <2>0, <2>1, <3>1, <3>2, <1>0 DEF Typed, loopVars
    <3>4. /\ DOMAIN chain' = Chains /\ chain'[c] \in Seq(Task)
          /\ Len(chain'[c]) = Len(chain[c]) - 1
          /\ \A i \in 1 .. Len(chain'[c]) : chain'[c][i] = chain[c][i + 1]
          /\ \A d \in Chains : d # c => chain'[d] = chain[d]
        BY <3>1, <2>0, DoneFacts
    <3>5. Queued(c)' BY <3>4, <2>0, <2>1, <2>2, <1>0 DEF Queued
    <3>6. \A d \in Chains : d # c => Queued(d)' BY <3>4, <2>0, <2>1, <1>0 DEF Queued
    <3> QED BY <3>3, <3>4, <3>5, <3>6
  <2> QED BY <2>4, <2>5, <2>6
<1>14. ASSUME NEW c \in Chains, TaskFails(c)
       PROVE  Typed' /\ DOMAIN chain' = Chains /\ \A d \in Chains : Queued(d)'
  <2>0. /\ chain[c] # <<>> /\ Fault("handler") /\ happened' = happened \cup {"handler"}
        /\ Done(c) /\ UNCHANGED <<head, version, dbVars, delivered, loopVars>>
      BY <1>14 DEF TaskFails
  <2>1. faults' \in 0 .. MaxFaults /\ \A b \in Blocks : version[b] <= faults'
      BY <2>0, <1>0, FaultCounts
  <2>2. Issued' = Issued BY <2>0 DEF Issued
  <2>3. Typed' BY <2>0, <2>1, <2>2, <1>0 DEF Typed, dbVars, loopVars
  <2>4. /\ DOMAIN chain' = Chains /\ chain'[c] \in Seq(Task)
        /\ Len(chain[c]) \in Nat /\ Len(chain'[c]) = Len(chain[c]) - 1
        /\ \A i \in 1 .. Len(chain'[c]) : chain'[c][i] = chain[c][i + 1]
        /\ \A d \in Chains : d # c => chain'[d] = chain[d]
      BY <2>0, DoneFacts
  <2>5. Queued(c)'
    <3>1. delivered' = delivered BY <2>0
    <3>2. ASSUME NEW i \in 1 .. Len(chain'[c])
          PROVE  /\ chain'[c][i].cursor \in Issued
                 /\ chain'[c][i].kind = "block" => chain'[c][i].cursor \in delivered
      <4>1. i + 1 \in 1 .. Len(chain[c]) /\ chain'[c][i] = chain[c][i + 1] BY <2>4
      <4> QED BY <4>1, <1>0 DEF Queued
    <3> QED BY <3>1, <3>2, <2>2, <2>4 DEF Queued
  <2>6. \A d \in Chains : d # c => Queued(d)' BY <2>0, <2>2, <2>4, <1>0 DEF Queued
  <2> QED BY <2>3, <2>4, <2>5, <2>6
<1> QED BY <1>1, <1>2, <1>3, <1>4, <1>5, <1>6, <1>7, <1>8, <1>9, <1>10, <1>11, <1>12,
           <1>13, <1>14 DEF Next

\* TypeInv is an invariant.
LEMMA TypeInvariant == Spec => []TypeInv
BY TypeInit, TypeNext, PTL DEF Spec

\* Every variable keeps its type; the empty attempts pass their limit by at most one.
THEOREM TypesHold == Spec => []TypeOK
<1>1. TypeInv => TypeOK BY DEF TypeInv
<1> QED BY <1>1, TypeInvariant, PTL
-----------------------------------------------------------------------------
(* A block is metered once.                                                *)

\* What went wrong stays on record.
LEMMA HappenedGrows ==
  ASSUME TypeInv, [Next]_vars
  PROVE  happened \subseteq happened'
<1>0. Typed BY TypeParts
<1>1. ASSUME AttemptEnds PROVE happened \subseteq happened'
  <2>1. CASE some BY <1>1, <2>1 DEF AttemptEnds
  <2>2. CASE ~some BY <1>0, <1>1, <2>2, AttemptTyped DEF AttemptEnds
  <2> QED BY <2>1, <2>2
<1>2. ASSUME FatalError PROVE happened \subseteq happened'
    BY <1>2 DEF FatalError, Caught
<1>3. ASSUME NEW p \in Blocks, Reorg(p) PROVE happened \subseteq happened'
    BY <1>3 DEF Reorg
<1>4. ASSUME NEW c \in Chains, RunTask(c) \/ TaskFails(c) PROVE happened \subseteq happened'
    BY <1>4 DEF RunTask, TaskFails
<1> QED BY <1>1, <1>2, <1>3, <1>4
        DEF Next, vars, NewBlock, Connect, Deliver, UndoSignal, Close, Restart, Handover,
            Retention

\* What a position of a chain holds.
LEMMA Positions ==
  ASSUME TypeInv, NEW c \in Chains
  PROVE  /\ Len(chain[c]) \in Nat /\ (chain[c] = <<>> <=> Len(chain[c]) = 0)
         /\ \A i \in 1 .. Len(chain[c]) :
               /\ chain[c][i] \in Task /\ chain[c][i].cursor \in Issued
               /\ Block(c, i) \in Blocks
               /\ chain[c][i].kind = "block" => chain[c][i].cursor \in delivered
<1>1. chain[c] \in Seq(Task) BY DEF TypeInv, TypeOK
<1>2. Len(chain[c]) \in Nat /\ (chain[c] = <<>> <=> Len(chain[c]) = 0) BY <1>1, EmptySeq
<1>3. \A i \in 1 .. Len(chain[c]) : chain[c][i] \in Task BY <1>1, ElementOfSeq
<1>4. \A i \in 1 .. Len(chain[c]) : Block(c, i) \in Blocks
    BY <1>3 DEF Task, Cursors, Block
<1> QED BY <1>2, <1>3, <1>4 DEF TypeInv

\* When a task leaves its chain, each task left was there, one place further on.
LEMMA Shifted ==
  ASSUME TypeInv, NEW c \in Chains, chain[c] # <<>>, Done(c), NEW d \in Chains,
         NEW i \in 1 .. Len(chain'[d]), NEW k, k = IF d = c THEN i + 1 ELSE i
  PROVE  /\ k \in 1 .. Len(chain[d]) /\ (d = c => k > 1)
         /\ chain'[d][i] = chain[d][k] /\ Block(d, i)' = Block(d, k)
<1>1. /\ Len(chain[c]) \in Nat /\ Len(chain[c]) >= 1
      /\ Len(chain'[c]) = Len(chain[c]) - 1
      /\ \A j \in 1 .. Len(chain'[c]) : chain'[c][j] = chain[c][j + 1]
      /\ \A e \in Chains : e # c => chain'[e] = chain[e]
    BY DoneFacts
<1>2. CASE d = c BY <1>1, <1>2 DEF Block
<1>3. CASE d # c BY <1>1, <1>3 DEF Block
<1> QED BY <1>2, <1>3

\* MeterInv holds initially.
LEMMA MeterInit == Init => MeterInv
<1> SUFFICES ASSUME Init PROVE MeterInv OBVIOUS
<1>1. \A c \in Chains : chain[c] = <<>> /\ 1 .. Len(chain[c]) = {}
    BY DEF Init, Chains
<1>2. last.block = 0 /\ saved.cursor.block = 0 /\ \A b \in Blocks : metered[b] = 0
    BY NoRowTyped DEF Init
<1> QED BY <1>1, <1>2
        DEF MeterInv, QueueUnmetered, QueueDistinct, MeteredBound, OneChain, Chains

\* Nothing the invariant is about has changed.
LEMMA MeterSame ==
  ASSUME MeterInv, happened \subseteq happened',
         MeterScope' => UNCHANGED <<saved, last, metered>>
                        /\ \A c \in Chains : chain'[c] = chain[c]
  PROVE  MeterInv'
<1> SUFFICES ASSUME MeterScope' PROVE MeterInv' BY DEF MeterInv
<1>1. MeterScope BY DEF MeterScope, Without
<1>2. "fatal" \notin happened' => "fatal" \notin happened OBVIOUS
<1>3. "old" \in Chains /\ "current" \in Chains BY DEF Chains
<1>4. \A c \in Chains : chain'[c] = chain[c] OBVIOUS
<1>5. saved' = saved /\ last' = last /\ metered' = metered OBVIOUS
<1>6. QueueUnmetered => QueueUnmetered' BY <1>4, <1>5 DEF QueueUnmetered, Block
<1>7. QueueDistinct => QueueDistinct' BY <1>4 DEF QueueDistinct, Block
<1>8. MeteredBound => MeteredBound' BY <1>5 DEF MeteredBound
<1>9. OneChain => OneChain' BY <1>3, <1>4, <1>5 DEF OneChain, Block
<1> QED BY <1>1, <1>2, <1>6, <1>7, <1>8, <1>9 DEF MeterInv

\* MeterInv across a step.
LEMMA MeterNext == TypeInv /\ TypeInv' /\ MeterInv /\ [Next]_vars => MeterInv'
<1> SUFFICES ASSUME TypeInv, TypeInv', MeterInv, [Next]_vars, MeterScope' PROVE MeterInv'
    BY DEF MeterInv
<1>0. Typed /\ happened \subseteq happened' BY TypeParts, HappenedGrows
<1>s. MeterScope /\ ("fatal" \notin happened' => "fatal" \notin happened)
    BY <1>0 DEF MeterScope, Without
<1>m. /\ QueueUnmetered /\ QueueDistinct /\ MeteredBound
      /\ "fatal" \notin happened => OneChain
    BY <1>s DEF MeterInv
<1>t. /\ last.block \in 0 .. MaxBlock /\ saved.cursor.block \in 0 .. MaxBlock
      /\ metered \in [Blocks -> 0 .. 2]
    BY <1>0 DEF Typed, Issued, Cursors, Blocks
<1>1. CASE \/ UNCHANGED vars \/ NewBlock \/ Connect \/ Close \/ Retention
           \/ \E p \in Blocks : Reorg(p)
  <2>1. UNCHANGED <<saved, last, metered, chain>>
      BY <1>1 DEF vars, dbVars, loopVars, NewBlock, Connect, Close, Retention, Reorg
  <2> QED BY <2>1, <1>0, MeterSame
<1>2. CASE Deliver
  <2> DEFINE t == Cursor(NextBlock)
  <2>0. PICK n \in Nat : n = Len(chain["current"]) BY Positions DEF Chains
  <2>1. t \in Cursors /\ t.block \in Blocks /\ t.block > last.block
    <3>1. Cursor(NextBlock) \in Issued /\ NextBlock \in Blocks /\ NextBlock > last.block
        BY <1>2, NextBlockIsNew DEF Deliver
    <3> QED BY <3>1 DEF Issued, Cursor
  <2> HIDE DEF t
  <2>2. last' = t /\ Enqueue("block", t) /\ UNCHANGED <<saved, metered, happened>>
      BY <1>2 DEF Deliver, t, dbVars
  <2>3. /\ n \in Nat /\ Len(chain'["current"]) = n + 1
        /\ \A i \in 1 .. n : chain'["current"][i] = chain["current"][i]
        /\ chain'["current"][n + 1] = [kind |-> "block", cursor |-> t]
        /\ chain'["old"] = chain["old"]
      BY <2>0, <2>1, <2>2, EnqueueFacts
  <2>4. Block("current", n + 1)' = t.block BY <2>3 DEF Block
  <2>5. metered[t.block] = 0
    <3>1. metered[t.block] \in 0 .. 2 /\ ~(t.block <= last.block) BY <2>1, <1>t DEF Blocks
    <3>2. ~(metered[t.block] > 0) BY <3>1, <2>1, <1>m DEF MeteredBound
    <3> QED BY <3>1, <3>2
  <2>6. \A c \in Chains : \A i \in 1 .. Len(chain'[c]) :
           \/ c = "current" /\ i = n + 1
           \/ i \in 1 .. Len(chain[c]) /\ chain'[c][i] = chain[c][i]
                /\ Block(c, i)' = Block(c, i)
      BY <2>0, <2>3 DEF Chains, Block
  <2>7. \A c \in Chains : \A i \in 1 .. Len(chain[c]) :
           Block(c, i) \in Blocks /\ Block(c, i) <= last.block /\ Block(c, i) < t.block
    <3> SUFFICES ASSUME NEW c \in Chains, NEW i \in 1 .. Len(chain[c])
                 PROVE  /\ Block(c, i) \in Blocks
                        /\ Block(c, i) <= last.block /\ Block(c, i) < t.block
        OBVIOUS
    <3>1. Block(c, i) \in Blocks BY Positions
    <3>2. Block(c, i) <= last.block BY <1>m DEF QueueUnmetered
    <3> QED BY <3>1, <3>2, <2>1, <1>t DEF Blocks
  <2>8. QueueUnmetered'
    <3> SUFFICES ASSUME NEW c \in Chains, NEW i \in 1 .. Len(chain'[c])
                 PROVE  /\ chain'[c][i].kind = "block" /\ Block(c, i)' <= last'.block
                        /\ metered'[Block(c, i)'] = 0
        BY DEF QueueUnmetered
    <3>1. CASE c = "current" /\ i = n + 1
        BY <3>1, <2>2, <2>3, <2>4, <2>5, <2>1 DEF Blocks
    <3>2. CASE ~(c = "current" /\ i = n + 1)
      <4>1. i \in 1 .. Len(chain[c]) /\ chain'[c][i] = chain[c][i] /\ Block(c, i)' = Block(c, i)
          BY <3>2, <2>6
      <4>2. Block(c, i) < t.block /\ Block(c, i) \in Blocks BY <4>1, <2>7
      <4>3. chain[c][i].kind = "block" /\ metered[Block(c, i)] = 0
          BY <4>1, <1>m DEF QueueUnmetered
      <4> QED BY <4>1, <4>2, <4>3, <2>1, <2>2 DEF Blocks
    <3> QED BY <3>1, <3>2
  <2>9. QueueDistinct'
    <3> SUFFICES ASSUME NEW c \in Chains, NEW d \in Chains,
                        NEW i \in 1 .. Len(chain'[c]), NEW j \in 1 .. Len(chain'[d]),
                        Block(c, i)' = Block(d, j)'
                 PROVE  c = d /\ i = j
        BY DEF QueueDistinct
    <3>1. CASE (c = "current" /\ i = n + 1) /\ (d = "current" /\ j = n + 1) BY <3>1
    <3>2. CASE (c = "current" /\ i = n + 1) /\ ~(d = "current" /\ j = n + 1)
      <4>1. Block(c, i)' = t.block
        <5>1. chain'[c][i] = [kind |-> "block", cursor |-> t] BY <3>2, <2>3
        <5> QED BY <5>1 DEF Block
      <4>2. j \in 1 .. Len(chain[d]) /\ Block(d, j)' = Block(d, j) BY <3>2, <2>6
      <4>3. Block(d, j) < t.block /\ Block(d, j) \in Blocks BY <4>2, <2>7
      <4>4. Block(d, j) = t.block BY <4>1, <4>2
      <4> QED BY <4>3, <4>4 DEF Blocks
    <3>3. CASE ~(c = "current" /\ i = n + 1) /\ (d = "current" /\ j = n + 1)
      <4>1. Block(d, j)' = t.block
        <5>1. chain'[d][j] = [kind |-> "block", cursor |-> t] BY <3>3, <2>3
        <5> QED BY <5>1 DEF Block
      <4>2. i \in 1 .. Len(chain[c]) /\ Block(c, i)' = Block(c, i) BY <3>3, <2>6
      <4>3. Block(c, i) < t.block /\ Block(c, i) \in Blocks BY <4>2, <2>7
      <4>4. Block(c, i) = t.block BY <4>1, <4>2
      <4> QED BY <4>3, <4>4 DEF Blocks
    <3>4. CASE ~(c = "current" /\ i = n + 1) /\ ~(d = "current" /\ j = n + 1)
        BY <3>4, <2>6, <1>m DEF QueueDistinct
    <3> QED BY <3>1, <3>2, <3>3, <3>4
  <2>10. MeteredBound'
      BY <2>1, <2>2, <1>m, <1>t DEF MeteredBound, Blocks
  <2>11. ASSUME "fatal" \notin happened' PROVE OneChain'
    <3>1. OneChain BY <2>11, <1>s, <1>m
    <3>2. t.block > saved.cursor.block /\ saved'.cursor.block <= last'.block
        BY <3>1, <2>1, <2>2, <1>t DEF OneChain, Blocks
    <3>3. ASSUME NEW i \in 1 .. Len(chain'["current"])
          PROVE  /\ Block("current", i)' > saved'.cursor.block
                 /\ \A j \in 1 .. Len(chain'["current"]) :
                       i < j => Block("current", i)' < Block("current", j)'
      <4>1. CASE i = n + 1 BY <4>1, <3>2, <2>2, <2>3, <2>4
      <4>2. CASE i # n + 1
        <5>1. i \in 1 .. Len(chain["current"]) /\ Block("current", i)' = Block("current", i)
            BY <4>2, <2>0, <2>3 DEF Block
        <5>2. Block("current", i)' > saved'.cursor.block
            BY <5>1, <3>1, <2>2 DEF OneChain
        <5>3. ASSUME NEW j \in 1 .. Len(chain'["current"]), i < j
              PROVE  Block("current", i)' < Block("current", j)'
          <6>1. CASE j = n + 1 BY <6>1, <5>1, <2>4, <2>7 DEF Chains
          <6>2. CASE j # n + 1
            <7>1. j \in 1 .. Len(chain["current"]) /\ Block("current", j)' = Block("current", j)
                BY <6>2, <2>0, <2>3 DEF Block
            <7> QED BY <7>1, <5>1, <5>3, <3>1 DEF OneChain
          <6> QED BY <6>1, <6>2
        <5> QED BY <5>2, <5>3
      <4> QED BY <4>1, <4>2
    <3>4. chain'["old"] = <<>> BY <3>1, <2>3 DEF OneChain
    <3>5. \A b \in Blocks : metered'[b] > 0 => b <= saved'.cursor.block
        BY <3>1, <2>2 DEF OneChain
    <3> QED BY <3>2, <3>3, <3>4, <3>5 DEF OneChain
  <2> QED BY <2>8, <2>9, <2>10, <2>11 DEF MeterInv
<1>3. CASE UndoSignal BY <1>3 DEF UndoSignal, MeterScope, Without
<1>4. CASE AttemptEnds
  <2>1. UNCHANGED <<saved, last>>
    <3>1. CASE some BY <1>4, <3>1 DEF AttemptEnds
    <3>2. CASE ~some
      <4>1. "fresh" \notin happened' BY DEF MeterScope, Without
      <4> QED BY <1>0, <1>4, <3>2, <4>1, AttemptTyped DEF AttemptEnds
    <3> QED BY <3>1, <3>2
  <2>2. \A c \in Chains : chain'[c] = chain[c]
    <3>1. chain["old"] \in Seq(Task) /\ chain["current"] = <<>>
        BY <1>4 DEF AttemptEnds, Drained, TypeInv, TypeOK, Chains
    <3> QED BY <3>1, <1>4, ConcatEmptySeq DEF AttemptEnds, Chains
  <2>3. metered' = metered BY <1>4 DEF AttemptEnds
  <2> QED BY <2>1, <2>2, <2>3, <1>0, MeterSame
<1>5. CASE FatalError
  <2>1. "fatal" \in happened' BY <1>5 DEF FatalError, Caught
  <2>2. UNCHANGED <<saved, last, metered>>
    <3>1. "fresh" \notin happened' BY DEF MeterScope, Without
    <3> QED BY <3>1, <1>5 DEF FatalError, Caught
  <2>3. chain["old"] = <<>> /\ chain'["old"] = chain["current"] /\ chain'["current"] = <<>>
      BY <1>5 DEF FatalError
  <2>4. \A c \in Chains : \A i \in 1 .. Len(chain'[c]) :
           c = "old" /\ i \in 1 .. Len(chain["current"])
             /\ chain'[c][i] = chain["current"][i] /\ Block(c, i)' = Block("current", i)
      BY <2>3 DEF Chains, Block
  <2>5. QueueUnmetered' BY <2>2, <2>4, <1>m DEF QueueUnmetered, Chains
  <2>6. QueueDistinct'
    <3> SUFFICES ASSUME NEW c \in Chains, NEW d \in Chains,
                        NEW i \in 1 .. Len(chain'[c]), NEW j \in 1 .. Len(chain'[d]),
                        Block(c, i)' = Block(d, j)'
                 PROVE  c = d /\ i = j
        BY DEF QueueDistinct
    <3>1. /\ c = "old" /\ i \in 1 .. Len(chain["current"])
          /\ d = "old" /\ j \in 1 .. Len(chain["current"])
          /\ Block("current", i) = Block("current", j)
        BY <2>4
    <3>2. i = j BY <3>1, <1>m DEF QueueDistinct, Chains
    <3> QED BY <3>1, <3>2
  <2>7. MeteredBound' BY <2>2, <1>m DEF MeteredBound
  <2> QED BY <2>1, <2>5, <2>6, <2>7 DEF MeterInv
<1>6. CASE Restart
  <2>1. /\ last' = saved.cursor /\ UNCHANGED <<saved, metered>>
        /\ \A c \in Chains : chain'[c] = <<>> /\ 1 .. Len(chain'[c]) = {}
      BY <1>6 DEF Restart, Resumed, dbVars
  <2>2. "fatal" \notin happened BY <1>6, <1>s DEF Restart, MeterScope, Without
  <2>3. OneChain BY <2>2, <1>m
  <2>4. QueueUnmetered' /\ QueueDistinct' BY <2>1 DEF QueueUnmetered, QueueDistinct
  <2>5. MeteredBound' BY <2>1, <2>3, <1>m DEF MeteredBound, OneChain
  <2>6. OneChain' BY <2>1, <2>3, <1>t DEF OneChain, Chains
  <2> QED BY <2>4, <2>5, <2>6 DEF MeterInv
<1>7. CASE Handover BY <1>7 DEF Handover, MeterScope, Without
<1>8. ASSUME NEW c \in Chains, RunTask(c) PROVE MeterInv'
  <2>1. chain[c] # <<>> /\ UNCHANGED <<last, happened>> BY <1>8 DEF RunTask, loopVars
  <2>2. 1 \in 1 .. Len(chain[c]) /\ Head(chain[c]) = chain[c][1]
    <3>1. Len(chain[c]) \in Nat /\ Len(chain[c]) # 0 BY <2>1, Positions
    <3>2. chain[c] \in Seq(Task) BY DEF TypeInv, TypeOK
    <3> QED BY <3>1, <3>2
  <2> DEFINE b == Block(c, 1)
  <2>3. b \in Blocks /\ chain[c][1].kind = "block" /\ b <= last.block /\ metered[b] = 0
      BY <2>2, <1>m, Positions DEF QueueUnmetered
  <2>4. Done(c) /\ saved'.cursor = chain[c][1].cursor /\ saved'.cursor.block = b
        /\ (metered' = metered \/ metered' = [metered EXCEPT ![b] = Min({2, @ + 1})])
    <3>1. Done(c) /\ CommitBlock(c) BY <2>2, <2>3, <1>8 DEF RunTask
    <3> QED BY <3>1, <2>2 DEF CommitBlock, MeterOnce, Block
  <2>5. \A e \in Blocks : metered'[e] = metered[e] \/ (e = b /\ metered'[e] = 1)
    <3>1. metered[b] = 0 /\ Min({2, 0 + 1}) = 1 BY <2>3, MinOfTwo
    <3> QED BY <3>1, <2>3, <2>4, <1>t
  <2> HIDE DEF b
  <2>6. ASSUME NEW d \in Chains, NEW i \in 1 .. Len(chain'[d])
        PROVE  LET k == IF d = c THEN i + 1 ELSE i
               IN  /\ k \in 1 .. Len(chain[d]) /\ (d = c => k > 1)
                   /\ chain'[d][i] = chain[d][k] /\ Block(d, i)' = Block(d, k)
                   /\ Block(d, k) # b /\ Block(d, k) \in Blocks
    <3> DEFINE k == IF d = c THEN i + 1 ELSE i
    <3>1. /\ k \in 1 .. Len(chain[d]) /\ (d = c => k > 1)
          /\ chain'[d][i] = chain[d][k] /\ Block(d, i)' = Block(d, k)
        BY <2>1, <2>4, Shifted
    <3> HIDE DEF k
    <3>2. Block(d, k) = b => d = c /\ k = 1 BY <3>1, <2>2, <1>m DEF QueueDistinct, b
    <3>3. Block(d, k) \in Blocks BY <3>1, Positions
    <3>4. Block(d, k) # b BY <3>1, <3>2
    <3> QED BY <3>1, <3>3, <3>4 DEF k
  <2>7. QueueUnmetered'
    <3> SUFFICES ASSUME NEW d \in Chains, NEW i \in 1 .. Len(chain'[d])
                 PROVE  /\ chain'[d][i].kind = "block" /\ Block(d, i)' <= last'.block
                        /\ metered'[Block(d, i)'] = 0
        BY DEF QueueUnmetered
    <3> DEFINE k == IF d = c THEN i + 1 ELSE i
    <3>1. /\ k \in 1 .. Len(chain[d]) /\ chain'[d][i] = chain[d][k]
          /\ Block(d, i)' = Block(d, k) /\ Block(d, k) # b /\ Block(d, k) \in Blocks
        BY <2>6
    <3> HIDE DEF k
    <3>2. chain[d][k].kind = "block" /\ Block(d, k) <= last.block /\ metered[Block(d, k)] = 0
        BY <3>1, <1>m DEF QueueUnmetered
    <3> QED BY <3>1, <3>2, <2>1, <2>5
  <2>8. QueueDistinct'
    <3> SUFFICES ASSUME NEW d \in Chains, NEW e \in Chains,
                        NEW i \in 1 .. Len(chain'[d]), NEW j \in 1 .. Len(chain'[e]),
                        Block(d, i)' = Block(e, j)'
                 PROVE  d = e /\ i = j
        BY DEF QueueDistinct
    <3> DEFINE k == IF d = c THEN i + 1 ELSE i
               l == IF e = c THEN j + 1 ELSE j
    <3>1. k \in 1 .. Len(chain[d]) /\ Block(d, i)' = Block(d, k) BY <2>6
    <3>2. l \in 1 .. Len(chain[e]) /\ Block(e, j)' = Block(e, l) BY <2>6
    <3>3. d = e /\ k = l
      <4> HIDE DEF k, l
      <4> QED BY <3>1, <3>2, <1>m DEF QueueDistinct
    <3> QED BY <3>3
  <2>9. MeteredBound'
      BY <2>1, <2>3, <2>5, <1>m, <1>t DEF MeteredBound, b
  <2>10. ASSUME "fatal" \notin happened' PROVE OneChain'
    <3>1. OneChain BY <2>10, <1>s, <1>m
    <3>2. c = "current" /\ chain'["old"] = <<>>
      <4>1. c = "current" BY <3>1, <2>1 DEF OneChain, Chains
      <4> QED BY <4>1, <3>1, <2>1, <2>4, DoneFacts DEF OneChain, Chains
    <3>3. saved'.cursor.block = b /\ b <= last'.block BY <2>1, <2>3, <2>4
    <3>4. ASSUME NEW i \in 1 .. Len(chain'["current"])
          PROVE  /\ Block("current", i)' > saved'.cursor.block
                 /\ \A j \in 1 .. Len(chain'["current"]) :
                       i < j => Block("current", i)' < Block("current", j)'
      <4>1. i + 1 \in 1 .. Len(chain["current"]) /\ i + 1 > 1
              /\ Block("current", i)' = Block("current", i + 1)
          BY <3>2, <2>6
      <4>2. Block("current", 1) < Block("current", i + 1)
          BY <4>1, <3>1, <3>2, <2>2 DEF OneChain
      <4>3. Block("current", i)' > saved'.cursor.block
          BY <4>1, <4>2, <3>2, <3>3, <2>3, <2>6 DEF b, Blocks
      <4>4. ASSUME NEW j \in 1 .. Len(chain'["current"]), i < j
            PROVE  Block("current", i)' < Block("current", j)'
        <5>1. j + 1 \in 1 .. Len(chain["current"])
                /\ Block("current", j)' = Block("current", j + 1)
            BY <3>2, <2>6
        <5>2. i + 1 < j + 1 BY <4>4
        <5> QED BY <4>1, <5>1, <5>2, <3>1 DEF OneChain
      <4> QED BY <4>3, <4>4
    <3>5. ASSUME NEW e \in Blocks, metered'[e] > 0 PROVE e <= saved'.cursor.block
      <4>1. CASE e = b BY <4>1, <3>3 DEF Blocks
      <4>2. CASE e # b
        <5>1. e <= saved.cursor.block BY <4>2, <3>5, <2>5, <3>1 DEF OneChain
        <5>2. saved.cursor.block < b BY <3>1, <3>2, <2>2 DEF OneChain, b
        <5> QED BY <5>1, <5>2, <3>3, <2>3, <1>t DEF Blocks
      <4> QED BY <4>1, <4>2
    <3> QED BY <3>2, <3>3, <3>4, <3>5 DEF OneChain
  <2> QED BY <2>7, <2>8, <2>9, <2>10 DEF MeterInv
<1>9. ASSUME NEW c \in Chains, TaskFails(c) PROVE MeterInv'
  <2>1. chain[c] # <<>> /\ Done(c) /\ UNCHANGED <<saved, metered, last>>
      BY <1>9 DEF TaskFails, loopVars, dbVars
  <2>2. ASSUME NEW d \in Chains, NEW i \in 1 .. Len(chain'[d])
        PROVE  LET k == IF d = c THEN i + 1 ELSE i
               IN  /\ k \in 1 .. Len(chain[d])
                   /\ chain'[d][i] = chain[d][k] /\ Block(d, i)' = Block(d, k)
      BY <2>1, Shifted
  <2>3. QueueUnmetered'
    <3> SUFFICES ASSUME NEW d \in Chains, NEW i \in 1 .. Len(chain'[d])
                 PROVE  /\ chain'[d][i].kind = "block" /\ Block(d, i)' <= last'.block
                        /\ metered'[Block(d, i)'] = 0
        BY DEF QueueUnmetered
    <3> DEFINE k == IF d = c THEN i + 1 ELSE i
    <3>1. /\ k \in 1 .. Len(chain[d]) /\ chain'[d][i] = chain[d][k]
          /\ Block(d, i)' = Block(d, k)
        BY <2>2
    <3> HIDE DEF k
    <3> QED BY <3>1, <2>1, <1>m DEF QueueUnmetered
  <2>4. QueueDistinct'
    <3> SUFFICES ASSUME NEW d \in Chains, NEW e \in Chains,
                        NEW i \in 1 .. Len(chain'[d]), NEW j \in 1 .. Len(chain'[e]),
                        Block(d, i)' = Block(e, j)'
                 PROVE  d = e /\ i = j
        BY DEF QueueDistinct
    <3> DEFINE k == IF d = c THEN i + 1 ELSE i
               l == IF e = c THEN j + 1 ELSE j
    <3>1. k \in 1 .. Len(chain[d]) /\ Block(d, i)' = Block(d, k) BY <2>2
    <3>2. l \in 1 .. Len(chain[e]) /\ Block(e, j)' = Block(e, l) BY <2>2
    <3>3. d = e /\ k = l
      <4> HIDE DEF k, l
      <4> QED BY <3>1, <3>2, <1>m DEF QueueDistinct
    <3> QED BY <3>3
  <2>5. MeteredBound' BY <2>1, <1>m DEF MeteredBound
  <2>6. ASSUME "fatal" \notin happened' PROVE OneChain'
    <3>1. OneChain BY <2>6, <1>s, <1>m
    <3>2. c = "current" /\ chain'["old"] = <<>>
      <4>1. c = "current" BY <3>1, <2>1 DEF OneChain, Chains
      <4> QED BY <4>1, <3>1, <2>1, DoneFacts DEF OneChain, Chains
    <3>3. \A i \in 1 .. Len(chain'["current"]) :
             i + 1 \in 1 .. Len(chain["current"])
               /\ Block("current", i)' = Block("current", i + 1)
        BY <3>2, <2>2
    <3>4. ASSUME NEW i \in 1 .. Len(chain'["current"])
          PROVE  /\ Block("current", i)' > saved'.cursor.block
                 /\ \A j \in 1 .. Len(chain'["current"]) :
                       i < j => Block("current", i)' < Block("current", j)'
      <4>1. Block("current", i)' > saved'.cursor.block BY <3>1, <3>3, <2>1 DEF OneChain
      <4>2. ASSUME NEW j \in 1 .. Len(chain'["current"]), i < j
            PROVE  Block("current", i)' < Block("current", j)'
        <5>1. i + 1 < j + 1 BY <4>2
        <5> QED BY <5>1, <3>1, <3>3 DEF OneChain
      <4> QED BY <4>1, <4>2
    <3> QED BY <3>1, <3>2, <3>4, <2>1 DEF OneChain
  <2> QED BY <2>3, <2>4, <2>5, <2>6 DEF MeterInv
<1> QED BY <1>1, <1>2, <1>3, <1>4, <1>5, <1>6, <1>7, <1>8, <1>9 DEF Next

\* MeterInv is an invariant.
LEMMA MeterInvariant == Spec => []MeterInv
<1>1. TypeInv /\ TypeInv' /\ MeterInv /\ [Next]_vars => MeterInv' BY MeterNext
<1> QED BY <1>1, MeterInit, TypeInvariant, PTL DEF Spec

\* A block is metered at most once, across reconnects and crashes.
THEOREM BlocksAreMeteredOnce == Spec => []MeteredOnce
<1>1. MeterInv => MeteredOnce
    BY DEF MeterInv, MeterScope, MeteredOnce, MeteredBound
<1> QED BY <1>1, MeterInvariant, PTL

\* What a step may do to the cursor row and the meter while nothing but the write
\* chain of one process writes to them: the cursor never goes back, and a match
\* is counted only in the step that takes the cursor to its block.
Forward ==
    Without({"undo", "fresh", "fatal", "handover"})' =>
        /\ saved.cursor.block <= saved'.cursor.block
        /\ \A b \in Blocks : metered[b] # metered'[b] =>
              saved.cursor.block < b /\ b = saved'.cursor.block

\* A step leaves both alone, or commits the first block of the chain.
LEMMA StepGoesForward == TypeInv /\ MeterInv /\ Next => Forward
<1> SUFFICES ASSUME TypeInv, MeterInv, Next, Without({"undo", "fresh", "fatal", "handover"})'
             PROVE  /\ saved.cursor.block <= saved'.cursor.block
                    /\ \A b \in Blocks : metered[b] # metered'[b] =>
                          saved.cursor.block < b /\ b = saved'.cursor.block
    BY DEF Forward
<1>0. Typed /\ happened \subseteq happened' BY TypeParts, HappenedGrows
<1>s. \A k \in {"undo", "fresh", "fatal", "handover"} : k \notin happened' /\ k \notin happened
    BY <1>0 DEF Without
<1>m. OneChain /\ QueueUnmetered BY <1>s DEF MeterInv, MeterScope, Without
<1>t. saved.cursor.block \in 0 .. MaxBlock /\ metered \in [Blocks -> 0 .. 2]
    BY <1>0 DEF Typed, Issued, Cursors, Blocks
<1>1. CASE \/ NewBlock \/ Connect \/ Deliver \/ Close \/ Restart \/ Retention
           \/ \E p \in Blocks : Reorg(p)
           \/ \E c \in Chains : TaskFails(c)
  <2>1. UNCHANGED <<saved, metered>>
      BY <1>1 DEF NewBlock, Connect, Deliver, Close, Restart, Retention, Reorg, TaskFails,
                  dbVars
  <2> QED BY <2>1, <1>t
<1>2. CASE UndoSignal BY <1>2, <1>s DEF UndoSignal
<1>3. CASE FatalError BY <1>3, <1>s DEF FatalError, Caught
<1>4. CASE Handover BY <1>4, <1>s DEF Handover
<1>5. CASE AttemptEnds
  <2>1. UNCHANGED <<saved, metered>>
    <3>1. CASE some BY <1>5, <3>1 DEF AttemptEnds
    <3>2. CASE ~some BY <1>0, <1>s, <1>5, <3>2, AttemptTyped DEF AttemptEnds
    <3> QED BY <3>1, <3>2
  <2> QED BY <2>1, <1>t
<1>6. ASSUME NEW c \in Chains, RunTask(c)
      PROVE  /\ saved.cursor.block <= saved'.cursor.block
             /\ \A b \in Blocks : metered[b] # metered'[b] =>
                   saved.cursor.block < b /\ b = saved'.cursor.block
  <2>1. 1 \in 1 .. Len(chain[c]) /\ Head(chain[c]) = chain[c][1]
    <3>1. chain[c] # <<>> BY <1>6 DEF RunTask
    <3>2. Len(chain[c]) \in Nat /\ Len(chain[c]) # 0 BY <3>1, Positions
    <3>3. chain[c] \in Seq(Task) BY DEF TypeInv, TypeOK
    <3> QED BY <3>2, <3>3
  <2>2. c = "current"
    <3>1. chain["old"] = <<>> BY <1>m DEF OneChain
    <3> QED BY <3>1, <1>6 DEF RunTask, Chains
  <2>3. /\ chain[c][1].kind = "block" /\ Block(c, 1) \in Blocks
        /\ saved.cursor.block < Block(c, 1)
      BY <2>1, <2>2, <1>m, Positions DEF QueueUnmetered, OneChain
  <2>4. CommitBlock(c) BY <2>1, <2>3, <1>6 DEF RunTask
  <2>5. /\ saved'.cursor.block = Block(c, 1)
        /\ (metered' = metered \/ metered' = [metered EXCEPT ![Block(c, 1)] = Min({2, @ + 1})])
      BY <2>1, <2>4 DEF CommitBlock, MeterOnce, Block
  <2>6. \A b \in Blocks : metered[b] # metered'[b] => b = Block(c, 1)
      BY <2>5, <1>t
  <2> QED BY <2>3, <2>5, <2>6, <1>t DEF Blocks
<1> QED BY <1>1, <1>2, <1>3, <1>4, <1>5, <1>6 DEF Next

\* The cursor row never goes back and a match is counted only as the cursor reaches
\* its block (meterAndCommit is one transaction), until an undo, a wiped cursor,
\* a chain left behind or a successor has written to them.
THEOREM CursorGoesForward == Spec => [][Forward]_vars
<1>1. TypeInv /\ MeterInv /\ [Next]_vars => [Forward]_vars BY StepGoesForward
<1> QED BY <1>1, TypeInvariant, MeterInvariant, PTL DEF Spec
-----------------------------------------------------------------------------
(* No row of a replaced block is left behind.                              *)

\* A cursor is stale when its block has a newer version.
LEMMA StaleVersion ==
  ASSUME TypeInv, NEW r \in Issued
  PROVE  /\ r.block \in Blocks /\ r.version \in 0 .. faults
         /\ r.version <= version[r.block] /\ version[r.block] \in 0 .. faults
         /\ r # NoCursor
         /\ Stale(r) <=> r.version < version[r.block]
<1>1. /\ r \in Cursors /\ r.block \in Blocks /\ r.version \in Nat
      /\ r.version <= version[r.block]
    BY DEF Issued, Cursors, Versions
<1>2. version[r.block] \in 0 .. faults BY <1>1 DEF TypeInv, TypeOK, Versions
<1>3. r = [block |-> r.block, version |-> r.version] BY <1>1 DEF Cursors
<1>4. r # NoCursor BY <1>1 DEF Blocks
<1>5. Stale(r) <=> r.version # version[r.block] BY <1>3, <1>4 DEF Stale, Cursor
<1>6. faults \in Nat BY DEF TypeInv, TypeOK
<1> QED BY <1>1, <1>2, <1>4, <1>5, <1>6

\* A cursor that was just issued is not stale.
LEMMA CurrentIsFresh == ASSUME NEW b PROVE ~Stale(Cursor(b))
BY DEF Stale, Cursor

\* A reorganisation makes stale what lies above it, and nothing valid again.
LEMMA ReorgFacts ==
  ASSUME TypeInv, TypeInv', NEW p \in Blocks, Reorg(p), NEW r \in Issued
  PROVE  /\ r \in Issued' /\ faults' = faults + 1
         /\ Stale(r)' <=> r.block > p \/ Stale(r)
<1>0. Typed BY TypeParts
<1>1. faults' = faults + 1 /\ faults \in Nat BY <1>0, FaultCounts DEF Reorg, Typed
<1>2. version' = [b \in Blocks |-> IF b > p THEN faults' ELSE version[b]]
    BY DEF Reorg
<1>3. /\ r.block \in Blocks /\ r.version \in 0 .. faults
      /\ r.version <= version[r.block] /\ version[r.block] \in 0 .. faults
      /\ Stale(r) <=> r.version < version[r.block]
    BY StaleVersion
<1>4. version'[r.block] = IF r.block > p THEN faults' ELSE version[r.block]
    BY <1>2, <1>3
<1>5. r \in Issued'
    BY <1>1, <1>3, <1>4 DEF Issued, Blocks
<1>6. Stale(r)' <=> r.version < version'[r.block]
  <2>1. (TypeInv /\ r \in Issued => (Stale(r) <=> r.version < version[r.block]))'
    <3>1. TypeInv /\ r \in Issued => (Stale(r) <=> r.version < version[r.block])
        BY StaleVersion
    <3> QED BY <1>5, StaleVersion, PTL
  <2> QED BY <2>1, <1>5
<1> QED BY <1>1, <1>3, <1>4, <1>5, <1>6 DEF Blocks

\* UndoInv holds initially.
LEMMA UndoInit == Init => UndoInv
<1> SUFFICES ASSUME Init PROVE UndoInv OBVIOUS
<1>1. chain["old"] = <<>> /\ chain["current"] = <<>> /\ 1 .. Len(chain["current"]) = {}
        /\ captured = {}
    BY DEF Init, Chains
<1> QED BY <1>1 DEF UndoInv, PruneFirst, QueueLive, RowsLive

\* Nothing the invariant is about has changed, except that rows may have gone.
LEMMA UndoSame ==
  ASSUME UndoInv, happened \subseteq happened', captured' \subseteq captured,
         UndoScope' => UNCHANGED <<saved, last, version>>
                       /\ \A c \in Chains : chain'[c] = chain[c]
  PROVE  UndoInv'
<1> SUFFICES ASSUME UndoScope' PROVE UndoInv' BY DEF UndoInv
<1>1. UndoScope BY DEF UndoScope, Without
<1>2. chain'["old"] = chain["old"] /\ chain'["current"] = chain["current"] BY DEF Chains
<1>3. saved' = saved /\ last' = last /\ version' = version OBVIOUS
<1>4. PruneFirst => PruneFirst' BY <1>2, <1>3 DEF PruneFirst
<1>5. ASSUME NEW r PROVE Live(r)' <=> Live(r) BY <1>3 DEF Live, Stale, Cursor
<1>6. QueueLive => QueueLive'
  <2> SUFFICES ASSUME QueueLive, NEW i \in 1 .. Len(chain'["current"]),
                      AllBlocks(i, Len(chain["current"]))'
               PROVE  Live(chain["current"][i].cursor)'
      BY DEF QueueLive
  <2>1. Live(chain["current"][i].cursor) BY <1>2 DEF QueueLive, AllBlocks
  <2> QED BY <2>1, <1>2, <1>3 DEF Live, Stale, Cursor
<1>7. RowsLive => RowsLive'
    BY <1>2, <1>5 DEF RowsLive, AllBlocks
<1> QED BY <1>1, <1>2, <1>4, <1>6, <1>7 DEF UndoInv

\* UndoInv across a step.
LEMMA UndoNext == TypeInv /\ TypeInv' /\ UndoInv /\ [Next]_vars => UndoInv'
<1> SUFFICES ASSUME TypeInv, TypeInv', UndoInv, [Next]_vars, UndoScope' PROVE UndoInv'
    BY DEF UndoInv
<1>0. Typed /\ happened \subseteq happened' BY TypeParts, HappenedGrows
<1>u. /\ "fresh" \notin happened' /\ chain["old"] = <<>>
      /\ PruneFirst /\ QueueLive /\ RowsLive
    BY <1>0 DEF UndoInv, UndoScope, Without
<1>c. captured \subseteq Issued /\ \A i \in 1 .. Len(chain["current"]) :
         chain["current"][i].cursor \in Issued
    BY <1>0, Positions DEF Typed, Chains
<1>1. CASE UNCHANGED vars \/ NewBlock \/ Connect \/ Close \/ Retention
  <2>1. UNCHANGED <<saved, last, version, chain>> /\ captured' \subseteq captured
      BY <1>1 DEF vars, dbVars, loopVars, NewBlock, Connect, Close, Retention
  <2> QED BY <2>1, <1>0, UndoSame
<1>2. CASE Deliver
  <2>t. PICK t : t = Cursor(NextBlock) OBVIOUS
  <2>0. PICK n \in Nat : n = Len(chain["current"]) BY Positions DEF Chains
  <2>1. /\ t \in Issued /\ t \in Cursors /\ t.block \in Blocks /\ t.block > last.block
        /\ last.block \in 0 .. MaxBlock /\ ~Stale(t) /\ ~Stale(last)
    <3>1. /\ Cursor(NextBlock) \in Issued /\ NextBlock \in Blocks /\ NextBlock > last.block
          /\ last.block \in 0 .. MaxBlock
        BY <1>2, NextBlockIsNew DEF Deliver
    <3> QED BY <2>t, <3>1, <1>2, CurrentIsFresh DEF Issued, Cursor, Deliver
  <2>2. last' = t /\ Enqueue("block", t) /\ UNCHANGED <<saved, captured, version>>
      BY <2>t, <1>2 DEF Deliver, dbVars
  <2>3. /\ Len(chain'["current"]) = n + 1
        /\ \A i \in 1 .. n : chain'["current"][i] = chain["current"][i]
        /\ chain'["current"][n + 1] = [kind |-> "block", cursor |-> t]
        /\ chain'["old"] = chain["old"]
      BY <2>0, <2>1, <2>2, EnqueueFacts
  <2>4. ASSUME NEW r \in Issued, Live(r) PROVE Live(r)'
    <3>1. r.block \in Blocks /\ r.block <= last.block /\ ~Stale(r)
        BY <2>1, <2>4, StaleVersion DEF Live
    <3>2. ~Stale(r)' BY <3>1, <2>2 DEF Stale, Cursor
    <3> QED BY <3>1, <3>2, <2>1, <2>2 DEF Live, Blocks
  <2>5. PruneFirst' BY <2>0, <2>2, <2>3, <1>u DEF PruneFirst
  <2>6. ASSUME NEW i \in 1 .. Len(chain["current"]),
               AllBlocks(i, Len(chain["current"]))'
        PROVE  AllBlocks(i, Len(chain["current"]))
    <3> SUFFICES ASSUME NEW k \in i .. n PROVE chain["current"][k].kind = "block"
        BY <2>0 DEF AllBlocks
    <3>1. k \in i .. n + 1 /\ chain'["current"][k] = chain["current"][k]
        BY <2>0, <2>3
    <3> QED BY <3>1, <2>3, <2>6 DEF AllBlocks
  <2>7. QueueLive'
    <3> SUFFICES ASSUME NEW i \in 1 .. Len(chain'["current"]),
                        AllBlocks(i, Len(chain["current"]))'
                 PROVE  Live(chain["current"][i].cursor)'
        BY DEF QueueLive
    <3>1. CASE i = n + 1
      <4>1. chain'["current"][i].cursor = t BY <3>1, <2>3
      <4>2. Live(t)' BY <2>1, <2>2 DEF Live, Stale, Cursor, Blocks
      <4> QED BY <4>1, <4>2 DEF Live
    <3>2. CASE i # n + 1
      <4>1. i \in 1 .. Len(chain["current"]) /\ chain'["current"][i] = chain["current"][i]
          BY <3>2, <2>0, <2>3
      <4>2. PICK r \in Issued : r = chain["current"][i].cursor BY <4>1, <1>c
      <4>3. Live(r) BY <4>1, <4>2, <2>6, <1>u DEF QueueLive
      <4>4. Live(r)' /\ chain'["current"][i].cursor = r BY <4>1, <4>2, <4>3, <2>4
      <4> QED BY <4>4 DEF Live
    <3> QED BY <3>1, <3>2
  <2>8. RowsLive'
    <3> SUFFICES ASSUME AllBlocks(1, Len(chain["current"]))', NEW r \in captured
                 PROVE  Live(r)'
        BY <2>2 DEF RowsLive
    <3>1. AllBlocks(1, Len(chain["current"]))
      <4>1. CASE n = 0 BY <4>1, <2>0 DEF AllBlocks
      <4>2. CASE n # 0
        <5>1. 1 \in 1 .. Len(chain["current"]) BY <4>2, <2>0
        <5> QED BY <5>1, <2>6
      <4> QED BY <4>1, <4>2
    <3>2. Live(r) /\ r \in Issued BY <3>1, <1>u, <1>c DEF RowsLive
    <3> QED BY <3>2, <2>4
  <2> QED BY <2>3, <2>5, <2>7, <2>8, <1>u DEF UndoInv
<1>3. CASE UndoSignal
  <2> DEFINE t == Cursor(LastValid(last))
  <2>0. PICK n \in Nat : n = Len(chain["current"]) BY Positions DEF Chains
  <2>1. t \in Cursors
    <3>1. last # NoCursor BY <1>3 DEF UndoSignal, Stale
    <3> QED BY <3>1, <1>3, LastValidExists DEF UndoSignal, Issued
  <2>2. Enqueue("undo", t) /\ UNCHANGED saved BY <1>3 DEF UndoSignal, dbVars
  <2> HIDE DEF t
  <2>3. /\ Len(chain'["current"]) = n + 1
        /\ \A i \in 1 .. n : chain'["current"][i] = chain["current"][i]
        /\ chain'["current"][n + 1] = [kind |-> "undo", cursor |-> t]
        /\ chain'["old"] = chain["old"]
      BY <2>0, <2>1, <2>2, EnqueueFacts
  <2>4. \A i \in 1 .. n + 1 : ~AllBlocks(i, Len(chain["current"]))'
      BY <2>0, <2>3 DEF AllBlocks
  <2>5. PruneFirst' BY <2>0, <2>2, <2>3, <1>u DEF PruneFirst
  <2>6. QueueLive'
    <3> SUFFICES ASSUME NEW i \in 1 .. Len(chain'["current"])
                 PROVE  ~AllBlocks(i, Len(chain["current"]))'
        BY DEF QueueLive
    <3> QED BY <2>3, <2>4
  <2>7. RowsLive' BY <2>0, <2>4 DEF RowsLive
  <2> QED BY <2>3, <2>5, <2>6, <2>7, <1>u DEF UndoInv
<1>4. CASE AttemptEnds
  <2>1. UNCHANGED <<saved, last>>
    <3>1. CASE some BY <1>4, <3>1 DEF AttemptEnds
    <3>2. CASE ~some BY <1>0, <1>u, <1>4, <3>2, AttemptTyped DEF AttemptEnds
    <3> QED BY <3>1, <3>2
  <2>2. \A c \in Chains : chain'[c] = chain[c]
    <3>1. chain["old"] \in Seq(Task) /\ chain["current"] = <<>>
        BY <1>4 DEF AttemptEnds, Drained, TypeInv, TypeOK, Chains
    <3> QED BY <3>1, <1>4, ConcatEmptySeq DEF AttemptEnds, Chains
  <2>3. UNCHANGED <<captured, version>> BY <1>4 DEF AttemptEnds
  <2> QED BY <2>1, <2>2, <2>3, <1>0, UndoSame
<1>5. CASE FatalError BY <1>5 DEF FatalError, Caught, UndoScope, Without
<1>6. CASE Restart BY <1>6 DEF Restart, UndoScope, Without
<1>7. CASE Handover BY <1>7 DEF Handover, UndoScope, Without
<1>8. ASSUME NEW p \in Blocks, Reorg(p) PROVE UndoInv'
  <2>1. UNCHANGED <<saved, last, chain, captured>> BY <1>8 DEF Reorg, dbVars, loopVars
  <2>2. ASSUME NEW r \in Issued, Live(r) PROVE Live(r)'
    <3>1. CASE Stale(r)'
      <4>1. r.block \in Blocks /\ r.block <= last.block /\ (r.block > p \/ Stale(r))
          BY <3>1, <2>2, <1>8, StaleVersion, ReorgFacts DEF Live
      <4>2. last \in Issued
        <5>1. last # NoCursor BY <4>1 DEF Blocks
        <5> QED BY <5>1 DEF TypeInv
      <4>3. last.block \in Blocks BY <4>2, StaleVersion
      <4>4. last.block > p \/ Stale(last) BY <4>1, <4>3, <2>2 DEF Live, Blocks
      <4>5. Stale(last)'
        <5>1. PICK l \in Issued : l = last BY <4>2
        <5>2. Stale(l)' BY <5>1, <4>4, <1>8, ReorgFacts
        <5> QED BY <5>1, <5>2, <2>1 DEF Stale, Cursor
      <4> QED BY <4>1, <4>5, <2>1 DEF Live
    <3>2. CASE ~Stale(r)' BY <3>2, <2>1, <2>2 DEF Live
    <3> QED BY <3>1, <3>2
  <2>3. PruneFirst' BY <2>1, <1>u DEF PruneFirst
  <2>4. QueueLive'
    <3> SUFFICES ASSUME NEW i \in 1 .. Len(chain["current"]),
                        AllBlocks(i, Len(chain["current"]))
                 PROVE  Live(chain["current"][i].cursor)'
        BY <2>1 DEF QueueLive, AllBlocks
    <3>1. PICK r \in Issued : r = chain["current"][i].cursor BY <1>c
    <3>2. Live(r)' BY <3>1, <2>2, <1>u DEF QueueLive
    <3> QED BY <3>1, <3>2, <2>1 DEF Live
  <2>5. RowsLive' BY <2>1, <2>2, <1>u, <1>c DEF RowsLive, AllBlocks
  <2> QED BY <2>1, <2>3, <2>4, <2>5, <1>u DEF UndoInv
<1>9. ASSUME NEW c \in Chains, RunTask(c) PROVE UndoInv'
  <2>1. chain[c] # <<>> /\ UNCHANGED <<last, version>> BY <1>9 DEF RunTask, loopVars
  <2>2. c = "current" BY <2>1, <1>u DEF Chains
  <2>3. PICK n \in Nat : n = Len(chain["current"]) /\ n >= 1
      BY <2>1, <2>2, Positions
  <2>4. /\ chain["current"][1] \in Task /\ Head(chain["current"]) = chain["current"][1]
        /\ chain["current"][1].cursor \in Issued
    <3>1. chain["current"] \in Seq(Task) BY DEF TypeInv, TypeOK, Chains
    <3> QED BY <3>1, <2>3, <1>c, ElementOfSeq
  <2>5. ASSUME NEW r PROVE Live(r)' <=> Live(r) BY <2>1 DEF Live, Stale, Cursor
  <2>6. ASSUME Done("current")
        PROVE  /\ chain'["old"] = <<>> /\ Len(chain'["current"]) = n - 1
               /\ \A i \in 1 .. n - 1 : chain'["current"][i] = chain["current"][i + 1]
               /\ \A i \in 1 .. n : AllBlocks(i, Len(chain["current"]))'
                     => AllBlocks(i + 1, Len(chain["current"]))
               /\ QueueLive' /\ \A i \in 1 .. n - 1 : chain'["current"][i].kind # "prune"
    <3>1. /\ chain'["old"] = <<>> /\ Len(chain'["current"]) = n - 1
          /\ \A i \in 1 .. n - 1 : chain'["current"][i] = chain["current"][i + 1]
        BY <2>1, <2>2, <2>3, <2>6, <1>u, DoneFacts DEF Chains
    <3>2. ASSUME NEW i \in 1 .. n, AllBlocks(i, Len(chain["current"]))'
          PROVE  AllBlocks(i + 1, Len(chain["current"]))
      <4> SUFFICES ASSUME NEW k \in i + 1 .. n PROVE chain["current"][k].kind = "block"
          BY <2>3 DEF AllBlocks
      <4>1. k - 1 \in i .. n - 1 /\ k - 1 \in 1 .. n - 1 OBVIOUS
      <4>2. chain'["current"][k - 1].kind = "block" BY <4>1, <3>1, <3>2 DEF AllBlocks
      <4>3. chain'["current"][k - 1] = chain["current"][(k - 1) + 1] BY <4>1, <3>1
      <4> QED BY <4>2, <4>3
    <3>3. QueueLive'
      <4> SUFFICES ASSUME NEW i \in 1 .. n - 1, AllBlocks(i, Len(chain["current"]))'
                   PROVE  Live(chain["current"][i].cursor)'
          BY <3>1 DEF QueueLive
      <4>1. i + 1 \in 1 .. Len(chain["current"]) /\ i \in 1 .. n BY <2>3
      <4>2. AllBlocks(i + 1, Len(chain["current"])) BY <4>1, <3>2
      <4>3. Live(chain["current"][i + 1].cursor) BY <4>1, <4>2, <1>u DEF QueueLive
      <4>4. chain'["current"][i] = chain["current"][i + 1] BY <3>1
      <4> QED BY <4>3, <4>4, <2>1 DEF Live, Stale, Cursor
    <3>4. \A i \in 1 .. n - 1 : chain'["current"][i].kind # "prune"
      <4> SUFFICES ASSUME NEW i \in 1 .. n - 1
                   PROVE  chain["current"][i + 1].kind # "prune"
          BY <3>1
      <4>1. i + 1 \in 1 .. Len(chain["current"]) /\ i + 1 # 1 BY <2>3
      <4> QED BY <4>1, <1>u DEF PruneFirst
    <3> QED BY <3>1, <3>2, <3>3, <3>4
  <2>7. CASE chain["current"][1].kind = "block"
    <3>1. Done("current") /\ CommitBlock("current")
        BY <2>7, <2>2, <2>4, <1>9 DEF RunTask
    <3>2. captured' \subseteq captured \cup {chain["current"][1].cursor}
        BY <3>1, <2>4 DEF CommitBlock, Capture
    <3>3. PruneFirst' BY <3>1, <2>6 DEF PruneFirst
    <3>4. RowsLive'
      <4> SUFFICES ASSUME AllBlocks(1, Len(chain["current"]))', NEW r \in captured'
                   PROVE  Live(r)'
          BY DEF RowsLive
      <4>1. AllBlocks(1, Len(chain["current"]))
        <5>1. AllBlocks(1 + 1, Len(chain["current"])) BY <3>1, <2>3, <2>6
        <5> QED BY <5>1, <2>3, <2>7 DEF AllBlocks
      <4>2. CASE r \in captured BY <4>1, <4>2, <2>5, <1>u DEF RowsLive
      <4>3. CASE r = chain["current"][1].cursor
        <5>1. 1 \in 1 .. Len(chain["current"]) BY <2>3
        <5>2. Live(r) BY <5>1, <4>1, <4>3, <1>u DEF QueueLive
        <5> QED BY <5>2, <2>5
      <4> QED BY <4>2, <4>3, <3>2
    <3> QED BY <3>1, <3>3, <3>4, <2>6 DEF UndoInv
  <2>8. CASE chain["current"][1].kind = "undo"
    <3>1. /\ chain' = [chain EXCEPT !["current"][1].kind = "prune"]
          /\ saved' = [cursor |-> chain["current"][1].cursor, blockNum |-> 0]
        BY <2>8, <2>2, <2>4, <1>9 DEF RunTask
    <3>2. /\ Len(chain'["current"]) = n
          /\ chain'["current"][1].kind = "prune"
          /\ \A i \in 2 .. n : chain'["current"][i] = chain["current"][i]
          /\ chain'["old"] = <<>>
        BY <3>1, <2>1, <2>2, <2>3, <1>u, UndoFacts DEF Chains
    <3>3. PruneFirst'
      <4>1. saved'.cursor # NoCursor /\ saved'.blockNum = 0
          BY <3>1, <2>4, StaleVersion
      <4>2. \A i \in 2 .. n : chain'["current"][i].kind # "prune"
          BY <3>2, <2>3, <1>u DEF PruneFirst
      <4> QED BY <4>1, <4>2, <3>2, <2>3 DEF PruneFirst
    <3>4. ~AllBlocks(1, Len(chain["current"]))' BY <3>2, <2>3 DEF AllBlocks
    <3>5. QueueLive'
      <4> SUFFICES ASSUME NEW i \in 1 .. n, AllBlocks(i, Len(chain["current"]))'
                   PROVE  Live(chain["current"][i].cursor)'
          BY <3>2 DEF QueueLive
      <4>1. i \in 2 .. n BY <3>4
      <4>2. AllBlocks(i, Len(chain["current"])) BY <4>1, <3>2, <2>3 DEF AllBlocks
      <4>3. Live(chain["current"][i].cursor) BY <4>2, <2>3, <1>u DEF QueueLive
      <4>4. chain'["current"][i] = chain["current"][i] BY <4>1, <3>2
      <4> QED BY <4>3, <4>4, <2>1 DEF Live, Stale, Cursor
    <3>6. RowsLive' BY <3>4 DEF RowsLive
    <3> QED BY <3>2, <3>3, <3>5, <3>6 DEF UndoInv
  <2>9. CASE chain["current"][1].kind = "prune"
    <3>1. Done("current") /\ captured' = Pruned
        BY <2>9, <2>2, <2>4, <1>9 DEF RunTask
    <3>2. saved.cursor # NoCursor /\ saved.blockNum = 0
        BY <2>3, <2>9, <1>u DEF PruneFirst
    <3>3. captured' = {}
      <4>1. saved # NoRow BY <3>2, NoRowTyped
      <4>2. \A r \in captured : ~(r.block <= saved.blockNum)
          BY <3>2, <1>c, StaleVersion DEF Blocks
      <4> QED BY <4>1, <4>2, <3>1 DEF Pruned
    <3>4. PruneFirst' BY <3>1, <2>6 DEF PruneFirst
    <3>5. RowsLive' BY <3>3 DEF RowsLive
    <3> QED BY <3>1, <3>4, <3>5, <2>6 DEF UndoInv
  <2> QED BY <2>4, <2>7, <2>8, <2>9 DEF Task
<1>10. ASSUME NEW c \in Chains, TaskFails(c) PROVE UndoInv'
    BY <1>10 DEF TaskFails, UndoScope, Without
<1> QED BY <1>1, <1>2, <1>3, <1>4, <1>5, <1>6, <1>7, <1>8, <1>9, <1>10 DEF Next

\* Once the chain is drained the lookback serves no row of a replaced block.
THEOREM RowsAreCurrent == Spec => []NoStaleRowIsServed
<1>1. UndoInv => NoStaleRowIsServed
  <2> SUFFICES ASSUME UndoInv, Drained, ~Stale(last), UndoScope, NEW r \in captured
               PROVE  ~Stale(r)
      BY DEF NoStaleRowIsServed, UndoScope
  <2>1. AllBlocks(1, Len(chain["current"])) BY DEF Drained, AllBlocks
  <2> QED BY <2>1 DEF UndoInv, RowsLive, Live
<1>2. Spec => []UndoInv
  <2>1. TypeInv /\ TypeInv' /\ UndoInv /\ [Next]_vars => UndoInv' BY UndoNext
  <2> QED BY <2>1, UndoInit, TypeInvariant, PTL DEF Spec
<1> QED BY <1>1, <1>2, PTL
-----------------------------------------------------------------------------
(* The saved cursor covers what was captured.                              *)

\* What is covered stays covered while rows are only aged, counts only grow, and
\* nothing valid is delivered below the bound.
LEMMA CoveredKept ==
  ASSUME NEW n, Covered(n),
         \A r \in delivered' : r.block <= n /\ ~Stale(r)' => r \in delivered /\ ~Stale(r),
         \A r \in captured : r \in captured' \/ r.block <= aged',
         \A r \in delivered' : r.block <= aged => r.block <= aged',
         \A r \in delivered' : metered[r.block] > 0 => metered'[r.block] > 0
  PROVE  Covered(n)'
<1> SUFFICES ASSUME NEW r \in delivered', r.block <= n, ~Stale(r)', r.block \notin Quiet
             PROVE  (r \in captured' \/ r.block <= aged') /\ metered'[r.block] > 0
    BY DEF Covered
<1>1. r \in delivered /\ ~Stale(r) OBVIOUS
<1>2. (r \in captured \/ r.block <= aged) /\ metered[r.block] > 0 BY <1>1 DEF Covered
<1> QED BY <1>2

\* CoverInv holds initially.
LEMMA CoverInit == Init => CoverInv
<1> SUFFICES ASSUME Init PROVE CoverInv OBVIOUS
<1>1. \A c \in Chains : chain[c] = <<>> /\ 1 .. Len(chain[c]) = {}
    BY DEF Init, Chains
<1>2. saved.cursor = NoCursor /\ saved.blockNum = 0 /\ last = NoCursor /\ delivered = {}
    BY NoRowTyped DEF Init
<1> QED BY <1>1, <1>2
        DEF CoverInv, CoverParts, EndsDelivered, ChainIsRun, ChainMeetsCursor, CoveredBehind,
            DeliveredInterval, ChainAhead, Covered, Chains

\* The chains, the cursors and what was delivered are as before, and what was
\* covered still is.
LEMMA CoverSame ==
  ASSUME TypeInv, CoverInv, happened \subseteq happened',
         CoverScope' => /\ CoverScope /\ UNCHANGED <<saved, last, delivered>>
                        /\ \A c \in Chains : chain'[c] = chain[c]
                        /\ \A n \in 0 .. MaxBlock : Covered(n) => Covered(n)'
  PROVE  CoverInv'
<1> SUFFICES ASSUME CoverScope' PROVE CoverInv' BY DEF CoverInv
<1>1. /\ EndsDelivered /\ ChainIsRun /\ ChainMeetsCursor /\ CoveredBehind
      /\ DeliveredInterval /\ ("handover" \notin happened' => ChainAhead)
    BY DEF CoverInv, CoverParts
<1>2. "old" \in Chains /\ "current" \in Chains BY DEF Chains
<1>3. \A c \in Chains : chain'[c] = chain[c] OBVIOUS
<1>4. saved' = saved /\ last' = last /\ delivered' = delivered OBVIOUS
<1>5. EndsDelivered' /\ DeliveredInterval'
    BY <1>1, <1>4 DEF EndsDelivered, DeliveredInterval
<1>6. ChainIsRun' BY <1>1, <1>3, <1>4 DEF ChainIsRun, Block
<1>7. ChainMeetsCursor' BY <1>1, <1>2, <1>3, <1>4 DEF ChainMeetsCursor, Block
<1>8. ChainAhead => ChainAhead' BY <1>2, <1>3, <1>4 DEF ChainAhead, Block
<1>9. CoveredBehind'
  <2>1. ASSUME NEW c \in Chains, chain'[c] # <<>> PROVE Covered(Block(c, 1) - 1)'
    <3>1. PICK n \in Int : n = Block(c, 1) - 1 /\ n \in 0 .. MaxBlock
      <4>1. Len(chain[c]) \in Nat /\ Len(chain[c]) # 0 BY <2>1, <1>3, Positions
      <4>2. Block(c, 1) \in Blocks BY <4>1, Positions
      <4> QED BY <4>2 DEF Blocks
    <3>2. Covered(n) BY <3>1, <2>1, <1>1, <1>3 DEF CoveredBehind
    <3>3. Covered(n)' BY <3>1, <3>2
    <3>4. Block(c, 1)' - 1 = n BY <3>1, <1>3 DEF Block
    <3> QED BY <3>3, <3>4 DEF Covered
  <2>2. last.block \in 0 .. MaxBlock /\ saved.cursor.block \in 0 .. MaxBlock
      BY DEF TypeInv, Issued, Cursors, Blocks
  <2>3. ASSUME chain'["current"] = <<>> PROVE Covered(last.block)'
    <3>1. PICK n \in 0 .. MaxBlock : n = last.block BY <2>2
    <3>2. Covered(n)' BY <3>1, <2>3, <1>1, <1>2, <1>3 DEF CoveredBehind
    <3> QED BY <3>1, <3>2, <1>4 DEF Covered
  <2>4. Covered(saved.cursor.block)'
    <3>1. PICK n \in 0 .. MaxBlock : n = saved.cursor.block BY <2>2
    <3>2. Covered(n)' BY <3>1, <1>1 DEF CoveredBehind
    <3> QED BY <3>1, <3>2, <1>4 DEF Covered
  <2> QED BY <2>1, <2>3, <2>4 DEF CoveredBehind
<1> QED BY <1>1, <1>5, <1>6, <1>7, <1>8, <1>9 DEF CoverInv, CoverParts

\* A delivery leaves covered what is below the block, and after a shutdown what was
\* delivered before it: the block itself, then, was delivered as well.
LEMMA DeliverCovered ==
  ASSUME TypeInv, CoverParts, ~Torn, Deliver, NEW m \in 0 .. MaxBlock, Covered(m),
         m < NextBlock \/ ("handover" \in happened /\ \E s \in delivered : m <= s.block)
  PROVE  Covered(m)'
<1>t. PICK t : t = Cursor(NextBlock) OBVIOUS
<1>p. EndsDelivered /\ DeliveredInterval BY DEF CoverParts
<1>1. /\ t \in Cursors /\ t.block \in Blocks /\ t.block > last.block /\ t.block = NextBlock
      /\ last.block \in 0 .. MaxBlock /\ t.version = version[t.block]
  <2>1. /\ Cursor(NextBlock) \in Issued /\ NextBlock \in Blocks /\ NextBlock > last.block
        /\ last.block \in 0 .. MaxBlock
      BY NextBlockIsNew DEF Deliver
  <2> QED BY <1>t, <2>1 DEF Issued, Cursor
<1>2. /\ delivered' = delivered \cup {t}
      /\ UNCHANGED <<version, captured, aged, metered>>
    BY <1>t DEF Deliver, dbVars
<1>d. /\ \A r \in delivered : r \in Cursors /\ r.block \in Blocks
      /\ \A r \in delivered : r.version <= version[r.block]
      /\ version \in [Blocks -> Versions]
    BY DEF TypeInv, TypeOK, Issued, Cursors
<1>3. ASSUME "handover" \in happened, NEW s \in delivered, t.block <= s.block
      PROVE  t \in delivered
  <2>1. last \in delivered BY <1>p DEF EndsDelivered
  <2>2. last.block <= t.block /\ t.block \in Blocks BY <1>1 DEF Blocks
  <2>3. PICK r \in delivered : r.block = t.block
      BY <2>1, <2>2, <1>3, <1>p DEF DeliveredInterval
  <2>4. \A b \in Blocks : version[b] = 0 BY <1>3, <1>d DEF Torn, Versions
  <2>5. r \in Cursors /\ r.version <= 0 BY <2>3, <2>4, <1>d, <1>1
  <2>6. r.version = 0 /\ t.version = 0 BY <2>4, <2>5, <1>1 DEF Cursors, Versions
  <2>7. r = t BY <2>3, <2>5, <2>6, <1>1 DEF Cursors
  <2> QED BY <2>7
<1>4. ASSUME NEW r \in delivered', r.block <= m, ~Stale(r)'
      PROVE  r \in delivered /\ ~Stale(r)
  <2>1. ~Stale(r) BY <1>4, <1>2 DEF Stale, Cursor
  <2>2. CASE r = t
    <3>1. ~(m < t.block) BY <2>2, <1>4, <1>1 DEF Blocks
    <3>2. "handover" \in happened /\ \E s \in delivered : m <= s.block BY <3>1, <1>1
    <3>3. PICK s \in delivered : m <= s.block BY <3>2
    <3>4. t.block <= s.block BY <2>2, <3>3, <1>4, <1>1, <1>d DEF Blocks
    <3>5. t \in delivered BY <3>2, <3>4, <1>3
    <3> QED BY <2>1, <2>2, <3>5
  <2> QED BY <2>1, <2>2, <1>2
<1> QED BY <1>2, <1>4, CoveredKept

\* What a commit writes, and that it leaves covered what was.
LEMMA CommitFacts ==
  ASSUME TypeInv, NEW c \in Chains, RunTask(c), chain[c][1].kind = "block",
         NEW t, t = chain[c][1].cursor
  PROVE  /\ Done(c) /\ t \in Issued /\ t \in delivered /\ t.block = Block(c, 1)
         /\ t.block \in Blocks /\ t \in Cursors
         /\ saved' = [cursor |-> t, blockNum |-> t.block]
         /\ captured' = captured \cup Capture(t)
         /\ t.block \notin Quiet => metered'[t.block] > 0
         /\ \A m : Covered(m) => Covered(m)'
<1>1. chain[c] # <<>> /\ UNCHANGED <<version, aged, delivered>> BY DEF RunTask
<1>2. Head(chain[c]) = chain[c][1] /\ 1 \in 1 .. Len(chain[c])
  <2>1. chain[c] \in Seq(Task) BY DEF TypeInv, TypeOK
  <2>2. Len(chain[c]) \in Nat /\ Len(chain[c]) # 0 BY <1>1, Positions
  <2> QED BY <2>1, <2>2
<1>3. /\ t \in Issued /\ t \in delivered /\ t.block = Block(c, 1) /\ t.block \in Blocks
      /\ t \in Cursors
    BY <1>2, Positions DEF Block, Issued
<1>4. Done(c) /\ CommitBlock(c) BY <1>2 DEF RunTask
<1>5. /\ saved' = [cursor |-> t, blockNum |-> t.block]
      /\ captured' = captured \cup Capture(t)
      /\ IF t.block \in Quiet THEN UNCHANGED metered ELSE MeterOnce(t.block)
    BY <1>2, <1>4 DEF CommitBlock
<1>d. /\ \A r \in delivered : r.block \in Blocks
      /\ metered \in [Blocks -> 0 .. 2]
    BY DEF TypeInv, TypeOK, Cursors
<1>6. /\ \A b \in Blocks : metered[b] > 0 => metered'[b] > 0
      /\ t.block \notin Quiet => metered'[t.block] > 0
  <2>1. CASE t.block \in Quiet BY <2>1, <1>5
  <2>2. CASE t.block \notin Quiet
    <3>1. metered' = [metered EXCEPT ![t.block] = Min({2, @ + 1})]
        BY <2>2, <1>5 DEF MeterOnce
    <3>2. metered[t.block] \in 0 .. 2 BY <1>3, <1>d
    <3>3. Min({2, metered[t.block] + 1}) > 0 BY <3>2, MinOfTwo
    <3> QED BY <3>1, <3>3, <1>3, <1>d
  <2> QED BY <2>1, <2>2
<1>7. ASSUME NEW m, Covered(m) PROVE Covered(m)'
  <2>1. \A r \in delivered' : ~Stale(r)' => ~Stale(r) BY <1>1 DEF Stale, Cursor
  <2> QED BY <2>1, <1>1, <1>5, <1>6, <1>7, <1>d, CoveredKept
<1> QED BY <1>3, <1>4, <1>5, <1>6, <1>7

\* So does the retention: what it takes is aged.
LEMMA RetentionCovered ==
  ASSUME TypeInv, Retention, NEW m, Covered(m)
  PROVE  Covered(m)'
<1>0. Typed BY TypeParts
<1>1. PICK b \in {r.block : r \in captured} :
         captured' = {r \in captured : r.block > b} /\ aged' = Max({aged, b})
    BY DEF Retention
<1>2. b \in Blocks /\ aged \in 0 .. MaxBlock
    BY <1>1, <1>0 DEF Typed, Issued, Cursors
<1>3. aged' >= b /\ aged' >= aged /\ aged' \in Int
    BY <1>1, <1>2, MaxOfTwo DEF Blocks
<1>4. UNCHANGED <<delivered, version, metered>> BY DEF Retention
<1>5. \A r \in delivered' : ~Stale(r)' => ~Stale(r) BY <1>4 DEF Stale, Cursor
<1>6. \A r \in delivered : r.block \in Blocks BY <1>0 DEF Typed, Issued, Cursors
<1>7. \A r \in captured : r \in captured' \/ r.block <= aged'
    BY <1>1, <1>2, <1>3, <1>6, <1>0 DEF Typed, Blocks
<1>8. \A r \in delivered' : r.block <= aged => r.block <= aged'
    BY <1>2, <1>3, <1>4, <1>6 DEF Blocks
<1> QED BY <1>4, <1>5, <1>7, <1>8, CoveredKept

\* And a reorganisation: nothing becomes valid again.
LEMMA ReorgCovered ==
  ASSUME TypeInv, TypeInv', NEW p \in Blocks, Reorg(p), NEW m, Covered(m)
  PROVE  Covered(m)'
<1>1. UNCHANGED <<delivered, captured, aged, metered>> BY DEF Reorg, dbVars
<1>2. \A r \in delivered : ~Stale(r)' => ~Stale(r) BY ReorgFacts DEF TypeInv
<1> QED BY <1>1, <1>2, CoveredKept

\* After a reorganisation a shutdown is out of the scope.
LEMMA ReorgTears ==
  ASSUME TypeInv, NEW p \in Blocks, Reorg(p), ~Torn'
  PROVE  "handover" \notin happened
<1> SUFFICES \E b \in Blocks : version'[b] > 0 BY DEF Torn, Reorg
<1>0. Typed BY TypeParts
<1>1. head \in Blocks /\ p < head BY <1>0 DEF Reorg, Typed
<1>2. version'[head] = faults' BY <1>1 DEF Reorg, Blocks
<1>3. faults' = faults + 1 /\ faults \in Nat BY <1>0, FaultCounts DEF Reorg, Typed
<1> QED BY <1>1, <1>2, <1>3

\* A block is delivered.
LEMMA CoverDeliver ==
  ASSUME TypeInv, TypeInv', CoverParts, ~Torn, Deliver
  PROVE  CoverParts'
<1>t. PICK t : t = Cursor(NextBlock) OBVIOUS
<1>n. PICK n \in Nat : n = Len(chain["current"]) BY Positions DEF Chains
<1>p. /\ EndsDelivered /\ ChainIsRun /\ ChainMeetsCursor /\ CoveredBehind
      /\ DeliveredInterval /\ ("handover" \notin happened => ChainAhead)
    BY DEF CoverParts
<1>1. /\ t \in Issued /\ t \in Cursors /\ t.block \in Blocks /\ t.block > last.block
      /\ last.block \in 0 .. MaxBlock /\ t.version = version[t.block]
      /\ last # NoCursor => t.block = last.block + 1
  <2>1. /\ Cursor(NextBlock) \in Issued /\ NextBlock \in Blocks /\ NextBlock > last.block
        /\ last.block \in 0 .. MaxBlock /\ (last # NoCursor => NextBlock = last.block + 1)
      BY NextBlockIsNew DEF Deliver
  <2> QED BY <1>t, <2>1 DEF Issued, Cursor
<1>2. /\ last' = t /\ delivered' = delivered \cup {t} /\ Enqueue("block", t)
      /\ UNCHANGED <<version, saved, captured, aged, metered, happened>>
    BY <1>t DEF Deliver, dbVars
<1>3. /\ Len(chain'["current"]) = n + 1 /\ chain'["current"] # <<>>
      /\ \A i \in 1 .. n : chain'["current"][i] = chain["current"][i]
      /\ chain'["current"][n + 1] = [kind |-> "block", cursor |-> t]
      /\ chain'["old"] = chain["old"]
  <2>1. /\ Len(chain'["current"]) = n + 1
        /\ \A i \in 1 .. n : chain'["current"][i] = chain["current"][i]
        /\ chain'["current"][n + 1] = [kind |-> "block", cursor |-> t]
        /\ chain'["old"] = chain["old"]
      BY <1>n, <1>1, <1>2, EnqueueFacts
  <2>2. chain'["current"] # <<>>
    <3>1. chain'["current"] = <<>> => Len(chain'["current"]) = 0 OBVIOUS
    <3> QED BY <3>1, <2>1
  <2> QED BY <2>1, <2>2
<1>4. chain["current"] = <<>> <=> n = 0 BY <1>n, Positions DEF Chains
<1>d. /\ delivered \subseteq Issued /\ Issued \subseteq Cursors
      /\ \A r \in delivered : r.block \in Blocks /\ r.version <= version[r.block]
    BY DEF TypeInv, Issued, Cursors
<1>v. version \in [Blocks -> Versions] /\ saved.cursor.block \in 0 .. MaxBlock
        /\ last \in Issued \cup {NoCursor}
    BY DEF TypeInv, TypeOK, Issued, Cursors, Blocks
<1>6. ASSUME NEW m \in 0 .. MaxBlock, Covered(m),
             m < t.block \/ ("handover" \in happened /\ \E s \in delivered : m <= s.block)
      PROVE  Covered(m)'
  <2>1. t.block = NextBlock BY <1>t DEF Cursor
  <2> QED BY <2>1, <1>6, DeliverCovered
<1>7. \A c \in Chains : \A i \in 1 .. Len(chain'[c]) :
         \/ c = "current" /\ i = n + 1 /\ chain'[c][i].kind = "block"
               /\ chain'[c][i].cursor = t
         \/ i \in 1 .. Len(chain[c]) /\ chain'[c][i] = chain[c][i]
               /\ Block(c, i)' = Block(c, i)
    BY <1>n, <1>3 DEF Chains, Block
<1>8. EndsDelivered'
    BY <1>1, <1>2, <1>p DEF EndsDelivered, Blocks
<1>9. n > 0 => /\ Block("current", 1) \in Blocks /\ Block("current", 1) + n - 1 = last.block
               /\ last # NoCursor /\ Block("current", 1)' = Block("current", 1)
  <2> SUFFICES ASSUME n > 0
               PROVE  /\ Block("current", 1) \in Blocks
                      /\ Block("current", 1) + n - 1 = last.block
                      /\ last # NoCursor /\ Block("current", 1)' = Block("current", 1)
      OBVIOUS
  <2>1. 1 \in 1 .. n OBVIOUS
  <2>2. Block("current", 1) \in Blocks BY <2>1, <1>n, Positions DEF Chains
  <2>3. Block("current", 1) + n - 1 = last.block BY <1>n, <1>4, <1>p DEF ChainMeetsCursor
  <2>4. Block("current", 1)' = Block("current", 1) BY <2>1, <1>3 DEF Block
  <2> QED BY <2>2, <2>3, <2>4 DEF Blocks
<1>10. /\ n = 0 => Block("current", 1)' = t.block
       /\ chain'["current"][n + 1].cursor.block = Block("current", 1)' + n
  <2>1. CASE n = 0 BY <2>1, <1>1, <1>3 DEF Block, Blocks
  <2>2. CASE n > 0 BY <2>2, <1>1, <1>3, <1>9 DEF Blocks
  <2> QED BY <2>1, <2>2
<1>11. ChainMeetsCursor'
  <2>1. PICK f : f = Block("current", 1)' OBVIOUS
  <2>2. f + n = t.block BY <2>1, <1>3, <1>10
  <2>3. f \in Int BY <2>1, <1>1, <1>9, <1>10 DEF Blocks
  <2> QED BY <2>1, <2>2, <2>3, <1>2, <1>3 DEF ChainMeetsCursor
<1>12. ChainIsRun'
  <2> SUFFICES ASSUME NEW c \in Chains, NEW i \in 1 .. Len(chain'[c])
               PROVE  /\ chain'[c][i].kind = "block"
                      /\ Block(c, i)' = Block(c, 1)' + i - 1
                      /\ \A r \in delivered' : r.block = Block(c, i)'
                            => r.version <= chain'[c][i].cursor.version
      BY DEF ChainIsRun
  <2>1. CASE c = "current" /\ i = n + 1
    <3>1. chain'[c][i].kind = "block" /\ chain'[c][i].cursor = t BY <2>1, <1>3
    <3>2. Block(c, i)' = t.block BY <3>1 DEF Block
    <3>3. Block("current", 1)' \in Int BY <1>1, <1>9, <1>10 DEF Blocks
    <3>4. Block(c, i)' = Block(c, 1)' + i - 1 BY <3>2, <3>1, <3>3, <2>1, <1>10
    <3>5. ASSUME NEW r \in delivered', r.block = t.block PROVE r.version <= t.version
        BY <3>5, <1>1, <1>2, <1>d, <1>v DEF Issued, Cursors, Versions
    <3> QED BY <3>1, <3>2, <3>4, <3>5
  <2>2. CASE ~(c = "current" /\ i = n + 1)
    <3>1. i \in 1 .. Len(chain[c]) /\ chain'[c][i] = chain[c][i] /\ Block(c, i)' = Block(c, i)
        BY <2>2, <1>7
    <3>2. 1 \in 1 .. Len(chain'[c]) OBVIOUS
    <3>3. Block(c, 1)' = Block(c, 1)
      <4>1. CASE c = "current"
        <5>1. n > 0 BY <4>1, <3>1, <1>n
        <5> QED BY <4>1, <5>1, <1>9
      <4>2. CASE c # "current" BY <4>2, <3>2, <1>7
      <4> QED BY <4>1, <4>2
    <3>4. chain[c][i].kind = "block" /\ Block(c, i) = Block(c, 1) + i - 1
        BY <3>1, <1>p DEF ChainIsRun
    <3>5. ASSUME NEW r \in delivered', r.block = Block(c, i)
          PROVE  r.version <= chain[c][i].cursor.version
      <4>1. CASE r \in delivered BY <4>1, <3>1, <3>5, <1>p DEF ChainIsRun
      <4>2. CASE r = t
        <5>1. Block(c, i) \in Blocks /\ chain[c][i].cursor \in delivered
            BY <3>1, <3>4, Positions
        <5>2. c = "current" => FALSE
          <6> SUFFICES ASSUME c = "current" PROVE FALSE OBVIOUS
          <6>1. n > 0 /\ i <= n BY <3>1, <1>n
          <6>2. Block(c, i) <= last.block BY <6>1, <3>4, <1>9 DEF Blocks
          <6> QED BY <6>2, <4>2, <3>5, <1>1 DEF Blocks
        <5>3. "handover" \in happened
            BY <5>2, <3>1, <1>p, Positions DEF ChainAhead, Chains
        <5>4. \A b \in Blocks : version[b] = 0 BY <5>3, <1>v DEF Torn, Versions
        <5>5. r.version = 0 BY <4>2, <5>4, <1>1
        <5>6. chain[c][i].cursor.version >= 0 BY <5>1, <1>d DEF Cursors, Versions
        <5> QED BY <5>5, <5>6, <1>d, <5>1 DEF Cursors, Versions
      <4> QED BY <4>1, <4>2, <1>2
    <3> QED BY <3>1, <3>3, <3>4, <3>5
  <2> QED BY <2>1, <2>2
<1>13. CoveredBehind'
  <2>1. ASSUME NEW c \in Chains, chain'[c] # <<>> PROVE Covered(Block(c, 1) - 1)'
    <3>1. CASE c = "old"
      <4>1. chain["old"] # <<>> BY <2>1, <3>1, <1>3
      <4>2. "handover" \in happened BY <4>1, <1>p DEF ChainAhead
      <4>3. 1 \in 1 .. Len(chain[c]) BY <3>1, <4>1, Positions
      <4>4. Block(c, 1) \in Blocks /\ chain[c][1].cursor \in delivered
          BY <4>3, <1>p, Positions DEF ChainIsRun
      <4>5. PICK m \in 0 .. MaxBlock : m = Block(c, 1) - 1 BY <4>4 DEF Blocks
      <4>6. Covered(m) BY <4>1, <4>5, <3>1, <1>p DEF CoveredBehind
      <4>7. m <= chain[c][1].cursor.block BY <4>4, <4>5 DEF Block, Blocks
      <4>8. Covered(m)' BY <4>2, <4>4, <4>6, <4>7, <1>6
      <4>9. Block(c, 1)' - 1 = m BY <3>1, <4>5, <1>3 DEF Block
      <4> QED BY <4>8, <4>9 DEF Covered
    <3>2. CASE c = "current" /\ n > 0
      <4>1. PICK m \in 0 .. MaxBlock : m = Block("current", 1) - 1
          BY <3>2, <1>9 DEF Blocks
      <4>2. Covered(m) BY <3>2, <4>1, <1>4, <1>p DEF CoveredBehind, Chains
      <4>3. m < t.block BY <4>1, <3>2, <1>1, <1>9 DEF Blocks
      <4>4. Covered(m)' BY <4>2, <4>3, <1>6
      <4>5. Block(c, 1)' - 1 = m BY <3>2, <4>1, <1>9
      <4> QED BY <4>4, <4>5 DEF Covered
    <3>3. CASE c = "current" /\ n = 0
      <4>1. PICK m \in 0 .. MaxBlock : m = t.block - 1 BY <1>1 DEF Blocks
      <4>2. Covered(m)
        <5>1. CASE last = NoCursor BY <5>1, <1>p DEF EndsDelivered, Covered
        <5>2. CASE last # NoCursor
          <6>1. m = last.block BY <5>2, <4>1, <1>1
          <6>2. Covered(last.block) BY <3>3, <1>4, <1>p DEF CoveredBehind
          <6> QED BY <6>1, <6>2
        <5> QED BY <5>1, <5>2
      <4>3. Covered(m)' BY <4>1, <4>2, <1>1, <1>6 DEF Blocks
      <4>4. Block(c, 1)' - 1 = m BY <3>3, <4>1, <1>10
      <4> QED BY <4>3, <4>4 DEF Covered
    <3> QED BY <3>1, <3>2, <3>3 DEF Chains
  <2>2. Covered(saved.cursor.block)'
    <3>1. PICK m \in 0 .. MaxBlock : m = saved.cursor.block BY <1>v
    <3>2. Covered(m) BY <3>1, <1>p DEF CoveredBehind
    <3>3. m < t.block \/ ("handover" \in happened /\ \E s \in delivered : m <= s.block)
      <4>1. CASE "handover" \notin happened BY <4>1, <3>1, <1>1, <1>p DEF ChainAhead, Blocks
      <4>2. CASE "handover" \in happened /\ saved.cursor = NoCursor
          BY <4>2, <3>1, <1>1 DEF Blocks
      <4>3. CASE "handover" \in happened /\ saved.cursor # NoCursor
          BY <4>3, <3>1, <1>p DEF EndsDelivered
      <4> QED BY <4>1, <4>2, <4>3
    <3>4. Covered(m)' BY <3>2, <3>3, <1>6
    <3> QED BY <3>1, <3>4, <1>2 DEF Covered
  <2> QED BY <2>1, <2>2, <1>3 DEF CoveredBehind
<1>14. DeliveredInterval'
  <2> SUFFICES ASSUME NEW r \in delivered', NEW s \in delivered', NEW b \in Blocks,
                      r.block <= b, b <= s.block
               PROVE  \E q \in delivered' : q.block = b
      BY DEF DeliveredInterval
  <2>1. CASE b = t.block BY <2>1, <1>2
  <2>2. CASE b > t.block
    <3>1. s \in delivered BY <2>2, <1>1, <1>2 DEF Blocks
    <3>2. last \in delivered BY <3>1, <1>p DEF EndsDelivered
    <3>3. last.block <= b BY <2>2, <1>1 DEF Blocks
    <3> QED BY <3>1, <3>2, <3>3, <1>2, <1>p DEF DeliveredInterval
  <2>3. CASE b < t.block
    <3>1. r \in delivered BY <2>3, <1>1, <1>2 DEF Blocks
    <3>2. last \in delivered /\ last # NoCursor
        BY <3>1, <1>p, <1>d DEF EndsDelivered
    <3>3. b <= last.block BY <2>3, <3>2, <1>1 DEF Blocks
    <3> QED BY <3>1, <3>2, <3>3, <1>2, <1>p DEF DeliveredInterval
  <2> QED BY <2>1, <2>2, <2>3, <1>1 DEF Blocks
<1>15. ASSUME "handover" \notin happened' PROVE ChainAhead'
  <2>1. ChainAhead BY <1>15, <1>2, <1>p
  <2>2. chain'["old"] = <<>> BY <2>1, <1>3 DEF ChainAhead
  <2>3. saved'.cursor.block <= last'.block
      BY <2>1, <1>1, <1>2, <1>v DEF ChainAhead, Blocks
  <2>4. saved'.cursor.block < Block("current", 1)'
    <3>1. CASE n = 0 BY <3>1, <2>1, <1>1, <1>2, <1>10, <1>v DEF ChainAhead, Blocks
    <3>2. CASE n > 0 BY <3>2, <2>1, <1>2, <1>4, <1>9 DEF ChainAhead
    <3> QED BY <3>1, <3>2
  <2> QED BY <2>2, <2>3, <2>4 DEF ChainAhead
<1> QED BY <1>8, <1>11, <1>12, <1>13, <1>14, <1>15 DEF CoverParts

\* A process starts from the saved cursor, beside at most a prefix of the chain.
LEMMA CoverResume ==
  ASSUME TypeInv, CoverParts, "fresh" \notin happened', Restart \/ Handover
  PROVE  CoverParts'
<1>p. /\ EndsDelivered /\ ChainIsRun /\ ChainMeetsCursor /\ CoveredBehind
      /\ DeliveredInterval /\ ("handover" \notin happened => ChainAhead)
    BY DEF CoverParts
<1>1. /\ last' = saved.cursor /\ saved # NoRow
      /\ UNCHANGED <<version, saved, captured, aged, metered, delivered>>
    BY DEF Restart, Handover, Resumed, dbVars
<1>2. saved.cursor # NoCursor
  <2> SUFFICES ASSUME saved.cursor = NoCursor PROVE FALSE OBVIOUS
  <2>1. saved.blockNum = 0 BY <1>p DEF EndsDelivered
  <2>2. saved = [cursor |-> saved.cursor, blockNum |-> saved.blockNum]
      BY DEF TypeInv, TypeOK
  <2> QED BY <1>1, <2>1, <2>2 DEF NoRow
<1>3. \A m : Covered(m) => Covered(m)' BY <1>1 DEF Covered, Stale, Cursor
<1>4. EndsDelivered' BY <1>1, <1>2, <1>p DEF EndsDelivered
<1>5. DeliveredInterval' BY <1>1, <1>p DEF DeliveredInterval
<1>6. chain'["current"] = <<>>
    BY DEF Restart, Handover, Chains
<1>7. PICK n \in 0 .. Len(chain["current"]) :
         /\ Len(chain'["old"]) = n
         /\ \A i \in 1 .. n : chain'["old"][i] = chain["current"][i]
  <2>1. chain["current"] \in Seq(Task) /\ Len(chain["current"]) \in Nat
      BY Positions DEF TypeInv, TypeOK, Chains
  <2>2. CASE Restart
    <3>1. Len(chain'["old"]) = 0 BY <2>2 DEF Restart, Chains
    <3>2. 0 \in 0 .. Len(chain["current"]) BY <2>1
    <3> QED BY <3>1, <3>2
  <2>3. CASE Handover
    <3>1. PICK n \in 0 .. Len(chain["current"]) :
             chain'["old"] = SubSeq(chain["current"], 1, n)
        BY <2>3 DEF Handover
    <3>2. /\ Len(SubSeq(chain["current"], 1, n)) = n
          /\ \A i \in 1 .. n : SubSeq(chain["current"], 1, n)[i] = chain["current"][i]
        BY <2>1, SubSeqProperties, ElementOfSeq
    <3> QED BY <3>1, <3>2
  <2> QED BY <2>2, <2>3
<1>8. \A c \in Chains : \A i \in 1 .. Len(chain'[c]) :
         /\ c = "old" /\ n > 0 /\ i \in 1 .. Len(chain["current"])
         /\ chain'[c][i] = chain["current"][i]
         /\ Block(c, i)' = Block("current", i) /\ Block(c, 1)' = Block("current", 1)
  <2> SUFFICES ASSUME NEW c \in Chains, NEW i \in 1 .. Len(chain'[c])
               PROVE  /\ c = "old" /\ n > 0 /\ i \in 1 .. Len(chain["current"])
                      /\ chain'[c][i] = chain["current"][i]
                      /\ Block(c, i)' = Block("current", i)
                      /\ Block(c, 1)' = Block("current", 1)
      OBVIOUS
  <2>1. c = "old" BY <1>6 DEF Chains
  <2>2. Len(chain["current"]) \in Nat BY Positions DEF Chains
  <2>3. i \in 1 .. n /\ 1 \in 1 .. n /\ i \in 1 .. Len(chain["current"]) BY <2>1, <2>2, <1>7
  <2> QED BY <2>1, <2>3, <1>7 DEF Block
<1>9. ChainIsRun'
  <2> SUFFICES ASSUME NEW c \in Chains, NEW i \in 1 .. Len(chain'[c])
               PROVE  /\ chain'[c][i].kind = "block"
                      /\ Block(c, i)' = Block(c, 1)' + i - 1
                      /\ \A r \in delivered' : r.block = Block(c, i)'
                            => r.version <= chain'[c][i].cursor.version
      BY DEF ChainIsRun
  <2>1. /\ i \in 1 .. Len(chain["current"]) /\ chain'[c][i] = chain["current"][i]
        /\ Block(c, i)' = Block("current", i) /\ Block(c, 1)' = Block("current", 1)
      BY <1>8
  <2>2. /\ chain["current"][i].kind = "block"
        /\ Block("current", i) = Block("current", 1) + i - 1
        /\ \A r \in delivered : r.block = Block("current", i)
              => r.version <= chain["current"][i].cursor.version
      BY <2>1, <1>p DEF ChainIsRun, Chains
  <2> QED BY <2>1, <2>2, <1>1
<1>10. CoveredBehind'
  <2>1. ASSUME NEW c \in Chains, chain'[c] # <<>> PROVE Covered(Block(c, 1) - 1)'
    <3>1. c = "old" /\ 1 \in 1 .. Len(chain'[c])
      <4>1. c = "old" BY <2>1, <1>6 DEF Chains
      <4>2. n > 0
        <5>1. CASE Restart BY <5>1, <4>1, <2>1 DEF Restart, Chains
        <5>2. CASE Handover
          <6>1. PICK k \in 0 .. Len(chain["current"]) :
                   chain'["old"] = SubSeq(chain["current"], 1, k)
              BY <5>2 DEF Handover
          <6>2. chain["current"] \in Seq(Task) /\ Len(chain["current"]) \in Nat
              BY Positions DEF TypeInv, TypeOK, Chains
          <6>3. SubSeq(chain["current"], 1, k) \in Seq(Task)
                  /\ Len(SubSeq(chain["current"], 1, k)) = k
              BY <6>2, SubSeqProperties, ElementOfSeq
          <6>4. k # 0 BY <6>1, <6>3, <4>1, <2>1, EmptySeq
          <6> QED BY <6>1, <6>3, <6>4, <1>7
        <5> QED BY <5>1, <5>2
      <4> QED BY <4>1, <4>2, <1>7
    <3>2. Block(c, 1)' = Block("current", 1) /\ 1 \in 1 .. Len(chain["current"])
        BY <3>1, <1>8
    <3>3. chain["current"] # <<>> BY <3>2, Positions DEF Chains
    <3>4. PICK m : m = Block("current", 1) - 1 OBVIOUS
    <3>5. Covered(m) BY <3>3, <3>4, <1>p DEF CoveredBehind, Chains
    <3>6. Covered(m)' BY <3>5, <1>3
    <3>7. Block(c, 1)' - 1 = m BY <3>2, <3>4
    <3> QED BY <3>6, <3>7 DEF Covered
  <2>2. Covered(saved.cursor.block)' /\ Covered(last.block)'
    <3>1. PICK m : m = saved.cursor.block OBVIOUS
    <3>2. Covered(m)' BY <3>1, <1>p, <1>3 DEF CoveredBehind
    <3> QED BY <3>1, <3>2, <1>1 DEF Covered
  <2> QED BY <2>1, <2>2 DEF CoveredBehind
<1>11. "handover" \notin happened' => ChainAhead'
  <2> SUFFICES ASSUME "handover" \notin happened' PROVE ChainAhead' OBVIOUS
  <2>1. Restart BY DEF Handover
  <2>2. chain'["old"] = <<>> BY <2>1 DEF Restart, Chains
  <2>3. saved.cursor.block \in Int BY DEF TypeInv, Issued, Cursors, Blocks
  <2> QED BY <2>2, <2>3, <1>1, <1>6 DEF ChainAhead
<1> QED BY <1>4, <1>5, <1>6, <1>9, <1>10, <1>11 DEF CoverParts, ChainMeetsCursor

\* A block is committed.
LEMMA CoverCommit ==
  ASSUME TypeInv, CoverParts, NEW c \in Chains, RunTask(c)
  PROVE  CoverParts'
<1>p. /\ EndsDelivered /\ ChainIsRun /\ ChainMeetsCursor /\ CoveredBehind
      /\ DeliveredInterval /\ ("handover" \notin happened => ChainAhead)
    BY DEF CoverParts
<1>1. chain[c] # <<>> /\ UNCHANGED <<version, aged, delivered, last, happened>>
    BY DEF RunTask, loopVars
<1>n. PICK n \in Nat \ {0} : n = Len(chain[c]) /\ n >= 1 BY <1>1, Positions
<1>2. PICK t : t = chain[c][1].cursor OBVIOUS
<1>3. /\ Head(chain[c]) = chain[c][1] /\ chain[c][1].kind = "block"
      /\ t \in Issued /\ t \in delivered /\ t.block = Block(c, 1) /\ t.block \in Blocks
      /\ t \in Cursors
  <2>1. chain[c] \in Seq(Task) BY DEF TypeInv, TypeOK
  <2>2. Head(chain[c]) = chain[c][1] /\ 1 \in 1 .. Len(chain[c]) BY <2>1, <1>n
  <2>3. chain[c][1].kind = "block" BY <2>2, <1>p DEF ChainIsRun
  <2> QED BY <2>2, <2>3, <1>2, Positions DEF Block, Issued
<1>d. /\ delivered \subseteq Issued /\ Issued \subseteq Cursors
      /\ \A r \in delivered : r.block \in Blocks /\ r.version <= version[r.block]
      /\ version \in [Blocks -> Versions]
    BY DEF TypeInv, TypeOK, Issued, Cursors
<1>4. Done(c) BY <1>2, <1>3, CommitFacts
<1>5. /\ saved' = [cursor |-> t, blockNum |-> t.block]
      /\ captured' = captured \cup Capture(t)
    BY <1>2, <1>3, CommitFacts
<1>6. t.block \notin Quiet => metered'[t.block] > 0 BY <1>2, <1>3, CommitFacts
<1>7. \A m : Covered(m) => Covered(m)' BY <1>2, <1>3, CommitFacts
<1>8. ASSUME NEW m, m = Block(c, 1) PROVE Covered(m)'
  <2> SUFFICES ASSUME NEW r \in delivered, r.block <= m, ~Stale(r), r.block \notin Quiet
               PROVE  (r \in captured' \/ r.block <= aged') /\ metered'[r.block] > 0
      BY <1>1 DEF Covered, Stale, Cursor
  <2>1. CASE r.block = m
    <3>1. r.version <= t.version
        BY <2>1, <1>2, <1>n, <1>8, <1>p DEF ChainIsRun
    <3>2. r.version = version[r.block] /\ t.version <= version[t.block]
        BY <1>3, <1>d, StaleVersion DEF Issued, Cursors, Versions
    <3>3. r.version = t.version
        BY <3>1, <3>2, <2>1, <1>3, <1>8, <1>d DEF Cursors, Versions
    <3>4. r = t BY <3>3, <2>1, <1>3, <1>8, <1>d DEF Cursors
    <3> QED BY <3>4, <1>5, <1>6 DEF Capture
  <2>2. CASE r.block # m
    <3>1. PICK k : k = Block(c, 1) - 1 OBVIOUS
    <3>2. Covered(k) BY <3>1, <1>1, <1>p DEF CoveredBehind
    <3>3. r.block <= k BY <3>1, <2>2, <1>3, <1>8, <1>d DEF Blocks
    <3>4. Covered(k)' BY <3>2, <1>7
    <3>5. r \in delivered' /\ ~Stale(r)' BY <1>1 DEF Stale, Cursor
    <3> QED BY <3>3, <3>4, <3>5 DEF Covered
  <2> QED BY <2>1, <2>2
<1>9. EndsDelivered' BY <1>1, <1>3, <1>5, <1>p DEF EndsDelivered
<1>10. DeliveredInterval' BY <1>1, <1>p DEF DeliveredInterval
<1>11. /\ Len(chain'[c]) = n - 1
       /\ \A d \in Chains : d # c => chain'[d] = chain[d]
       /\ DOMAIN chain' = Chains /\ chain'[c] \in Seq(Task)
    BY <1>1, <1>4, <1>n, DoneFacts
<1>12. n > 1 => (Block(c, 1)' = Block(c, 1) + 1 /\ chain'[c] # <<>>)
  <2> SUFFICES ASSUME n > 1 PROVE Block(c, 1)' = Block(c, 1) + 1 /\ chain'[c] # <<>>
      OBVIOUS
  <2>1. 1 \in 1 .. Len(chain'[c]) /\ 2 \in 1 .. Len(chain[c]) BY <1>n, <1>11
  <2>2. Block(c, 1)' = Block(c, 2) BY <2>1, <1>1, <1>4, Shifted
  <2>3. Block(c, 2) = Block(c, 1) + 2 - 1 BY <2>1, <1>p DEF ChainIsRun
  <2> QED BY <2>1, <2>2, <2>3, <1>3 DEF Blocks
<1>13. n = 1 => chain'[c] = <<>> BY <1>11, EmptySeq
<1>k. chain'[c] # <<>> <=> n > 1
  <2>1. n = 1 \/ n > 1 OBVIOUS
  <2> QED BY <2>1, <1>12, <1>13
<1>m. c = "current" => Block(c, 1) + n - 1 = last.block
  <2> SUFFICES ASSUME c = "current" PROVE Block(c, 1) + n - 1 = last.block OBVIOUS
  <2>1. chain["current"] # <<>> BY <1>1
  <2>2. Block("current", 1) + Len(chain["current"]) - 1 = last.block
      BY <2>1, <1>p DEF ChainMeetsCursor
  <2> QED BY <2>2, <1>n
<1>14. ChainIsRun'
  <2> SUFFICES ASSUME NEW d \in Chains, NEW i \in 1 .. Len(chain'[d])
               PROVE  /\ chain'[d][i].kind = "block"
                      /\ Block(d, i)' = Block(d, 1)' + i - 1
                      /\ \A r \in delivered' : r.block = Block(d, i)'
                            => r.version <= chain'[d][i].cursor.version
      BY DEF ChainIsRun
  <2>1. CASE d = c
    <3>1. /\ i + 1 \in 1 .. Len(chain[c]) /\ chain'[d][i] = chain[c][i + 1]
          /\ Block(d, i)' = Block(c, i + 1)
        BY <2>1, <1>1, <1>4, Shifted
    <3>2. Block(d, 1)' = Block(c, 1) + 1 BY <3>1, <2>1, <1>n, <1>12
    <3>3. /\ chain[c][i + 1].kind = "block" /\ Block(c, i + 1) = Block(c, 1) + (i + 1) - 1
          /\ \A r \in delivered : r.block = Block(c, i + 1)
                => r.version <= chain[c][i + 1].cursor.version
        BY <3>1, <1>p DEF ChainIsRun
    <3> QED BY <3>1, <3>2, <3>3, <1>1, <1>3 DEF Blocks
  <2>2. CASE d # c
    <3>1. chain'[d] = chain[d] /\ Block(d, i)' = Block(d, i) /\ Block(d, 1)' = Block(d, 1)
        BY <2>2, <1>11 DEF Block
    <3> QED BY <3>1, <1>1, <1>p DEF ChainIsRun
  <2> QED BY <2>1, <2>2
<1>15. ChainMeetsCursor'
  <2> SUFFICES ASSUME chain'["current"] # <<>>
               PROVE  Block("current", 1)' + Len(chain'["current"]) - 1 = last.block
      BY <1>1 DEF ChainMeetsCursor
  <2>1. CASE c = "current"
    <3>1. chain'[c] # <<>> BY <2>1
    <3>2. Block(c, 1)' = Block(c, 1) + 1 BY <3>1, <1>k, <1>12
    <3>3. Block(c, 1)' + Len(chain'[c]) - 1 = last.block
        BY <3>2, <2>1, <1>3, <1>11, <1>m DEF Blocks
    <3> QED BY <3>3, <2>1
  <2>2. CASE c # "current"
    <3>1. chain'["current"] = chain["current"] BY <2>2, <1>11 DEF Chains
    <3> QED BY <3>1, <1>p DEF ChainMeetsCursor, Block
  <2> QED BY <2>1, <2>2
<1>16. CoveredBehind'
  <2>1. ASSUME NEW d \in Chains, chain'[d] # <<>> PROVE Covered(Block(d, 1) - 1)'
    <3>1. CASE d = c
      <4>1. PICK m : m = Block(c, 1) OBVIOUS
      <4>2. chain'[c] # <<>> BY <3>1, <2>1
      <4>3. Block(c, 1)' - 1 = m BY <4>1, <4>2, <1>3, <1>k, <1>12 DEF Blocks
      <4>4. Block(d, 1)' - 1 = m BY <4>3, <3>1
      <4>5. Covered(m)' BY <4>1, <1>8
      <4> QED BY <4>4, <4>5 DEF Covered
    <3>2. CASE d # c
      <4>1. PICK m : m = Block(d, 1) - 1 OBVIOUS
      <4>2. Covered(m) BY <3>2, <4>1, <2>1, <1>11, <1>p DEF CoveredBehind
      <4>3. Covered(m)' BY <4>2, <1>7
      <4>4. Block(d, 1)' - 1 = m BY <3>2, <4>1, <1>11 DEF Block
      <4> QED BY <4>3, <4>4 DEF Covered
    <3> QED BY <3>1, <3>2
  <2>2. ASSUME chain'["current"] = <<>> PROVE Covered(last.block)'
    <3>1. PICK m : m = last.block OBVIOUS
    <3>2. CASE c = "current"
      <4>1. n = 1
        <5>1. chain'[c] = <<>> BY <3>2, <2>2
        <5>2. ~(n > 1) BY <5>1, <1>k
        <5> QED BY <5>2
      <4>2. m = Block(c, 1) BY <3>1, <3>2, <4>1, <1>3, <1>m DEF Blocks
      <4> QED BY <3>1, <4>2, <1>1, <1>8 DEF Covered
    <3>3. CASE c # "current"
      <4>1. chain["current"] = <<>> BY <3>3, <2>2, <1>11 DEF Chains
      <4>2. Covered(m)' BY <4>1, <3>1, <1>p, <1>7 DEF CoveredBehind
      <4> QED BY <3>1, <4>2, <1>1 DEF Covered
    <3> QED BY <3>2, <3>3
  <2>3. Covered(saved.cursor.block)'
    <3>1. PICK m : m = Block(c, 1) OBVIOUS
    <3>2. Covered(m)' /\ saved'.cursor.block = m BY <3>1, <1>3, <1>5, <1>8
    <3> QED BY <3>2 DEF Covered
  <2> QED BY <2>1, <2>2, <2>3 DEF CoveredBehind
<1>17. ASSUME "handover" \notin happened' PROVE ChainAhead'
  <2>1. ChainAhead BY <1>17, <1>1, <1>p
  <2>2. c = "current" BY <2>1, <1>1 DEF ChainAhead, Chains
  <2>3. chain'["old"] = <<>> BY <2>1, <2>2, <1>11 DEF ChainAhead, Chains
  <2>4. saved'.cursor.block <= last'.block
    <3>1. Block(c, 1) + n - 1 = last.block BY <2>2, <1>m
    <3> QED BY <3>1, <1>n, <1>1, <1>3, <1>5 DEF Blocks
  <2>5. chain'["current"] # <<>> => saved'.cursor.block < Block("current", 1)'
    <3> SUFFICES ASSUME chain'["current"] # <<>>
                 PROVE  saved'.cursor.block < Block("current", 1)'
        OBVIOUS
    <3>1. Block(c, 1)' = Block(c, 1) + 1
      <4>1. chain'[c] # <<>> BY <2>2
      <4> QED BY <4>1, <1>k, <1>12
    <3>2. saved'.cursor.block < Block(c, 1)' BY <3>1, <1>3, <1>5 DEF Blocks
    <3> QED BY <3>2, <2>2
  <2> QED BY <2>3, <2>4, <2>5 DEF ChainAhead
<1> QED BY <1>9, <1>10, <1>14, <1>15, <1>16, <1>17 DEF CoverParts

\* CoverInv across a step.
LEMMA CoverNext == TypeInv /\ TypeInv' /\ CoverInv /\ [Next]_vars => CoverInv'
<1> SUFFICES ASSUME TypeInv, TypeInv', CoverInv, [Next]_vars, CoverScope' PROVE CoverInv'
    BY DEF CoverInv
<1>0. Typed /\ happened \subseteq happened' BY TypeParts, HappenedGrows
<1>s. /\ \A k \in {"handler", "undo", "fatal", "fresh"} : k \notin happened' /\ k \notin happened
      /\ ~Torn'
    BY <1>0 DEF CoverScope, Without
<1>c. (version' = version => CoverScope) /\ (CoverScope => CoverParts)
    BY <1>0, <1>s DEF CoverScope, Without, Torn, CoverInv
<1>q. CoverParts' => CoverInv' BY DEF CoverInv
<1>1. CASE UNCHANGED vars \/ NewBlock \/ Connect \/ Close
  <2>1. UNCHANGED <<saved, last, delivered, chain, version, captured, aged, metered>>
      BY <1>1 DEF vars, dbVars, loopVars, NewBlock, Connect, Close
  <2>2. \A n \in 0 .. MaxBlock : Covered(n) => Covered(n)'
      BY <2>1 DEF Covered, Stale, Cursor
  <2> QED BY <2>1, <2>2, <1>0, <1>c, CoverSame
<1>2. CASE Deliver
  <2>1. version' = version /\ happened' = happened BY <1>2 DEF Deliver
  <2>2. ~Torn BY <2>1, <1>s DEF Torn
  <2> QED BY <2>1, <2>2, <1>2, <1>c, <1>q, CoverDeliver
<1>3. CASE UndoSignal BY <1>3, <1>s DEF UndoSignal
<1>4. CASE AttemptEnds
  <2>1. UNCHANGED <<saved, last>>
    <3>1. CASE some BY <1>4, <3>1 DEF AttemptEnds
    <3>2. CASE ~some BY <1>0, <1>s, <1>4, <3>2, AttemptTyped DEF AttemptEnds
    <3> QED BY <3>1, <3>2
  <2>2. \A c \in Chains : chain'[c] = chain[c]
    <3>1. chain["old"] \in Seq(Task) /\ chain["current"] = <<>>
        BY <1>4 DEF AttemptEnds, Drained, TypeInv, TypeOK, Chains
    <3> QED BY <3>1, <1>4, ConcatEmptySeq DEF AttemptEnds, Chains
  <2>3. UNCHANGED <<version, captured, aged, metered, delivered>> BY <1>4 DEF AttemptEnds
  <2>4. \A n \in 0 .. MaxBlock : Covered(n) => Covered(n)'
      BY <2>3 DEF Covered, Stale, Cursor
  <2> QED BY <2>1, <2>2, <2>3, <2>4, <1>0, <1>c, CoverSame
<1>5. CASE FatalError BY <1>5, <1>s DEF FatalError, Caught
<1>6. CASE Restart \/ Handover
  <2>1. version' = version BY <1>6 DEF Restart, Handover
  <2> QED BY <2>1, <1>6, <1>s, <1>c, <1>q, CoverResume
<1>7. CASE Retention
  <2>1. UNCHANGED <<saved, last, delivered, chain, version>>
      BY <1>7 DEF Retention, loopVars
  <2> QED BY <2>1, <1>7, <1>0, <1>c, RetentionCovered, CoverSame
<1>8. ASSUME NEW p \in Blocks, Reorg(p) PROVE CoverInv'
  <2>1. UNCHANGED <<saved, last, delivered, chain, happened>>
      BY <1>8 DEF Reorg, dbVars, loopVars
  <2>2. "handover" \notin happened BY <1>8, <1>s, ReorgTears
  <2>3. CoverScope BY <2>2, <1>s DEF CoverScope, Without, Torn
  <2> QED BY <2>1, <2>3, <1>8, <1>0, ReorgCovered, CoverSame
<1>9. ASSUME NEW c \in Chains, RunTask(c) PROVE CoverInv'
  <2>1. version' = version BY <1>9 DEF RunTask
  <2> QED BY <2>1, <1>9, <1>c, <1>q, CoverCommit
<1>10. ASSUME NEW c \in Chains, TaskFails(c) PROVE CoverInv'
    BY <1>10, <1>s DEF TaskFails
<1> QED BY <1>1, <1>2, <1>3, <1>4, <1>5, <1>6, <1>7, <1>8, <1>9, <1>10 DEF Next

\* CoverInv is an invariant.
LEMMA CoverInvariant == Spec => []CoverInv
<1>1. TypeInv /\ TypeInv' /\ CoverInv /\ [Next]_vars => CoverInv' BY CoverNext
<1> QED BY <1>1, CoverInit, TypeInvariant, PTL DEF Spec

\* A delivered block at or below the saved cursor is captured and metered.
THEOREM SavedCursorCovers == Spec => []CursorCoversCapture
<1>1. CoverInv => CursorCoversCapture
    BY DEF CoverInv, CoverParts, CoverScope, CoveredBehind, Covered, CursorCoversCapture
<1> QED BY <1>1, CoverInvariant, PTL
=============================================================================
