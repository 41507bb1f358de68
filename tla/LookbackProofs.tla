---------------------------- MODULE LookbackProofs ----------------------------
(***************************************************************************)
(* Proofs about the lookback query.                                        *)
(***************************************************************************)
EXTENDS Lookback, StreamProofs

USE StreamAssumption, LookbackAssumption DEF NoCursor, Many

\* What the reads of a request have established of block n: the interval of what was
\* delivered reaches it, and without a shutdown the saved cursor has.
Reached(n) ==
    /\ n = 0 \/ \E s \in delivered : n <= s.block
    /\ "handover" \notin happened => n <= saved.cursor.block

\* A request that has read the head reads a window that is covered.
LookInv ==
    /\ request.pc \in {"idle", "head", "rows"} /\ request.head \in 0 .. MaxBlock
    /\ request.lookback \in Nat \ {0} /\ request.limit \in Nat \ {0}
    /\ Replying /\ CoverScope => Covered(request.head) /\ Reached(request.head)
-----------------------------------------------------------------------------
(* The first transfers of the window.                                      *)

\* There are finitely many cursors.
LEMMA CursorsFinite == IsFiniteSet(Cursors)
<1> DEFINE f == [c \in Cursors |-> <<c.block, c.version>>]
<1>1. IsFiniteSet(Blocks \X Versions)
  <2>0. 0 \in Int /\ 1 \in Int /\ MaxBlock \in Int /\ MaxFaults \in Int OBVIOUS
  <2>1. IsFiniteSet(Blocks) /\ IsFiniteSet(Versions)
      BY <2>0, FS_Interval DEF Blocks, Versions
  <2> QED BY <2>1, FS_Product
<1>2. f \in [Cursors -> Blocks \X Versions] BY DEF Cursors
<1>3. \A c, d \in Cursors : f[c] = f[d] => c = d BY DEF Cursors
<1>4. f \in Injection(Cursors, Blocks \X Versions)
    BY <1>2, <1>3 DEF Injection, IsInjective
<1> QED BY <1>1, <1>4, FS_Injection

\* There are finitely many transfers in the window.
LEMMA WindowFinite ==
  ASSUME captured \subseteq Cursors
  PROVE  IsFiniteSet(Window) /\ Cardinality(Window) \in Nat
<1> DEFINE f == [t \in Window |-> <<t.row, t.log>>]
<1>1. IsFiniteSet(Cursors \X Logs)
  <2>1. 1 \in Int /\ PerBlock \in Int OBVIOUS
  <2>2. IsFiniteSet(Logs) BY <2>1, FS_Interval DEF Logs
  <2> QED BY <2>2, CursorsFinite, FS_Product
<1>2. f \in [Window -> Cursors \X Logs] BY DEF Window
<1>3. \A s, t \in Window : f[s] = f[t] => s = t BY DEF Window
<1>4. f \in Injection(Window, Cursors \X Logs)
    BY <1>2, <1>3 DEF Injection, IsInjective
<1> QED BY <1>1, <1>4, FS_Injection, FS_CardinalityType

\* An answer that leaves out a transfer of the window is full, and holds no transfer
\* that comes after it.
LEMMA AnswerIsFull ==
  ASSUME captured \subseteq Cursors, request.limit \in Nat,
         NEW A \in Answers, NEW t \in Window, t \notin A
  PROVE  Cardinality(A) = request.limit /\ \A a \in A : ~Before(t, a)
<1>1. A \in SUBSET Window /\ Cardinality(A) = Min({request.limit, Cardinality(Window)})
    BY DEF Answers
<1>2. IsFiniteSet(Window) /\ Cardinality(Window) \in Nat BY WindowFinite
<1>3. Cardinality(A) # Cardinality(Window) BY <1>1, <1>2, FS_Subset
<1>4. Cardinality(A) = request.limit
  <2>1. PICK k \in Int : k = request.limit OBVIOUS
  <2>2. PICK n \in Int : n = Cardinality(Window) BY <1>2
  <2>3. Min({k, n}) = IF k <= n THEN k ELSE n BY MinOfTwo
  <2>4. Cardinality(A) = Min({k, n}) BY <1>1, <2>1, <2>2
  <2> QED BY <2>1, <2>2, <2>3, <2>4, <1>3
<1> QED BY <1>4 DEF Answers
-----------------------------------------------------------------------------
(* The stream under the lookback.                                          *)

\* A request changes nothing the stream reads: whatever holds of the stream on its
\* own holds of it under the lookback.
THEOREM LookbackOnlyReads == LookSpec => Spec
<1>1. LookInit => Init BY DEF LookInit
<1>2. [LookNext]_lookVars => [Next]_vars
    BY DEF LookNext, lookVars, Ask, ReadHead, Reply
<1> QED BY <1>1, <1>2, PTL DEF LookSpec, Spec

\* Between the two reads of a request nothing takes away what the first one has found
\* covered.
LEMMA ReachedStays ==
  ASSUME TypeInv, TypeInv', CoverInv, [Next]_vars, CoverScope',
         NEW n \in 0 .. MaxBlock, CoverScope => Covered(n) /\ Reached(n)
  PROVE  Covered(n)' /\ Reached(n)'
<1>0. Typed /\ happened \subseteq happened' BY TypeParts, HappenedGrows
<1>s. /\ \A k \in {"handler", "undo", "fatal", "fresh"} : k \notin happened' /\ k \notin happened
      /\ ~Torn'
    BY <1>0 DEF CoverScope, Without
<1>c. /\ version' = version => CoverScope
      /\ CoverScope => (CoverParts /\ ~Torn /\ Covered(n) /\ Reached(n))
    BY <1>0, <1>s DEF CoverScope, Without, Torn, CoverInv
<1>r. ASSUME Reached(n), saved' = saved, delivered \subseteq delivered' PROVE Reached(n)'
    BY <1>0, <1>r DEF Reached
<1>1. CASE UNCHANGED vars \/ NewBlock \/ Connect \/ Close
  <2>1. UNCHANGED <<saved, delivered, version, captured, aged, metered>>
      BY <1>1 DEF vars, dbVars, loopVars, NewBlock, Connect, Close
  <2>2. Covered(n)' BY <2>1, <1>c DEF Covered, Stale, Cursor
  <2> QED BY <2>1, <2>2, <1>c, <1>r
<1>2. CASE Deliver
  <2>1. UNCHANGED <<version, saved>> /\ delivered \subseteq delivered'
      BY <1>2 DEF Deliver, dbVars
  <2>2. CoverParts /\ ~Torn /\ Covered(n) /\ Reached(n) BY <2>1, <1>c
  <2>3. NextBlock \in Blocks /\ NextBlock > last.block /\ last.block \in 0 .. MaxBlock
      BY <1>2, NextBlockIsNew DEF Deliver
  <2>4. saved.cursor.block \in 0 .. MaxBlock BY <1>0 DEF Typed, Issued, Cursors, Blocks
  <2>5. n < NextBlock \/ ("handover" \in happened /\ \E s \in delivered : n <= s.block)
    <3>1. CASE "handover" \notin happened
        BY <3>1, <2>2, <2>3, <2>4 DEF CoverParts, ChainAhead, Reached, Blocks
    <3>2. CASE "handover" \in happened BY <3>2, <2>2, <2>3 DEF Reached, Blocks
    <3> QED BY <3>1, <3>2
  <2>6. Covered(n)' BY <2>2, <2>5, <1>2, DeliverCovered
  <2> QED BY <2>1, <2>2, <2>6, <1>r
<1>3. CASE UndoSignal BY <1>3, <1>s DEF UndoSignal
<1>4. CASE AttemptEnds
  <2>1. UNCHANGED saved
    <3>1. CASE some BY <1>4, <3>1 DEF AttemptEnds
    <3>2. CASE ~some BY <1>0, <1>s, <1>4, <3>2, AttemptTyped DEF AttemptEnds
    <3> QED BY <3>1, <3>2
  <2>2. UNCHANGED <<delivered, version, captured, aged, metered>> BY <1>4 DEF AttemptEnds
  <2>3. Covered(n)' BY <2>2, <1>c DEF Covered, Stale, Cursor
  <2> QED BY <2>1, <2>2, <2>3, <1>c, <1>r
<1>5. CASE FatalError BY <1>5, <1>s DEF FatalError, Caught
<1>6. CASE Restart \/ Handover
  <2>1. UNCHANGED <<saved, delivered, version, captured, aged, metered>>
      BY <1>6 DEF Restart, Handover, dbVars
  <2>2. Covered(n)' BY <2>1, <1>c DEF Covered, Stale, Cursor
  <2> QED BY <2>1, <2>2, <1>c, <1>r
<1>7. CASE Retention
  <2>1. UNCHANGED <<saved, delivered, version>> BY <1>7 DEF Retention
  <2> QED BY <2>1, <1>7, <1>c, <1>r, RetentionCovered
<1>8. ASSUME NEW p \in Blocks, Reorg(p) PROVE Covered(n)' /\ Reached(n)'
  <2>1. UNCHANGED <<saved, delivered>> BY <1>8 DEF Reorg, dbVars
  <2>2. "handover" \notin happened BY <1>8, <1>s, ReorgTears
  <2>3. CoverScope BY <2>2, <1>s DEF CoverScope, Without, Torn
  <2> QED BY <2>1, <2>3, <1>8, <1>c, <1>r, ReorgCovered
<1>9. ASSUME NEW c \in Chains, RunTask(c) PROVE Covered(n)' /\ Reached(n)'
  <2>1. UNCHANGED <<version, delivered, happened>> /\ chain[c] # <<>> BY <1>9 DEF RunTask
  <2>2. CoverParts /\ Covered(n) /\ Reached(n) BY <2>1, <1>c
  <2>3. 1 \in 1 .. Len(chain[c])
    <3>1. Len(chain[c]) \in Nat /\ Len(chain[c]) # 0 BY <2>1, Positions
    <3> QED BY <3>1
  <2>4. chain[c][1].kind = "block" BY <2>2, <2>3 DEF CoverParts, ChainIsRun
  <2>5. PICK t : t = chain[c][1].cursor OBVIOUS
  <2>6. /\ t.block = Block(c, 1) /\ t.block \in Blocks
        /\ saved' = [cursor |-> t, blockNum |-> t.block]
        /\ \A m : Covered(m) => Covered(m)'
      BY <2>4, <2>5, <1>9, CommitFacts
  <2>7. ASSUME "handover" \notin happened PROVE n <= saved'.cursor.block
    <3>1. ChainAhead /\ n <= saved.cursor.block
        BY <2>2, <2>7 DEF CoverParts, Reached
    <3>2. c = "current" BY <3>1, <2>1 DEF ChainAhead, Chains
    <3>3. saved.cursor.block < Block("current", 1) BY <3>1, <3>2, <2>1 DEF ChainAhead
    <3>4. saved.cursor.block < t.block BY <3>2, <3>3, <2>6
    <3>5. saved.cursor.block \in 0 .. MaxBlock
        BY <1>0 DEF Typed, Issued, Cursors, Blocks
    <3> QED BY <3>1, <3>4, <3>5, <2>6 DEF Blocks
  <2>8. Reached(n)' BY <2>1, <2>2, <2>7 DEF Reached
  <2> QED BY <2>2, <2>6, <2>8
<1>10. ASSUME NEW c \in Chains, TaskFails(c) PROVE Covered(n)' /\ Reached(n)'
    BY <1>10, <1>s DEF TaskFails
<1> QED BY <1>1, <1>2, <1>3, <1>4, <1>5, <1>6, <1>7, <1>8, <1>9, <1>10 DEF Next

\* The clamps of a body sell at least one block and one row.
LEMMA ClampedTyped ==
  ASSUME NEW a \in Int \cup {Absent}, NEW default \in Nat \ {0}, NEW max \in Nat \ {0}
  PROVE  Clamped(a, default, max) \in Nat \ {0}
<1>1. CASE a = Absent BY <1>1 DEF Clamped
<1>2. CASE a # Absent
  <2>1. a \in Int BY <1>2
  <2>2. PICK b \in Nat \ {0} : b = Max({1, a}) BY <2>1, MaxOfTwo
  <2>3. Min({max, b}) \in Nat \ {0} BY MinOfTwo
  <2>4. Clamped(a, default, max) = Min({max, b}) BY <1>2, <2>2 DEF Clamped
  <2> QED BY <2>3, <2>4
<1> QED BY <1>1, <1>2

\* LookInv holds initially: no request is waiting for its reads.
LEMMA LookInitInv == LookInit => LookInv
BY DEF LookInit, NoRequest, LookInv, Replying

\* LookInv across a step of the stream or of the handler.
LEMMA LookNextInv ==
  TypeInv /\ TypeInv' /\ CoverInv /\ LookInv /\ [LookNext]_lookVars => LookInv'
<1> SUFFICES ASSUME TypeInv, TypeInv', CoverInv, LookInv, [LookNext]_lookVars PROVE LookInv'
    OBVIOUS
<1>0. /\ request.pc \in {"idle", "head", "rows"} /\ request.head \in 0 .. MaxBlock
      /\ request.lookback \in Nat \ {0} /\ request.limit \in Nat \ {0}
      /\ Replying /\ CoverScope => Covered(request.head) /\ Reached(request.head)
    BY DEF LookInv
<1>1. CASE Ask
  <2>1. PICK lookback \in Asked, limit \in AskedLimits :
           request' = [NoRequest EXCEPT
             !.pc = "head", !.lookback = Clamped(lookback, MaxLookback, MaxLookback),
             !.limit = Clamped(limit, DefaultLimit, MaxLimit)]
      BY <1>1 DEF Ask
  <2>2. /\ Clamped(lookback, MaxLookback, MaxLookback) \in Nat \ {0}
        /\ Clamped(limit, DefaultLimit, MaxLimit) \in Nat \ {0}
      BY ClampedTyped
  <2>3. /\ request'.pc = "head" /\ request'.head = 0
        /\ request'.lookback \in Nat \ {0} /\ request'.limit \in Nat \ {0}
      BY <2>1, <2>2 DEF NoRequest
  <2> QED BY <2>3 DEF LookInv, Replying
<1>2. CASE ReadHead
  <2>1. UNCHANGED vars BY <1>2 DEF ReadHead
  <2>2. CASE saved = NoRow
    <3>1. request' = NoRequest BY <1>2, <2>2 DEF ReadHead
    <3> QED BY <3>1 DEF LookInv, Replying, NoRequest
  <2>3. CASE saved # NoRow
    <3>1. /\ request'.pc = "rows" /\ request'.lookback \in Nat \ {0}
          /\ request'.limit \in Nat \ {0}
      <4>1. request' = [request EXCEPT !.pc = "rows", !.head = saved.blockNum]
          BY <1>2, <2>3 DEF ReadHead
      <4>2. request'.pc = "rows" BY <4>1
      <4> QED BY <4>1, <4>2, <1>0
    <3>2. request'.head = saved.blockNum /\ saved.blockNum \in 0 .. MaxBlock
        BY <1>2, <2>3, <1>0 DEF ReadHead, TypeInv, TypeOK
    <3>3. PICK n \in 0 .. MaxBlock : n = saved.blockNum BY <3>2
    <3>4. ASSUME CoverScope' PROVE Covered(n)' /\ Reached(n)'
      <4>1. CoverScope
          BY <3>4, <2>1 DEF CoverScope, Without, Torn, vars
      <4>2. CoverParts BY <4>1 DEF CoverInv
      <4>3. n = saved.cursor.block BY <3>3, <4>2 DEF CoverParts, EndsDelivered
      <4>4. Covered(n) BY <4>2, <4>3 DEF CoverParts, CoveredBehind
      <4>5. Reached(n)
        <5>1. CASE saved.cursor = NoCursor BY <5>1, <4>3 DEF Reached
        <5>2. CASE saved.cursor # NoCursor
          <6>1. saved.cursor \in delivered BY <5>2, <4>2 DEF CoverParts, EndsDelivered
          <6> QED BY <6>1, <4>3 DEF Reached
        <5> QED BY <5>1, <5>2
      <4> QED BY <4>4, <4>5, <2>1
              DEF Covered, Reached, Stale, Cursor, vars, dbVars, loopVars
    <3>5. CoverScope' => Covered(request.head)' /\ Reached(request.head)'
        BY <3>2, <3>3, <3>4 DEF Covered, Reached
    <3> QED BY <3>1, <3>2, <3>5 DEF LookInv, Replying
  <2> QED BY <2>2, <2>3
<1>3. CASE Reply
  <2>1. request' = NoRequest BY <1>3 DEF Reply
  <2> QED BY <2>1 DEF LookInv, Replying, NoRequest
<1>4. CASE (Next /\ UNCHANGED request) \/ UNCHANGED lookVars
  <2>1. [Next]_vars /\ UNCHANGED request BY <1>4 DEF lookVars
  <2>2. PICK n \in 0 .. MaxBlock : n = request.head BY <1>0
  <2>3. ASSUME Replying', CoverScope' PROVE Covered(n)' /\ Reached(n)'
    <3>1. Replying BY <2>1, <2>3 DEF Replying
    <3>2. CoverScope => Covered(n) /\ Reached(n) BY <3>1, <2>2, <1>0
    <3> QED BY <3>2, <2>1, <2>3, ReachedStays
  <2>4. Replying' /\ CoverScope' => Covered(request.head)' /\ Reached(request.head)'
      BY <2>1, <2>2, <2>3 DEF Covered, Reached
  <2> QED BY <2>1, <2>4, <1>0 DEF LookInv
<1> QED BY <1>1, <1>2, <1>3, <1>4 DEF LookNext

\* The types of the stream and LookInv are an invariant.
LEMMA LookInvariant == LookSpec => [](TypeInv /\ LookInv)
<1>1. Spec => [](TypeInv /\ CoverInv) BY TypeInvariant, CoverInvariant, PTL
<1> QED BY <1>1, LookbackOnlyReads, LookInitInv, LookNextInv, PTL DEF LookSpec

\* A paid answer leaves out a processed transfer of its window only when its limit is
\* used up by transfers of later blocks, or of the same block with smaller log indices.
THEOREM AnswersAreComplete == LookSpec => []AnswerIsComplete
<1>1. TypeInv /\ LookInv => AnswerIsComplete
  <2> SUFFICES ASSUME TypeInv, LookInv, Replying, CoverScope,
                      NEW A \in Answers, NEW r \in delivered, NEW l \in Logs,
                      InWindow(r), ~Stale(r), r.block \notin Quiet, r.block > aged,
                      [row |-> r, log |-> l] \notin A
               PROVE  /\ Cardinality(A) = request.limit
                      /\ \A a \in A : \/ a.row.block > r.block
                                      \/ a.row.block = r.block /\ a.log <= l
      BY DEF AnswerIsComplete, CoverScope
  <2> DEFINE t == [row |-> r, log |-> l]
  <2>1. Covered(request.head) /\ request.limit \in Nat BY DEF LookInv
  <2>2. captured \subseteq Cursors /\ ~(r.block <= aged)
      BY DEF TypeInv, TypeOK, Cursors, Blocks
  <2>3. r \in captured BY <2>1, <2>2 DEF Covered, InWindow
  <2>4. t \in Window BY <2>3 DEF Window
  <2>5. Cardinality(A) = request.limit /\ \A a \in A : ~Before(t, a)
      BY <2>1, <2>2, <2>4, AnswerIsFull
  <2>6. \A a \in A : a.row.block \in Int /\ a.log \in Int
      BY <2>2 DEF Answers, Window, Logs, Cursors, Blocks
  <2>7. r.block \in Int /\ l \in Int BY <2>2, <2>3 DEF Logs, Cursors, Blocks
  <2>8. ASSUME NEW a \in A
        PROVE  a.row.block > r.block \/ (a.row.block = r.block /\ a.log <= l)
      BY <2>5, <2>6, <2>7 DEF Before
  <2> QED BY <2>5, <2>8
<1> QED BY <1>1, LookInvariant, PTL
===============================================================================
