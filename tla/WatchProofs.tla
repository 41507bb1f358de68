---------------------------- MODULE WatchProofs ----------------------------
(***************************************************************************)
(* Proofs about the watch.  Every safety property the model is checked for *)
(* is proved here for every budget, rate, buffer size and number of        *)
(* upsets.                                                                 *)
(*                                                                         *)
(* The invariant is built in layers, each proved inductive from the ones   *)
(* before it: what is stored and logged, then what an unfinished call      *)
(* knows of the row and the cursor, then what its notice says, and last    *)
(* where the window lies and which blocks an event may come from.          *)
(***************************************************************************)
EXTENDS Watch, FiniteSetTheorems, SequenceTheorems, TLAPS

USE WatchAssumption DEF NoBlock

\* The fields and domains no step changes.
Shape ==
    /\ DOMAIN row = {"status", "start", "count", "stored", "log", "amount", "paid"}
    /\ DOMAIN handler = {"pc", "start", "found"}
    /\ DOMAIN drv = Calls
    /\ \A d \in Calls : DOMAIN drv[d] = DOMAIN Idle
    /\ DOMAIN copy = Writers

\* The cursor never passes the last block delivered, and the window starts at a
\* dated block.
Numbers ==
    /\ cursor \in 0 .. LastBlock /\ pos \in 0 .. LastBlock /\ cursor <= pos
    /\ row.start \in 0 .. LastBlock
    /\ row.start # NoBlock => when[row.start] \in {"in", "late"}
    /\ handler.pc \in {"idle", "starting", "open", "log", "match", "commit"}
    /\ Working => pos # NoBlock

\* Both hold at first.
LEMMA ShapeInit == Init => Shape /\ Numbers
BY DEF Init, Shape, Numbers, Idle, Resting, Calls, Writers, Working

\* Every step keeps the fields, and the cursor behind the stream.
LEMMA ShapeNext == Shape /\ Numbers /\ [Next]_vars => Shape' /\ Numbers'
<1> SUFFICES ASSUME Shape, Numbers, [Next]_vars PROVE Shape' /\ Numbers'
    OBVIOUS
<1>0. ASSUME NEW w \in Writers, NEW e, ReadLog(w) \/ WriteLog(w, e)
      PROVE  /\ DOMAIN row' = DOMAIN row /\ row'.start = row.start
             /\ DOMAIN copy' = DOMAIN copy
    BY <1>0 DEF ReadLog, WriteLog, Shape
<1> USE DEF Shape, Numbers, Calls, Writers, Idle, Resting, Working
<1>1. CASE UNCHANGED vars
    BY <1>1 DEF vars, dbVars, histVars
<1>2. CASE BeginBlock BY <1>2 DEF BeginBlock, Watched, dbVars, histVars
<1>3. CASE OpenWindow BY <1>3 DEF OpenWindow, Opens, dbVars, histVars
<1>4. CASE LogOpened BY <1>4 DEF LogOpened, ReadLog, WriteLog, dbVars, histVars
<1>5. CASE \E content \in Contents : Match(content)
    BY <1>5 DEF Match, dbVars, histVars
<1>6. CASE CommitBlock BY <1>6 DEF CommitBlock, dbVars, histVars
<1>7. CASE Sweep BY <1>7 DEF Sweep, dbVars, histVars
<1>8. CASE \E d \in Calls : Read(d) BY <1>8 DEF Read, Becomes, dbVars, histVars
<1>9. CASE \E d \in Calls : Claim(d) BY <1>9 DEF Claim, Becomes, dbVars, histVars
<1>10. CASE \E d \in Calls : Bill(d) BY <1>10 DEF Bill, Becomes, dbVars, histVars
<1>11. CASE \E d \in Calls : Settle(d) BY <1>11 DEF Settle, Becomes, dbVars, histVars
<1>12. CASE \E d \in Calls : Mark(d) BY <1>12 DEF Mark, Becomes, dbVars, histVars
<1>13. ASSUME NEW d \in Calls, LogMark(d) PROVE Shape' /\ Numbers'
  <2>1. drv' = drv \/ drv' = [drv EXCEPT ![d] = Idle]
          \/ drv' = [drv EXCEPT ![d] = [drv[d] EXCEPT !.pc = "deliver", !.tries = 1]]
    BY <1>13 DEF LogMark, Becomes
  <2>2. DOMAIN drv' = Calls /\ \A c \in Calls : DOMAIN drv'[c] = DOMAIN Idle
    BY <2>1
  <2> QED BY <1>0, <1>13, <2>2 DEF LogMark
<1>14. CASE \E d \in Calls : Deliver(d) BY <1>14 DEF Deliver, Becomes, dbVars, histVars
<1>15. CASE \E d \in Calls : LogDelivery(d)
   BY <1>0, <1>15 DEF LogDelivery, Becomes, dbVars, histVars
<1>16. CASE HandlerFails BY <1>16 DEF HandlerFails, dbVars, histVars
<1>17. CASE \E d \in Calls : CallFails(d) BY <1>17 DEF CallFails, Becomes, dbVars, histVars
<1>18. CASE Annotate BY <1>18 DEF Annotate, ReadLog, WriteLog, dbVars, histVars
<1>19. CASE Expire BY <1>19 DEF Expire, dbVars, histVars
<1>20. CASE Crash BY <1>20 DEF Crash, Resumed, dbVars, histVars
<1>21. CASE StartStream BY <1>21 DEF StartStream, dbVars, histVars
<1>22. CASE FatalError BY <1>22 DEF FatalError, dbVars, histVars
<1> QED
    BY <1>22, <1>1, <1>2, <1>3, <1>4, <1>5, <1>6, <1>7, <1>8, <1>9, <1>10, <1>11, <1>12,
       <1>13, <1>14, <1>15, <1>16, <1>17, <1>18, <1>19, <1>20, <1>21
    DEF Next, Block, Call

-----------------------------------------------------------------------------
(* The stored events.                                                      *)

\* A sequence of anything: no entry of a log has to be typed.
IsLog(s) == \E S : s \in Seq(S)

\* Merging into a buffer already cut at MaxEvents is cutting the whole.
LEMMA MergedPrefix ==
  ASSUME NEW S, NEW s \in Seq(S), NEW t \in Seq(S)
  PROVE  Merged(SubSeq(s, 1, AtMost(Len(s), MaxEvents)), t)
           = SubSeq(s \o t, 1, AtMost(Len(s \o t), MaxEvents))
<1> DEFINE kept == SubSeq(s, 1, AtMost(Len(s), MaxEvents))
<1>0. MaxEvents \in Nat BY DEF AtMost
<1>1. kept \in Seq(S) /\ Len(kept) = AtMost(Len(s), MaxEvents)
        /\ \A k \in 1 .. Len(kept) : kept[k] = s[k]
  BY <1>0 DEF AtMost
<1>2. CASE Len(s) <= MaxEvents
  <2>1. kept = s BY <1>2 DEF AtMost
  <2> QED BY <2>1 DEF Merged
<1>3. CASE Len(s) > MaxEvents
  <2>1. Len(kept) = MaxEvents BY <1>1, <1>3 DEF AtMost
  <2>2. AtMost(Len(kept \o t), MaxEvents) = MaxEvents
    BY <1>0, <1>1, <2>1 DEF AtMost
  <2>3. AtMost(Len(s \o t), MaxEvents) = MaxEvents
    BY <1>0, <1>3 DEF AtMost
  <2>4. SubSeq(kept \o t, 1, MaxEvents) = SubSeq(s \o t, 1, MaxEvents)
    <3>1. /\ kept \o t \in Seq(S) /\ Len(kept \o t) = MaxEvents + Len(t)
          /\ s \o t \in Seq(S) /\ Len(s \o t) >= MaxEvents
      BY <1>0, <1>1, <1>3, <2>1
    <3>2. \A k \in 1 .. MaxEvents : (kept \o t)[k] = (s \o t)[k]
      BY <1>0, <1>1, <1>3, <2>1
    <3> DEFINE a == SubSeq(kept \o t, 1, MaxEvents)
               b == SubSeq(s \o t, 1, MaxEvents)
    <3>3. a \in Seq(S) /\ Len(a) = MaxEvents
            /\ \A k \in 1 .. MaxEvents : a[k] = (kept \o t)[k]
      BY <1>0, <3>1
    <3>4. b \in Seq(S) /\ Len(b) = MaxEvents
            /\ \A k \in 1 .. MaxEvents : b[k] = (s \o t)[k]
      BY <1>0, <3>1
    <3> HIDE DEF a, b
    <3>5. a = b BY <3>2, <3>3, <3>4, SeqEqual
    <3> QED BY <3>5 DEF a, b
  <2> QED BY <2>2, <2>3, <2>4 DEF Merged
<1>4. Len(s) <= MaxEvents \/ Len(s) > MaxEvents BY <1>0
<1> QED BY <1>2, <1>3, <1>4

\* The events a block found append to any log.
LEMMA AppendsLog ==
  ASSUME NEW s, IsLog(s)
  PROVE  \E S : s \in Seq(S) /\ Found \in Seq(S)
<1>1. PICK T : s \in Seq(T) BY DEF IsLog
<1>2. Len(handler.found) \in Nat OBVIOUS
<1> DEFINE S == T \cup {Found[k] : k \in 1 .. Len(handler.found)}
<1>3. s \in Seq(S) BY <1>1
<1>4. Found \in Seq(S) BY <1>2 DEF Found
<1> QED BY <1>3, <1>4

\* The part of the invariant that StoredAreTheFirst needs.
Stored == IsLog(metered) /\ StoredAreTheFirst

\* A commit counts and stores exactly what it found.
LEMMA StoredCommit ==
  ASSUME Shape, Stored, CommitBlock PROVE Stored'
<1>1. PICK S : metered \in Seq(S) /\ Found \in Seq(S)
  BY AppendsLog DEF Stored
<1>2. metered' = metered \o Found /\ row'.count = row.count + Len(Found)
        /\ row'.stored = Merged(row.stored, Found)
  BY DEF CommitBlock, Shape
<1>3. IsLog(metered)' BY <1>1, <1>2 DEF IsLog
<1>4. row'.count = Len(metered')
  BY <1>1, <1>2 DEF Stored, StoredAreTheFirst
<1>5. row'.stored = SubSeq(metered', 1, AtMost(Len(metered'), MaxEvents))
  BY <1>1, <1>2, MergedPrefix DEF Stored, StoredAreTheFirst
<1> QED BY <1>3, <1>4, <1>5 DEF Stored, StoredAreTheFirst

\* What a log read or a log write leaves alone.
SameRow ==
    /\ row'.status = row.status /\ row'.start = row.start /\ row'.count = row.count
    /\ row'.stored = row.stored /\ row'.amount = row.amount /\ row'.paid = row.paid

\* Neither half of an append touches them.
LEMMA LogSteps ==
  ASSUME Shape, NEW w \in Writers, NEW e, ReadLog(w) \/ WriteLog(w, e)
  PROVE  SameRow
BY DEF Shape, ReadLog, WriteLog, SameRow

\* No other step touches the counter or the stored events.
LEMMA StoredNext == Shape /\ Stored /\ [Next]_vars => Stored'
<1> SUFFICES ASSUME Shape, Stored, [Next]_vars PROVE Stored'
    OBVIOUS
<1> USE DEF Shape
<1>0. ASSUME metered' = metered, row' = row \/ SameRow PROVE Stored'
    BY <1>0 DEF Stored, StoredAreTheFirst, SameRow
<1> USE DEF dbVars, histVars
<1>1. CASE UNCHANGED vars
    BY <1>0, <1>1 DEF vars
<1>2. CASE BeginBlock BY <1>0, <1>2 DEF BeginBlock
<1>3. CASE OpenWindow
    BY <1>0, <1>3 DEF OpenWindow, SameRow, Stored, StoredAreTheFirst
<1>4. CASE LogOpened BY <1>0, <1>4, LogSteps DEF LogOpened, Writers
<1>5. CASE \E content \in Contents : Match(content)
    BY <1>0, <1>5 DEF Match
<1>6. CASE CommitBlock BY <1>6, StoredCommit
<1>7. CASE Sweep BY <1>0, <1>7 DEF Sweep
<1>8. CASE \E d \in Calls : Read(d) \/ Bill(d) \/ Settle(d) \/ Deliver(d)
    BY <1>0, <1>8 DEF Read, Bill, Settle, Deliver
<1>9. CASE \E d \in Calls : Claim(d)
    BY <1>9 DEF Claim, Stored, StoredAreTheFirst
<1>12. CASE \E d \in Calls : Mark(d)
    BY <1>12 DEF Mark, Stored, StoredAreTheFirst
<1>13. CASE \E d \in Calls : LogMark(d) \/ LogDelivery(d)
    BY <1>0, <1>13, LogSteps DEF LogMark, LogDelivery, Writers
<1>16. CASE HandlerFails BY <1>0, <1>16 DEF HandlerFails
<1>17. CASE \E d \in Calls : CallFails(d) BY <1>0, <1>17 DEF CallFails
<1>18. CASE Annotate BY <1>0, <1>18, LogSteps DEF Annotate, Writers
<1>19. CASE Expire BY <1>0, <1>19 DEF Expire
<1>20. CASE Crash BY <1>0, <1>20 DEF Crash
<1>21. CASE StartStream BY <1>0, <1>21 DEF StartStream
<1>22. CASE FatalError BY <1>0, <1>22 DEF FatalError
<1> QED
    BY <1>22, <1>1, <1>2, <1>3, <1>4, <1>5, <1>6, <1>7, <1>8, <1>9, <1>12,
       <1>13, <1>16, <1>17, <1>18, <1>19, <1>20, <1>21
    DEF Next, Block, Call

-----------------------------------------------------------------------------
(* The log.                                                                *)

\* What SubSeq makes of the end of a sequence.
LEMMA Suffix ==
  ASSUME NEW S, NEW t \in Seq(S), NEW m \in 1 .. Len(t)
  PROVE  /\ SubSeq(t, m, Len(t)) \in Seq(S)
         /\ Len(SubSeq(t, m, Len(t))) = Len(t) - m + 1
         /\ \A k \in 1 .. Len(t) - m + 1 : SubSeq(t, m, Len(t))[k] = t[m + k - 1]
OBVIOUS

\* Cutting the log after each append keeps the latest entries of all.
LEMMA CappedAppend ==
  ASSUME NEW S, NEW s \in Seq(S), NEW e \in S
  PROVE  Capped(Append(Latest(s), e)) = Latest(Append(s, e))
<1>0. MaxSteps \in Nat /\ MaxSteps > 0 /\ Len(s) \in Nat OBVIOUS
<1>1. Append(s, e) \in Seq(S) /\ Len(Append(s, e)) = Len(s) + 1
  OBVIOUS
<1>2. CASE Len(s) <= MaxSteps
  <2>1. Latest(s) = s BY <1>0, <1>2 DEF Latest, AtLeast
  <2>2. Len(Append(s, e)) - MaxSteps + 1 = Len(Append(s, e)) + 1 - MaxSteps
    BY <1>0, <1>1
  <2>3. Capped(Append(s, e)) = Latest(Append(s, e))
    BY <2>2 DEF Capped, Latest
  <2> QED BY <2>1, <2>3
<1>3. CASE Len(s) > MaxSteps
  <2> DEFINE n == Len(s)
             l == Latest(s)
             a == Capped(Append(l, e))
             b == Latest(Append(s, e))
  <2>0. /\ AtLeast(1, n + 1 - MaxSteps) = n + 1 - MaxSteps
        /\ AtLeast(1, n + 1 + 1 - MaxSteps) = n + 2 - MaxSteps
        /\ AtLeast(1, MaxSteps + 1 - MaxSteps + 1) = 2
    BY <1>0, <1>3 DEF AtLeast
  <2>1. l = SubSeq(s, n + 1 - MaxSteps, n)
    BY <2>0 DEF Latest
  <2>2. l \in Seq(S) /\ Len(l) = MaxSteps
          /\ \A k \in 1 .. MaxSteps : l[k] = s[n - MaxSteps + k]
    BY <1>0, <1>3, <2>1
  <2> HIDE DEF l
  <2>3. Append(l, e) \in Seq(S) /\ Len(Append(l, e)) = MaxSteps + 1
          /\ \A k \in 1 .. MaxSteps : Append(l, e)[k] = l[k]
          /\ Append(l, e)[MaxSteps + 1] = e
    BY <1>0, <2>2
  <2>4. a = SubSeq(Append(l, e), 2, MaxSteps + 1)
    <3>1. AtLeast(1, Len(Append(l, e)) - MaxSteps + 1) = 2
      BY <1>0, <2>3 DEF AtLeast
    <3> QED BY <2>3, <3>1 DEF Capped
  <2>5. a \in Seq(S) /\ Len(a) = MaxSteps
          /\ \A k \in 1 .. MaxSteps : a[k] = Append(l, e)[k + 1]
    BY <1>0, <2>3, <2>4
  <2>6. b = SubSeq(Append(s, e), n + 2 - MaxSteps, n + 1)
    BY <1>1, <2>0 DEF Latest
  <2>7. b \in Seq(S) /\ Len(b) = MaxSteps
          /\ \A k \in 1 .. MaxSteps : b[k] = Append(s, e)[n + 1 - MaxSteps + k]
    <3> DEFINE t == Append(s, e)
               m == n + 2 - MaxSteps
    <3>1. /\ t \in Seq(S) /\ m \in 1 .. Len(t) /\ Len(t) - m + 1 = MaxSteps
          /\ \A k \in 1 .. MaxSteps : m + k - 1 = n + 1 - MaxSteps + k
      BY <1>0, <1>1, <1>3
    <3>2. b = SubSeq(t, m, Len(t)) BY <1>1, <2>6
    <3> HIDE DEF t, m, b
    <3>3. /\ b \in Seq(S) /\ Len(b) = MaxSteps
          /\ \A k \in 1 .. MaxSteps : b[k] = t[m + k - 1]
      BY <3>1, <3>2, Suffix
    <3> QED BY <3>1, <3>3 DEF t
  <2> HIDE DEF a, b
  <2>8. \A k \in 1 .. MaxSteps : a[k] = b[k]
    <3> TAKE k \in 1 .. MaxSteps
    <3>1. CASE k = MaxSteps
      BY <1>0, <1>3, <2>3, <2>5, <2>7, <3>1
    <3>2. CASE k < MaxSteps
      <4>1. a[k] = l[k + 1] /\ l[k + 1] = s[n - MaxSteps + k + 1]
        BY <1>0, <2>2, <2>3, <2>5, <3>2
      <4>2. b[k] = s[n + 1 - MaxSteps + k]
        <5>1. n + 1 - MaxSteps + k \in 1 .. n BY <1>0, <1>3, <3>2
        <5>2. Append(s, e)[n + 1 - MaxSteps + k] = s[n + 1 - MaxSteps + k]
          BY <5>1
        <5> QED BY <2>7, <5>2
      <4> QED BY <1>0, <4>1, <4>2
    <3> QED BY <1>0, <3>1, <3>2
  <2>9. a = b BY <2>5, <2>7, <2>8, SeqEqual
  <2> QED BY <2>9 DEF a, b, l
<1>4. Len(s) <= MaxSteps \/ Len(s) > MaxSteps BY <1>0
<1> QED BY <1>2, <1>3, <1>4

\* As long as no two appends overlapped, a copy that was read and not yet written
\* is still the row's log, and there is one at most.
LogSafe ==
    /\ IsLog(steps) /\ overlapped \in BOOLEAN
    /\ ~overlapped =>
         /\ row.log = Latest(steps)
         /\ \A w \in Writers : copy[w] # NoCopy =>
              copy[w] = row.log /\ \A v \in Writers \ {w} : copy[v] = NoCopy

\* The first half of an append keeps it.
LEMMA LogRead ==
  ASSUME Shape, LogSafe, NEW w \in Writers, ReadLog(w)
  PROVE  LogSafe'
<1>1. IsLog(steps)' /\ overlapped' \in BOOLEAN BY DEF LogSafe, ReadLog, IsLog
<1>2. ASSUME ~overlapped'
      PROVE  /\ row'.log = Latest(steps')
             /\ \A u \in Writers : copy'[u] # NoCopy =>
                  copy'[u] = row'.log /\ \A v \in Writers \ {u} : copy'[v] = NoCopy
  <2>1. ~overlapped /\ \A v \in Writers \ {w} : copy[v] = NoCopy
    BY <1>2 DEF ReadLog, LogSafe
  <2>2. row' = row /\ steps' = steps /\ copy' = [copy EXCEPT ![w] = row.log]
    BY DEF ReadLog
  <2> QED BY <2>1, <2>2 DEF LogSafe, Shape
<1> QED BY <1>1, <1>2 DEF LogSafe

\* The second half of an append keeps it.
LEMMA LogWrite ==
  ASSUME Shape, LogSafe, NEW w \in Writers, NEW e, WriteLog(w, e)
  PROVE  LogSafe'
<1>1. PICK T : steps \in Seq(T) BY DEF LogSafe, IsLog
<1> DEFINE S == T \cup {e}
<1>2. steps \in Seq(S) /\ e \in S BY <1>1
<1>3. steps' = Append(steps, e) /\ steps' \in Seq(S) BY <1>2 DEF WriteLog
<1>4. IsLog(steps)' /\ overlapped' \in BOOLEAN
  BY <1>3 DEF LogSafe, WriteLog, IsLog
<1>5. ASSUME ~overlapped'
      PROVE  /\ row'.log = Latest(steps')
             /\ \A u \in Writers : copy'[u] = NoCopy
  <2>1. /\ ~overlapped /\ copy[w] = row.log /\ row.log = Latest(steps)
        /\ \A v \in Writers \ {w} : copy[v] = NoCopy
    BY <1>5 DEF WriteLog, LogSafe
  <2>2. row'.log = Capped(Append(copy[w], e)) /\ copy' = [copy EXCEPT ![w] = NoCopy]
    BY DEF WriteLog, Shape
  <2>3. row'.log = Latest(steps')
    BY <1>2, <1>3, <2>1, <2>2, CappedAppend
  <2>4. \A u \in Writers : copy'[u] = NoCopy BY <2>1, <2>2 DEF Shape
  <2> QED BY <2>3, <2>4
<1> QED BY <1>4, <1>5 DEF LogSafe

\* So does every step.
LEMMA LogSafeNext == Shape /\ LogSafe /\ [Next]_vars => LogSafe'
<1> SUFFICES ASSUME Shape, LogSafe, [Next]_vars PROVE LogSafe'
    OBVIOUS
<1>0. ASSUME row'.log = row.log, UNCHANGED <<steps, overlapped>>,
             \A w \in Writers : copy'[w] \in {copy[w], NoCopy}
      PROVE  LogSafe'
    <2>1. IsLog(steps)' BY <1>0 DEF LogSafe, IsLog
    <2>2. row'.log = row.log /\ Latest(steps') = Latest(steps) BY <1>0
    <2> QED BY <1>0, <2>1, <2>2 DEF LogSafe
<1> USE DEF dbVars, histVars
<1>1. CASE UNCHANGED vars
    BY <1>0, <1>1 DEF vars
<1>2. CASE BeginBlock BY <1>0, <1>2 DEF BeginBlock
<1>3. CASE OpenWindow BY <1>0, <1>3 DEF OpenWindow, Shape
<1>4. CASE LogOpened BY <1>4, LogRead, LogWrite DEF LogOpened, Writers
<1>5. CASE \E content \in Contents : Match(content)
    BY <1>0, <1>5 DEF Match
<1>6. CASE CommitBlock BY <1>0, <1>6 DEF CommitBlock, Shape
<1>7. CASE Sweep BY <1>0, <1>7 DEF Sweep
<1>8. CASE \E d \in Calls : Read(d) \/ Bill(d) \/ Settle(d) \/ Deliver(d)
    BY <1>0, <1>8 DEF Read, Bill, Settle, Deliver
<1>9. CASE \E d \in Calls : Claim(d)
    BY <1>0, <1>9 DEF Claim, Shape
<1>12. CASE \E d \in Calls : Mark(d)
    BY <1>0, <1>12 DEF Mark, Shape
<1>13. CASE \E d \in Calls : LogMark(d) \/ LogDelivery(d)
    BY <1>13, LogRead, LogWrite DEF LogMark, LogDelivery, Writers
<1>16. CASE HandlerFails BY <1>0, <1>16 DEF HandlerFails, Shape
<1>17. CASE \E d \in Calls : CallFails(d) BY <1>0, <1>17 DEF CallFails, Shape
<1>18. CASE Annotate BY <1>18, LogRead, LogWrite DEF Annotate, Writers
<1>19. CASE Expire BY <1>0, <1>19 DEF Expire
<1>20. CASE Crash BY <1>0, <1>20 DEF Crash, Shape
<1>21. CASE StartStream BY <1>0, <1>21 DEF StartStream
<1>22. CASE FatalError BY <1>0, <1>22 DEF FatalError
<1> QED
    BY <1>22, <1>1, <1>2, <1>3, <1>4, <1>5, <1>6, <1>7, <1>8, <1>9, <1>12,
       <1>13, <1>16, <1>17, <1>18, <1>19, <1>20, <1>21
    DEF Next, Block, Call

-----------------------------------------------------------------------------
(* The claim, and what its holder knows.                                   *)

\* The places a call may be at: those where it holds the claim, those where its
\* outcome is decided, and those where its amount is fixed.
CallPcs == {"idle", "read", "claim", "bill", "settle", "mark", "log", "deliver",
            "delivered", "unreached"}
Owns   == {"bill", "settle", "mark"}
Told   == {"log", "deliver", "delivered", "unreached"}
Billed == Told \cup {"settle", "mark"}

\* A call holds the claim alone, and what it read of the row and the cursor is
\* still true of them.
CallOk(d) ==
    /\ drv[d].pc \in CallPcs
    /\ drv[d].start \in {NoBlock, row.start}
    /\ drv[d].upto \in 0 .. cursor
    /\ drv[d].pc \in Billed =>
         drv[d].amount = AmountDue(drv[d].start, Budget, drv[d].upto, Rate)
    /\ drv[d].verdict = "free" => drv[d].amount = 0
    /\ drv[d].seen \in 0 .. pos
    /\ drv[d].pc \in Billed \cup Owns \cup {"claim"} =>
         (drv[d].start = NoBlock /\ row.start # NoBlock => row.start >= drv[d].seen)
    /\ drv[d].pc \in Owns =>
         row.status = "SETTLING" /\ \A c \in Calls \ {d} : drv[c].pc \notin Owns

\* A paid row charges for a cursor the stream has reached.
RowOk ==
    /\ row.paid \in BOOLEAN
    /\ row.paid =>
         /\ row.status \in {"SETTLED", "TIMEOUT"}
         /\ \E start \in {NoBlock, row.start}, upto \in 0 .. cursor :
               row.amount = AmountDue(start, Budget, upto, Rate)

\* The claim has one holder.
Owners == RowOk /\ \A d \in Calls : CallOk(d)

\* How a step that decides nothing may leave the row, and change a call.
SameClaim ==
    /\ row'.status = row.status /\ row'.start = row.start
    /\ row'.amount = row.amount /\ row'.paid = row.paid

\* A call that forgets all it knew.
Rests(c) ==
    /\ drv'[c].pc \in {"idle", "read"} /\ drv'[c].start = NoBlock
    /\ drv'[c].upto = 0 /\ drv'[c].seen = 0 /\ drv'[c].verdict = "none"

\* A call that goes on with a decided outcome.
Passes(c) ==
    /\ drv[c].pc \in Told /\ drv'[c].pc \in Told
    /\ drv'[c].start = drv[c].start /\ drv'[c].upto = drv[c].upto
    /\ drv'[c].amount = drv[c].amount /\ drv'[c].verdict = drv[c].verdict
    /\ drv'[c].seen = drv[c].seen /\ drv'[c].notice = drv[c].notice

\* A call that is as it was, but perhaps left behind.
SameCall(c) ==
    /\ drv'[c].pc = drv[c].pc /\ drv'[c].start = drv[c].start
    /\ drv'[c].upto = drv[c].upto /\ drv'[c].amount = drv[c].amount
    /\ drv'[c].verdict = drv[c].verdict /\ drv'[c].seen = drv[c].seen
    /\ drv'[c].notice = drv[c].notice
    /\ drv'[c].busy = drv[c].busy /\ drv'[c].begun = drv[c].begun

\* All that a fatal error changes is that the trigger's call is left behind.
LEMMA FatalKeeps ==
  ASSUME Shape, FatalError
  PROVE  /\ UNCHANGED <<when, row, cursor, pos, handler, notices, metered, skipped, committed>>
         /\ drv["trigger"].pc # "idle" /\ drv'["trigger"].left = TRUE
         /\ \A c \in Calls : SameCall(c)
BY DEF FatalError, Shape, Calls, Idle, SameCall, dbVars, histVars

\* Steps that decide nothing keep it.
LEMMA OwnersKept ==
  ASSUME Shape, Numbers, Owners, SameClaim, cursor' \in Int, cursor' >= cursor,
         pos' \in Nat,
         \A c \in Calls : Rests(c) \/ (pos' >= pos /\ (drv'[c] = drv[c] \/ SameCall(c) \/ Passes(c)))
  PROVE  Owners'
<1> USE DEF Owns, Told, Billed, CallPcs, Calls
<1>1. RowOk' BY DEF RowOk, Owners, SameClaim, Numbers
<1>2. ASSUME NEW d \in Calls PROVE CallOk(d)'
  <2>1. CASE drv'[d] = drv[d] /\ pos' >= pos
    BY <2>1 DEF Owners, CallOk, Numbers, Rests, Passes, SameCall, SameClaim
  <2>2. CASE Rests(d)
    BY <2>2 DEF CallOk, Rests, Numbers, SameClaim
  <2>3. CASE Passes(d) /\ pos' >= pos
    BY <2>3 DEF Owners, CallOk, Numbers, Passes, SameClaim
  <2>4. CASE SameCall(d) /\ pos' >= pos
    <3>1. \A c \in Calls : drv[c].pc \notin Owns => drv'[c].pc \notin Owns
      BY DEF SameCall, Rests, Passes
    <3> QED BY <2>4, <3>1 DEF Owners, CallOk, Numbers, SameCall, SameClaim
  <2> QED BY <2>1, <2>2, <2>3, <2>4
<1> QED BY <1>1, <1>2 DEF Owners

\* Every step keeps it: the claim is taken from nobody at work, and only its
\* holder bills and marks.
LEMMA OwnersNext == Shape /\ Numbers /\ Owners /\ [Next]_vars => Owners'
<1> SUFFICES ASSUME Shape, Numbers, Owners, [Next]_vars PROVE Owners'
    OBVIOUS
<1> USE DEF dbVars, histVars
<1>0. ASSUME drv' = drv, row' = row \/ SameRow, cursor' = cursor,
             pos' \in {pos, pos + 1}
      PROVE  Owners'
    BY <1>0, OwnersKept DEF SameRow, SameClaim, Numbers
<1>1. CASE UNCHANGED vars
    BY <1>0, <1>1 DEF vars
<1>2. CASE BeginBlock BY <1>0, <1>2 DEF BeginBlock
<1>3. CASE OpenWindow
    BY <1>3 DEF OpenWindow, Opens, Shape, Owners, RowOk, CallOk, Numbers
<1>4. CASE LogOpened BY <1>0, <1>4, LogSteps DEF LogOpened, Writers
<1>5. CASE \E content \in Contents : Match(content)
    BY <1>0, <1>5 DEF Match
<1>6. CASE CommitBlock
  <2>1. SameClaim BY <1>6 DEF CommitBlock, Shape, SameClaim
  <2>2. \A c \in Calls : drv'[c] = drv[c] \/ Rests(c)
    BY <1>6 DEF CommitBlock, Shape, Idle, Rests
  <2>3. cursor' = pos /\ pos' = pos BY <1>6 DEF CommitBlock
  <2> QED BY <2>1, <2>2, <2>3, OwnersKept DEF Numbers
<1>7. CASE Sweep
  <2>1. \A c \in Calls : drv'[c] = drv[c] \/ Rests(c)
    BY <1>7 DEF Sweep, Shape, Idle, Rests
  <2> QED BY <1>7, <2>1, OwnersKept DEF Sweep, Numbers, SameClaim
<1>8. ASSUME NEW d \in Calls, Read(d) PROVE Owners'
  <2> SUFFICES ASSUME row.status \in {"MONITORING", "SETTLING"},
                      drv' = [drv EXCEPT ![d] =
                        [drv[d] EXCEPT !.pc = "claim", !.status = row.status,
                           !.start = row.start, !.count = row.count, !.seen = pos]]
               PROVE  Owners'
    <3>1. CASE drv' = [drv EXCEPT ![d] = Idle]
      <4>1. \A c \in Calls : drv'[c] = drv[c] \/ Rests(c)
        BY <3>1 DEF Shape, Idle, Rests
      <4> QED BY <1>8, <4>1, OwnersKept DEF Read, Numbers, SameClaim
    <3> QED BY <1>8, <3>1 DEF Read, Becomes
  <2>1. UNCHANGED <<row, cursor, pos>> BY <1>8 DEF Read
  <2>2. /\ drv'[d].pc = "claim" /\ drv'[d].start = row.start /\ drv'[d].seen = pos
        /\ drv'[d].upto = drv[d].upto /\ drv'[d].verdict = drv[d].verdict
        /\ drv'[d].amount = drv[d].amount
        /\ \A c \in Calls \ {d} : drv'[c] = drv[c]
    BY DEF Shape, Idle
  <2> QED
    BY <2>1, <2>2 DEF Owners, RowOk, CallOk, Numbers, Owns, Billed, Told, CallPcs
<1>9. ASSUME NEW d \in Calls, Claim(d) PROVE Owners'
  <2>0. UNCHANGED <<cursor, pos>> /\ drv[d].pc = "claim" BY <1>9 DEF Claim
  <2>1. CASE row' = row /\ drv' = [drv EXCEPT ![d] = Idle]
    <3>1. \A c \in Calls : drv'[c] = drv[c] \/ Rests(c)
      BY <2>1 DEF Shape, Idle, Rests
    <3> QED BY <2>0, <2>1, <3>1, OwnersKept DEF Numbers, SameClaim
  <2>2. CASE /\ Claimable(d) /\ row' = [row EXCEPT !.status = "SETTLING"]
             /\ drv' = [drv EXCEPT ![d] = [drv[d] EXCEPT !.pc = "bill"]]
    <3>1. /\ drv'[d].pc = "bill" /\ drv'[d].start = drv[d].start
          /\ drv'[d].seen = drv[d].seen /\ drv'[d].upto = drv[d].upto
          /\ drv'[d].amount = drv[d].amount /\ drv'[d].verdict = drv[d].verdict
          /\ \A c \in Calls \ {d} : drv'[c] = drv[c]
      BY <2>2 DEF Shape, Idle
    <3>2. /\ row'.status = "SETTLING" /\ row'.start = row.start
          /\ row'.paid = row.paid /\ row'.amount = row.amount
      BY <2>2 DEF Shape
    <3>3. \A c \in Calls \ {d} : drv[c].pc \notin Owns
      BY <2>2 DEF Claimable, Owners, CallOk, Owns
    <3>4. ~row.paid BY <2>2 DEF Claimable, Owners, RowOk
    <3>5. RowOk' BY <3>2, <3>4 DEF Owners, RowOk
    <3>6. ASSUME NEW c \in Calls PROVE CallOk(c)'
      BY <2>0, <3>1, <3>2, <3>3 DEF Owners, CallOk, Owns, Billed, Told, CallPcs
    <3> QED BY <3>5, <3>6 DEF Owners
  <2> QED BY <1>9, <2>1, <2>2 DEF Claim, Becomes
<1>10. ASSUME NEW d \in Calls, Bill(d) PROVE Owners'
  <2> DEFINE due == AmountDue(drv[d].start, Budget, cursor, Rate)
  <2>1. UNCHANGED <<row, cursor, pos>> /\ drv[d].pc = "bill" BY <1>10 DEF Bill
  <2>2. /\ drv'[d].pc \in {"mark", "settle"} /\ drv'[d].start = drv[d].start
        /\ drv'[d].seen = drv[d].seen /\ drv'[d].upto = cursor
        /\ drv'[d].amount = due /\ drv'[d].verdict \in {"free", "none"}
        /\ drv'[d].verdict = "free" => due = 0
        /\ \A c \in Calls \ {d} : drv'[c] = drv[c]
    BY <1>10 DEF Bill, Becomes, Shape, Idle
  <2> HIDE DEF due
  <2>3. CallOk(d)'
    BY <2>1, <2>2 DEF Owners, CallOk, Numbers, Owns, Billed, Told, CallPcs, due
  <2> QED
    BY <2>1, <2>2, <2>3 DEF Owners, RowOk, CallOk, Owns, Billed, Told, CallPcs
<1>11. ASSUME NEW d \in Calls, Settle(d) PROVE Owners'
    BY <1>11 DEF Settle, Answers, Becomes, Shape, Owners, RowOk, CallOk, Numbers,
                Idle, Calls, Owns, Billed, Told, CallPcs
<1>12. ASSUME NEW d \in Calls, Mark(d) PROVE Owners'
  <2>1. UNCHANGED <<cursor, pos>> /\ drv[d].pc = "mark" BY <1>12 DEF Mark
  <2>2. /\ drv'[d].pc = "log" /\ drv'[d].start = drv[d].start
        /\ drv'[d].seen = drv[d].seen /\ drv'[d].upto = drv[d].upto
        /\ drv'[d].amount = drv[d].amount /\ drv'[d].verdict = drv[d].verdict
        /\ \A c \in Calls \ {d} : drv'[c] = drv[c]
    BY <1>12 DEF Mark, Becomes, Shape, Idle
  <2>3. row'.start = row.start /\ row'.paid \in BOOLEAN
    BY <1>12 DEF Mark, Shape, Owners, RowOk
  <2>4. row'.paid => row.paid \/ /\ row'.status \in {"SETTLED", "TIMEOUT"}
                                  /\ row'.amount = drv[d].amount
    BY <1>12 DEF Mark, Shape
  <2>5. ~row.paid BY <2>1 DEF Owners, RowOk, CallOk, Owns
  <2>6. RowOk' BY <2>1, <2>3, <2>4, <2>5 DEF RowOk, Owners, CallOk, Billed
  <2>7. ASSUME NEW c \in Calls PROVE CallOk(c)'
    BY <2>1, <2>2, <2>3 DEF Owners, CallOk, Owns, Billed, Told, CallPcs
  <2> QED BY <2>6, <2>7 DEF Owners
<1>13. ASSUME NEW d \in Calls, LogMark(d) \/ LogDelivery(d) PROVE Owners'
  <2>1. SameRow BY <1>13, LogSteps DEF LogMark, LogDelivery, Writers
  <2>2. \/ drv' = drv
        \/ drv' = [drv EXCEPT ![d] = Idle]
        \/ drv[d].pc = "log" /\ drv' = [drv EXCEPT ![d] =
                                   [drv[d] EXCEPT !.pc = "deliver", !.tries = 1]]
    BY <1>13 DEF LogMark, LogDelivery, Becomes
  <2>3. \A c \in Calls : drv'[c] = drv[c] \/ Rests(c) \/ Passes(c)
    <3>1. CASE drv' = [drv EXCEPT ![d] = Idle]
      BY <3>1 DEF Shape, Idle, Rests
    <3>2. CASE drv[d].pc = "log" /\ drv' = [drv EXCEPT ![d] =
                                   [drv[d] EXCEPT !.pc = "deliver", !.tries = 1]]
      BY <3>2 DEF Shape, Idle, Passes, Told
    <3> QED BY <2>2, <3>1, <3>2
  <2> QED BY <1>13, <2>1, <2>3, OwnersKept
          DEF LogMark, LogDelivery, Numbers, SameClaim, SameRow
<1>14. ASSUME NEW d \in Calls, Deliver(d) PROVE Owners'
  <2>1. \A c \in Calls : drv'[c] = drv[c] \/ Passes(c)
    BY <1>14 DEF Deliver, Becomes, Shape, Idle, Passes, Told
  <2> QED BY <1>14, <2>1, OwnersKept DEF Deliver, Numbers, SameClaim
<1>15. ASSUME NEW d \in Calls, CallFails(d) PROVE Owners'
  <2>1. \A c \in Calls : drv'[c] = drv[c] \/ Rests(c) \/ Passes(c)
    <3>1. CASE drv[d].pc # "delivered"
      <4>1. drv' = [drv EXCEPT ![d] = Idle]
        BY <1>15, <3>1 DEF CallFails, Becomes
      <4> QED BY <4>1 DEF Shape, Idle, Rests
    <3>2. CASE drv[d].pc = "delivered" /\ drv[d].tries < Attempts
      <4>1. drv' = [drv EXCEPT ![d] = [drv[d] EXCEPT !.pc = "deliver", !.tries = @ + 1]]
        BY <1>15, <3>2 DEF CallFails, Becomes
      <4> QED BY <3>2, <4>1 DEF Shape, Idle, Passes, Told
    <3>3. CASE drv[d].pc = "delivered" /\ ~(drv[d].tries < Attempts)
      <4>1. drv' = [drv EXCEPT ![d] = [drv[d] EXCEPT !.pc = "unreached"]]
        BY <1>15, <3>3 DEF CallFails, Becomes
      <4> QED BY <3>3, <4>1 DEF Shape, Idle, Passes, Told
    <3> QED BY <3>1, <3>2, <3>3
  <2> QED BY <1>15, <2>1, OwnersKept DEF CallFails, Numbers, SameClaim
<1>16. CASE HandlerFails BY <1>0, <1>16 DEF HandlerFails
<1>17. CASE Annotate BY <1>0, <1>17, LogSteps DEF Annotate, Writers
<1>18. CASE Expire BY <1>0, <1>18 DEF Expire
<1>19. CASE Crash
  <2>1. \A c \in Calls : Rests(c) BY <1>19 DEF Crash, Idle, Rests
  <2> QED BY <1>19, <2>1, OwnersKept DEF Crash, Resumed, Numbers, SameClaim
<1>20. CASE StartStream BY <1>0, <1>20 DEF StartStream
<1>21. CASE FatalError
  BY <1>21, FatalKeeps, OwnersKept DEF Numbers, SameClaim
<1> QED
    BY <1>21, <1>1, <1>2, <1>3, <1>4, <1>5, <1>6, <1>7, <1>8, <1>9, <1>10, <1>11, <1>12,
       <1>13, <1>14, <1>15, <1>16, <1>17, <1>18, <1>19, <1>20
    DEF Next, Block, Call

\* A prefix is kept by an append.
LEMMA PrefixKept ==
  ASSUME NEW S, NEW s \in Seq(S), NEW t \in Seq(S), NEW n \in 0 .. Len(s)
  PROVE  SubSeq(s \o t, 1, n) = SubSeq(s, 1, n)
<1> DEFINE a == SubSeq(s \o t, 1, n)
           b == SubSeq(s, 1, n)
<1>0. n \in Nat /\ n <= Len(s) /\ Len(s) \in Nat OBVIOUS
<1>1. s \o t \in Seq(S) /\ Len(s \o t) >= n /\ \A k \in 1 .. n : (s \o t)[k] = s[k]
  OBVIOUS
<1>2. a \in Seq(S) /\ Len(a) = n /\ \A k \in 1 .. n : a[k] = (s \o t)[k]
  BY <1>0, <1>1
<1>3. b \in Seq(S) /\ Len(b) = n /\ \A k \in 1 .. n : b[k] = s[k]
  BY <1>0
<1> HIDE DEF a, b
<1>4. a = b BY <1>1, <1>2, <1>3, SeqEqual
<1> QED BY <1>4 DEF a, b

-----------------------------------------------------------------------------
(* The notices.                                                            *)

\* What a told notice says, and what the row still confirms of it.
NoticeOk(n) ==
    /\ row.status \notin {"MONITORING", "SETTLING"}
    /\ n.start \in {NoBlock, row.start} /\ n.upto \in 0 .. cursor
    /\ n.amount = AmountDue(n.start, Budget, n.upto, Rate)
    /\ n.verdict = "free" => n.amount = 0
    /\ n.start = NoBlock /\ row.start # NoBlock => row.start >= n.seen
    /\ handler.pc = "open" => n.seen <= pos
    /\ n.verdict = "paid" =>
         /\ row.paid /\ row.amount = n.amount
         /\ n.matched \in 0 .. Len(metered)
         /\ n.events = SubSeq(metered, 1, AtMost(n.matched, MaxEvents))
         /\ n.truncated => n.matched > MaxEvents

\* All that was told, and all that is about to be.
NoticesOk ==
    /\ \A n \in notices : NoticeOk(n)
    /\ \A d \in Calls : drv[d].pc \in Told => NoticeOk(drv[d].notice)

\* Once the watch has ended its outcome stands, and its events only grow.
LEMMA EndedFrame ==
  ASSUME Shape, Numbers, Owners, [Next]_vars,
         row.status \notin {"MONITORING", "SETTLING"}
  PROVE  /\ row'.status = row.status /\ row'.paid = row.paid /\ row'.amount = row.amount
         /\ cursor' \in Nat /\ cursor' >= cursor
         /\ \/ row'.start = row.start
            \/ row.start = NoBlock /\ row'.start = pos /\ handler.pc = "open"
         /\ metered' \in {metered, metered \o Found}
         /\ handler'.pc = "open" => handler.pc = "open" /\ pos' = pos
<1> USE DEF dbVars, histVars, Numbers
<1>1. CASE UNCHANGED vars BY <1>1 DEF vars
<1>2. CASE BeginBlock BY <1>2 DEF BeginBlock, Watched, Shape, Resting
<1>3. CASE OpenWindow BY <1>3 DEF OpenWindow, Shape
<1>4. CASE LogOpened
  BY <1>4, LogSteps DEF LogOpened, SameRow, Writers, Shape, ReadLog, WriteLog
<1>5. CASE \E content \in Contents : Match(content) BY <1>5 DEF Match, Shape
<1>6. CASE CommitBlock BY <1>6 DEF CommitBlock, Shape, Resting
<1>7. CASE Sweep BY <1>7 DEF Sweep
<1>8. ASSUME NEW d \in Calls, Read(d) \/ Bill(d) \/ Settle(d) \/ Deliver(d)
      PROVE  UNCHANGED <<row, cursor, pos, handler, metered>>
  BY <1>8 DEF Read, Bill, Settle, Deliver
<1>9. CASE \E d \in Calls : Claim(d) BY <1>9 DEF Claim, Claimable, Shape
<1>10. CASE \E d \in Calls : Mark(d)
  BY <1>10 DEF Mark, Owners, CallOk, Owns
<1>11. CASE \E d \in Calls : LogMark(d) \/ LogDelivery(d)
  BY <1>11, LogSteps DEF LogMark, LogDelivery, SameRow, Writers
<1>12. CASE HandlerFails BY <1>12 DEF HandlerFails, Resting
<1>13. CASE \E d \in Calls : CallFails(d) BY <1>13 DEF CallFails, Resting
<1>14. CASE Annotate
  BY <1>14, LogSteps DEF Annotate, SameRow, Writers, ReadLog, WriteLog
<1>15. CASE Expire BY <1>15 DEF Expire
<1>16. CASE Crash BY <1>16 DEF Crash, Resting, Shape
<1>17. CASE StartStream BY <1>17 DEF StartStream, Resting
<1>18. CASE FatalError BY <1>18, FatalKeeps
<1> QED
  BY <1>18, <1>1, <1>2, <1>3, <1>4, <1>5, <1>6, <1>7, <1>8, <1>9, <1>10, <1>11, <1>12,
     <1>13, <1>14, <1>15, <1>16, <1>17
  DEF Next, Block, Call

\* So what a notice says stays confirmed.
LEMMA NoticeKept ==
  ASSUME Shape, Numbers, Owners, Stored, [Next]_vars, NEW n, NoticeOk(n)
  PROVE  NoticeOk(n)'
<1>1. /\ row'.status = row.status /\ row'.paid = row.paid /\ row'.amount = row.amount
      /\ cursor' \in Nat /\ cursor' >= cursor
      /\ \/ row'.start = row.start
         \/ row.start = NoBlock /\ row'.start = pos /\ handler.pc = "open"
      /\ metered' \in {metered, metered \o Found}
      /\ handler'.pc = "open" => handler.pc = "open" /\ pos' = pos
  BY EndedFrame DEF NoticeOk
<1>2. PICK S : metered \in Seq(S) /\ Found \in Seq(S)
  BY AppendsLog DEF Stored
<1>3. n.verdict = "paid" =>
        /\ n.matched \in 0 .. Len(metered')
        /\ n.events = SubSeq(metered', 1, AtMost(n.matched, MaxEvents))
  <2> SUFFICES ASSUME n.verdict = "paid", metered' = metered \o Found
               PROVE  /\ n.matched \in 0 .. Len(metered')
                      /\ n.events = SubSeq(metered', 1, AtMost(n.matched, MaxEvents))
    BY <1>1 DEF NoticeOk
  <2>1. n.matched \in 0 .. Len(metered) /\ Len(metered') = Len(metered) + Len(Found)
    BY <1>2 DEF NoticeOk
  <2>2. AtMost(n.matched, MaxEvents) \in 0 .. Len(metered)
    BY <1>2, <2>1 DEF AtMost
  <2>3. SubSeq(metered', 1, AtMost(n.matched, MaxEvents))
          = SubSeq(metered, 1, AtMost(n.matched, MaxEvents))
    BY <1>2, <2>2, PrefixKept
  <2>4. n.events = SubSeq(metered, 1, AtMost(n.matched, MaxEvents)) BY DEF NoticeOk
  <2>5. n.matched \in 0 .. Len(metered') BY <1>2, <2>1
  <2> QED BY <2>3, <2>4, <2>5
<1> QED BY <1>1, <1>3 DEF NoticeOk, Numbers

\* A mark makes the first notice, of the row it writes.
LEMMA NoticeMade ==
  ASSUME Shape, Numbers, Owners, Stored, NEW d \in Calls, Mark(d),
         NEW n, n = drv'[d].notice
  PROVE  /\ NoticeOk(n)'
         /\ notices' = notices /\ \A c \in Calls \ {d} : drv'[c] = drv[c]
         /\ row.status = "SETTLING"
<1>1. /\ drv[d].pc = "mark" /\ notices' = notices /\ metered' = metered
      /\ UNCHANGED <<cursor, pos, handler>>
      /\ row.status = "SETTLING"
  BY DEF Mark, Owners, CallOk, Owns, histVars
<1>2. n = Notice(d, row) /\ \A c \in Calls \ {d} : drv'[c] = drv[c]
  BY DEF Mark, Becomes, Shape, Idle
<1>3. row'.start = row.start /\ row'.status \in {"SETTLED", "TIMEOUT", "SETTLE_FAILED"}
  BY DEF Mark, Shape
<1>4. drv[d].verdict = "paid" => row'.paid /\ row'.amount = drv[d].amount
  BY DEF Mark, Shape
<1>5. /\ drv[d].start \in {NoBlock, row.start} /\ drv[d].upto \in 0 .. cursor
      /\ drv[d].amount = AmountDue(drv[d].start, Budget, drv[d].upto, Rate)
      /\ drv[d].verdict = "free" => drv[d].amount = 0
      /\ drv[d].seen <= pos
      /\ drv[d].start = NoBlock /\ row.start # NoBlock => row.start >= drv[d].seen
  BY <1>1 DEF Owners, CallOk, Billed, Owns, Numbers
<1>6. /\ row.count = Len(metered) /\ Len(metered) \in Nat
      /\ row.stored = SubSeq(metered, 1, AtMost(row.count, MaxEvents))
      /\ row.count > Len(row.stored) => row.count > MaxEvents
  <2>1. PICK S : metered \in Seq(S) BY DEF Stored, IsLog
  <2>2. row.count = Len(metered)
          /\ row.stored = SubSeq(metered, 1, AtMost(row.count, MaxEvents))
    BY DEF Stored, StoredAreTheFirst
  <2>3. Len(row.stored) = AtMost(row.count, MaxEvents)
    BY <2>1, <2>2 DEF AtMost
  <2> QED BY <2>1, <2>2, <2>3 DEF AtMost
<1>7. /\ n.verdict = drv[d].verdict /\ n.amount = drv[d].amount
      /\ n.start = drv[d].start /\ n.upto = drv[d].upto /\ n.seen = drv[d].seen
  BY <1>2 DEF Notice
<1>8. drv[d].verdict = "paid" =>
        n.matched = row.count /\ n.events = row.stored
          /\ (n.truncated => row.count > Len(row.stored))
  <2> SUFFICES ASSUME drv[d].verdict = "paid"
               PROVE  n.matched = row.count /\ n.events = row.stored
                        /\ (n.truncated => row.count > Len(row.stored))
    OBVIOUS
  <2>1. n.matched = row.count BY <1>2 DEF Notice
  <2>2. n.events = row.stored BY <1>2 DEF Notice
  <2>3. n.truncated = (drv[d].verdict = "paid" /\ row.count > Len(row.stored))
    BY <1>2 DEF Notice
  <2> QED BY <2>1, <2>2, <2>3
<1>9. n.verdict = "paid" =>
         /\ row'.paid /\ row'.amount = n.amount
         /\ n.matched \in 0 .. Len(metered')
         /\ n.events = SubSeq(metered', 1, AtMost(n.matched, MaxEvents))
         /\ n.truncated => n.matched > MaxEvents
  <2> SUFFICES ASSUME n.verdict = "paid"
               PROVE  /\ row'.paid /\ row'.amount = n.amount
                      /\ n.matched \in 0 .. Len(metered')
                      /\ n.events = SubSeq(metered', 1, AtMost(n.matched, MaxEvents))
                      /\ n.truncated => n.matched > MaxEvents
    OBVIOUS
  <2>1. n.matched = row.count /\ n.events = row.stored
          /\ (n.truncated => row.count > Len(row.stored))
    BY <1>7, <1>8
  <2>2. row'.paid /\ row'.amount = n.amount BY <1>4, <1>7
  <2>3. n.matched \in 0 .. Len(metered') BY <1>1, <1>6, <2>1
  <2>4. n.events = SubSeq(metered', 1, AtMost(n.matched, MaxEvents))
    BY <1>1, <1>6, <2>1
  <2>5. n.truncated => n.matched > MaxEvents BY <1>6, <2>1
  <2> QED BY <2>2, <2>3, <2>4, <2>5
<1>10. /\ row'.status \notin {"MONITORING", "SETTLING"}
       /\ n.start \in {NoBlock, row'.start} /\ n.upto \in 0 .. cursor'
       /\ n.amount = AmountDue(n.start, Budget, n.upto, Rate)
       /\ n.verdict = "free" => n.amount = 0
       /\ n.start = NoBlock /\ row'.start # NoBlock => row'.start >= n.seen
       /\ handler'.pc = "open" => n.seen <= pos'
  BY <1>1, <1>3, <1>5, <1>7
<1>11. NoticeOk(n)' BY <1>9, <1>10 DEF NoticeOk
<1> QED BY <1>1, <1>2, <1>11

\* But for a mark, a step makes no new notice.
LEMMA NoticeSources ==
  ASSUME Shape, [Next]_vars
  PROVE  \/ \E d \in Calls : Mark(d)
         \/ /\ \A c \in Calls : drv'[c].pc \in Told =>
                 drv[c].pc \in Told /\ drv'[c].notice = drv[c].notice
            /\ \A n \in notices' : n \in notices
                 \/ \E c \in Calls : drv[c].pc \in Told /\ n = drv[c].notice
<1> USE DEF dbVars, histVars, Shape, Told, Becomes, Idle, Calls
<1>1. CASE UNCHANGED vars BY <1>1 DEF vars
<1>2. CASE BeginBlock \/ OpenWindow \/ LogOpened \/ \E content \in Contents : Match(content)
  BY <1>2 DEF BeginBlock, OpenWindow, LogOpened, Match
<1>6. CASE CommitBlock BY <1>6 DEF CommitBlock
<1>7. CASE Sweep BY <1>7 DEF Sweep
<1>8. CASE \E d \in Calls : Read(d) BY <1>8 DEF Read
<1>9. CASE \E d \in Calls : Claim(d) BY <1>9 DEF Claim
<1>10. CASE \E d \in Calls : Bill(d) BY <1>10 DEF Bill
<1>11. CASE \E d \in Calls : Settle(d) BY <1>11 DEF Settle
<1>12. ASSUME NEW d \in Calls, LogMark(d)
       PROVE  /\ \A c \in Calls : drv'[c].pc \in Told =>
                   drv[c].pc \in Told /\ drv'[c].notice = drv[c].notice
              /\ notices' = notices
  <2>1. notices' = notices /\ drv[d].pc = "log" BY <1>12 DEF LogMark
  <2>2. CASE drv' = drv BY <2>1, <2>2
  <2>3. CASE drv' = [drv EXCEPT ![d] = Idle] BY <2>1, <2>3
  <2>4. CASE drv' = [drv EXCEPT ![d] = [drv[d] EXCEPT !.pc = "deliver", !.tries = 1]]
    BY <2>1, <2>4
  <2> QED BY <1>12, <2>2, <2>3, <2>4 DEF LogMark
<1>13. CASE \E d \in Calls : Deliver(d) BY <1>13 DEF Deliver
<1>14. CASE \E d \in Calls : LogDelivery(d) BY <1>14 DEF LogDelivery
<1>15. CASE \E d \in Calls : CallFails(d) BY <1>15 DEF CallFails
<1>16. CASE HandlerFails \/ Annotate \/ Expire \/ StartStream
  BY <1>16 DEF HandlerFails, Annotate, Expire, StartStream
<1>17. CASE Crash BY <1>17 DEF Crash
<1>18. CASE FatalError BY <1>18, FatalKeeps DEF SameCall
<1> QED
  BY <1>18, <1>1, <1>2, <1>6, <1>7, <1>8, <1>9, <1>10, <1>11, <1>12,
     <1>13, <1>14, <1>15, <1>16, <1>17
  DEF Next, Block, Call

\* Every step keeps all notices true.
LEMMA NoticesNext ==
  Shape /\ Numbers /\ Owners /\ Stored /\ NoticesOk /\ [Next]_vars => NoticesOk'
<1> SUFFICES ASSUME Shape, Numbers, Owners, Stored, NoticesOk, [Next]_vars
             PROVE  NoticesOk'
  OBVIOUS
<1>1. ASSUME NEW d \in Calls, Mark(d)
      PROVE  NoticesOk'
  <2>1. /\ notices' = notices /\ \A c \in Calls \ {d} : drv'[c] = drv[c]
        /\ row.status = "SETTLING"
    BY <1>1, NoticeMade
  <2>2. notices' = {} /\ \A c \in Calls \ {d} : drv'[c].pc \notin Told
    BY <2>1 DEF NoticesOk, NoticeOk
  <2>3. ASSUME NEW n, n = drv'[d].notice PROVE NoticeOk(n)'
    BY <1>1, <2>3, NoticeMade
  <2>4. NoticeOk(drv[d].notice)' BY <2>3 DEF NoticeOk
  <2> QED BY <2>2, <2>4 DEF NoticesOk
<1>2. ASSUME \A c \in Calls : drv'[c].pc \in Told =>
                 drv[c].pc \in Told /\ drv'[c].notice = drv[c].notice,
             \A n \in notices' : n \in notices
                 \/ \E c \in Calls : drv[c].pc \in Told /\ n = drv[c].notice
      PROVE  NoticesOk'
  <2>1. ASSUME NEW n \in notices' PROVE NoticeOk(n)'
    <3>1. CASE n \in notices
      <4>1. NoticeOk(n) BY <3>1 DEF NoticesOk
      <4> QED BY <4>1, NoticeKept
    <3>2. ASSUME NEW c \in Calls, drv[c].pc \in Told, n = drv[c].notice
          PROVE  NoticeOk(n)'
      <4>1. NoticeOk(drv[c].notice) BY <3>2 DEF NoticesOk
      <4>2. NoticeOk(n) BY <3>2, <4>1 DEF NoticeOk
      <4> QED BY <4>2, NoticeKept
    <3> QED BY <1>2, <3>1, <3>2
  <2>2. ASSUME NEW d \in Calls, drv'[d].pc \in Told PROVE NoticeOk(drv[d].notice)'
    <3>1. NoticeOk(drv[d].notice) /\ drv'[d].notice = drv[d].notice
      BY <1>2, <2>2 DEF NoticesOk
    <3>2. PICK n : n = drv[d].notice OBVIOUS
    <3>3. NoticeOk(n) BY <3>1, <3>2 DEF NoticeOk
    <3>4. NoticeOk(n)' BY <3>3, NoticeKept
    <3> QED BY <3>1, <3>2, <3>4 DEF NoticeOk
  <2> QED BY <2>1, <2>2 DEF NoticesOk
<1> QED BY <1>1, <1>2, NoticeSources

-----------------------------------------------------------------------------
(* The bill.                                                               *)

\* The budget quoted for a window, whatever TTL was asked for, is the least number
\* of blocks that lasts as long as the TTL sold (pricing.ts quoteWindow).
THEOREM QuoteIsTight ==
  ASSUME NEW requested \in Int, NEW minTtl \in Nat \ {0}, NEW maxTtl \in Nat,
         minTtl <= maxTtl, NEW blockTime \in Nat \ {0}
  PROVE  LET ttl == QuotedTtl(requested, minTtl, maxTtl)
             n   == QuotedBudget(ttl, blockTime)
         IN  /\ ttl \in minTtl .. maxTtl /\ n \in Nat \ {0}
             /\ n * blockTime >= ttl
             /\ (n - 1) * blockTime < ttl
<1> DEFINE ttl == QuotedTtl(requested, minTtl, maxTtl)
           q == CeilDiv(ttl, blockTime)
           x == ttl + blockTime - 1
           r == x % blockTime
<1>0. ttl \in minTtl .. maxTtl /\ ttl \in Nat \ {0}
  BY DEF QuotedTtl, AtMost, AtLeast
<1> HIDE DEF ttl
<1>1. q \in Int /\ r \in 0 .. blockTime - 1 /\ x = blockTime * q + r
  BY <1>0 DEF CeilDiv
<1>2. x \in Int /\ x = ttl + blockTime - 1 BY <1>0
<1> HIDE DEF q, r, x
<1>3. blockTime * q >= ttl BY <1>0, <1>1, <1>2
<1>4. blockTime * (q - 1) < ttl
  <2>1. blockTime * (q - 1) = blockTime * q - blockTime BY <1>1
  <2>2. blockTime * q \in Int BY <1>1
  <2> QED BY <1>0, <1>1, <1>2, <2>1, <2>2
<1>5. q >= 1
  <2> SUFFICES ASSUME q <= 0 PROVE FALSE BY <1>1
  <2>1. blockTime * (0 - q) >= 0
    <3>1. 0 - q \in Nat BY <1>1
    <3> QED BY <3>1
  <2>2. blockTime * q = 0 - blockTime * (0 - q) BY <1>1
  <2>3. blockTime * q \in Int /\ blockTime * (0 - q) \in Int BY <1>1
  <2> QED BY <1>0, <1>3, <2>1, <2>2, <2>3
<1>6. QuotedBudget(ttl, blockTime) = q
  BY <1>1, <1>5 DEF QuotedBudget, AtLeast, q
<1>7. q * blockTime = blockTime * q /\ (q - 1) * blockTime = blockTime * (q - 1)
  BY <1>1
<1> QED BY <1>0, <1>1, <1>3, <1>4, <1>5, <1>6, <1>7 DEF ttl

\* More blocks cost more.
LEMMA RateGrows ==
  ASSUME NEW x \in Int, NEW y \in Int, x <= y
  PROVE  Rate * x <= Rate * y /\ Rate * x \in Int /\ Rate * y \in Int
<1>1. Rate \in Nat OBVIOUS
<1>2. y - x \in Nat OBVIOUS
<1>3. Rate * (y - x) \in Nat BY <1>1, <1>2
<1>4. Rate * y = Rate * x + Rate * (y - x) BY <1>1
<1> QED BY <1>1, <1>3, <1>4

\* The bill of a cursor covers every block of the window it has reached, and no
\* block beyond it.
LEMMA DueBounds ==
  ASSUME NEW start \in Nat, NEW upto \in Nat
  PROVE  LET due == AmountDue(start, Budget, upto, Rate)
         IN  /\ due \in Nat
             /\ due > 0 => /\ start # NoBlock /\ upto >= start
                           /\ due <= Rate * (upto - start + 1)
             /\ due = 0 => start = NoBlock \/ upto < start
             /\ \A b \in 1 .. upto : start # NoBlock /\ b < start + Budget
                                       => due >= Rate * (b - start + 1)
<1> DEFINE n == BlocksConsumed(start, Budget, upto)
           due == AmountDue(start, Budget, upto, Rate)
<1>0. Rate \in Nat /\ Rate > 0 /\ Budget \in Nat /\ Budget > 0 OBVIOUS
<1>1. n \in Nat BY <1>0 DEF BlocksConsumed, AtLeast, AtMost
<1>2. n > 0 => start # NoBlock /\ upto >= start /\ n <= upto - start + 1
  BY <1>0 DEF BlocksConsumed, AtLeast, AtMost
<1>3. n = 0 => start = NoBlock \/ upto < start
  BY <1>0 DEF BlocksConsumed, AtLeast, AtMost
<1>4. \A b \in 1 .. upto : start # NoBlock /\ b < start + Budget => n >= b - start + 1
  BY <1>0 DEF BlocksConsumed, AtLeast, AtMost
<1>5. due = n * Rate BY <1>1 DEF AmountDue, SettleAmount, AtLeast
<1> HIDE DEF n, due
<1>6. due = Rate * n /\ due \in Nat BY <1>0, <1>1, <1>5
<1>7. n = 0 => due = 0 BY <1>0, <1>5
<1>8. n > 0 => due > 0 BY <1>0, <1>1, <1>5
<1>9. ASSUME due > 0
      PROVE  start # NoBlock /\ upto >= start /\ due <= Rate * (upto - start + 1)
  <2>1. start # NoBlock /\ upto >= start /\ n <= upto - start + 1
    BY <1>1, <1>2, <1>7, <1>9
  <2> QED BY <1>1, <1>6, <2>1, RateGrows
<1>10. due = 0 => start = NoBlock \/ upto < start BY <1>1, <1>3, <1>8
<1>11. ASSUME NEW b \in 1 .. upto, start # NoBlock, b < start + Budget
       PROVE  due >= Rate * (b - start + 1)
  <2>1. b - start + 1 <= n /\ b - start + 1 \in Int BY <1>4, <1>11
  <2> QED BY <1>1, <1>6, <2>1, RateGrows
<1> QED BY <1>6, <1>9, <1>10, <1>11 DEF due

\* The bill counts the same blocks as the budget guard of the matcher.
LEMMA DueIsMetered ==
  ASSUME NEW start \in Nat, NEW upto \in Nat
  PROVE  AmountDue(start, Budget, upto, Rate)
           = Rate * Cardinality({b \in start .. upto :
                       start # NoBlock /\ InBudget(start, Budget, b)})
<1> DEFINE paid == {b \in start .. upto : start # NoBlock /\ InBudget(start, Budget, b)}
           n == BlocksConsumed(start, Budget, upto)
<1>0. Rate \in Nat /\ Rate > 0 /\ Budget \in Nat /\ Budget > 0 OBVIOUS
<1>1. CASE start = NoBlock
  <2>1. paid = {} /\ n = 0 BY <1>1 DEF BlocksConsumed
  <2>2. Cardinality(paid) = 0 BY <2>1, FS_EmptySet
  <2> QED BY <1>0, <2>1, <2>2 DEF AmountDue, SettleAmount, AtLeast
<1>2. CASE start # NoBlock
  <2> DEFINE last == AtMost(upto, start + Budget - 1)
  <2>1. last \in Int BY <1>0 DEF AtMost
  <2>2. paid = start .. last BY <1>0, <1>2 DEF InBudget, AtMost
  <2>3. Cardinality(paid) = IF start > last THEN 0 ELSE last - start + 1
    <3> HIDE DEF paid, last
    <3>1. start \in Int OBVIOUS
    <3>2. Cardinality(start .. last) = IF start > last THEN 0 ELSE last - start + 1
      BY <2>1, <3>1, FS_Interval
    <3> QED BY <2>2, <3>2
  <2>4. n = IF start > last THEN 0 ELSE last - start + 1
    <3>1. last = IF upto <= start + Budget - 1 THEN upto ELSE start + Budget - 1
      BY DEF AtMost
    <3>2. CASE upto = NoBlock
      BY <1>0, <1>2, <3>1, <3>2 DEF BlocksConsumed
    <3>3. CASE upto # NoBlock /\ upto < start
      BY <1>0, <1>2, <3>1, <3>3 DEF BlocksConsumed, AtMost, AtLeast
    <3>4. CASE upto # NoBlock /\ upto >= start
      BY <1>0, <1>2, <3>1, <3>4 DEF BlocksConsumed, AtMost, AtLeast
    <3> QED BY <3>2, <3>3, <3>4
  <2>5. n = Cardinality(paid) /\ n \in Nat BY <2>1, <2>3, <2>4
  <2> HIDE DEF n, paid
  <2>6. AmountDue(start, Budget, upto, Rate) = Rate * n
    BY <1>0, <2>5 DEF AmountDue, SettleAmount, AtLeast, n
  <2> QED BY <2>5, <2>6 DEF paid
<1> QED BY <1>1, <1>2

-----------------------------------------------------------------------------
(* The invariant, and what follows from it.                                *)

\* The invariant up to the notices.
Safe == Shape /\ Numbers /\ Stored /\ LogSafe /\ Owners /\ NoticesOk

\* It holds throughout.
LEMMA SafeHolds == Spec => []Safe
<1>1. Init => Safe
  <2> SUFFICES ASSUME Init PROVE Safe OBVIOUS
  <2>1. Shape /\ Numbers BY ShapeInit
  <2>2. Stored
    <3>1. metered = <<>> /\ row.count = 0 /\ row.stored = <<>> BY DEF Init
    <3>2. IsLog(metered) BY <3>1 DEF IsLog
    <3>3. SubSeq(metered, 1, AtMost(Len(metered), MaxEvents)) = <<>>
      BY <3>1 DEF AtMost
    <3> QED BY <3>1, <3>2, <3>3 DEF Stored, StoredAreTheFirst
  <2>3. LogSafe
    <3>1. /\ steps = <<>> /\ row.log = <<>> /\ overlapped = FALSE
          /\ copy = [w \in Writers |-> NoCopy]
      BY DEF Init
    <3>2. IsLog(steps) BY <3>1 DEF IsLog
    <3>3. Latest(steps) = <<>> BY <3>1 DEF Latest, AtLeast
    <3> QED BY <3>1, <3>2, <3>3 DEF LogSafe
  <2>4. Owners
    BY <2>1 DEF Init, Owners, RowOk, CallOk, Idle, Calls, Owns, Told, Billed,
                CallPcs, Numbers
  <2>5. NoticesOk BY DEF Init, NoticesOk, Idle, Told
  <2> QED BY <2>1, <2>2, <2>3, <2>4, <2>5 DEF Safe
<1>2. Safe /\ [Next]_vars => Safe'
  BY ShapeNext, StoredNext, LogSafeNext, OwnersNext, NoticesNext DEF Safe
<1> QED BY <1>1, <1>2, PTL DEF Spec
\* The counter counts every event metered and the row stores the first of them,
\* after any number of skipped and replayed blocks (db.ts meterAndCommit).
THEOREM StoredEventsAreTheFirst == Spec => []StoredAreTheFirst
BY SafeHolds, PTL DEF Safe, Stored

\* Without overlapping appends, the log is the latest MAX_LIFECYCLE_STEPS of all
\* entries (db.ts appendLifecycle).
THEOREM LogIsOfOneWriter == Spec => []LogOfOneWriter
<1>1. Safe => LogOfOneWriter BY DEF Safe, LogSafe, LogOfOneWriter
<1> QED BY <1>1, SafeHolds, PTL

\* A paid notice's amount is the rate times the blocks at which the matcher meters
\* (pricing.ts blocksConsumed against matcher.ts).
THEOREM NoticeChargesWhatWasMetered == Spec => []ChargeIsMetered
<1>1. Safe => ChargeIsMetered
  <2> SUFFICES ASSUME Safe, NEW n \in notices
               PROVE  n.amount = Rate * Cardinality({b \in n.start .. n.upto :
                             n.start # NoBlock /\ InBudget(n.start, Budget, b)})
    BY DEF ChargeIsMetered
  <2>1. n.amount = AmountDue(n.start, Budget, n.upto, Rate)
          /\ n.start \in Nat /\ n.upto \in Nat
    BY DEF Safe, NoticesOk, NoticeOk, Numbers
  <2> QED BY <2>1, DueIsMetered
<1> QED BY <1>1, SafeHolds, PTL

\* A free timeout means that no block of the window was committed when the call
\* read the row and the cursor (settlementEngine.ts settleTimeout).
THEOREM FreeIsUnprocessed == Spec => []FreeOnlyIfUnprocessed
<1>1. Safe => FreeOnlyIfUnprocessed
  <2> SUFFICES ASSUME Safe, NEW n \in notices, n.verdict = "free"
               PROVE  \/ row.start = NoBlock
                      \/ row.start >= n.seen
                      \/ n.upto < row.start
    BY DEF FreeOnlyIfUnprocessed
  <2>1. /\ n.amount = AmountDue(n.start, Budget, n.upto, Rate) /\ n.amount = 0
        /\ n.start \in Nat /\ n.upto \in Nat /\ n.start \in {NoBlock, row.start}
        /\ n.start = NoBlock /\ row.start # NoBlock => row.start >= n.seen
    BY DEF Safe, NoticesOk, NoticeOk, Numbers
  <2>2. n.start = NoBlock \/ n.upto < n.start BY <2>1, DueBounds
  <2> QED BY <2>1, <2>2
<1> QED BY <1>1, SafeHolds, PTL

\* The public report goes on confirming what a paid notice said (report.ts
\* buildReport).
THEOREM PaidNoticeIsConfirmed == Spec => []ReportConfirmsNotice
<1>1. Safe => ReportConfirmsNotice
  <2> SUFFICES ASSUME Safe, NEW n \in notices, n.verdict = "paid"
               PROVE  /\ Report.settled /\ Report.amount = n.amount
                      /\ Report.count >= n.matched /\ IsPrefix(n.events, Report.events)
                      /\ n.truncated => Report.truncated
    BY DEF ReportConfirmsNotice
  <2>1. /\ row.paid /\ row.amount = n.amount
        /\ n.matched \in 0 .. Len(metered)
        /\ n.events = SubSeq(metered, 1, AtMost(n.matched, MaxEvents))
        /\ n.truncated => n.matched > MaxEvents
    BY DEF Safe, NoticesOk, NoticeOk
  <2>2. PICK S : metered \in Seq(S) BY DEF Safe, Stored, IsLog
  <2>3. /\ row.count = Len(metered)
        /\ row.stored = SubSeq(metered, 1, AtMost(Len(metered), MaxEvents))
    BY DEF Safe, Stored, StoredAreTheFirst
  <2> DEFINE a == AtMost(n.matched, MaxEvents)
             b == AtMost(Len(metered), MaxEvents)
  <2>4. a \in Nat /\ b \in Nat /\ a <= b /\ b <= Len(metered) /\ b <= MaxEvents
    BY <2>1, <2>2 DEF AtMost
  <2> HIDE DEF a, b
  <2>5. /\ n.events \in Seq(S) /\ Len(n.events) = a
        /\ \A k \in 1 .. a : n.events[k] = metered[k]
    BY <2>1, <2>2, <2>4 DEF a
  <2>6. /\ row.stored \in Seq(S) /\ Len(row.stored) = b
        /\ \A k \in 1 .. b : row.stored[k] = metered[k]
    BY <2>2, <2>3, <2>4 DEF b
  <2>7. IsPrefix(n.events, row.stored)
    <3> DEFINE u == SubSeq(n.events, 1, a)
               v == SubSeq(row.stored, 1, a)
    <3>1. u \in Seq(S) /\ Len(u) = a /\ \A k \in 1 .. a : u[k] = n.events[k]
      BY <2>4, <2>5
    <3>2. v \in Seq(S) /\ Len(v) = a /\ \A k \in 1 .. a : v[k] = row.stored[k]
      BY <2>4, <2>6
    <3> HIDE DEF u, v
    <3>3. \A k \in 1 .. a : u[k] = v[k] BY <2>4, <2>5, <2>6, <3>1, <3>2
    <3>4. u = v BY <3>1, <3>2, <3>3, SeqEqual
    <3> QED BY <2>4, <2>5, <2>6, <3>4 DEF IsPrefix, u, v
  <2>8. n.truncated => row.count > Len(row.stored)
    BY <2>1, <2>2, <2>3, <2>4, <2>6
  <2>9. /\ Report.settled = row.paid /\ Report.amount = row.amount
        /\ Report.count = row.count /\ Report.events = row.stored
        /\ Report.truncated = (row.count > Len(row.stored))
    BY DEF Report
  <2>10. Report.settled /\ Report.amount = n.amount BY <2>1, <2>9
  <2>11. Report.count >= n.matched BY <2>1, <2>2, <2>3, <2>9
  <2>12. IsPrefix(n.events, Report.events) BY <2>7, <2>9
  <2>13. n.truncated => Report.truncated BY <2>8, <2>9
  <2> QED BY <2>10, <2>11, <2>12, <2>13
<1> QED BY <1>1, SafeHolds, PTL

-----------------------------------------------------------------------------
(* The trigger.                                                            *)

\* The success call of the first match holds up its write chain, so that the
\* cursor stays at the block of that match until that chain is left behind.
TriggerWaits ==
    LET call == drv["trigger"] IN
    /\ call.pc # "idle" =>
         /\ Len(metered) > 0 /\ metered[1].block \in 1 .. cursor
         /\ call.left \/ (handler.pc = "idle" /\ metered[1].block = cursor)
    /\ call.pc \in Billed =>
         /\ call.upto >= metered[1].block
         /\ call.left \/ call.upto = metered[1].block

\* A notice of the trigger is billed through the block of the first match, and
\* not beyond unless its chain was left behind.
FirstOk(n) ==
    n.by = "trigger" =>
      /\ Len(metered) > 0 /\ n.upto >= metered[1].block
      /\ n.left \/ n.upto = metered[1].block

\* Both, of every notice told or about to be.
TriggerOk ==
    /\ TriggerWaits
    /\ \A n \in notices : FirstOk(n)
    /\ \A d \in Calls : drv[d].pc \in Told => FirstOk(drv[d].notice)

\* Only a commit adds to what is metered.
LEMMA MeteredGrows ==
  ASSUME Shape, [Next]_vars
  PROVE  metered' = metered \/ CommitBlock
<1> USE DEF dbVars, histVars
<1>1. CASE UNCHANGED vars BY <1>1 DEF vars
<1>2. CASE BeginBlock \/ OpenWindow \/ LogOpened \/ \E content \in Contents : Match(content)
  BY <1>2 DEF BeginBlock, OpenWindow, LogOpened, Match
<1>3. CASE \E d \in Calls : Call(d)
  BY <1>3 DEF Call, Read, Claim, Bill, Settle, Mark, LogMark, Deliver, LogDelivery
<1>4. CASE Sweep \/ HandlerFails \/ (\E d \in Calls : CallFails(d)) \/ Annotate
             \/ Expire \/ Crash \/ StartStream \/ FatalError
  BY <1>4 DEF Sweep, HandlerFails, FatalError, CallFails, Annotate, Expire, Crash, StartStream
<1> QED BY <1>1, <1>2, <1>3, <1>4 DEF Next, Block

\* The first event metered stays the first.
LEMMA FirstStays ==
  ASSUME Shape, Stored, [Next]_vars, Len(metered) > 0
  PROVE  Len(metered') > 0 /\ metered'[1] = metered[1]
<1>1. CASE metered' = metered BY <1>1
<1>2. CASE CommitBlock
  <2>1. PICK S : metered \in Seq(S) /\ Found \in Seq(S) BY AppendsLog DEF Stored
  <2>2. metered' = metered \o Found BY <1>2 DEF CommitBlock
  <2> QED BY <2>1, <2>2
<1> QED BY <1>1, <1>2, MeteredGrows

\* While the trigger's call runs in its chain, no block is begun.
LEMMA TriggerWaitsNext ==
  ASSUME Shape, Numbers, Stored, TriggerWaits, [Next]_vars
  PROVE  TriggerWaits'
<1> USE DEF dbVars, histVars
<1>0. ASSUME drv'["trigger"] = drv["trigger"], metered' = metered, cursor' = cursor,
             \/ handler.pc = "idle" => handler'.pc = "idle"
             \/ drv["trigger"].pc = "idle" \/ drv["trigger"].left
      PROVE  TriggerWaits'
  BY <1>0 DEF TriggerWaits, Billed, Told
<1>1. CASE UNCHANGED vars BY <1>0, <1>1 DEF vars
<1>2. CASE BeginBlock BY <1>0, <1>2 DEF BeginBlock
<1>3. CASE OpenWindow BY <1>0, <1>3 DEF OpenWindow
<1>4. CASE LogOpened BY <1>0, <1>4 DEF LogOpened
<1>5. CASE \E content \in Contents : Match(content) BY <1>0, <1>5 DEF Match
<1>6. CASE CommitBlock
  <2>1. /\ handler' = Resting /\ cursor' = pos /\ metered' = metered \o Found
        /\ pos \in Nat /\ pos >= 1 /\ cursor \in Nat /\ cursor <= pos
        /\ handler.pc = "commit"
    BY <1>6 DEF CommitBlock, Numbers, Working
  <2>2. PICK S : metered \in Seq(S) /\ Found \in Seq(S) BY AppendsLog DEF Stored
  <2>3. CASE ~Triggers
    <3>1. drv' = drv BY <1>6, <2>3 DEF CommitBlock
    <3>2. CASE drv["trigger"].pc = "idle"
      BY <3>1, <3>2 DEF TriggerWaits, Billed, Told
    <3>3. CASE drv["trigger"].pc # "idle"
      <4>1. /\ Len(metered) > 0 /\ metered[1].block \in 1 .. cursor
            /\ drv["trigger"].left
        BY <2>1, <3>3 DEF TriggerWaits
      <4>2. Len(metered') > 0 /\ metered'[1] = metered[1] BY <2>1, <2>2, <4>1
      <4>3. metered'[1].block \in 1 .. cursor' BY <2>1, <4>1, <4>2
      <4> QED BY <3>1, <4>1, <4>2, <4>3 DEF TriggerWaits
    <3> QED BY <3>2, <3>3
  <2>4. CASE Triggers
    <3>1. drv' = [drv EXCEPT !["trigger"] = [Idle EXCEPT !.pc = "read"]]
      BY <1>6, <2>4 DEF CommitBlock
    <3>2. drv'["trigger"].pc = "read" BY <3>1 DEF Shape, Calls, Idle
    <3>4. Len(metered) = 0 /\ Found # <<>>
      BY <2>4 DEF Triggers, Stored, StoredAreTheFirst
    <3>5. Len(Found) > 0 BY <2>2, <3>4
    <3>6. Len(metered') > 0 /\ metered'[1] = Found[1] BY <2>1, <2>2, <3>4, <3>5
    <3>7. Len(handler.found) \in Nat OBVIOUS
    <3>8. Len(Found) = Len(handler.found) BY <3>7 DEF Found
    <3>9. Found[1].block = pos BY <3>5, <3>7, <3>8 DEF Found
    <3> QED BY <2>1, <3>2, <3>6, <3>9 DEF TriggerWaits, Resting, Billed, Told
  <2> QED BY <2>3, <2>4
<1>7. CASE Sweep
  <2>1. drv'["trigger"] = drv["trigger"] BY <1>7 DEF Sweep, Shape, Calls
  <2> QED BY <1>0, <1>7, <2>1 DEF Sweep
<1>8. ASSUME NEW d \in Calls, Call(d) \/ CallFails(d)
      PROVE  TriggerWaits'
  <2>1. /\ metered' = metered /\ cursor' = cursor
        /\ handler.pc = "idle" => handler'.pc = "idle"
    BY <1>8 DEF Call, Read, Claim, Bill, Settle, Mark, LogMark, Deliver, LogDelivery,
                CallFails, Resting
  <2>2. CASE d # "trigger"
    <3>1. drv'["trigger"] = drv["trigger"]
      BY <1>8, <2>2 DEF Call, Read, Claim, Bill, Settle, Mark, LogMark, Deliver,
           LogDelivery, CallFails, Becomes, Shape, Calls
    <3> QED BY <1>0, <2>1, <3>1
  <2>3. CASE d = "trigger"
    <3>1. drv["trigger"].pc # "idle"
      BY <1>8, <2>3 DEF Call, Read, Claim, Bill, Settle, Mark, LogMark, Deliver,
           LogDelivery, CallFails
    <3>2. /\ drv'["trigger"].pc # "idle" => drv'["trigger"].left = drv["trigger"].left
          /\ drv'["trigger"].pc \in Billed =>
               \/ drv'["trigger"].upto = cursor
               \/ drv["trigger"].pc \in Billed
                    /\ drv'["trigger"].upto = drv["trigger"].upto
      <4> USE <2>3 DEF Becomes, Shape, Calls, Idle, Billed, Told
      <4>1. CASE Read(d) BY <4>1 DEF Read
      <4>2. CASE Claim(d) BY <4>2 DEF Claim
      <4>3. CASE Bill(d) BY <4>3 DEF Bill
      <4>4. CASE Settle(d) BY <4>4 DEF Settle
      <4>5. CASE Mark(d) BY <4>5 DEF Mark
      <4>6. CASE LogMark(d)
        <5>1. CASE drv' = drv BY <4>6, <5>1 DEF LogMark
        <5>2. CASE drv' = [drv EXCEPT ![d] = Idle] BY <5>2
        <5>3. CASE drv' = [drv EXCEPT ![d] = [drv[d] EXCEPT !.pc = "deliver", !.tries = 1]]
          BY <4>6, <5>3 DEF LogMark
        <5> QED BY <4>6, <5>1, <5>2, <5>3 DEF LogMark
      <4>7. CASE Deliver(d) BY <4>7 DEF Deliver
      <4>8. CASE LogDelivery(d) BY <4>8 DEF LogDelivery
      <4>9. CASE CallFails(d) BY <4>9 DEF CallFails
      <4> QED BY <1>8, <4>1, <4>2, <4>3, <4>4, <4>5, <4>6, <4>7, <4>8, <4>9 DEF Call
    <3>3. /\ Len(metered) > 0 /\ metered[1].block \in 1 .. cursor
          /\ drv["trigger"].left \/ (handler.pc = "idle" /\ metered[1].block = cursor)
      BY <3>1 DEF TriggerWaits
    <3>4. drv'["trigger"].pc \in Billed => drv'["trigger"].pc # "idle" BY DEF Billed, Told
    <3> QED BY <2>1, <3>1, <3>2, <3>3, <3>4 DEF TriggerWaits, Numbers
  <2> QED BY <2>2, <2>3
<1>9. CASE HandlerFails BY <1>0, <1>9 DEF HandlerFails, Working
<1>10. CASE Annotate BY <1>0, <1>10 DEF Annotate
<1>11. CASE Expire BY <1>0, <1>11 DEF Expire
<1>12. CASE Crash
  <2>1. drv'["trigger"].pc = "idle" BY <1>12 DEF Crash, Calls, Idle
  <2> QED BY <2>1 DEF TriggerWaits, Billed, Told
<1>13. CASE StartStream BY <1>0, <1>13 DEF StartStream
<1>14. CASE FatalError
  BY <1>14, FatalKeeps DEF TriggerWaits, SameCall, Calls, Billed, Told
<1> QED
  BY <1>1, <1>2, <1>3, <1>4, <1>5, <1>6, <1>7, <1>8, <1>9, <1>10, <1>11, <1>12, <1>13, <1>14
  DEF Next, Block

\* So its bill reaches that block, and goes no further from its chain.
LEMMA TriggerNext ==
  Shape /\ Numbers /\ Stored /\ TriggerOk /\ [Next]_vars => TriggerOk'
<1> SUFFICES ASSUME Shape, Numbers, Stored, TriggerOk, [Next]_vars PROVE TriggerOk'
  OBVIOUS
<1>1. TriggerWaits' BY TriggerWaitsNext DEF TriggerOk
<1>2. ASSUME NEW n, FirstOk(n) PROVE FirstOk(n)'
  BY <1>2, FirstStays DEF FirstOk
<1>3. ASSUME NEW d \in Calls, Mark(d) PROVE TriggerOk'
  <2>1. /\ notices' = notices /\ metered' = metered /\ drv[d].pc = "mark"
        /\ \A c \in Calls \ {d} : drv'[c] = drv[c]
        /\ drv'[d].notice.by = d /\ drv'[d].notice.upto = drv[d].upto
        /\ drv'[d].notice.left = drv[d].left
    BY <1>3 DEF Mark, Becomes, Shape, Idle, Notice, histVars
  <2>2. d = "trigger" => /\ Len(metered) > 0 /\ drv[d].upto >= metered[1].block
                         /\ drv[d].left \/ drv[d].upto = metered[1].block
    BY <2>1 DEF TriggerOk, TriggerWaits, Billed, Told
  <2>3. FirstOk(drv[d].notice)' BY <2>1, <2>2 DEF FirstOk
  <2>4. ASSUME NEW c \in Calls \ {d}, drv'[c].pc \in Told PROVE FirstOk(drv[c].notice)'
    BY <2>1, <2>4 DEF TriggerOk, FirstOk
  <2>5. \A n \in notices' : FirstOk(n)' BY <2>1 DEF TriggerOk, FirstOk
  <2> QED BY <1>1, <2>3, <2>4, <2>5 DEF TriggerOk
<1>4. ASSUME \A c \in Calls : drv'[c].pc \in Told =>
                 drv[c].pc \in Told /\ drv'[c].notice = drv[c].notice,
             \A n \in notices' : n \in notices
                 \/ \E c \in Calls : drv[c].pc \in Told /\ n = drv[c].notice
      PROVE  TriggerOk'
  <2>1. ASSUME NEW n \in notices' PROVE FirstOk(n)'
    <3>1. FirstOk(n) BY <1>4, <2>1 DEF TriggerOk, FirstOk
    <3> QED BY <1>2, <3>1
  <2>2. ASSUME NEW d \in Calls, drv'[d].pc \in Told PROVE FirstOk(drv[d].notice)'
    <3>1. FirstOk(drv[d].notice) /\ drv'[d].notice = drv[d].notice
      BY <1>4, <2>2 DEF TriggerOk
    <3>2. PICK n : n = drv[d].notice OBVIOUS
    <3>3. FirstOk(n) BY <3>1, <3>2 DEF FirstOk
    <3>4. FirstOk(n)' BY <1>2, <3>3
    <3> QED BY <3>1, <3>2, <3>4 DEF FirstOk
  <2> QED BY <1>1, <2>1, <2>2 DEF TriggerOk
<1> QED BY <1>3, <1>4, NoticeSources

\* The settlement a first match triggers is billed through that match's block
\* exactly, unless a fatal error left its write chain behind before it was done
\* (substreamsManager.ts, the trigger in the write chain).
THEOREM TriggerBillsItsBlock == Spec => []FirstMatchIsBilledThrough
<1>1. Init => TriggerOk
  BY DEF Init, TriggerOk, TriggerWaits, Idle, Calls, Told, Billed
<1>2. Safe /\ TriggerOk /\ [Next]_vars => TriggerOk'
  BY TriggerNext DEF Safe
<1>3. TriggerOk => FirstMatchIsBilledThrough
  BY DEF TriggerOk, FirstOk, FirstMatchIsBilledThrough
<1> QED BY <1>1, <1>2, <1>3, SafeHolds, PTL DEF Spec

-----------------------------------------------------------------------------
(* The window.                                                             *)

\* What holds of every block an event is metered from.
BlockOk(b) ==
    /\ InTime(b)
    /\ row.start # NoBlock => b < row.start + Budget
    /\ when[b] = "in" =>
         row.start # NoBlock /\ (b >= row.start \/ b \in skipped)

\* The blocks between the cursor and the last one delivered were skipped, but for
\* the one under way; so a window opens beyond every block already metered.
WindowOk ==
    /\ Working => pos > cursor
    /\ \A b \in cursor + 1 .. pos : b \in skipped \/ (b = pos /\ Working)
    /\ row.start # NoBlock => \A b \in cursor + 1 .. row.start - 1 : b \in skipped
    /\ handler.pc = "open" => handler.start = row.start
    /\ handler.pc \in {"log", "match"} =>
         row.start = pos /\ when[pos] \in {"in", "late"} /\ handler.start = NoBlock
    /\ handler.pc = "commit" /\ Len(handler.found) > 0 => BlockOk(pos)
    /\ \A k \in 1 .. Len(metered) : metered[k].block \in 1 .. cursor
    /\ \A b \in 1 .. pos : b \in committed \cup skipped \/ (b = pos /\ Working)

\* Every event metered is from such a block.
PaidOk == \A k \in 1 .. Len(metered) : BlockOk(metered[k].block)

\* The blocks a commit adds are the handler's.
LEMMA CommitAdds ==
  ASSUME Stored, CommitBlock, NEW k \in 1 .. Len(metered')
  PROVE  \/ k \in 1 .. Len(metered) /\ metered'[k] = metered[k]
         \/ Len(handler.found) > 0 /\ metered'[k].block = pos
<1>1. PICK S : metered \in Seq(S) /\ Found \in Seq(S) BY AppendsLog DEF Stored
<1>2. metered' = metered \o Found BY DEF CommitBlock
<1>3. Len(handler.found) \in Nat OBVIOUS
<1>4. Len(Found) = Len(handler.found)
        /\ \A j \in 1 .. Len(handler.found) : Found[j].block = pos
  BY <1>3 DEF Found
<1>5. CASE k <= Len(metered) BY <1>1, <1>2, <1>5
<1>6. CASE k > Len(metered)
  <2>1. k - Len(metered) \in 1 .. Len(Found) /\ metered'[k] = Found[k - Len(metered)]
    BY <1>1, <1>2, <1>6
  <2> QED BY <1>3, <1>4, <2>1
<1> QED BY <1>1, <1>5, <1>6

\* The window opens beyond every block metered, and closes with the budget.
LEMMA WindowNext ==
  ASSUME Shape, Numbers, Stored, WindowOk, PaidOk, [Next]_vars
  PROVE  WindowOk' /\ PaidOk'
<1> USE DEF dbVars, histVars
<1>0. ASSUME row'.start = row.start,
             UNCHANGED <<cursor, pos, handler, metered, skipped, committed, when>>
      PROVE  WindowOk' /\ PaidOk'
  BY <1>0 DEF WindowOk, PaidOk, BlockOk, InTime, Working
<1>1. CASE UNCHANGED vars BY <1>0, <1>1 DEF vars
<1>2. CASE BeginBlock
  <2>1. /\ handler.pc = "idle" /\ pos' = pos + 1
        /\ handler'.pc \in {"open", "commit"} /\ handler'.start = row.start
        /\ handler'.found = <<>>
        /\ UNCHANGED <<row, cursor, metered, skipped, committed, when>>
    BY <1>2 DEF BeginBlock, Resting
  <2>2. Len(handler'.found) = 0 BY <2>1
  <2>3. Working' /\ ~Working BY <2>1 DEF Working
  <2> QED BY <2>1, <2>2, <2>3 DEF WindowOk, PaidOk, BlockOk, InTime, Numbers
<1>3. CASE OpenWindow
  <2>1. /\ handler.pc = "open" /\ handler.start = NoBlock /\ row.start = NoBlock
        /\ when[pos] \in {"in", "late"} /\ Working
    BY <1>3 DEF OpenWindow, Opens, WindowOk, Working
  <2>2. /\ row'.start = pos /\ handler'.pc = "log" /\ handler'.start = NoBlock
        /\ UNCHANGED <<cursor, pos, metered, skipped, committed, when>>
    BY <1>3, <2>1 DEF OpenWindow, Shape
  <2>3. Working' BY <2>2 DEF Working
  <2>4. WindowOk' BY <2>1, <2>2, <2>3 DEF WindowOk, Numbers
  <2>5. ASSUME NEW k \in 1 .. Len(metered) PROVE BlockOk(metered[k].block)'
    <3>1. metered[k].block \in 1 .. cursor /\ BlockOk(metered[k].block)
      BY <2>5 DEF WindowOk, PaidOk
    <3>2. metered[k].block < pos BY <2>1, <3>1 DEF WindowOk, Numbers
    <3> QED BY <2>1, <2>2, <3>1, <3>2 DEF BlockOk, InTime, Numbers
  <2> QED BY <2>2, <2>4, <2>5 DEF PaidOk
<1>4. CASE LogOpened
  <2>1. /\ row'.start = row.start /\ handler.pc = "log"
        /\ handler' = handler \/ handler' = [handler EXCEPT !.pc = "match"]
        /\ UNCHANGED <<cursor, pos, metered, skipped, committed, when>>
    BY <1>4, LogSteps DEF LogOpened, SameRow, Writers
  <2>2. handler'.pc \in {"log", "match"} /\ handler'.start = handler.start
    BY <2>1 DEF Shape
  <2>3. Working' /\ Working BY <2>1, <2>2 DEF Working
  <2> QED BY <2>1, <2>2, <2>3 DEF WindowOk, PaidOk, BlockOk, InTime
<1>5. ASSUME NEW content \in Contents, Match(content) PROVE WindowOk' /\ PaidOk'
  <2>1. /\ handler.pc = "match" \/ (handler.pc = "open" /\ ~Opens)
        /\ UNCHANGED <<row, cursor, pos, metered, skipped, committed, when>>
        /\ handler'.pc = "commit" /\ handler'.start = handler.start
    BY <1>5 DEF Match, Shape
  <2>2. Working' /\ Working BY <2>1 DEF Working
  <2>3. Len(handler'.found) > 0 => InTime(pos) /\ InBudget(handler.start, Budget, pos)
    <3>1. CASE ~(InTime(pos) /\ InBudget(handler.start, Budget, pos))
      <4>1. handler'.found = <<>> BY <1>5, <3>1 DEF Match, Shape
      <4> QED BY <4>1
    <3> QED BY <3>1
  <2>4. Len(handler'.found) > 0 => BlockOk(pos)
    <3>1. CASE handler.pc = "match"
      BY <2>2, <2>3, <3>1 DEF BlockOk, WindowOk, Numbers
    <3>2. CASE handler.pc = "open" /\ ~Opens
      <4>1. handler.start = row.start /\ pos > cursor
        BY <2>2, <3>2 DEF WindowOk
      <4>2. when[pos] = "in" => row.start # NoBlock BY <3>2, <4>1 DEF Opens
      <4>3. row.start # NoBlock /\ pos < row.start => pos \in skipped
        BY <4>1 DEF WindowOk, Numbers
      <4> QED BY <2>3, <4>1, <4>2, <4>3 DEF BlockOk, InBudget, Numbers
    <3> QED BY <2>1, <3>1, <3>2
  <2>5. Len(handler'.found) > 0 => BlockOk(pos)' BY <2>1, <2>4 DEF BlockOk, InTime
  <2> QED BY <2>1, <2>2, <2>5 DEF WindowOk, PaidOk, BlockOk, InTime
<1>6. CASE CommitBlock
  <2>1. /\ handler.pc = "commit" /\ Working /\ row'.start = row.start /\ cursor' = pos
        /\ handler' = Resting /\ committed' = committed \cup {pos} /\ UNCHANGED <<pos, skipped, when>>
    BY <1>6 DEF CommitBlock, Shape, Working
  <2>2. ~Working' /\ handler'.pc = "idle" BY <2>1 DEF Working, Resting
  <2>3. ASSUME NEW k \in 1 .. Len(metered')
        PROVE  metered'[k].block \in 1 .. cursor' /\ BlockOk(metered[k].block)'
    <3>1. CASE k \in 1 .. Len(metered) /\ metered'[k] = metered[k]
      BY <2>1, <3>1 DEF WindowOk, PaidOk, BlockOk, InTime, Numbers
    <3>2. CASE Len(handler.found) > 0 /\ metered'[k].block = pos
      BY <2>1, <3>2 DEF WindowOk, BlockOk, InTime, Numbers
    <3> QED BY <1>6, <2>3, <3>1, <3>2, CommitAdds
  <2>4. PaidOk' BY <2>3 DEF PaidOk
  <2>5. WindowOk' BY <2>1, <2>2, <2>3 DEF WindowOk, Numbers
  <2> QED BY <2>4, <2>5
<1>7. CASE Sweep BY <1>0, <1>7 DEF Sweep
<1>8. ASSUME NEW d \in Calls, Read(d) \/ Bill(d) \/ Settle(d) \/ Deliver(d)
      PROVE  UNCHANGED <<row, cursor, pos, handler, metered, skipped, committed, when>>
  BY <1>8 DEF Read, Bill, Settle, Deliver
<1>9. ASSUME NEW d \in Calls, Claim(d) \/ Mark(d) PROVE WindowOk' /\ PaidOk'
  <2>1. row'.start = row.start BY <1>9 DEF Claim, Mark, Shape
  <2> QED BY <1>0, <1>9, <2>1 DEF Claim, Mark
<1>10. ASSUME NEW d \in Calls, LogMark(d) \/ LogDelivery(d) PROVE WindowOk' /\ PaidOk'
  BY <1>0, <1>10, LogSteps DEF LogMark, LogDelivery, SameRow, Writers
<1>11. CASE HandlerFails
  <2>1. /\ Working /\ handler' = Resting /\ skipped' = skipped \cup {pos}
        /\ UNCHANGED <<row, cursor, pos, metered, committed, when>>
    BY <1>11 DEF HandlerFails
  <2>2. ~Working' /\ handler'.pc = "idle" BY <2>1 DEF Working, Resting
  <2> QED BY <2>1, <2>2 DEF WindowOk, PaidOk, BlockOk, InTime
<1>12. ASSUME NEW d \in Calls, CallFails(d) PROVE WindowOk' /\ PaidOk'
  <2>1. /\ handler' = handler \/ (handler.pc = "starting" /\ handler'.pc = "idle")
        /\ UNCHANGED <<row, cursor, pos, metered, skipped, committed, when>>
    BY <1>12 DEF CallFails, Resting
  <2>2. CASE handler' = handler BY <1>0, <2>1, <2>2
  <2>3. CASE handler.pc = "starting" /\ handler'.pc = "idle"
    <3>1. ~Working /\ ~Working' BY <2>3 DEF Working
    <3> QED BY <2>1, <2>3, <3>1 DEF WindowOk, PaidOk, BlockOk, InTime
  <2> QED BY <2>1, <2>2, <2>3
<1>13. CASE Annotate
  BY <1>0, <1>13, LogSteps DEF Annotate, SameRow, Writers
<1>14. CASE Expire BY <1>0, <1>14 DEF Expire
<1>15. CASE Crash
  <2>1. /\ handler'.pc = "starting" /\ pos' = cursor
        /\ UNCHANGED <<row, cursor, metered, skipped, committed, when>>
    BY <1>15 DEF Crash, Resumed, Resting
  <2>2. ~Working' BY <2>1 DEF Working
  <2> QED BY <2>1, <2>2 DEF WindowOk, PaidOk, BlockOk, InTime, Numbers
<1>16. CASE StartStream
  <2>1. /\ handler'.pc = "idle" /\ handler.pc = "starting"
        /\ UNCHANGED <<row, cursor, pos, metered, skipped, committed, when>>
    BY <1>16 DEF StartStream, Resting
  <2>2. ~Working' /\ ~Working BY <2>1 DEF Working
  <2> QED BY <2>1, <2>2 DEF WindowOk, PaidOk, BlockOk, InTime
<1>18. CASE FatalError BY <1>0, <1>18, FatalKeeps
<1>17. ASSUME NEW d \in Calls, Read(d) \/ Bill(d) \/ Settle(d) \/ Deliver(d)
       PROVE  WindowOk' /\ PaidOk'
  BY <1>0, <1>8, <1>17
<1> QED
  BY <1>1, <1>2, <1>3, <1>4, <1>5, <1>6, <1>7, <1>9, <1>10, <1>11, <1>12, <1>13,
     <1>14, <1>15, <1>16, <1>17, <1>18
  DEF Next, Block, Call

\* Events are metered from the paid window alone, but for a skipped block that
\* came again (matcher.ts matchesIntent).
THEOREM MeteredIsPaidFor == Spec => []MeteredIsInPaidWindow
<1>1. Init => WindowOk /\ PaidOk
  BY DEF Init, WindowOk, PaidOk, Working, Resting
<1>2. Safe /\ WindowOk /\ PaidOk /\ [Next]_vars => WindowOk' /\ PaidOk'
  BY WindowNext DEF Safe
<1>3. PaidOk => MeteredIsInPaidWindow
  BY DEF PaidOk, BlockOk, MeteredIsInPaidWindow
<1> QED BY <1>1, <1>2, <1>3, SafeHolds, PTL DEF Spec

\* The two ways to count an interval split by membership in a set.
LEMMA SplitInterval ==
  ASSUME NEW i \in Int, NEW j \in Int, i <= j, NEW C, NEW L, i .. j \subseteq C \cup L
  PROVE  Cardinality((i .. j) \cap C) + Cardinality((i .. j) \cap (L \ C)) = j - i + 1
<1> DEFINE B == i .. j
           X == B \cap C
           Y == B \cap (L \ C)
<1>1. IsFiniteSet(i .. j) /\ Cardinality(i .. j) = j - i + 1
  <2>1. Cardinality(i .. j) = IF i > j THEN 0 ELSE j - i + 1 BY FS_Interval
  <2> QED BY <2>1, FS_Interval
<1>2. X \cup Y = i .. j /\ X \cap Y = {} /\ X \subseteq i .. j /\ Y \subseteq i .. j
  OBVIOUS
<1> HIDE DEF B, X, Y
<1>3. IsFiniteSet(X) /\ IsFiniteSet(Y) BY <1>1, <1>2, FS_Subset
<1>4. Cardinality(X \cup Y) = Cardinality(X) + Cardinality(Y) - Cardinality(X \cap Y)
  BY <1>3, FS_Union
<1>5. Cardinality(X \cap Y) = 0 BY <1>2, FS_EmptySet
<1>6. Cardinality(X) \in Nat /\ Cardinality(Y) \in Nat BY <1>3, FS_CardinalityType
<1>7. Cardinality(X \cup Y) = Cardinality(X) + Cardinality(Y) BY <1>4, <1>5, <1>6
<1>8. Cardinality(X) + Cardinality(Y) = j - i + 1 BY <1>1, <1>2, <1>7
<1> QED BY <1>8 DEF X, Y, B

\* Nothing is charged for a block that the stream neither committed nor lost in a
\* failed handler, or that is from before the intent (settlementEngine.ts
\* amountDue against substreamsManager.ts).
THEOREM ChargeHasNoGaps == Spec => []ChargedIsProcessedOrLost
<1>1. Init => WindowOk /\ PaidOk
  BY DEF Init, WindowOk, PaidOk, Working, Resting
<1>2. Safe /\ WindowOk /\ PaidOk /\ [Next]_vars => WindowOk' /\ PaidOk'
  BY WindowNext DEF Safe
<1>3. Safe /\ WindowOk => ChargedIsProcessedOrLost
  <2> SUFFICES ASSUME Safe, WindowOk, row.paid, row.amount > 0
               PROVE  /\ when[row.start] \in {"in", "late"}
                      /\ row.amount <= Rate * (Cardinality(BilledBlocks \cap committed)
                                 + Cardinality(BilledBlocks \cap (skipped \ committed)))
    BY DEF ChargedIsProcessedOrLost
  <2>1. PICK start \in {NoBlock, row.start}, upto \in 0 .. cursor :
               row.amount = AmountDue(start, Budget, upto, Rate)
    BY DEF Safe, Owners, RowOk
  <2>2. start \in Nat /\ upto \in Nat /\ cursor \in Nat /\ row.start \in Nat
    BY <2>1 DEF Safe, Numbers
  <2>3. /\ start # NoBlock /\ upto >= start
        /\ row.amount <= Rate * (upto - start + 1) /\ row.amount \in Nat
    BY <2>1, <2>2, DueBounds
  <2>4. start = row.start BY <2>1, <2>3
  <2>5. upto - start + 1 \in Int /\ cursor - row.start + 1 \in Int
          /\ upto - start + 1 <= cursor - row.start + 1
    BY <2>1, <2>2, <2>4
  <2>6. Rate * (upto - start + 1) <= Rate * (cursor - row.start + 1)
          /\ Rate * (upto - start + 1) \in Int /\ Rate * (cursor - row.start + 1) \in Int
    BY <2>5, RateGrows
  <2>7. when[row.start] \in {"in", "late"} BY <2>3, <2>4 DEF Safe, Numbers
  <2>8. \A b \in 1 .. cursor : b \in committed \cup skipped
    BY DEF Safe, Numbers, WindowOk
  <2>9. row.start \in Int /\ cursor \in Int /\ row.start <= cursor /\ row.start >= 1
    BY <2>1, <2>2, <2>3, <2>4
  <2>10. row.start .. cursor \subseteq committed \cup skipped BY <2>8, <2>9
  <2>11. Cardinality(BilledBlocks \cap committed)
            + Cardinality(BilledBlocks \cap (skipped \ committed)) = cursor - row.start + 1
    BY <2>9, <2>10, SplitInterval DEF BilledBlocks
  <2> QED BY <2>3, <2>6, <2>7, <2>11
<1> QED BY <1>1, <1>2, <1>3, SafeHolds, PTL DEF Spec

-----------------------------------------------------------------------------
(* The charge covers what is delivered.                                    *)

\* Once a call has billed, only the block then under way can still add events.
BilledOk ==
    \A d \in Calls : drv[d].pc \in {"settle", "mark"} =>
      /\ \A k \in 1 .. Len(metered) :
            metered[k].block <= drv[d].upto
              \/ (drv[d].busy /\ metered[k].block = drv[d].begun)
      /\ (handler.pc \in {"open", "log", "match"}
            \/ (handler.pc = "commit" /\ Len(handler.found) > 0))
           => drv[d].busy /\ pos = drv[d].begun

\* An event a notice delivers is paid for, or falls under an exception.
EventOk(n, block) ==
    \/ when[block] = "none"
    \/ /\ row.start # NoBlock
       /\ \/ n.amount >= Rate * (block - row.start + 1)
          \/ n.busy /\ block = n.begun
          \/ n.start = NoBlock /\ row.start >= n.seen

\* Each of a notice's events.
EventsOk(n) == \A k \in 1 .. Len(n.events) : EventOk(n, n.events[k].block)

\* Every event told, or about to be, is covered.
DeliveredOk ==
    /\ BilledOk
    /\ \A n \in notices : EventsOk(n)
    /\ \A d \in Calls : drv[d].pc \in Told => EventsOk(drv[d].notice)

\* The start block is written once.
LEMMA StartStays ==
  ASSUME Shape, WindowOk, [Next]_vars
  PROVE  when' = when /\ (row.start # NoBlock => row'.start = row.start)
<1> USE DEF dbVars, histVars
<1>1. CASE UNCHANGED vars BY <1>1 DEF vars
<1>2. CASE BeginBlock \/ \E content \in Contents : Match(content)
  BY <1>2 DEF BeginBlock, Match
<1>3. CASE OpenWindow BY <1>3 DEF OpenWindow, Shape
<1>4. CASE LogOpened BY <1>4, LogSteps DEF LogOpened, SameRow, Writers
<1>5. CASE CommitBlock BY <1>5 DEF CommitBlock, Shape
<1>6. CASE \E d \in Calls : Read(d) \/ Bill(d) \/ Deliver(d) BY <1>6 DEF Read, Bill, Deliver
<1>7. CASE \E d \in Calls : Settle(d) BY <1>7 DEF Settle
<1>8. CASE \E d \in Calls : Claim(d) \/ Mark(d) BY <1>8 DEF Claim, Mark, Shape
<1>9. CASE \E d \in Calls : LogMark(d) \/ LogDelivery(d)
  BY <1>9, LogSteps DEF LogMark, LogDelivery, SameRow, Writers
<1>10. CASE Sweep \/ HandlerFails \/ (\E d \in Calls : CallFails(d))
              \/ Expire \/ Crash \/ StartStream \/ FatalError
  BY <1>10 DEF Sweep, HandlerFails, FatalError, CallFails, Expire, Crash, StartStream
<1>11. CASE Annotate BY <1>11, LogSteps DEF Annotate, SameRow, Writers
<1> QED
  BY <1>1, <1>2, <1>3, <1>4, <1>5, <1>6, <1>7, <1>8, <1>9, <1>10, <1>11
  DEF Next, Block, Call

\* A call's bill is fixed while the call waits for its answer and its mark.
LEMMA BillStays ==
  ASSUME Shape, [Next]_vars, NEW d \in Calls, drv'[d].pc \in {"settle", "mark"}
  PROVE  \/ /\ drv[d].pc \in {"settle", "mark"} /\ drv'[d].upto = drv[d].upto
            /\ drv'[d].busy = drv[d].busy /\ drv'[d].begun = drv[d].begun
         \/ Bill(d)
<1> USE DEF dbVars, histVars, Shape, Calls, Idle, Becomes
<1>1. CASE UNCHANGED vars BY <1>1 DEF vars
<1>2. CASE BeginBlock \/ OpenWindow \/ LogOpened \/ \E content \in Contents : Match(content)
  BY <1>2 DEF BeginBlock, OpenWindow, LogOpened, Match
<1>3. CASE CommitBlock BY <1>3 DEF CommitBlock
<1>4. CASE Sweep BY <1>4 DEF Sweep
<1>5. ASSUME NEW c \in Calls, Call(c) \/ CallFails(c), c # d
      PROVE  drv'[d] = drv[d]
  BY <1>5 DEF Call, Read, Claim, Bill, Settle, Mark, LogMark, Deliver, LogDelivery,
              CallFails
<1>6. CASE Read(d) BY <1>6 DEF Read
<1>7. CASE Claim(d)
  <2>1. CASE drv' = [drv EXCEPT ![d] = [drv[d] EXCEPT !.pc = "bill"]] BY <2>1
  <2>2. CASE drv' = [drv EXCEPT ![d] = Idle] BY <2>2
  <2> QED BY <1>7, <2>1, <2>2 DEF Claim
<1>8. CASE Settle(d)
  <2>1. PICK answer : drv' = [drv EXCEPT ![d] =
                         IF answer = "left" THEN Idle
                         ELSE [drv[d] EXCEPT !.pc = "mark", !.verdict = answer]]
    BY <1>8 DEF Settle
  <2>2. drv[d].pc = "settle" BY <1>8 DEF Settle
  <2>3. CASE answer = "left" BY <2>1, <2>3
  <2>4. CASE answer # "left"
    <3>1. drv' = [drv EXCEPT ![d] = [drv[d] EXCEPT !.pc = "mark", !.verdict = answer]]
      BY <2>1, <2>4
    <3> QED BY <2>2, <3>1
  <2> QED BY <2>3, <2>4
<1>9. CASE Mark(d) BY <1>9 DEF Mark
<1>10. CASE LogMark(d)
  <2>1. CASE drv' = drv BY <1>10, <2>1
  <2>2. CASE drv' = [drv EXCEPT ![d] = Idle] BY <2>2
  <2>3. CASE drv' = [drv EXCEPT ![d] = [drv[d] EXCEPT !.pc = "deliver", !.tries = 1]]
    BY <2>3
  <2> QED BY <1>10, <2>1, <2>2, <2>3 DEF LogMark
<1>11. CASE Deliver(d) BY <1>11 DEF Deliver
<1>12. CASE LogDelivery(d) BY <1>12 DEF LogDelivery
<1>13. CASE CallFails(d) BY <1>13 DEF CallFails
<1>14. CASE HandlerFails \/ Annotate \/ Expire \/ StartStream
  BY <1>14 DEF HandlerFails, Annotate, Expire, StartStream
<1>15. CASE Crash BY <1>15 DEF Crash
<1>16. CASE FatalError BY <1>16, FatalKeeps DEF SameCall
<1> QED
  BY <1>16, <1>1, <1>2, <1>3, <1>4, <1>5, <1>6, <1>7, <1>8, <1>9, <1>10, <1>11, <1>12, <1>13,
     <1>14, <1>15
  DEF Next, Block, Call

\* The handler's progress while an intent is claimed: no new block is matched.
LEMMA HandlerSteps ==
  ASSUME Shape, Numbers, [Next]_vars, row.status = "SETTLING"
  PROVE  (handler'.pc \in {"open", "log", "match"}
            \/ (handler'.pc = "commit" /\ Len(handler'.found) > 0))
         => /\ pos' = pos
            /\ handler.pc \in {"open", "log", "match"}
                 \/ (handler.pc = "commit" /\ Len(handler.found) > 0)
<1> USE DEF dbVars, histVars, Shape, Resting
<1>1. CASE UNCHANGED vars BY <1>1 DEF vars
<1>2. CASE BeginBlock
  <2>1. handler'.pc = "commit" /\ handler'.found = <<>> BY <1>2 DEF BeginBlock, Watched
  <2> QED BY <2>1
<1>3. CASE OpenWindow BY <1>3 DEF OpenWindow
<1>4. CASE LogOpened BY <1>4 DEF LogOpened
<1>5. CASE \E content \in Contents : Match(content) BY <1>5 DEF Match
<1>6. CASE CommitBlock BY <1>6 DEF CommitBlock
<1>7. ASSUME NEW d \in Calls, Call(d) PROVE handler' = handler /\ pos' = pos
  BY <1>7 DEF Call, Read, Claim, Bill, Settle, Mark, LogMark, Deliver, LogDelivery
<1>8. CASE Sweep \/ Annotate \/ Expire BY <1>8 DEF Sweep, Annotate, Expire
<1>9. CASE HandlerFails \/ Crash \/ StartStream
  BY <1>9 DEF HandlerFails, Crash, StartStream
<1>10. CASE \E d \in Calls : CallFails(d)
  BY <1>10 DEF CallFails
<1>11. CASE FatalError BY <1>11 DEF FatalError
<1> QED BY <1>11, <1>1, <1>2, <1>3, <1>4, <1>5, <1>6, <1>7, <1>8, <1>9, <1>10
    DEF Next, Block

\* After the bill, a commit adds events of the block under way alone: the row is
\* claimed, and a claimed row is not watched.
LEMMA BilledNext ==
  ASSUME Shape, Numbers, Stored, Owners, WindowOk, BilledOk, [Next]_vars
  PROVE  BilledOk'
<1> SUFFICES ASSUME NEW d \in Calls, drv'[d].pc \in {"settle", "mark"}
             PROVE  /\ \A k \in 1 .. Len(metered') :
                          metered'[k].block <= drv'[d].upto
                            \/ (drv'[d].busy /\ metered'[k].block = drv'[d].begun)
                    /\ (handler'.pc \in {"open", "log", "match"}
                          \/ (handler'.pc = "commit" /\ Len(handler'.found) > 0))
                         => drv'[d].busy /\ pos' = drv'[d].begun
  BY DEF BilledOk
<1>1. CASE Bill(d)
  <2>1. /\ drv'[d].upto = cursor /\ drv'[d].begun = pos /\ drv'[d].busy = Working
        /\ UNCHANGED <<handler, pos, metered>>
    BY <1>1 DEF Bill, Becomes, Shape, Idle, histVars
  <2>2. \A k \in 1 .. Len(metered') : metered'[k].block <= drv'[d].upto
    BY <2>1 DEF WindowOk, Numbers
  <2>3. handler.pc \in {"open", "log", "match", "commit"} => Working BY DEF Working
  <2> QED BY <2>1, <2>2, <2>3
<1>2. CASE /\ drv[d].pc \in {"settle", "mark"} /\ drv'[d].upto = drv[d].upto
           /\ drv'[d].busy = drv[d].busy /\ drv'[d].begun = drv[d].begun
  <2>1. row.status = "SETTLING" BY <1>2 DEF Owners, CallOk, Owns
  <2>2. (handler'.pc \in {"open", "log", "match"}
            \/ (handler'.pc = "commit" /\ Len(handler'.found) > 0))
         => drv'[d].busy /\ pos' = drv'[d].begun
    BY <1>2, <2>1, HandlerSteps DEF BilledOk
  <2>3. ASSUME NEW k \in 1 .. Len(metered')
        PROVE  metered'[k].block <= drv'[d].upto
                 \/ (drv'[d].busy /\ metered'[k].block = drv'[d].begun)
    <3>1. CASE metered' = metered BY <1>2, <2>3, <3>1 DEF BilledOk
    <3>2. CASE CommitBlock
      <4>1. CASE k \in 1 .. Len(metered) /\ metered'[k] = metered[k]
        BY <1>2, <4>1 DEF BilledOk
      <4>2. CASE Len(handler.found) > 0 /\ metered'[k].block = pos
        BY <1>2, <3>2, <4>2 DEF BilledOk, CommitBlock
      <4> QED BY <2>3, <3>2, <4>1, <4>2, CommitAdds
    <3> QED BY <3>1, <3>2, MeteredGrows
  <2> QED BY <2>2, <2>3
<1> QED BY <1>1, <1>2, BillStays

\* The notice of a mark delivers nothing its charge does not reach.
LEMMA MarkDelivers ==
  ASSUME Safe, WindowOk, PaidOk, BilledOk, NEW d \in Calls, Mark(d),
         NEW n, n = drv'[d].notice
  PROVE  EventsOk(n)'
<1>1. /\ drv[d].pc = "mark" /\ when' = when /\ row'.start = row.start
      /\ n = Notice(d, row)
  BY DEF Mark, Becomes, Shape, Idle, Safe
<1>2. /\ n.amount = drv[d].amount /\ n.start = drv[d].start /\ n.seen = drv[d].seen
      /\ n.begun = drv[d].begun
  BY <1>1 DEF Notice
<1>3. n.busy = drv[d].busy BY <1>1 DEF Notice
<1>4. n.events = row.stored \/ n.events = <<>> BY <1>1 DEF Notice
<1>5. ASSUME NEW k \in 1 .. Len(n.events)
      PROVE  k \in 1 .. Len(metered) /\ n.events[k] = metered[k]
  <2>1. n.events = row.stored BY <1>4, <1>5
  <2>2. PICK S : metered \in Seq(S) BY DEF Safe, Stored, IsLog
  <2>3. row.stored = SubSeq(metered, 1, AtMost(Len(metered), MaxEvents))
    BY DEF Safe, Stored, StoredAreTheFirst
  <2> DEFINE m == AtMost(Len(metered), MaxEvents)
  <2>4. m \in Nat /\ m <= Len(metered) BY <2>2 DEF AtMost
  <2> HIDE DEF m
  <2>5. /\ Len(row.stored) = m /\ \A j \in 1 .. m : row.stored[j] = metered[j]
    BY <2>2, <2>3, <2>4 DEF m
  <2> QED BY <1>5, <2>1, <2>2, <2>4, <2>5
<1>6. ASSUME NEW k \in 1 .. Len(metered), NEW b, b = metered[k].block
      PROVE  EventOk(n, b)'
  <2>1. BlockOk(b) /\ b \in 1 .. cursor BY <1>6 DEF PaidOk, WindowOk
  <2>2. b <= drv[d].upto \/ (drv[d].busy /\ b = drv[d].begun)
    BY <1>1, <1>6 DEF BilledOk
  <2>3. /\ drv[d].start \in {NoBlock, row.start} /\ drv[d].upto \in 0 .. cursor
        /\ drv[d].amount = AmountDue(drv[d].start, Budget, drv[d].upto, Rate)
        /\ drv[d].start = NoBlock /\ row.start # NoBlock => row.start >= drv[d].seen
    BY <1>1 DEF Safe, Owners, CallOk, Billed, Owns
  <2>4. drv[d].start \in Nat /\ drv[d].upto \in Nat /\ b \in Nat
    BY <2>1, <2>3 DEF Safe, Numbers
  <2>5. when[b] \in {"in", "none"} BY <2>1 DEF BlockOk, InTime
  <2>6. ASSUME when[b] = "in"
        PROVE  /\ row.start # NoBlock
               /\ \/ n.amount >= Rate * (b - row.start + 1)
                  \/ n.busy /\ b = n.begun
                  \/ n.start = NoBlock /\ row.start >= n.seen
    <3>1. row.start # NoBlock /\ b < row.start + Budget BY <2>1, <2>6 DEF BlockOk
    <3>2. CASE drv[d].start = NoBlock BY <1>2, <2>3, <3>1, <3>2
    <3>3. CASE drv[d].start = row.start /\ b <= drv[d].upto
      <4>1. b \in 1 .. drv[d].upto BY <2>1, <2>4, <3>3
      <4>2. drv[d].amount >= Rate * (b - row.start + 1)
        <5>1. \A c \in 1 .. drv[d].upto :
                 drv[d].start # NoBlock /\ c < drv[d].start + Budget
                   => drv[d].amount >= Rate * (c - drv[d].start + 1)
          BY <2>3, <2>4, DueBounds
        <5> QED BY <3>1, <3>3, <4>1, <5>1
      <4> QED BY <1>2, <3>1, <4>2
    <3>4. CASE drv[d].busy /\ b = drv[d].begun BY <1>2, <1>3, <3>1, <3>4
    <3> QED BY <2>2, <2>3, <3>2, <3>3, <3>4
  <2> QED BY <1>1, <2>5, <2>6 DEF EventOk
<1> QED BY <1>5, <1>6 DEF EventsOk

\* Every step keeps all notices covered.
LEMMA DeliveredNext ==
  ASSUME Safe, WindowOk, PaidOk, DeliveredOk, [Next]_vars
  PROVE  DeliveredOk'
<1>1. BilledOk' BY BilledNext DEF Safe, DeliveredOk
<1>2. ASSUME NEW n, EventsOk(n) PROVE EventsOk(n)'
  <2> SUFFICES ASSUME NEW k \in 1 .. Len(n.events)
               PROVE  EventOk(n, n.events[k].block)'
    BY DEF EventsOk
  <2>1. EventOk(n, n.events[k].block) BY <1>2 DEF EventsOk
  <2>2. when' = when /\ (row.start # NoBlock => row'.start = row.start)
    BY StartStays DEF Safe
  <2> QED BY <2>1, <2>2 DEF EventOk
<1>3. ASSUME NEW d \in Calls, Mark(d) PROVE DeliveredOk'
  <2>1. notices' = notices /\ \A c \in Calls \ {d} : drv'[c] = drv[c]
    BY <1>3 DEF Mark, Becomes, Safe, Shape
  <2>2. ASSUME NEW n, n = drv'[d].notice PROVE EventsOk(n)'
    BY <1>3, <2>2, MarkDelivers DEF DeliveredOk
  <2>3. EventsOk(drv[d].notice)' BY <2>2 DEF EventsOk, EventOk
  <2>4. ASSUME NEW c \in Calls \ {d}, drv'[c].pc \in Told
        PROVE  EventsOk(drv[c].notice)'
    <3>1. EventsOk(drv[c].notice) /\ drv'[c].notice = drv[c].notice
      BY <2>1, <2>4 DEF DeliveredOk
    <3>2. PICK n : n = drv[c].notice OBVIOUS
    <3>3. EventsOk(n) BY <3>1, <3>2 DEF EventsOk, EventOk
    <3>4. EventsOk(n)' BY <1>2, <3>3
    <3> QED BY <3>1, <3>2, <3>4 DEF EventsOk, EventOk
  <2>5. ASSUME NEW n \in notices' PROVE EventsOk(n)'
    BY <1>2, <2>1, <2>5 DEF DeliveredOk
  <2> QED BY <1>1, <2>3, <2>4, <2>5 DEF DeliveredOk
<1>4. ASSUME \A c \in Calls : drv'[c].pc \in Told =>
                 drv[c].pc \in Told /\ drv'[c].notice = drv[c].notice,
             \A n \in notices' : n \in notices
                 \/ \E c \in Calls : drv[c].pc \in Told /\ n = drv[c].notice
      PROVE  DeliveredOk'
  <2>1. ASSUME NEW n \in notices' PROVE EventsOk(n)'
    <3>1. CASE n \in notices BY <1>2, <3>1 DEF DeliveredOk
    <3>2. ASSUME NEW c \in Calls, drv[c].pc \in Told, n = drv[c].notice
          PROVE  EventsOk(n)'
      <4>1. EventsOk(drv[c].notice) BY <3>2 DEF DeliveredOk
      <4>2. EventsOk(n) BY <3>2, <4>1 DEF EventsOk, EventOk
      <4> QED BY <1>2, <4>2
    <3> QED BY <1>4, <2>1, <3>1, <3>2
  <2>2. ASSUME NEW d \in Calls, drv'[d].pc \in Told PROVE EventsOk(drv[d].notice)'
    <3>1. EventsOk(drv[d].notice) /\ drv'[d].notice = drv[d].notice
      BY <1>4, <2>2 DEF DeliveredOk
    <3>2. PICK n : n = drv[d].notice OBVIOUS
    <3>3. EventsOk(n) BY <3>1, <3>2 DEF EventsOk, EventOk
    <3>4. EventsOk(n)' BY <1>2, <3>3
    <3> QED BY <3>1, <3>2, <3>4 DEF EventsOk, EventOk
  <2> QED BY <1>1, <2>1, <2>2 DEF DeliveredOk
<1> QED BY <1>3, <1>4, NoticeSources DEF Safe

\* No paid notice gives an event of a dated block for which it does not charge,
\* but for the block under way at the bill and for a window the call has not seen.
THEOREM EventsAreDeliveredPaid == Spec => []DeliveredIsPaid
<1>1. Init => WindowOk /\ PaidOk /\ DeliveredOk
  BY DEF Init, WindowOk, PaidOk, DeliveredOk, BilledOk, Working, Resting, Idle, Told, Calls
<1>2. Safe /\ WindowOk /\ PaidOk /\ DeliveredOk /\ [Next]_vars
        => WindowOk' /\ PaidOk' /\ DeliveredOk'
  BY WindowNext, DeliveredNext DEF Safe
<1>3. DeliveredOk => DeliveredIsPaid
  BY DEF DeliveredOk, EventsOk, EventOk, DeliveredIsPaid
<1> QED BY <1>1, <1>2, <1>3, SafeHolds, PTL DEF Spec
=============================================================================
