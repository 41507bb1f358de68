------------------------------ MODULE AgentProofs ------------------------------
(***************************************************************************)
(* Proofs about the clocks of a watch.  The properties hold for the        *)
(* constants of the two programs because these fit each other; here the    *)
(* theorems say what "fit" has to mean: two inequalities between timers,   *)
(* which are the hypotheses, and nothing else about their values.  That a  *)
(* facilitator call ends within Latency is not enforced by the code, which *)
(* sets no timeout on it.                                                  *)
(***************************************************************************)
EXTENDS Agent, TLAPS

\* 120 s against the 60 s of the receipt poll and what the facilitator takes to
\* answer: a claim is not stale while its attempt can be at work.
ClaimOutlivesAttempt == Latency + Receipt <= Stale

\* 180 s against the 60 s of the sweep, the 60 s of the receipt poll, the
\* facilitator's answer and the delivery: the watchdog leaves time for a
\* settlement that starts at the first sweep after the TTL.
DogOutlastsSettlement == SweepEvery + Receipt + 2 * Latency < Slack

-----------------------------------------------------------------------------
(* The invariant, in layers.                                               *)

\* The types, with the fields of a window and of the agent.
Statuses == {"none", "MONITORING", "SETTLING", "SETTLED", "TIMEOUT"}

WindowRecord ==
    [status : Statuses, ends : Nat, touched : Nat, claimed : Nat,
     pc : {"rest", "asked", "receipt", "deliver"}, since : Nat, spent : BOOLEAN]

AgentRecord ==
    [pc : {"buying", "stuck", "parking", "parked", "thinking", "done", "gaveup"},
     window : 1 .. Reissues + 1, since : Nat]

TypeInv ==
    /\ clock \in Nat /\ down \in 0 .. clock \cup {Never} /\ swept \in BOOLEAN
    /\ window \in [Windows -> WindowRecord]
    /\ agent \in AgentRecord
    /\ dog \in Nat \cup {Never} /\ giveUp \in Nat \cup {Never}
    /\ heard \in [Windows -> {"nothing", "its", "other", "watchdog"}]
    /\ dropped \in BOOLEAN /\ outage \in Nat /\ overlapped \in BOOLEAN
    /\ faults \in Nat

\* No moment of the sweep after t has passed without one: the last of them is not
\* after t, or it is this tick, its sweep is still to run, and the one before it
\* is not after t.
SweptSince(t) ==
    \/ clock - (clock % SweepEvery) <= t
    \/ clock % SweepEvery = 0 /\ ~swept /\ clock <= t + SweepEvery

\* Without an outage none has a length, and no attempt is lost.
OutageInv ==
    Without({"down"}) => Up /\ outage = 0 /\ "lost" \notin happened

\* A window that a sweep would drive has not missed one since it became a
\* candidate; while the backend is down it may have missed one period.
SweepInTime(w) ==
    /\ window[w].status = "MONITORING" /\ Up  => SweptSince(window[w].ends)
    /\ window[w].status = "MONITORING" /\ ~Up => down <= window[w].ends + SweepEvery
    /\ window[w].status = "SETTLING" /\ Up    => SweptSince(window[w].touched + Stale)
    /\ window[w].status = "SETTLING" /\ Without({"annotated"}) =>
          window[w].touched = window[w].claimed

SweepInv == \A w \in Windows : SweepInTime(w)

\* An attempt at work has an owner, a claim that is not older than the attempt,
\* and is within its time; a window that is to be reported has ended.
InTime(w) ==
    /\ window[w].pc \in {"asked", "receipt"} =>
          /\ window[w].status = "SETTLING"
          /\ window[w].since <= window[w].touched /\ window[w].touched <= clock
    /\ window[w].pc = "deliver" => window[w].status \in {"SETTLED", "TIMEOUT"}
    /\ window[w].pc \in {"asked", "deliver"} => clock <= window[w].since + Latency
    /\ window[w].pc = "receipt" => clock <= window[w].since + Latency + Receipt
    /\ ~Up => window[w].pc = "rest"

\* The layer behind AttemptsNeverOverlap.
AttemptInv == ~overlapped /\ \A w \in Windows : InTime(w)

\* No attempt was rejected, and none died with the process.
Smooth == Without({"rejected", "lost"})

\* Then a claim has its attempt, a voucher is charged only in the attempt that
\* awaits the receipt, and the one attempt started within a sweep's period and an
\* outage of the window's end.
VoidOnly(w) ==
    /\ window[w].status = "SETTLING" /\ Smooth => window[w].pc # "rest"
    /\ window[w].spent /\ Smooth => window[w].pc = "receipt"
    /\ window[w].pc \in {"asked", "receipt"} /\ Smooth =>
          window[w].since <= window[w].ends + SweepEvery + outage
    /\ window[w].status = "TIMEOUT" /\ Smooth => outage > Buffer - SweepEvery - Latency

\* The layer behind OnlyLongOutageVoids.
VoidInv == \A w \in Windows : VoidOnly(w)

\* What WokenByItsNotice excludes.
Clean == ~dropped /\ Without({"down", "rejected", "refused", "unreached", "again"})

\* When the watchdog fires, or would at the earliest if it were armed now.
DogDue == IF agent.pc = "parking" THEN agent.since + Ttl + Slack ELSE dog

\* Window w is not reported yet, and will be before due.
Pending(w, due) ==
    \/ window[w].status = "MONITORING" /\ window[w].ends + Slack <= due
    \/ window[w].pc \in {"asked", "receipt"} /\ window[w].ends + Slack <= due
    \/ /\ window[w].pc = "deliver"
       /\ window[w].since + Slack <= due + SweepEvery + Latency + Receipt

\* Window w is not bought yet, or ended and reported.
Quiet(w) == window[w].pc = "rest" /\ window[w].status \notin {"MONITORING", "SETTLING"}

\* The agent waits, or is about to, for the notice of its window.
Waiting == agent.pc \in {"parking", "parked"}

\* The layer behind WokenByItsNotice: the window waited for is the only one with
\* a notice to come, and it comes before the watchdog.
NoticeInv ==
    /\ agent.since <= clock
    /\ Clean =>
        /\ agent.pc # "stuck"
        /\ Waiting => Pending(agent.window, DogDue)
        /\ agent.pc # "gaveup" =>
              \A w \in Windows : ~Waiting \/ w # agent.window => Quiet(w)
        /\ \A w \in Windows : heard[w] \in {"nothing", "its"}

-----------------------------------------------------------------------------
\* The constants are numbers.
LEMMA Timers ==
  /\ Ttl \in Nat /\ Buffer \in Nat /\ SweepEvery \in Nat \ {0} /\ Stale \in Nat
  /\ Slack \in Nat /\ MainWait \in Nat /\ MaxClock \in Nat /\ Latency \in Nat
  /\ Receipt \in Nat /\ Thinking \in Nat /\ Reissues \in Nat /\ MaxFaults \in Nat
  /\ Never \notin Nat
BY AgentAssumption DEF Never

\* The larger of two numbers.
LEMMA MaxOfTwo ==
  ASSUME NEW a \in Nat, NEW b \in Nat
  PROVE  Max({a, b}) \in Nat /\ Max({a, b}) >= a /\ Max({a, b}) >= b
<1>1. \E z \in {a, b} : \A y \in {a, b} : z >= y OBVIOUS
<1>2. Max({a, b}) \in {a, b} /\ \A y \in {a, b} : Max({a, b}) >= y
    BY <1>1 DEF Max
<1> QED BY <1>2

\* What a window that was not bought looks like.
LEMMA NoWindowFacts ==
  /\ NoWindow \in WindowRecord /\ NoWindow.status = "none" /\ NoWindow.pc = "rest"
  /\ NoWindow.spent = FALSE
BY DEF NoWindow, WindowRecord, Statuses

\* The remainder of a number that is given as a multiple and less than a multiple.
LEMMA RemainderIs ==
  ASSUME NEW k \in Nat \ {0}, NEW q \in Nat, NEW s \in 0 .. k - 1
  PROVE  ((k * q) + s) % k = s
<1>1. PICK m \in Nat : m = (k * q) + s OBVIOUS
<1>2. PICK d \in Nat : d = m \div k OBVIOUS
<1>3. PICK r \in 0 .. k - 1 : r = m % k OBVIOUS
<1>4. m = (k * d) + r BY <1>2, <1>3
<1>5. k * (q - d) = r - s BY <1>1, <1>4
<1>6. CASE q = d BY <1>1, <1>3, <1>5, <1>6
<1>7. CASE q > d
  <2>1. q - d >= 1 /\ q - d \in Nat BY <1>7
  <2>2. k * (q - d) >= k BY <2>1
  <2> QED BY <2>2, <1>5
<1>8. CASE q < d
  <2>1. d - q >= 1 /\ d - q \in Nat BY <1>8
  <2>2. k * (d - q) >= k BY <2>1
  <2>3. k * (d - q) = s - r BY <1>1, <1>4
  <2> QED BY <2>2, <2>3
<1> QED BY <1>6, <1>7, <1>8

\* The remainder counts up and starts again at 0.
LEMMA NextRemainder ==
  ASSUME NEW k \in Nat \ {0}, NEW c \in Nat
  PROVE  (c + 1) % k = IF c % k = k - 1 THEN 0 ELSE (c % k) + 1
<1>1. PICK q \in Nat : q = c \div k OBVIOUS
<1>2. PICK r \in 0 .. k - 1 : r = c % k OBVIOUS
<1>3. c = (k * q) + r BY <1>1, <1>2
<1>4. CASE r = k - 1
  <2>1. PICK p \in Nat : p = q + 1 OBVIOUS
  <2>2. c + 1 = (k * p) + 0 BY <1>3, <1>4, <2>1
  <2>3. ((k * p) + 0) % k = 0 BY RemainderIs
  <2> QED BY <2>2, <2>3, <1>2, <1>4
<1>5. CASE r # k - 1
  <2>1. c + 1 = (k * q) + (r + 1) /\ r + 1 \in 0 .. k - 1 BY <1>3, <1>5
  <2> QED BY <2>1, <1>2, <1>5, RemainderIs
<1> QED BY <1>4, <1>5

-----------------------------------------------------------------------------
\* The types hold initially.
LEMMA TypeInit == Init => TypeInv
<1> SUFFICES ASSUME Init PROVE TypeInv OBVIOUS
<1> USE Timers, NoWindowFacts DEF Init
<1>1. window \in [Windows -> WindowRecord] OBVIOUS
<1>2. clock \in Nat OBVIOUS
<1>3. agent \in AgentRecord BY <1>2 DEF AgentRecord
<1> QED BY <1>1, <1>2, <1>3 DEF TypeInv, Never

\* The types across a step.
LEMMA TypeNext == TypeInv /\ [Next]_vars => TypeInv'
<1> SUFFICES ASSUME TypeInv, [Next]_vars PROVE TypeInv' OBVIOUS
<1> USE Timers DEF TypeInv
<1>1. \A w \in Windows : Attempt(w) \in WindowRecord /\ Rest(w) \in WindowRecord
    BY DEF Attempt, Rest, WindowRecord, Statuses
<1>2. Ended("TIMEOUT") \in WindowRecord /\ Ended("SETTLED") \in WindowRecord
    BY NoWindowFacts DEF Ended, WindowRecord, Statuses
<1>3. Drive => window' \in [Windows -> WindowRecord] /\ swept' \in BOOLEAN
                 /\ overlapped' \in BOOLEAN
    BY <1>1 DEF Drive
<1>4. ASSUME NEW w \in Windows, NEW r \in WindowRecord, Set(w, r)
      PROVE  window' \in [Windows -> WindowRecord]
    BY <1>4 DEF Set
<1>5. agent.window \in Windows BY DEF AgentRecord, Windows
<1>6. ASSUME NEW p \in {"buying", "stuck", "parking", "parked", "thinking", "done", "gaveup"},
             NEW v \in 1 .. Reissues + 1, At(p, v)
      PROVE  agent' \in AgentRecord
    BY <1>6 DEF At, AgentRecord
<1>7. CASE Tick
  <2>1. /\ clock' = clock + 1 /\ down' = down /\ swept' = FALSE
        /\ UNCHANGED <<window, agent, dog, giveUp, heard, dropped, outage, overlapped, faults>>
      BY <1>7 DEF Tick, agentVars, faultVars
  <2>2. down' \in 0 .. clock' \cup {Never} /\ clock' \in Nat BY <2>1 DEF Never
  <2> QED BY <2>1, <2>2
<1>8. CASE Sweep BY <1>3, <1>8 DEF Sweep, agentVars, faultVars
<1>9. CASE GoDown
  <2>1. window' \in [Windows -> WindowRecord] BY <1>1, <1>9 DEF GoDown
  <2> QED BY <2>1, <1>9 DEF GoDown, agentVars
<1>10. CASE ComeUp
  <2>1. clock - down \in Nat BY <1>10 DEF ComeUp, Up
  <2>2. outage' \in Nat BY <1>10, <2>1, MaxOfTwo DEF ComeUp
  <2> QED BY <1>3, <1>10, <2>2 DEF ComeUp, agentVars, faultVars
<1>11. CASE Buy
  <2>0. clock + Ttl \in Nat OBVIOUS
  <2>1. [NoWindow EXCEPT !.status = "MONITORING", !.ends = clock + Ttl, !.touched = clock]
          \in WindowRecord
      BY <2>0, NoWindowFacts DEF WindowRecord, Statuses
  <2>2. agent' \in AgentRecord BY <1>6, <1>11 DEF Buy, AgentRecord
  <2>3. window' \in [Windows -> WindowRecord] BY <1>4, <1>5, <1>11, <2>1 DEF Buy
  <2>4. faults' \in Nat BY <1>11 DEF Buy, Fault, faultVars
  <2> QED BY <1>11, <2>2, <2>3, <2>4 DEF Buy
<1>12. CASE Park BY <1>6, <1>12 DEF Park, DogAfter, backVars, faultVars, AgentRecord
<1>13. ASSUME NEW what \in {"its", "other", "watchdog"}, Hear(what)
       PROVE  /\ agent' \in AgentRecord /\ dropped' \in BOOLEAN
              /\ heard' \in [Windows -> {"nothing", "its", "other",
                                        "watchdog"}]
  <2>1. agent.window \in 1 .. Reissues + 1 BY DEF AgentRecord
  <2>2. agent' \in AgentRecord BY <1>6, <1>13, <2>1 DEF Hear
  <2> QED BY <1>13, <2>2 DEF Hear
<1>14. CASE DogFires BY <1>13, <1>14 DEF DogFires, backVars, faultVars
<1>15. CASE Decide
  <2>1. agent.window \in 1 .. Reissues + 1 BY DEF AgentRecord
  <2>2. agent' \in AgentRecord BY <1>6, <1>15, <2>1 DEF Decide, MayReissue
  <2> QED BY <1>15, <2>2 DEF Decide, backVars, faultVars
<1>16. CASE GiveUp
  <2>1. agent.window \in 1 .. Reissues + 1 BY DEF AgentRecord
  <2>2. agent' \in AgentRecord BY <1>6, <1>16, <2>1 DEF GiveUp
  <2> QED BY <1>16, <2>2 DEF GiveUp, backVars, faultVars
<1>17. ASSUME NEW w \in Windows, Trigger(w) PROVE TypeInv'
    BY <1>1, <1>17 DEF Trigger, agentVars, faultVars
<1>18. ASSUME NEW w \in Windows, Answer(w) PROVE TypeInv'
  <2>1. /\ window[w].pc = "asked"
        /\ [window[w] EXCEPT !.spent = TRUE, !.pc = "receipt"] \in WindowRecord
      BY <1>18 DEF Answer, WindowRecord
  <2>2. window' \in [Windows -> WindowRecord] BY <1>1, <1>2, <1>4, <1>18, <2>1 DEF Answer
  <2> QED BY <1>18, <2>2 DEF Answer, agentVars, faultVars
<1>19. ASSUME NEW w \in Windows, Rejected(w) PROVE TypeInv'
    BY <1>1, <1>4, <1>19 DEF Rejected, Fault, agentVars
<1>20. ASSUME NEW w \in Windows, Confirmed(w) PROVE TypeInv'
    BY <1>2, <1>4, <1>20 DEF Confirmed, agentVars, faultVars
<1>21. ASSUME NEW w \in Windows, Annotate(w) PROVE TypeInv'
  <2>1. [window[w] EXCEPT !.touched = clock] \in WindowRecord BY DEF WindowRecord
  <2> QED BY <1>4, <1>21, <2>1 DEF Annotate, Fault, agentVars
<1>22. ASSUME NEW w \in Windows, Deliver(w) PROVE TypeInv'
  <2>1. window' \in [Windows -> WindowRecord] BY <1>1, <1>4, <1>22 DEF Deliver
  <2>2. /\ agent' \in AgentRecord /\ dropped' \in BOOLEAN
        /\ heard' \in [Windows -> {"nothing", "its", "other", "watchdog"}]
      BY <1>13, <1>22 DEF Deliver
  <2>3. faults' \in Nat BY <1>22 DEF Deliver, Fault, faultVars
  <2> QED BY <1>22, <2>1, <2>2, <2>3 DEF Deliver
<1>23. CASE UNCHANGED vars BY <1>23 DEF vars, backVars, agentVars, faultVars
<1> QED
    BY <1>7, <1>8, <1>9, <1>10, <1>11, <1>12, <1>14, <1>15, <1>16, <1>17, <1>18,
       <1>19, <1>20, <1>21, <1>22, <1>23 DEF Next

-----------------------------------------------------------------------------
\* An attempt starts now, with the window it is for.
LEMMA AttemptFields ==
  ASSUME TypeInv, NEW w \in Windows
  PROVE  /\ Attempt(w).status = "SETTLING" /\ Attempt(w).pc = "asked"
         /\ Attempt(w).touched = clock /\ Attempt(w).claimed = clock
         /\ Attempt(w).since = clock /\ clock \in Nat /\ clock <= clock + Latency
         /\ Attempt(w).ends = window[w].ends /\ Attempt(w).spent = window[w].spent
BY Timers DEF Attempt, WindowRecord, TypeInv

\* An attempt that ended changes pc and since alone.
LEMMA RestFields ==
  ASSUME TypeInv, NEW w \in Windows
  PROVE  /\ Rest(w).pc = "rest" /\ Rest(w).since = 0
         /\ Rest(w).status = window[w].status /\ Rest(w).ends = window[w].ends
         /\ Rest(w).touched = window[w].touched /\ Rest(w).claimed = window[w].claimed
         /\ Rest(w).spent = window[w].spent
BY DEF Rest, WindowRecord, TypeInv

\* A window that ended is to be reported, from now.
LEMMA EndedFields ==
  ASSUME TypeInv, NEW s \in {"SETTLED", "TIMEOUT"}
  PROVE  /\ Ended(s).status = s /\ Ended(s).pc = "deliver"
         /\ Ended(s).since = clock /\ Ended(s).spent = FALSE
BY NoWindowFacts DEF Ended, WindowRecord

\* Set changes one window.
LEMMA SetOne ==
  ASSUME TypeInv, NEW w \in Windows, NEW r, Set(w, r)
  PROVE  window'[w] = r /\ \A v \in Windows \ {w} : window'[v] = window[v]
BY DEF Set, TypeInv

\* A sweep starts an attempt at each candidate and leaves the others alone.
LEMMA DriveAll ==
  ASSUME TypeInv, Drive, NEW w \in Windows
  PROVE  window'[w] = IF w \in Candidates THEN Attempt(w) ELSE window[w]
BY DEF Drive

\* Time does not pass a due sweep while the backend is up.
LEMMA StillAfterTick ==
  ASSUME TypeInv, NEW t \in Nat, SweptSince(t), Tick, Up
  PROVE  SweptSince(t)'
<1> USE Timers
<1>1. clock % SweepEvery = 0 => swept BY DEF Tick, Urgent, SweepDue
<1>2. clock - (clock % SweepEvery) <= t BY <1>1 DEF SweptSince
<1>3. PICK c \in Nat : c = clock BY DEF TypeInv
<1>4. (c + 1) % SweepEvery = IF c % SweepEvery = SweepEvery - 1 THEN 0 ELSE (c % SweepEvery) + 1
    BY NextRemainder
<1>5. clock' = c + 1 /\ swept' = FALSE BY <1>3 DEF Tick
<1>6. c % SweepEvery \in 0 .. SweepEvery - 1 OBVIOUS
<1> QED BY <1>2, <1>3, <1>4, <1>5, <1>6 DEF SweptSince

\* Without a missed sweep no more than a period has passed.
LEMMA WithinPeriod ==
  ASSUME TypeInv, NEW t \in Nat, SweptSince(t)
  PROVE  clock <= t + SweepEvery
<1>1. clock % SweepEvery \in 0 .. SweepEvery - 1 BY Timers DEF TypeInv
<1> QED BY <1>1, Timers DEF SweptSince, TypeInv

\* What is not yet over has missed no sweep.
LEMMA SweptSinceNow ==
  ASSUME TypeInv, NEW t \in Nat, clock <= t
  PROVE  /\ SweptSince(t)
         /\ UNCHANGED clock => SweptSince(t)'
<1>1. clock % SweepEvery \in 0 .. SweepEvery - 1 BY Timers DEF TypeInv
<1> QED BY <1>1, Timers DEF SweptSince, TypeInv
-----------------------------------------------------------------------------
\* What a sweep drives has no attempt at work: an expired window had none, and
\* the attempt at a stale claim has run out of time.
LEMMA IdleWhenDriven ==
  ASSUME ClaimOutlivesAttempt, TypeInv, AttemptInv, NEW w \in Candidates
  PROVE  window[w].pc = "rest" /\ window[w].status \in {"MONITORING", "SETTLING"}
<1>1. w \in Windows /\ window[w] \in WindowRecord BY DEF Candidates, TypeInv
<1>2. InTime(w) BY <1>1 DEF AttemptInv
<1>3. window[w].status = "MONITORING" \/ window[w].status = "SETTLING"
    BY DEF Candidates, Expired, Redrivable
<1>4. CASE Expired(w) BY <1>1, <1>2, <1>4 DEF Expired, InTime, WindowRecord
<1>5. CASE Redrivable(w)
    BY <1>1, <1>2, <1>5, Timers
       DEF Redrivable, InTime, WindowRecord, ClaimOutlivesAttempt, TypeInv
<1> QED BY <1>3, <1>4, <1>5 DEF Candidates

\* AttemptInv, initially and across a step.
LEMMA AttemptInit == Init => AttemptInv
BY TypeInit, NoWindowFacts DEF Init, AttemptInv, InTime, Up

LEMMA AttemptNext ==
  ASSUME ClaimOutlivesAttempt, TypeInv, AttemptInv, [Next]_vars
  PROVE  AttemptInv'
<1> USE Timers, AttemptFields, RestFields, EndedFields, SetOne
<1>1. TypeInv' BY TypeNext
<1>2. \A v \in Windows : window[v] \in WindowRecord /\ InTime(v)
    BY DEF TypeInv, AttemptInv
<1>3. CASE UNCHANGED <<clock, down, window, overlapped>>
    BY <1>3 DEF AttemptInv, InTime, Up
<1>4. CASE Tick
  <2>1. ~Urgent /\ clock' = clock + 1 /\ UNCHANGED <<down, window, overlapped>>
      BY <1>4 DEF Tick
  <2>2. ASSUME NEW v \in Windows PROVE InTime(v)'
      BY <1>2, <2>1 DEF InTime, Urgent, Up, WindowRecord, TypeInv
  <2> QED BY <2>1, <2>2 DEF AttemptInv
<1>5. ASSUME Drive, clock' = clock, Up'
      PROVE  AttemptInv'
  <2>1. ~overlapped' BY <1>5, IdleWhenDriven DEF Drive, AttemptInv
  <2>2. ASSUME NEW v \in Windows, v \in Candidates PROVE InTime(v)'
    <3>1. window'[v] = Attempt(v) BY <1>5, <2>2, DriveAll
    <3> QED BY <1>5, <3>1 DEF InTime, TypeInv
  <2>3. ASSUME NEW v \in Windows, v \notin Candidates PROVE InTime(v)'
    <3>1. window'[v] = window[v] BY <1>5, <2>3, DriveAll
    <3> QED BY <1>2, <1>5, <3>1 DEF InTime
  <2> QED BY <2>1, <2>2, <2>3 DEF AttemptInv
<1>6. CASE Sweep BY <1>5, <1>6 DEF Sweep, SweepDue, Up
<1>7. CASE ComeUp BY <1>5, <1>7 DEF ComeUp, Up
<1>8. CASE GoDown
  <2>1. \A v \in Windows : window'[v] = Rest(v) BY <1>8 DEF GoDown
  <2> QED BY <1>2, <1>8, <2>1 DEF GoDown, AttemptInv, InTime
<1>9. ASSUME NEW w \in Windows, NEW r, Set(w, r), UNCHANGED <<clock, down, overlapped>>,
             \/ r.pc = "rest" 
             \/ /\ r.pc \in {"asked", "receipt"} /\ r.status = "SETTLING" /\ Up
                /\ r.since <= r.touched /\ r.touched <= clock
                /\ r.since \in Nat /\ clock <= r.since + Latency
             \/ r.pc = "deliver" /\ r.status \in {"SETTLED", "TIMEOUT"} /\ r.since = clock /\ Up
      PROVE  AttemptInv'
  <2>1. window'[w] = r /\ clock \in Nat BY <1>9 DEF TypeInv
  <2>3. InTime(w)' BY <1>9, <2>1 DEF InTime, Up
  <2>2. ASSUME NEW v \in Windows \ {w} PROVE InTime(v)'
      BY <1>2, <1>9 DEF InTime, Up
  <2> QED BY <1>9, <2>2, <2>3 DEF AttemptInv
<1>10. CASE Buy
  <2>1. agent.window \in Windows BY DEF TypeInv, AgentRecord, Windows
  <2>2. CASE UNCHANGED window BY <1>3, <1>10, <2>2 DEF Buy
  <2> DEFINE r == [NoWindow EXCEPT !.status = "MONITORING", !.ends = clock + Ttl,
                                   !.touched = clock]
  <2>3. CASE Set(agent.window, r)
    <3>1. r.pc = "rest" BY NoWindowFacts DEF WindowRecord
    <3> HIDE DEF r
    <3> QED BY <1>9, <1>10, <2>1, <2>3, <3>1 DEF Buy
  <2> QED BY <1>10, <2>2, <2>3 DEF Buy
<1>11. ASSUME NEW w \in Windows, Trigger(w) PROVE AttemptInv'
  <2>1. Set(w, Attempt(w)) /\ clock <= clock + Latency BY <1>11 DEF Trigger, Set, TypeInv
  <2>2. Attempt(w).pc = "asked" /\ Attempt(w).status = "SETTLING"
          /\ Attempt(w).since = clock /\ Attempt(w).touched = clock OBVIOUS
  <2> HIDE DEF Attempt
  <2> QED BY <1>9, <1>11, <2>1, <2>2 DEF Trigger, TypeInv
<1>12. ASSUME NEW w \in Windows, Answer(w) PROVE AttemptInv'
  <2>1. Up /\ window[w].pc = "asked" BY <1>2, <1>12 DEF Answer, InTime
  <2>2. CASE clock > Deadline(w)
    <3>1. Set(w, Ended("TIMEOUT")) BY <1>12, <2>2 DEF Answer
    <3> QED BY <1>9, <1>12, <2>1, <3>1 DEF Answer
  <2>3. CASE ~(clock > Deadline(w)) /\ window[w].spent
    <3>1. Set(w, Rest(w)) BY <1>12, <2>3 DEF Answer
    <3> QED BY <1>9, <1>12, <2>1, <3>1 DEF Answer
  <2>4. CASE ~(clock > Deadline(w)) /\ ~window[w].spent
    <3> DEFINE r == [window[w] EXCEPT !.spent = TRUE, !.pc = "receipt"]
    <3>1. Set(w, r) BY <1>12, <2>4 DEF Answer
    <3>2. /\ r.pc = "receipt" /\ r.status = "SETTLING" /\ r.since <= r.touched
          /\ r.touched <= clock /\ r.since \in Nat /\ clock <= r.since + Latency
        BY <1>2, <2>1 DEF InTime, WindowRecord
    <3> HIDE DEF r
    <3> QED BY <1>9, <1>12, <2>1, <3>1, <3>2 DEF Answer
  <2> QED BY <2>2, <2>3, <2>4
<1>13. ASSUME NEW w \in Windows, Rejected(w) PROVE AttemptInv'
    BY <1>9, <1>13 DEF Rejected
<1>14. ASSUME NEW w \in Windows, Confirmed(w) PROVE AttemptInv'
  <2>1. Up BY <1>2, <1>14 DEF Confirmed, InTime
  <2> QED BY <1>9, <1>14, <2>1 DEF Confirmed
<1>15. ASSUME NEW w \in Windows, Annotate(w) PROVE AttemptInv'
  <2> DEFINE r == [window[w] EXCEPT !.touched = clock]
  <2>1. Set(w, r) BY <1>15 DEF Annotate
  <2>2. /\ r.pc = window[w].pc /\ r.status = window[w].status
        /\ r.since = window[w].since /\ r.touched = clock
      BY <1>2 DEF WindowRecord
  <2> HIDE DEF r
  <2>5. window'[w] = r /\ UNCHANGED <<clock, down>> BY <1>15, <2>1 DEF Annotate
  <2>3. InTime(w)' BY <1>2, <2>2, <2>5 DEF InTime, TypeInv, Up, WindowRecord
  <2>4. ASSUME NEW v \in Windows \ {w} PROVE InTime(v)'
      BY <1>2, <1>15, <2>1 DEF Annotate, InTime, Up
  <2> QED BY <1>15, <2>3, <2>4 DEF Annotate, AttemptInv
<1>16. ASSUME NEW w \in Windows, Deliver(w) PROVE AttemptInv'
    BY <1>3, <1>9, <1>16 DEF Deliver
<1> QED
    BY <1>3, <1>4, <1>6, <1>7, <1>8, <1>10, <1>11, <1>12, <1>13, <1>14, <1>15, <1>16
       DEF Next, vars, backVars, Park, DogFires, Decide, GiveUp

\* Every variable keeps its type (the timers of the agent and of the backend).
THEOREM TypesHold == Spec => []TypeInv
BY TypeInit, TypeNext, PTL DEF Spec

\* A claim that outlives its attempt makes the choice of STALE_SETTLING_MS safe:
\* no sweep, startup sweep or trigger starts an attempt beside another (db.ts).
THEOREM AttemptsDoNotOverlap ==
  ASSUME ClaimOutlivesAttempt
  PROVE  Spec => []AttemptsNeverOverlap
<1>1. Init => TypeInv /\ AttemptInv BY TypeInit, AttemptInit
<1>2. TypeInv /\ AttemptInv /\ [Next]_vars => TypeInv' /\ AttemptInv'
    BY TypeNext, AttemptNext
<1>3. AttemptInv => AttemptsNeverOverlap BY DEF AttemptInv, AttemptsNeverOverlap
<1> QED BY <1>1, <1>2, <1>3, PTL DEF Spec
-----------------------------------------------------------------------------
\* OutageInv, initially and across a step; what happened stays so.
LEMMA OutageInit == Init => OutageInv
BY DEF Init, OutageInv, Up

LEMMA OutageNext ==
  ASSUME OutageInv, [Next]_vars
  PROVE  OutageInv' /\ happened \subseteq happened'
<1>1. CASE UNCHANGED <<down, outage, happened>> BY <1>1 DEF OutageInv, Without, Up
<1>2. CASE GoDown BY <1>2 DEF GoDown, OutageInv, Without
<1>3. CASE ComeUp BY <1>3 DEF ComeUp, OutageInv, Without, Up, faultVars
<1>4. ASSUME NEW kind \in {"rejected", "refused", "unreached", "again", "annotated"},
             Fault(kind), UNCHANGED <<down, outage>>
      PROVE  OutageInv' /\ happened \subseteq happened'
    BY <1>4 DEF Fault, OutageInv, Without, Up
<1>5. CASE Buy BY <1>1, <1>4, <1>5 DEF Buy, faultVars
<1>6. ASSUME NEW w \in Windows, Deliver(w)
      PROVE  OutageInv' /\ happened \subseteq happened'
    BY <1>1, <1>4, <1>6 DEF Deliver, faultVars
<1>7. ASSUME NEW w \in Windows, Rejected(w) \/ Annotate(w)
      PROVE  OutageInv' /\ happened \subseteq happened'
    BY <1>4, <1>7 DEF Rejected, Annotate
<1>8. ASSUME NEW w \in Windows, Trigger(w) \/ Answer(w) \/ Confirmed(w)
      PROVE  OutageInv' /\ happened \subseteq happened'
    BY <1>1, <1>8 DEF Trigger, Answer, Confirmed, faultVars
<1>9. CASE Tick \/ Sweep \/ Park \/ DogFires \/ Decide \/ GiveUp \/ UNCHANGED vars
    BY <1>1, <1>9
       DEF Tick, Sweep, Park, DogFires, Decide, GiveUp, vars, backVars, faultVars
<1> QED BY <1>2, <1>3, <1>5, <1>6, <1>7, <1>8, <1>9 DEF Next
-----------------------------------------------------------------------------
\* SweepInv, initially and across a step.
LEMMA SweepInit == Init => SweepInv
BY NoWindowFacts DEF Init, SweepInv, SweepInTime

LEMMA SweepNext ==
  ASSUME TypeInv, SweepInv, OutageInv, [Next]_vars
  PROVE  SweepInv'
<1> USE Timers, AttemptFields, RestFields, EndedFields, SetOne, SweptSinceNow
<1>1. happened \subseteq happened' BY OutageNext
<1>2. /\ \A v \in Windows : window[v] \in WindowRecord /\ SweepInTime(v)
      /\ clock \in Nat
    BY DEF TypeInv, SweepInv
<1>3. ASSUME NEW v \in Windows, window'[v] = window[v], UNCHANGED <<clock, down, swept>>
      PROVE  SweepInTime(v)'
    BY <1>1, <1>2, <1>3 DEF SweepInTime, SweptSince, Up, Without
<1>4. CASE UNCHANGED <<clock, down, swept, window>> BY <1>3, <1>4 DEF SweepInv
<1>5. CASE Tick
  <2>1. clock' = clock + 1 /\ UNCHANGED <<down, window>> BY <1>5 DEF Tick
  <2>2. ASSUME NEW v \in Windows PROVE SweepInTime(v)'
    <3>1. /\ window[v].ends \in Nat /\ window[v].touched + Stale \in Nat
          /\ window'[v] = window[v]
        BY <1>2, <2>1 DEF WindowRecord
    <3>2. PICK e \in Nat, t \in Nat : e = window[v].ends /\ t = window[v].touched + Stale
        BY <3>1
    <3>3. Up /\ SweptSince(e) => SweptSince(e)' BY <1>5, StillAfterTick
    <3>4. Up /\ SweptSince(t) => SweptSince(t)' BY <1>5, StillAfterTick
    <3>5. e = window'[v].ends /\ t = window'[v].touched + Stale BY <3>1, <3>2
    <3> QED BY <1>1, <1>2, <2>1, <3>1, <3>2, <3>3, <3>4, <3>5 DEF SweepInTime, Up, Without
  <2> QED BY <2>2 DEF SweepInv
<1>6. ASSUME NEW v \in Windows, window'[v].status \notin {"MONITORING", "SETTLING"}
      PROVE  SweepInTime(v)'
    BY <1>6 DEF SweepInTime
<1>7. ASSUME NEW v \in Windows, window'[v] = Attempt(v), UNCHANGED clock
      PROVE  SweepInTime(v)'
  <2>1. PICK t \in Nat : t = clock + Stale BY <1>2
  <2>2. SweptSince(t)' BY <1>2, <1>7, <2>1
  <2> QED BY <1>7, <2>1, <2>2 DEF SweepInTime
<1>8. ASSUME Drive, UNCHANGED clock, Up' PROVE SweepInv'
  <2>1. ASSUME NEW v \in Windows, v \notin Candidates PROVE SweepInTime(v)'
    <3>1. window'[v] = window[v] BY <1>8, <2>1, DriveAll
    <3>2. PICK e \in Nat, t \in Nat : e = window[v].ends /\ t = window[v].touched + Stale
        BY <1>2 DEF WindowRecord
    <3>3. window[v].status = "MONITORING" => SweptSince(e)'
        BY <1>2, <1>8, <2>1, <3>2 DEF Candidates, Expired
    <3>4. window[v].status = "SETTLING" => SweptSince(t)'
        BY <1>2, <1>8, <2>1, <3>2 DEF Candidates, Redrivable
    <3>5. e = window'[v].ends /\ t = window'[v].touched + Stale BY <3>1, <3>2
    <3> QED BY <1>1, <1>2, <1>8, <3>1, <3>3, <3>4, <3>5 DEF SweepInTime, Without
  <2>2. ASSUME NEW v \in Windows, v \in Candidates PROVE SweepInTime(v)'
      BY <1>7, <1>8, <2>2, DriveAll
  <2> QED BY <2>1, <2>2 DEF SweepInv
<1>9. CASE Sweep BY <1>8, <1>9 DEF Sweep, SweepDue, Up
<1>10. CASE ComeUp BY <1>8, <1>10 DEF ComeUp, Up
<1>11. CASE GoDown
  <2>1. ASSUME NEW v \in Windows PROVE SweepInTime(v)'
    <3>1. window'[v] = Rest(v) BY <1>11, <2>1 DEF GoDown
    <3>2. down' = clock /\ ~Up' BY <1>2, <1>11 DEF GoDown, Up, Never
    <3>3. window[v].status = "MONITORING" => clock <= window[v].ends + SweepEvery
      <4>1. PICK e \in Nat : e = window[v].ends BY <1>2 DEF WindowRecord
      <4> QED BY <1>2, <1>11, <4>1, WithinPeriod DEF GoDown, SweepInTime
    <3> QED BY <1>1, <1>2, <3>1, <3>2, <3>3 DEF SweepInTime, Without
  <2> QED BY <2>1 DEF SweepInv
<1>12. ASSUME NEW w \in Windows, NEW r, Set(w, r), UNCHANGED <<clock, down, swept>>,
              \/ r.status \notin {"MONITORING", "SETTLING"}
              \/ r = Attempt(w)
              \/ /\ r.status = window[w].status /\ r.ends = window[w].ends
                 /\ r.touched = window[w].touched /\ r.claimed = window[w].claimed
       PROVE  SweepInv'
  <2>1. SweepInTime(w)'
    <3>1. CASE r.status \notin {"MONITORING", "SETTLING"} BY <1>6, <1>12, <3>1
    <3>2. CASE r = Attempt(w) BY <1>7, <1>12, <3>2
    <3>3. CASE /\ r.status = window[w].status /\ r.ends = window[w].ends
               /\ r.touched = window[w].touched /\ r.claimed = window[w].claimed
      <4>1. window'[w] = r BY <1>12
      <4> QED BY <1>1, <1>2, <1>12, <3>3, <4>1 DEF SweepInTime, SweptSince, Up, Without
    <3> QED BY <1>12, <3>1, <3>2, <3>3
  <2>2. ASSUME NEW v \in Windows \ {w} PROVE SweepInTime(v)' BY <1>3, <1>12
  <2> QED BY <2>1, <2>2 DEF SweepInv
<1>13. CASE Buy
  <2>1. agent.window \in Windows BY DEF TypeInv, AgentRecord, Windows
  <2>2. CASE UNCHANGED window BY <1>4, <1>13, <2>2 DEF Buy
  <2> DEFINE r == [NoWindow EXCEPT !.status = "MONITORING", !.ends = clock + Ttl,
                                   !.touched = clock]
  <2>3. CASE Set(agent.window, r) /\ Up
    <3>1. PICK w \in Windows : w = agent.window BY <2>1
    <3>2. PICK e \in Nat : e = clock + Ttl BY <1>2
    <3>3. r.status = "MONITORING" /\ r.ends = e BY <3>2, NoWindowFacts DEF WindowRecord
    <3>4. SweptSince(e)' BY <1>2, <1>13, <3>2 DEF Buy
    <3>5. Set(w, r) BY <2>3, <3>1
    <3> HIDE DEF r
    <3>6. SweepInTime(w)' BY <1>13, <2>3, <3>3, <3>4, <3>5 DEF Buy, SweepInTime, Up
    <3>7. ASSUME NEW v \in Windows \ {w} PROVE SweepInTime(v)'
        BY <1>3, <1>13, <3>5 DEF Buy
    <3> QED BY <3>6, <3>7 DEF SweepInv
  <2> QED BY <1>13, <2>2, <2>3 DEF Buy
<1>14. ASSUME NEW w \in Windows, Trigger(w) PROVE SweepInv'
  <2>1. Set(w, Attempt(w)) BY <1>14 DEF Trigger, Set
  <2> QED BY <1>12, <1>14, <2>1 DEF Trigger
<1>15. ASSUME NEW w \in Windows, Answer(w) PROVE SweepInv'
  <2>1. CASE clock > Deadline(w)
    <3>1. Set(w, Ended("TIMEOUT")) BY <1>15, <2>1 DEF Answer
    <3> QED BY <1>12, <1>15, <3>1 DEF Answer
  <2>2. CASE ~(clock > Deadline(w)) /\ window[w].spent
    <3>1. Set(w, Rest(w)) BY <1>15, <2>2 DEF Answer
    <3> QED BY <1>12, <1>15, <3>1 DEF Answer
  <2>3. CASE ~(clock > Deadline(w)) /\ ~window[w].spent
    <3> DEFINE r == [window[w] EXCEPT !.spent = TRUE, !.pc = "receipt"]
    <3>1. Set(w, r) BY <1>15, <2>3 DEF Answer
    <3>2. /\ r.status = window[w].status /\ r.ends = window[w].ends
          /\ r.touched = window[w].touched /\ r.claimed = window[w].claimed
        BY <1>2 DEF WindowRecord
    <3> HIDE DEF r
    <3> QED BY <1>12, <1>15, <3>1, <3>2 DEF Answer
  <2> QED BY <2>1, <2>2, <2>3
<1>16. ASSUME NEW w \in Windows, Rejected(w) PROVE SweepInv'
    BY <1>12, <1>16 DEF Rejected
<1>17. ASSUME NEW w \in Windows, Confirmed(w) PROVE SweepInv'
    BY <1>12, <1>17 DEF Confirmed
<1>18. ASSUME NEW w \in Windows, Annotate(w) PROVE SweepInv'
  <2> DEFINE r == [window[w] EXCEPT !.touched = clock]
  <2>1. Set(w, r) /\ "annotated" \in happened' BY <1>18 DEF Annotate, Fault
  <2>2. r.status = "SETTLING" /\ r.touched = clock BY <1>2, <1>18 DEF WindowRecord, Annotate
  <2>3. UNCHANGED <<clock, down, swept>> BY <1>18 DEF Annotate
  <2> HIDE DEF r
  <2>4. PICK t \in Nat : t = clock + Stale BY <1>2
  <2>5. SweptSince(t)' BY <1>2, <2>3, <2>4
  <2>6. SweepInTime(w)' BY <2>1, <2>2, <2>3, <2>4, <2>5 DEF SweepInTime, Without
  <2>7. ASSUME NEW v \in Windows \ {w} PROVE SweepInTime(v)' BY <1>3, <2>1, <2>3
  <2> QED BY <2>6, <2>7 DEF SweepInv
<1>19. ASSUME NEW w \in Windows, Deliver(w) PROVE SweepInv'
    BY <1>4, <1>12, <1>19 DEF Deliver
<1> QED
    BY <1>4, <1>5, <1>9, <1>10, <1>11, <1>13, <1>14, <1>15, <1>16, <1>17, <1>18, <1>19
       DEF Next, vars, backVars, Park, DogFires, Decide, GiveUp

\* For all values of the timers: while the backend is up and nobody annotates, a
\* claim is at most a stale age and a sweep period old (cron.ts, db.ts).
THEOREM LeftClaimsAreRetried == Spec => []LeftIsRetriedSoon
<1>1. Init => TypeInv /\ OutageInv /\ SweepInv BY TypeInit, OutageInit, SweepInit
<1>2. TypeInv /\ OutageInv /\ SweepInv /\ [Next]_vars
        => TypeInv' /\ OutageInv' /\ SweepInv'
    BY TypeNext, OutageNext, SweepNext
<1>3. TypeInv /\ OutageInv /\ SweepInv => LeftIsRetriedSoon
  <2> SUFFICES ASSUME TypeInv, OutageInv, SweepInv, NEW w \in Windows,
                      window[w].status = "SETTLING", Without({"down", "annotated"})
               PROVE  clock <= window[w].claimed + Stale + SweepEvery
      BY DEF LeftIsRetriedSoon
  <2>1. Without({"down"}) /\ Without({"annotated"}) BY DEF Without
  <2>2. PICK t \in Nat : t = window[w].touched + Stale
      BY Timers DEF TypeInv, WindowRecord
  <2>3. SweptSince(t) /\ window[w].touched = window[w].claimed
      BY <2>1, <2>2 DEF OutageInv, SweepInv, SweepInTime
  <2> QED BY <2>2, <2>3, WithinPeriod
<1> QED BY <1>1, <1>2, <1>3, PTL DEF Spec
-----------------------------------------------------------------------------
\* VoidInv, initially and across a step.
LEMMA VoidInit == Init => VoidInv
BY NoWindowFacts DEF Init, VoidInv, VoidOnly

LEMMA VoidNext ==
  ASSUME ClaimOutlivesAttempt, TypeInv, AttemptInv, SweepInv, VoidInv, OutageInv, [Next]_vars
  PROVE  VoidInv'
<1> USE Timers, AttemptFields, RestFields, EndedFields, SetOne
<1>1. happened \subseteq happened' BY OutageNext
<1>2. /\ \A v \in Windows :
            window[v] \in WindowRecord /\ InTime(v) /\ SweepInTime(v) /\ VoidOnly(v)
      /\ clock \in Nat /\ outage \in Nat
    BY DEF TypeInv, AttemptInv, SweepInv, VoidInv
<1>3. ASSUME NEW v \in Windows, window'[v] = window[v], outage' \in Nat, outage' >= outage
      PROVE  VoidOnly(v)'
  <2>1. window[v].since \in Nat /\ window[v].ends \in Nat BY <1>2 DEF WindowRecord
  <2> QED BY <1>1, <1>2, <1>3, <2>1 DEF VoidOnly, Smooth, Without
<1>4. CASE UNCHANGED <<window, outage>> BY <1>2, <1>3, <1>4 DEF VoidInv
<1>5. ASSUME NEW v \in Candidates, window'[v] = Attempt(v), outage' \in Nat,
             Expired(v) => clock <= window[v].ends + SweepEvery + outage'
      PROVE  VoidOnly(v)'
  <2>1. v \in Windows /\ (Expired(v) \/ window[v].status = "SETTLING")
      BY DEF Candidates, Redrivable
  <2>2. window[v].pc = "rest" BY IdleWhenDriven
  <2> QED BY <1>1, <1>2, <1>5, <2>1, <2>2 DEF VoidOnly, Smooth, Without
<1>6. CASE Sweep
  <2>1. Drive /\ Up /\ UNCHANGED <<clock, outage>> BY <1>6 DEF Sweep, SweepDue
  <2>2. ASSUME NEW v \in Windows PROVE VoidOnly(v)'
    <3>1. CASE v \in Candidates
      <4>1. PICK e \in Nat : e = window[v].ends BY <1>2 DEF WindowRecord
      <4>2. Expired(v) => clock <= e + SweepEvery
          BY <1>2, <2>1, <4>1, WithinPeriod DEF Expired, SweepInTime
      <4> QED BY <1>2, <1>5, <2>1, <3>1, <4>1, <4>2, DriveAll
    <3>2. CASE v \notin Candidates BY <1>2, <1>3, <2>1, <3>2, DriveAll
    <3> QED BY <3>1, <3>2
  <2> QED BY <2>2 DEF VoidInv
<1>7. CASE ComeUp
  <2>1. Drive /\ ~Up /\ UNCHANGED clock BY <1>7 DEF ComeUp
  <2>2. clock - down \in Nat /\ down \in Nat BY <2>1 DEF TypeInv, Up
  <2>3. outage' \in Nat /\ outage' >= outage /\ outage' >= clock - down
      BY <1>2, <1>7, <2>2, MaxOfTwo DEF ComeUp
  <2>4. ASSUME NEW v \in Windows PROVE VoidOnly(v)'
    <3>1. CASE v \in Candidates
      <4>1. Expired(v) => clock <= window[v].ends + SweepEvery + outage'
          BY <1>2, <2>1, <2>2, <2>3 DEF Expired, SweepInTime, WindowRecord
      <4> QED BY <1>5, <2>1, <2>3, <3>1, <4>1, DriveAll
    <3>2. CASE v \notin Candidates BY <1>3, <2>1, <2>3, <3>2, DriveAll
    <3> QED BY <3>1, <3>2
  <2> QED BY <2>4 DEF VoidInv
<1>8. CASE GoDown
  <2>1. UNCHANGED outage /\ \A v \in Windows : window'[v] = Rest(v) BY <1>8 DEF GoDown
  <2>2. CASE \E v \in Windows : window[v].pc \in {"asked", "receipt"}
    <3>1. "lost" \in happened' BY <1>8, <2>2 DEF GoDown
    <3> QED BY <1>2, <2>1, <3>1 DEF VoidInv, VoidOnly, Smooth, Without
  <2>3. CASE \A v \in Windows : window[v].pc \notin {"asked", "receipt"}
    <3>1. ASSUME NEW v \in Windows PROVE VoidOnly(v)'
        BY <1>1, <1>2, <2>1, <2>3 DEF VoidOnly, Smooth, Without, InTime, WindowRecord
    <3> QED BY <3>1 DEF VoidInv
  <2> QED BY <2>2, <2>3
<1>9. ASSUME NEW w \in Windows, NEW r, Set(w, r), UNCHANGED outage, VoidOnly(w)'
      PROVE  VoidInv'
    BY <1>2, <1>3, <1>9 DEF VoidInv
<1>10. CASE Buy
  <2>1. agent.window \in Windows BY DEF TypeInv, AgentRecord, Windows
  <2>2. CASE UNCHANGED window BY <1>4, <1>10, <2>2 DEF Buy
  <2> DEFINE r == [NoWindow EXCEPT !.status = "MONITORING", !.ends = clock + Ttl,
                                   !.touched = clock]
  <2>3. CASE Set(agent.window, r)
    <3>1. PICK w \in Windows : w = agent.window BY <2>1
    <3>2. r.status = "MONITORING" /\ r.pc = "rest" /\ r.spent = FALSE
        BY NoWindowFacts DEF WindowRecord
    <3>3. Set(w, r) BY <2>3, <3>1
    <3> HIDE DEF r
    <3>4. VoidOnly(w)' BY <3>2, <3>3 DEF VoidOnly
    <3> QED BY <1>9, <1>10, <3>3, <3>4 DEF Buy
  <2> QED BY <1>10, <2>2, <2>3 DEF Buy
<1>11. ASSUME NEW w \in Windows, Trigger(w) PROVE VoidInv'
  <2>1. Set(w, Attempt(w)) /\ UNCHANGED outage BY <1>11 DEF Trigger, Set
  <2>2. window[w].status = "MONITORING" /\ clock <= window[w].ends BY <1>11 DEF Trigger
  <2>3. VoidOnly(w)'
      BY <1>1, <1>2, <2>1, <2>2 DEF VoidOnly, Smooth, Without, InTime, WindowRecord
  <2> QED BY <1>9, <2>1, <2>3
<1>12. ASSUME NEW w \in Windows, Answer(w) PROVE VoidInv'
  <2>1. window[w].pc = "asked" /\ UNCHANGED outage BY <1>12 DEF Answer
  <2>2. CASE clock > Deadline(w)
    <3>1. Set(w, Ended("TIMEOUT")) BY <1>12, <2>2 DEF Answer
    <3>2. Smooth => outage > Buffer - SweepEvery - Latency
        BY <1>2, <2>1, <2>2 DEF Deadline, VoidOnly, InTime, WindowRecord
    <3>3. Smooth' => Smooth BY <1>1 DEF Smooth, Without
    <3>4. /\ window'[w].status = "TIMEOUT" /\ window'[w].pc = "deliver"
          /\ window'[w].spent = FALSE
        BY <3>1
    <3>5. VoidOnly(w)' BY <2>1, <3>2, <3>3, <3>4 DEF VoidOnly
    <3> QED BY <1>9, <2>1, <3>1, <3>5
  <2>3. CASE ~(clock > Deadline(w)) /\ window[w].spent
    <3>1. Set(w, Rest(w)) BY <1>12, <2>3 DEF Answer
    <3>2. VoidOnly(w)' BY <1>1, <1>2, <2>1, <2>3, <3>1 DEF VoidOnly, Smooth, Without, InTime
    <3> QED BY <1>9, <2>1, <3>1, <3>2
  <2>4. CASE ~(clock > Deadline(w)) /\ ~window[w].spent
    <3> DEFINE r == [window[w] EXCEPT !.spent = TRUE, !.pc = "receipt"]
    <3>1. Set(w, r) BY <1>12, <2>4 DEF Answer
    <3>2. /\ r.status = window[w].status /\ r.pc = "receipt"
          /\ r.ends = window[w].ends /\ r.since = window[w].since
        BY <1>2 DEF WindowRecord
    <3> HIDE DEF r
    <3>3. window'[w] = r /\ window[w].status = "SETTLING" BY <1>2, <2>1, <3>1 DEF InTime
    <3>4. Smooth' => Smooth BY <1>1 DEF Smooth, Without
    <3>5. Smooth => r.since <= r.ends + SweepEvery + outage BY <1>2, <2>1, <3>2 DEF VoidOnly
    <3>6. VoidOnly(w)' BY <2>1, <3>2, <3>3, <3>4, <3>5 DEF VoidOnly
    <3> QED BY <1>9, <2>1, <3>1, <3>6
  <2> QED BY <2>2, <2>3, <2>4
<1>13. ASSUME NEW w \in Windows, Rejected(w) PROVE VoidInv'
  <2>1. Set(w, Rest(w)) /\ UNCHANGED outage /\ "rejected" \in happened'
      BY <1>13 DEF Rejected, Fault
  <2>2. VoidOnly(w)' BY <2>1 DEF VoidOnly, Smooth, Without
  <2> QED BY <1>9, <2>1, <2>2
<1>14. ASSUME NEW w \in Windows, Confirmed(w) PROVE VoidInv'
  <2>1. Set(w, Ended("SETTLED")) /\ UNCHANGED outage BY <1>14 DEF Confirmed
  <2>2. VoidOnly(w)' BY <2>1 DEF VoidOnly
  <2> QED BY <1>9, <2>1, <2>2
<1>15. ASSUME NEW w \in Windows, Annotate(w) PROVE VoidInv'
  <2> DEFINE r == [window[w] EXCEPT !.touched = clock]
  <2>1. Set(w, r) /\ UNCHANGED outage BY <1>15 DEF Annotate
  <2>2. /\ r.status = window[w].status /\ r.pc = window[w].pc /\ r.spent = window[w].spent
        /\ r.ends = window[w].ends /\ r.since = window[w].since
      BY <1>2 DEF WindowRecord
  <2> HIDE DEF r
  <2>3. VoidOnly(w)' BY <1>1, <1>2, <2>1, <2>2 DEF VoidOnly, Smooth, Without
  <2> QED BY <1>9, <2>1, <2>3
<1>16. ASSUME NEW w \in Windows, Deliver(w) PROVE VoidInv'
  <2>1. UNCHANGED outage /\ window[w].pc = "deliver" BY <1>16 DEF Deliver
  <2>2. CASE UNCHANGED window BY <1>4, <2>1, <2>2
  <2>3. CASE Set(w, Rest(w))
    <3>1. VoidOnly(w)' BY <1>1, <1>2, <2>1, <2>3 DEF VoidOnly, Smooth, Without, InTime
    <3> QED BY <1>9, <2>1, <2>3, <3>1
  <2> QED BY <1>16, <2>2, <2>3 DEF Deliver
<1> QED
    BY <1>4, <1>6, <1>7, <1>8, <1>10, <1>11, <1>12, <1>13, <1>14, <1>15, <1>16
       DEF Next, vars, backVars, Tick, Park, DogFires, Decide, GiveUp

\* What a deadline buffer is worth: without a rejected or lost attempt, a voucher
\* is void only after an outage longer than the buffer less a sweep period and a
\* facilitator call (cron.ts, DEADLINE_BUFFER_S).
THEOREM VouchersOutliveShortOutages ==
  ASSUME ClaimOutlivesAttempt
  PROVE  Spec => []OnlyLongOutageVoids
<1> DEFINE Inv == TypeInv /\ AttemptInv /\ OutageInv /\ SweepInv /\ VoidInv
<1>1. Init => Inv BY TypeInit, AttemptInit, OutageInit, SweepInit, VoidInit
<1>2. Inv /\ [Next]_vars => Inv'
    BY TypeNext, AttemptNext, OutageNext, SweepNext, VoidNext
<1>3. Inv => OnlyLongOutageVoids BY DEF VoidInv, VoidOnly, Smooth, OnlyLongOutageVoids
<1> QED BY <1>1, <1>2, <1>3, PTL DEF Spec
-----------------------------------------------------------------------------
\* NoticeInv holds initially.
LEMMA NoticeInit == Init => NoticeInv
<1> SUFFICES ASSUME Init PROVE NoticeInv OBVIOUS
<1>1. agent.pc = "buying" /\ agent.since = clock BY DEF Init
<1>2. \A w \in Windows : Quiet(w) BY NoWindowFacts DEF Init, Quiet
<1>3. clock \in Nat BY TypeInit DEF TypeInv
<1> QED BY <1>1, <1>2, <1>3 DEF Init, NoticeInv, Waiting

\* What follows from no fault.
LEMMA CleanFacts ==
  ASSUME OutageInv, Clean
  PROVE  Smooth /\ Up /\ outage = 0
BY DEF OutageInv, Clean, Smooth, Without

\* A fault is never undone.
LEMMA CleanStays ==
  ASSUME TypeInv, OutageInv, [Next]_vars, Clean'
  PROVE  Clean
<1>1. happened \subseteq happened' BY OutageNext
<1>2. dropped => dropped'
    BY DEF Next, vars, backVars, agentVars, Tick, Sweep, GoDown, ComeUp, Buy, Park, DogFires,
           Decide, GiveUp, Trigger, Answer, Rejected, Confirmed, Annotate, Deliver, Hear
<1> QED BY <1>1, <1>2 DEF Clean, Without, TypeInv

\* Without a fault an attempt starts within a sweep's period of the window's end.
LEMMA StartedInTime ==
  ASSUME TypeInv, OutageInv, VoidInv, Clean, NEW w \in Windows,
         window[w].pc \in {"asked", "receipt"}
  PROVE  window[w].since <= window[w].ends + SweepEvery
<1>1. window[w] \in WindowRecord /\ VoidOnly(w) BY DEF TypeInv, VoidInv
<1> QED BY <1>1, CleanFacts, Timers DEF VoidOnly, WindowRecord

\* What the backend does leaves a quiet window quiet, and brings a pending one on
\* its way without losing time.
LEMMA BackendKeepsPending ==
  ASSUME ClaimOutlivesAttempt, TypeInv, AttemptInv, OutageInv, VoidInv, Clean,
         NEW due \in Int, NEW v \in Windows,
         \/ Tick \/ Sweep
         \/ \E w \in Windows : Trigger(w) \/ Answer(w) \/ Confirmed(w) \/ Annotate(w)
  PROVE  (Quiet(v) => Quiet(v)') /\ (Pending(v, due) => Pending(v, due)')
<1> USE Timers, AttemptFields, RestFields, EndedFields, SetOne
<1>1. window[v] \in WindowRecord /\ InTime(v) /\ VoidOnly(v) /\ clock \in Nat /\ Smooth
    BY CleanFacts DEF TypeInv, AttemptInv, VoidInv
<1>2. CASE window'[v] = window[v] BY <1>2 DEF Quiet, Pending
<1>3. CASE Sweep
  <2>1. Drive /\ UNCHANGED clock BY <1>3 DEF Sweep
  <2>2. CASE v \in Candidates
    <3>1. window[v].pc = "rest" /\ window[v].status \in {"MONITORING", "SETTLING"}
        BY <2>2, IdleWhenDriven
    <3>2. window'[v] = Attempt(v) BY <2>1, <2>2, DriveAll
    <3> QED BY <1>1, <3>1, <3>2 DEF Quiet, Pending
  <2>3. CASE v \notin Candidates BY <1>2, <2>1, <2>3, DriveAll
  <2> QED BY <2>2, <2>3
<1>4. CASE Trigger(v)
  <2>1. Set(v, Attempt(v)) BY <1>4 DEF Trigger, Set
  <2> QED BY <1>1, <1>4, <2>1 DEF Trigger, Quiet, Pending, InTime
<1>5. CASE Answer(v)
  <2>1. window[v].pc = "asked" BY <1>5 DEF Answer
  <2>2. CASE clock > Deadline(v)
    <3>1. Set(v, Ended("TIMEOUT")) BY <1>5, <2>2 DEF Answer
    <3>2. clock <= window[v].ends + SweepEvery + Latency
        BY <1>1, <2>1, StartedInTime DEF InTime, WindowRecord
    <3>3. window'[v].pc = "deliver" /\ window'[v].since = clock BY <3>1
    <3> QED BY <1>1, <2>1, <3>2, <3>3 DEF Quiet, Pending, WindowRecord, InTime
  <2>3. CASE ~(clock > Deadline(v))
    <3> DEFINE r == [window[v] EXCEPT !.spent = TRUE, !.pc = "receipt"]
    <3>1. Set(v, r) BY <1>1, <1>5, <2>1, <2>3 DEF Answer, VoidOnly
    <3>2. r.pc = "receipt" /\ r.ends = window[v].ends BY <1>1 DEF WindowRecord
    <3> HIDE DEF r
    <3>3. window[v].status = "SETTLING" BY <1>1, <2>1 DEF InTime
    <3> QED BY <2>1, <3>1, <3>2, <3>3 DEF Quiet, Pending
  <2> QED BY <2>2, <2>3
<1>6. CASE Confirmed(v)
  <2>1. window[v].pc = "receipt" /\ Set(v, Ended("SETTLED")) BY <1>6 DEF Confirmed
  <2>2. clock <= window[v].ends + SweepEvery + Latency + Receipt
      BY <1>1, <2>1, StartedInTime DEF InTime, WindowRecord
  <2>3. window'[v].pc = "deliver" /\ window'[v].since = clock BY <2>1
  <2> QED BY <1>1, <2>1, <2>2, <2>3 DEF Quiet, Pending, WindowRecord, InTime
<1>7. CASE Annotate(v)
  <2> DEFINE r == [window[v] EXCEPT !.touched = clock]
  <2>1. Set(v, r) BY <1>7 DEF Annotate
  <2>2. /\ r.status = window[v].status /\ r.pc = window[v].pc
        /\ r.ends = window[v].ends /\ r.since = window[v].since
      BY <1>1 DEF WindowRecord
  <2> HIDE DEF r
  <2> QED BY <2>1, <2>2 DEF Quiet, Pending
<1>8. CASE Tick \/ \E w \in Windows \ {v} : Trigger(w) \/ Answer(w) \/ Confirmed(w) \/ Annotate(w)
  <2>1. CASE Tick BY <1>2, <2>1 DEF Tick
  <2>2. ASSUME NEW w \in Windows \ {v}, Trigger(w) PROVE window'[v] = window[v]
      BY <2>2 DEF Trigger, TypeInv
  <2>3. ASSUME NEW w \in Windows \ {v}, Answer(w) \/ Confirmed(w) \/ Annotate(w)
        PROVE  window'[v] = window[v]
      BY <2>3 DEF Answer, Confirmed, Annotate, Set, TypeInv
  <2> QED BY <1>2, <1>8, <2>1, <2>2, <2>3
<1> QED BY <1>3, <1>4, <1>5, <1>6, <1>7, <1>8

\* While a window is pending its watchdog is not due.
LEMMA NotDueYet ==
  ASSUME DogOutlastsSettlement, TypeInv, AttemptInv, OutageInv, SweepInv, VoidInv, Clean,
         NEW due \in Int, NEW w \in Windows, Pending(w, due)
  PROVE  clock < due
<1>1. /\ window[w] \in WindowRecord /\ InTime(w) /\ SweepInTime(w) /\ clock \in Nat
      /\ Up /\ window[w].ends \in Nat
    BY CleanFacts DEF TypeInv, AttemptInv, SweepInv, WindowRecord
<1>2. CASE window[w].status = "MONITORING" /\ window[w].ends + Slack <= due
  <2>1. PICK e \in Nat : e = window[w].ends BY <1>1
  <2>2. clock <= e + SweepEvery BY <1>1, <1>2, <2>1, WithinPeriod DEF SweepInTime
  <2> QED BY <1>1, <1>2, <2>1, <2>2, Timers DEF DogOutlastsSettlement
<1>3. CASE window[w].pc \in {"asked", "receipt"} /\ window[w].ends + Slack <= due
    BY <1>1, <1>3, StartedInTime, Timers DEF InTime, WindowRecord, DogOutlastsSettlement
<1>4. CASE /\ window[w].pc = "deliver"
           /\ window[w].since + Slack <= due + SweepEvery + Latency + Receipt
    BY <1>1, <1>4, Timers DEF InTime, WindowRecord, DogOutlastsSettlement
<1> QED BY <1>2, <1>3, <1>4 DEF Pending

\* NoticeInv across a step.
LEMMA NoticeNext ==
  ASSUME ClaimOutlivesAttempt, DogOutlastsSettlement, TypeInv, AttemptInv, OutageInv,
         SweepInv, VoidInv, NoticeInv, [Next]_vars
  PROVE  NoticeInv'
<1> USE Timers, SetOne, RestFields
<1>1. TypeInv' /\ happened \subseteq happened' /\ (Clean' => Clean)
    BY TypeNext, OutageNext, CleanStays
<1>2. /\ agent \in AgentRecord /\ agent.window \in Windows /\ clock \in Nat
      /\ agent.since \in Nat /\ dog \in Int /\ DogDue \in Int /\ agent.since <= clock
      /\ \A v \in Windows : window[v] \in WindowRecord /\ InTime(v)
  <2>1. agent \in AgentRecord /\ clock \in Nat /\ agent.since <= clock
      BY DEF TypeInv, NoticeInv
  <2>2. agent.window \in Windows /\ agent.since \in Nat BY <2>1 DEF AgentRecord, Windows
  <2>3. dog \in Int BY DEF TypeInv, Never
  <2>4. DogDue \in Int BY <2>2, <2>3 DEF DogDue
  <2> QED BY <2>1, <2>2, <2>3, <2>4 DEF TypeInv, AttemptInv
<1>3. PICK mine \in Windows : mine = agent.window BY <1>2
<1>4. PICK due \in Int : due = DogDue BY <1>2
<1>5. ASSUME ~Clean', agent'.since <= clock' PROVE NoticeInv'
    BY <1>5 DEF NoticeInv
<1>6. ASSUME \/ Tick \/ Sweep \/ GoDown \/ ComeUp
             \/ \E w \in Windows : \/ Trigger(w) \/ Answer(w) \/ Rejected(w)
                                   \/ Confirmed(w) \/ Annotate(w)
      PROVE  UNCHANGED <<agent, dog, heard, dropped>> /\ clock' \in Nat /\ clock' >= clock
  <2>1. CASE Tick BY <1>2, <2>1 DEF Tick, agentVars
  <2>2. CASE Sweep \/ GoDown \/ ComeUp
      BY <1>2, <2>2 DEF Sweep, GoDown, ComeUp, agentVars
  <2>3. ASSUME NEW w \in Windows,
               Trigger(w) \/ Answer(w) \/ Rejected(w) \/ Confirmed(w) \/ Annotate(w)
        PROVE  UNCHANGED <<clock, agent, dog, heard, dropped>>
      BY <2>3 DEF Trigger, Answer, Rejected, Confirmed, Annotate, agentVars
  <2> QED BY <1>2, <1>6, <2>1, <2>2, <2>3
<1>7. CASE \/ Tick \/ Sweep
           \/ \E w \in Windows : Trigger(w) \/ Answer(w) \/ Confirmed(w) \/ Annotate(w)
  <2>1. UNCHANGED <<agent, dog, heard, dropped>> /\ clock' \in Nat /\ clock' >= clock
      BY <1>2, <1>6, <1>7
  <2>2. CASE ~Clean' BY <1>2, <1>5, <2>1, <2>2
  <2>3. CASE Clean'
    <3>1. \A v \in Windows : /\ Quiet(v) => Quiet(v)'
                             /\ Pending(v, due) => Pending(v, due)'
        BY <1>1, <1>7, <2>3, BackendKeepsPending
    <3>2. DogDue' = due BY <1>4, <2>1 DEF DogDue
    <3>3. Waiting => Pending(mine, due)' BY <1>1, <1>3, <1>4, <2>3, <3>1 DEF NoticeInv
    <3>4. Waiting' = Waiting /\ agent' = agent /\ heard' = heard BY <2>1 DEF Waiting
    <3>5. Waiting' => Pending(agent.window, DogDue)'
        BY <1>3, <3>2, <3>3, <3>4 DEF Pending
    <3> QED BY <1>1, <1>2, <2>1, <2>3, <3>1, <3>4, <3>5 DEF NoticeInv
  <2> QED BY <2>2, <2>3
<1>8. CASE GoDown BY <1>2, <1>5, <1>6, <1>8 DEF GoDown, Clean, Without
<1>9. CASE ComeUp BY <1>1, <1>2, <1>5, <1>6, <1>9, CleanFacts DEF ComeUp
<1>10. ASSUME NEW w \in Windows, Rejected(w) PROVE NoticeInv'
    BY <1>2, <1>5, <1>6, <1>10 DEF Rejected, Fault, Clean, Without
<1>11. ASSUME agent' = agent \/ (\E p, v : At(p, v)), UNCHANGED clock PROVE agent'.since <= clock'
    BY <1>2, <1>11 DEF At
<1>12. ASSUME NEW what, Hear(what) PROVE agent' = agent \/ (\E p, v : At(p, v))
    BY <1>12 DEF Hear
<1>13. CASE Buy
  <2>1. agent'.since <= clock' BY <1>11, <1>13 DEF Buy
  <2>2. CASE ~Clean' BY <1>5, <2>1, <2>2
  <2>3. CASE Clean'
    <3>1. Up /\ Clean BY <1>1, <2>3, CleanFacts
    <3>2. "refused" \notin happened' BY <2>3 DEF Clean, Without
    <3> DEFINE r == [NoWindow EXCEPT !.status = "MONITORING", !.ends = clock + Ttl,
                                     !.touched = clock]
    <3>3. At("parking", mine) /\ Set(mine, r) BY <1>3, <1>13, <3>1, <3>2 DEF Buy, Fault
    <3>4. r.status = "MONITORING" /\ r.ends = clock + Ttl BY NoWindowFacts DEF WindowRecord
    <3> HIDE DEF r
    <3>5. agent'.pc = "parking" /\ agent'.window = mine /\ agent'.since = clock
        BY <3>3 DEF At
    <3>6. Pending(agent.window, DogDue)' BY <1>2, <3>3, <3>4, <3>5 DEF Pending, DogDue
    <3>7. ASSUME NEW v \in Windows \ {mine} PROVE Quiet(v)'
        BY <1>13, <3>1, <3>3, <3>7 DEF Buy, NoticeInv, Waiting, Quiet
    <3>8. \A v \in Windows : heard'[v] \in {"nothing", "its"}
        BY <1>13, <3>1 DEF Buy, NoticeInv
    <3>9. \A v \in Windows : v # agent'.window => Quiet(v)' BY <3>5, <3>7
    <3> QED BY <2>1, <3>5, <3>6, <3>8, <3>9 DEF NoticeInv, Waiting
  <2> QED BY <2>2, <2>3
<1>14. CASE Park
  <2>1. /\ agent.pc = "parking" /\ agent'.pc = "parked" /\ agent'.window = mine
        /\ dog' = clock + Ttl + Slack /\ UNCHANGED <<clock, window, heard>>
      BY <1>3, <1>14 DEF Park, At, DogAfter, backVars
  <2>2. agent'.since <= clock' BY <1>11, <1>14 DEF Park
  <2>3. CASE ~Clean' BY <1>5, <2>2, <2>3
  <2>4. CASE Clean'
    <3>1. Clean /\ Pending(mine, due) BY <1>1, <1>3, <1>4, <2>1, <2>4 DEF NoticeInv, Waiting
    <3>2. DogDue' \in Int /\ DogDue' >= due BY <1>2, <1>4, <2>1 DEF DogDue
    <3>3. window[mine].ends \in Nat /\ window[mine].since \in Nat BY <1>2 DEF WindowRecord
    <3>4. Pending(agent.window, DogDue)' BY <2>1, <3>1, <3>2, <3>3 DEF Pending
    <3>5. \A v \in Windows : v # mine => Quiet(v)'
        BY <1>3, <2>1, <3>1 DEF NoticeInv, Waiting, Quiet
    <3>6. \A v \in Windows : heard'[v] \in {"nothing", "its"} BY <2>1, <3>1 DEF NoticeInv
    <3>7. \A v \in Windows : v # agent'.window => Quiet(v)' BY <2>1, <3>5
    <3> QED BY <2>1, <2>2, <3>4, <3>6, <3>7 DEF NoticeInv, Waiting
  <2> QED BY <2>3, <2>4
<1>15. CASE DogFires
  <2>1. agent'.since <= clock' BY <1>11, <1>12, <1>15 DEF DogFires
  <2>2. ASSUME Clean' PROVE FALSE
    <3>1. Clean /\ ~dropped' /\ agent.pc # "stuck" BY <1>1, <2>2 DEF Clean, NoticeInv
    <3>2. agent.pc = "parked" BY <1>15, <3>1 DEF DogFires, Hear
    <3>3. Pending(mine, due) /\ due = dog
        BY <1>3, <1>4, <3>1, <3>2 DEF NoticeInv, Waiting, DogDue
    <3>4. clock < due BY <3>1, <3>3, NotDueYet
    <3> QED BY <1>2, <1>15, <3>3, <3>4 DEF DogFires
  <2> QED BY <1>5, <2>1, <2>2
<1>16. CASE Decide
  <2>1. /\ agent.pc = "thinking" /\ agent'.pc \in {"buying", "done"}
        /\ UNCHANGED <<clock, window, heard>>
      BY <1>16 DEF Decide, At, backVars
  <2>2. agent'.since <= clock' BY <1>11, <1>16 DEF Decide
  <2>3. CASE ~Clean' BY <1>5, <2>2, <2>3
  <2>4. CASE Clean'
      BY <1>1, <2>1, <2>2, <2>4 DEF NoticeInv, Waiting, Quiet
  <2> QED BY <2>3, <2>4
<1>17. CASE GiveUp
  <2>1. agent'.pc = "gaveup" /\ UNCHANGED <<clock, window, heard>>
      BY <1>17 DEF GiveUp, At, backVars
  <2>2. agent'.since <= clock' BY <1>11, <1>17 DEF GiveUp
  <2> QED BY <1>1, <2>1, <2>2 DEF NoticeInv, Waiting
<1>18. ASSUME NEW w \in Windows, Deliver(w) PROVE NoticeInv'
  <2>1. agent'.since <= clock' BY <1>11, <1>12, <1>18 DEF Deliver
  <2>2. CASE ~Clean' BY <1>5, <2>1, <2>2
  <2>3. CASE Clean'
    <3>1. Clean /\ ~dropped' /\ "again" \notin happened' /\ "unreached" \notin happened'
        BY <1>1, <2>3 DEF Clean, Without
    <3>2. agent.pc # "stuck" /\ ~Quiet(w) BY <1>18, <3>1 DEF NoticeInv, Deliver, Quiet
    <3>3. Set(w, Rest(w)) /\ Hear(IF mine = w THEN "its" ELSE "other")
        BY <1>3, <1>18, <3>1 DEF Deliver, Fault
    <3>4. agent.pc = "parked" BY <3>1, <3>2, <3>3 DEF Hear
    <3>5. w = mine BY <1>3, <3>1, <3>2, <3>4 DEF NoticeInv, Waiting
    <3>6. agent'.pc = "thinking" /\ heard' = [heard EXCEPT ![mine] = "its"]
        BY <1>3, <3>3, <3>4, <3>5 DEF Hear, At
    <3>7. ASSUME NEW v \in Windows PROVE Quiet(v)'
      <4>1. CASE v = w BY <1>2, <1>18, <3>3, <4>1 DEF Deliver, InTime, Quiet
      <4>2. CASE v # w BY <1>3, <3>1, <3>3, <3>4, <3>5, <4>2 DEF NoticeInv, Waiting, Quiet
      <4> QED BY <4>1, <4>2
    <3>8. \A v \in Windows : heard'[v] \in {"nothing", "its"}
        BY <3>1, <3>6 DEF NoticeInv, TypeInv
    <3> QED BY <2>1, <3>6, <3>7, <3>8 DEF NoticeInv, Waiting
  <2> QED BY <2>2, <2>3
<1>19. CASE UNCHANGED vars
  <2>1. UNCHANGED <<clock, window, agent, dog, heard, dropped, happened>>
      BY <1>19 DEF vars, backVars, agentVars, faultVars
  <2> QED BY <2>1 DEF NoticeInv, Clean, Without, Waiting, Pending, DogDue, Quiet
<1> QED
    BY <1>7, <1>8, <1>9, <1>10, <1>13, <1>14, <1>15, <1>16, <1>17, <1>18, <1>19 DEF Next

\* If the watchdog's seconds exceed a sweep period, a receipt poll and two calls,
\* the agent is woken from each window by that window's notice: never by the
\* watchdog, never by another window's (demo_agent.py, graph.py).
THEOREM NoticesArriveFirst ==
  ASSUME ClaimOutlivesAttempt, DogOutlastsSettlement
  PROVE  Spec => []WokenByItsNotice
<1> DEFINE Inv == /\ TypeInv /\ AttemptInv /\ OutageInv /\ SweepInv /\ VoidInv
                  /\ NoticeInv
<1>1. Init => Inv
    BY TypeInit, AttemptInit, OutageInit, SweepInit, VoidInit, NoticeInit
<1>2. Inv /\ [Next]_vars => Inv'
    BY TypeNext, AttemptNext, OutageNext, SweepNext, VoidNext, NoticeNext
<1>3. Inv => WokenByItsNotice BY DEF NoticeInv, Clean, WokenByItsNotice
<1> QED BY <1>1, <1>2, <1>3, PTL DEF Spec
=============================================================================
