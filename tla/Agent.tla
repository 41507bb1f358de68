--------------------------------- MODULE Agent ---------------------------------
(***************************************************************************)
(* The clocks of a watch: the Python agent that buys windows and sleeps on *)
(* the webhook, and the timers of the backend that it depends on: the TTL, *)
(* the sweep's period, the age at which a claim may be driven again, and   *)
(* the deadline of the voucher.                                            *)
(*                                                                         *)
(* Time is a number of ticks (30 seconds in the bounds that are checked).  *)
(* A timer that is due, and an await whose time is up, happen before the   *)
(* next tick.  What a settlement charges is left to Settlement and Watch:  *)
(* here it succeeds, is rejected and stays SETTLING, or comes after the    *)
(* deadline and voids the voucher.                                         *)
(*                                                                         *)
(* The agent is agent/scripts/demo_agent.py around the graph plan,         *)
(* negotiate, wait_for_webhook, observe, decide.  A notice that finds it   *)
(* anywhere but asleep is dropped: resume() does not wait for its lock, or *)
(* there is no interrupt to resume yet.                                    *)
(***************************************************************************)
EXTENDS Integers, FiniteSetsExt

CONSTANTS
    Ttl,        \* the window's TTL
    Buffer,     \* DEADLINE_BUFFER_S
    SweepEvery, \* the cron's period
    Stale,      \* STALE_SETTLING_MS
    Latency,    \* a facilitator call takes at most this long
    Receipt,    \* and the receipt after it: RECEIPT_TIMEOUT_MS
    Slack,      \* the watchdog's seconds after the TTL
    MainWait,   \* how long the main thread waits
    Thinking,   \* observe and decide take at most this long
    Reissues,   \* reissue_budget
    MaxClock,   \* bound: the last tick
    Faults,     \* the kinds of fault that can happen
    MaxFaults   \* bound: how many of them

ASSUME AgentAssumption ==
    /\ {Ttl, Buffer, SweepEvery, Stale, Slack, MainWait, MaxClock} \subseteq Nat \ {0}
    /\ {Latency, Receipt, Thinking, Reissues, MaxFaults} \subseteq Nat
    /\ Faults \subseteq {"down", "rejected", "refused", "unreached", "again", "annotated"}

Windows == 1 .. Reissues + 2    \* one more than the budget allows
Times   == 0 .. MaxClock
Never   == -1

VARIABLES
    clock,
    down,      \* since when the backend is down
    swept,     \* the sweep of this tick has run
    window,    \* the backend's side of each window
    agent,     \* where the agent is
    dog,       \* when the watchdog fires
    giveUp,    \* when the main thread stops waiting
    heard,     \* what woke the agent from each window
    faults,    \* how many faults so far
    happened,  \* history: their kinds; "lost": an outage ended an attempt
    dropped,   \* history: a notice found the agent awake
    outage,    \* history: the longest time the backend was down
    overlapped \* history: two attempts at one window ran at the same time

backVars  == <<down, swept, window, outage, overlapped>>
agentVars == <<agent, dog, giveUp, heard, dropped>>
faultVars == <<faults, happened>>
vars == <<clock, backVars, agentVars, faultVars>>

\* A window the agent has not bought.  pc is the attempt to settle it, since
\* when; touched is updatedAt, claimed the last claim, spent that the chain has
\* charged the voucher.
NoWindow == [status |-> "none", ends |-> 0, touched |-> 0, claimed |-> 0,
             pc |-> "rest", since |-> 0, spent |-> FALSE]

\* A window that ended in status; its times no longer matter.
Ended(status) == [NoWindow EXCEPT !.status = status, !.pc = "deliver", !.since = clock]

Init ==
    /\ clock \in 0 .. SweepEvery - 1 /\ down = Never /\ swept = FALSE
    /\ window = [w \in Windows |-> NoWindow]
    /\ agent = [pc |-> "buying", window |-> 1, since |-> clock]
    /\ dog = Never /\ giveUp = Never
    /\ heard = [w \in Windows |-> "nothing"]
    /\ faults = 0 /\ happened = {} /\ dropped = FALSE /\ outage = 0 /\ overlapped = FALSE

Fault(kind) ==
    /\ kind \in Faults /\ faults < MaxFaults /\ faults' = faults + 1
    /\ happened' = happened \cup {kind}
-----------------------------------------------------------------------------
(* The backend.                                                            *)

Up == down = Never

\* An attempt starts with a claim; it would run beside one still at work.
Attempt(w) ==
    [window[w] EXCEPT !.status = "SETTLING", !.touched = clock, !.claimed = clock,
                      !.pc = "asked", !.since = clock]

\* The success trigger of a first match.
Trigger(w) ==
    /\ Up /\ window[w].status = "MONITORING" /\ clock <= window[w].ends
    /\ window' = [window EXCEPT ![w] = Attempt(w)]
    /\ UNCHANGED <<clock, down, swept, outage, overlapped, agentVars, faultVars>>

Deadline(w) == window[w].ends + Buffer

\* Mutant: the sweep waits for the voucher's deadline.
ExpiredAtDeadline(w) == window[w].status = "MONITORING" /\ Deadline(w) < clock

Expired(w) == window[w].status = "MONITORING" /\ window[w].ends < clock

\* Mutants: the claim's age is not asked; claims are never driven again.
RedrivableAnyAge(w) == window[w].status = "SETTLING"
RedrivableNever(w)  == FALSE

Redrivable(w) == window[w].status = "SETTLING" /\ window[w].touched + Stale < clock

\* getSettlementCandidates, of which runSettlementSweep drives each.
Candidates == {w \in Windows : Expired(w) \/ Redrivable(w)}

SweepDue == Up /\ ~swept /\ clock % SweepEvery = 0

Drive ==
    /\ window' = [w \in Windows |-> IF w \in Candidates THEN Attempt(w) ELSE window[w]]
    /\ swept' = (clock % SweepEvery = 0)
    /\ overlapped' = (overlapped \/ \E w \in Candidates : window[w].pc # "rest")

Sweep ==
    /\ SweepDue /\ Drive
    /\ UNCHANGED <<clock, down, outage, agentVars, faultVars>>

Set(w, record) == window' = [window EXCEPT ![w] = record]

Rest(w) == [window[w] EXCEPT !.pc = "rest", !.since = 0]

\* The facilitator answers: it settles, or rejects for the deadline or for a
\* consumed nonce (which leaves the claim to a manual check).
Answer(w) ==
    /\ window[w].pc = "asked"
    /\ Set(w, IF clock > Deadline(w) THEN Ended("TIMEOUT")
              ELSE IF window[w].spent THEN Rest(w)
              ELSE [window[w] EXCEPT !.spent = TRUE, !.pc = "receipt"])
    /\ UNCHANGED <<clock, down, swept, outage, overlapped, agentVars, faultVars>>

\* A transient rejection, or a receipt that does not come in time.
Rejected(w) ==
    /\ window[w].pc \in {"asked", "receipt"} /\ Fault("rejected")
    /\ Set(w, Rest(w))
    /\ UNCHANGED <<clock, down, swept, outage, overlapped, agentVars>>

Confirmed(w) ==
    /\ window[w].pc = "receipt"
    /\ Set(w, Ended("SETTLED"))
    /\ UNCHANGED <<clock, down, swept, outage, overlapped, agentVars, faultVars>>

\* annotateIntent writes the row, and the row's updatedAt with it.
Annotate(w) ==
    /\ window[w].status = "SETTLING" /\ Up /\ Fault("annotated")
    /\ Set(w, [window[w] EXCEPT !.touched = clock])
    /\ UNCHANGED <<clock, down, swept, outage, overlapped, agentVars>>

\* The process stops, its attempts with it.
GoDown ==
    /\ Up /\ "down" \in Faults /\ faults < MaxFaults /\ faults' = faults + 1
    /\ happened' = happened \cup {"down"}
         \cup (IF \E w \in Windows : window[w].pc \in {"asked", "receipt"}
               THEN {"lost"} ELSE {})
    /\ down' = clock
    /\ window' = [w \in Windows |-> Rest(w)]
    /\ UNCHANGED <<clock, swept, outage, overlapped, agentVars>>

\* It starts, with a sweep.
ComeUp ==
    /\ ~Up
    /\ down' = Never /\ outage' = Max({outage, clock - down})
    /\ Drive
    /\ UNCHANGED <<clock, agentVars, faultVars>>
-----------------------------------------------------------------------------
(* The agent.                                                              *)

At(pc, w) ==
    agent' = [pc |-> pc, window |-> w,
              since |-> IF pc \in {"buying", "parking", "thinking"} THEN clock ELSE 0]

\* negotiate: the intent is created and paid, or the request fails: before the
\* first watch the program ends, later the exception is swallowed.
Buy ==
    /\ agent.pc = "buying"
    /\ \/ /\ Up /\ At("parking", agent.window)
          /\ Set(agent.window, [NoWindow EXCEPT !.status = "MONITORING",
                                                !.ends = clock + Ttl, !.touched = clock])
          /\ UNCHANGED faultVars
       \/ /\ ~Up \/ "refused" \in Faults
          /\ At(IF agent.window = 1 THEN "gaveup" ELSE "stuck", agent.window)
          /\ IF Up THEN Fault("refused") ELSE UNCHANGED faultVars
          /\ UNCHANGED window
    /\ UNCHANGED <<clock, down, swept, outage, overlapped, dog, giveUp, heard, dropped>>

\* Mutant: the watchdog allows for the TTL alone.
DogAtTtl == clock + Ttl

\* arm_watchdog(ttl_seconds + 180)
DogAfter == clock + Ttl + Slack

\* wait_for_webhook: the invoke returns, the watchdog is armed (which cancels the
\* one before), and the main thread waits once.
Park ==
    /\ agent.pc = "parking"
    /\ At("parked", agent.window) /\ dog' = DogAfter
    /\ giveUp' = IF giveUp = Never THEN clock + MainWait ELSE giveUp
    /\ UNCHANGED <<clock, backVars, heard, dropped, faultVars>>

\* resume(): the notice wakes the agent if it sleeps; a graph that failed may try
\* its node again.
Hear(what) ==
    \/ /\ agent.pc = "parked" /\ At("thinking", agent.window)
       /\ heard' = [heard EXCEPT ![agent.window] = what]
       /\ UNCHANGED dropped
    \/ agent.pc = "stuck" /\ At("buying", agent.window) /\ UNCHANGED <<heard, dropped>>
    \/ agent.pc # "parked" /\ dropped' = TRUE /\ UNCHANGED <<agent, heard>>

\* The webhook of window w; sent again when its log entry could not be written,
\* given up when the agent cannot be reached.
Deliver(w) ==
    /\ window[w].pc = "deliver"
    /\ \/ /\ Hear(IF agent.window = w THEN "its" ELSE "other")
          /\ \/ Set(w, Rest(w)) /\ UNCHANGED faultVars
             \/ Fault("again") /\ UNCHANGED window
       \/ /\ Fault("unreached") /\ Set(w, Rest(w))
          /\ UNCHANGED <<agent, heard, dropped>>
    /\ UNCHANGED <<clock, down, swept, outage, overlapped, dog, giveUp>>

\* The watchdog's synthetic notice.
DogFires ==
    /\ dog = clock /\ agent.pc \notin {"done", "gaveup"}
    /\ dog' = Never /\ Hear("watchdog")
    /\ UNCHANGED <<clock, backVars, giveUp, faultVars>>

MayReissue == agent.window <= Reissues

\* observe and decide.
Decide ==
    /\ agent.pc = "thinking"
    /\ \/ MayReissue /\ At("buying", agent.window + 1)
       \/ At("done", agent.window)
    /\ UNCHANGED <<clock, backVars, dog, giveUp, heard, dropped, faultVars>>

\* done.wait(timeout=600)
GiveUp ==
    /\ giveUp = clock /\ agent.pc \notin {"done", "gaveup"}
    /\ At("gaveup", agent.window)
    /\ UNCHANGED <<clock, backVars, dog, giveUp, heard, dropped, faultVars>>
-----------------------------------------------------------------------------
\* What has to happen before the next tick.
Urgent ==
    \/ SweepDue
    \/ \E w \in Windows :
          \/ window[w].pc = "asked" /\ clock >= window[w].since + Latency
          \/ window[w].pc = "receipt" /\ clock >= window[w].since + Latency + Receipt
          \/ window[w].pc = "deliver" /\ clock >= window[w].since + Latency
    \/ agent.pc \in {"buying", "parking"} /\ clock >= agent.since + Latency
    \/ agent.pc = "thinking" /\ clock >= agent.since + Thinking
    \/ agent.pc \notin {"done", "gaveup"} /\ clock \in {dog, giveUp}

Tick ==
    /\ ~Urgent /\ clock < MaxClock
    /\ clock' = clock + 1 /\ swept' = FALSE
    /\ UNCHANGED <<down, window, outage, overlapped, agentVars, faultVars>>

Next ==
    \/ Tick \/ Sweep \/ GoDown \/ ComeUp
    \/ Buy \/ Park \/ DogFires \/ Decide \/ GiveUp
    \/ \E w \in Windows : Trigger(w) \/ Answer(w) \/ Rejected(w) \/ Confirmed(w)
                            \/ Annotate(w) \/ Deliver(w)

Spec == Init /\ [][Next]_vars
-----------------------------------------------------------------------------
(* Properties.                                                             *)

Without(kinds) == happened \cap kinds = {}

\* No two attempts to settle one window ever run at the same time: a claim does
\* not go stale while its attempt can still be waiting for its receipt (db.ts,
\* the choice of STALE_SETTLING_MS).
AttemptsNeverOverlap == ~overlapped

\* A voucher is void only after an attempt was rejected or lost, or an outage
\* that leaves no settlement within its buffer: not of the whole buffer, but of
\* what is left of it after a sweep period and a facilitator call.
OnlyLongOutageVoids ==
    \A w \in Windows :
        window[w].status = "TIMEOUT" =>
            \/ outage > Buffer - SweepEvery - Latency
            \/ ~Without({"rejected", "lost"})

\* A claim whose attempt was rejected or died is driven again within the age
\* that makes it stale and a period of the sweep, while nothing refreshes the
\* row and the backend stays up.
LeftIsRetriedSoon ==
    \A w \in Windows :
        window[w].status = "SETTLING" /\ Without({"down", "annotated"}) =>
            clock <= window[w].claimed + Stale + SweepEvery

\* The notice that wakes the agent from a window is that window's, unless the
\* backend was down, an attempt was rejected, a delivery failed or was repeated,
\* or a notice came while the agent was busy: the watchdog allows for the TTL, the
\* sweep, the settlement and its receipt.
WokenByItsNotice ==
    ~dropped /\ Without({"down", "rejected", "refused", "unreached", "again"}) =>
        \A w \in Windows : heard[w] \in {"nothing", "its"}

\* cron.ts: "Only downtime longer than the buffer voids a voucher".
OnlyDowntimeVoids ==
    \A w \in Windows : window[w].status = "TIMEOUT" => outage > Buffer
=============================================================================
