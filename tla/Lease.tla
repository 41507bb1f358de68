-------------------------------- MODULE Lease --------------------------------
(***************************************************************************)
(* The single-writer lease: which process may stream against the database. *)
(*                                                                         *)
(* Several supervised instances boot, claim the process_lease row, renew   *)
(* it with a heartbeat, lose it, release it, die and boot again.  A holder *)
(* identity (host, pid and boot time) is never used twice: when a process  *)
(* is gone while the row still names it, the row's holder is Gone, an      *)
(* identity no living process has.                                         *)
(*                                                                         *)
(* The heartbeat's age is one bit: fresh says that heartbeat_at is younger *)
(* than LEASE_TTL_MS.  It can grow old under a living holder too, whose    *)
(* beats fail or whose event loop stalls for three beats; missed[p]        *)
(* remembers that.  The database decides each statement atomically.        *)
(***************************************************************************)
EXTENDS FiniteSets

CONSTANTS
    Processes,   \* the supervised instances
    Nobody,      \* the holder when there is no row
    Gone         \* the holder when the row names a process that has died

ASSUME HolderAssumption ==
    /\ Nobody \notin Processes /\ Gone \notin Processes /\ Nobody # Gone

VARIABLES
    holder,    \* process_lease.holder
    fresh,     \* the heartbeat is younger than the TTL
    phase,     \* where each process is
    claiming,  \* the claim statement of a process is on its way
    beating,   \* the heartbeat timer of a process runs
    missed,    \* the lease of a live holder went stale since its last beat
    exiting,   \* a heartbeat found another holder: the exit is on its way
    writing    \* block writes of a process are queued

vars == <<holder, fresh, phase, claiming, beating, missed, exiting, writing>>

\* "booting": up to the answer of the claim; "api": serving without a stream;
\* "stopping", "released": the two halves of the graceful shutdown.
Phases == {"down", "booting", "streaming", "api", "stopping", "released"}

Init ==
    /\ holder = Nobody /\ fresh = FALSE
    /\ phase = [p \in Processes |-> "down"]
    /\ claiming = [p \in Processes |-> FALSE]
    /\ beating = [p \in Processes |-> FALSE]
    /\ missed = [p \in Processes |-> FALSE]
    /\ exiting = [p \in Processes |-> FALSE]
    /\ writing = [p \in Processes |-> FALSE]

\* The stream of p delivers blocks: also while p is exiting.
Streams(p) == phase[p] = "streaming"
Live(p) == phase[p] # "down"
-----------------------------------------------------------------------------
(* The supervisor starts a process; acquireLease sends the claim.          *)

Boot(p) ==
    /\ phase[p] = "down"
    /\ phase' = [phase EXCEPT ![p] = "booting"]
    /\ claiming' = [claiming EXCEPT ![p] = TRUE]
    /\ UNCHANGED <<holder, fresh, beating, missed, exiting, writing>>

\* Mutants of the claim: it takes a lease whatever its age, or never one of
\* another holder.
ClaimableFresh(p) == TRUE
ClaimableOwn(p) == holder \in {Nobody, p}

\* The WHERE of the upsert: no row, our row, or a stale heartbeat.
Claimable(p) == holder \in {Nobody, p} \/ ~fresh

\* The claim succeeds.  A process told to stop meanwhile finds stopping set
\* and does not stream, though the row names it and its timer runs again.
Acquire(p) ==
    /\ claiming[p] /\ Claimable(p)
    /\ holder' = p /\ fresh' = TRUE
    /\ claiming' = [claiming EXCEPT ![p] = FALSE]
    /\ beating' = [beating EXCEPT ![p] = TRUE]
    /\ phase' = [phase EXCEPT ![p] = IF @ = "booting" THEN "streaming" ELSE @]
    /\ UNCHANGED <<missed, exiting, writing>>

\* The process is gone: its timers, statements and queued writes with it.
Dies(p) ==
    /\ phase' = [phase EXCEPT ![p] = "down"]
    /\ claiming' = [claiming EXCEPT ![p] = FALSE]
    /\ beating' = [beating EXCEPT ![p] = FALSE]
    /\ missed' = [missed EXCEPT ![p] = FALSE]
    /\ exiting' = [exiting EXCEPT ![p] = FALSE]
    /\ writing' = [writing EXCEPT ![p] = FALSE]

\* Mutant: an identity that the next boot of the instance has again.
AbandonedName(p) == holder

Abandoned(p) == IF holder = p THEN Gone ELSE holder

\* LeaseHeldError: the entry point exits and the supervisor tries again.
Refused(p) ==
    /\ claiming[p] /\ phase[p] = "booting" /\ ~Claimable(p)
    /\ Dies(p)
    /\ UNCHANGED <<holder, fresh>>

\* The claim fails with a database error: the API continues without a stream.
ClaimFails(p) ==
    /\ claiming[p]
    /\ claiming' = [claiming EXCEPT ![p] = FALSE]
    /\ phase' = [phase EXCEPT ![p] = IF @ = "booting" THEN "api" ELSE @]
    /\ UNCHANGED <<holder, fresh, beating, missed, exiting, writing>>
-----------------------------------------------------------------------------
(* The heartbeat.                                                          *)

\* Mutant: a heartbeat that finds another holder takes the row back.
RenewSteals(p) ==
    /\ beating[p] /\ fresh' = TRUE /\ holder' = p
    /\ missed' = [missed EXCEPT ![p] = FALSE]
    /\ UNCHANGED <<phase, claiming, beating, exiting, writing>>

\* Mutant: a heartbeat that finds another holder does nothing.
RenewSilent(p) ==
    /\ beating[p] /\ holder = p /\ fresh' = TRUE
    /\ missed' = [missed EXCEPT ![p] = FALSE]
    /\ UNCHANGED <<holder, phase, claiming, beating, exiting, writing>>

\* renewProcessLease: the row still names p, and is fresh again; or it does
\* not, and p is on its way out.
Renew(p) ==
    /\ beating[p]
    /\ IF holder = p
       THEN /\ fresh' = TRUE
            /\ missed' = [missed EXCEPT ![p] = FALSE]
            /\ UNCHANGED exiting
       ELSE /\ exiting' = [exiting EXCEPT ![p] = TRUE]
            /\ UNCHANGED <<fresh, missed>>
    /\ UNCHANGED <<holder, phase, claiming, beating, writing>>

\* The best-effort release deletes only our own row, so it deletes nothing;
\* then the process exits.
ExitLost(p) ==
    /\ exiting[p]
    /\ Dies(p)
    /\ holder' = IF holder = p THEN Nobody ELSE holder
    /\ UNCHANGED fresh

\* LEASE_TTL_MS pass without a heartbeat.
GoStale ==
    /\ fresh /\ fresh' = FALSE
    /\ missed' = IF holder \in Processes THEN [missed EXCEPT ![holder] = TRUE]
                                         ELSE missed
    /\ UNCHANGED <<holder, phase, claiming, beating, exiting, writing>>
-----------------------------------------------------------------------------
(* The stream of a process, and its end.                                   *)

\* A block arrives; its writes are queued on the write chain.
Deliver(p) ==
    /\ Streams(p) /\ ~writing[p]
    /\ writing' = [writing EXCEPT ![p] = TRUE]
    /\ UNCHANGED <<holder, fresh, phase, claiming, beating, missed, exiting>>

\* The chain drains, also after the stream has stopped.
Drain(p) ==
    /\ writing[p]
    /\ writing' = [writing EXCEPT ![p] = FALSE]
    /\ UNCHANGED <<holder, fresh, phase, claiming, beating, missed, exiting>>

\* The retry loop gives up and the process serves the API alone: the lease
\* is not released and the heartbeat goes on.
GiveUp(p) ==
    /\ phase[p] = "streaming"
    /\ phase' = [phase EXCEPT ![p] = "api"]
    /\ UNCHANGED <<holder, fresh, claiming, beating, missed, exiting, writing>>

\* SIGTERM: stopSubstreams, and releaseLease stops the timer.
Shutdown(p) ==
    /\ phase[p] \in {"booting", "streaming", "api"}
    /\ phase' = [phase EXCEPT ![p] = "stopping"]
    /\ beating' = [beating EXCEPT ![p] = FALSE]
    /\ UNCHANGED <<holder, fresh, claiming, missed, exiting, writing>>

\* Mutant: the release deletes the row whoever holds it.
ReleaseAny(p) ==
    /\ phase[p] = "stopping"
    /\ phase' = [phase EXCEPT ![p] = "released"]
    /\ holder' = Nobody
    /\ UNCHANGED <<fresh, claiming, beating, missed, exiting, writing>>

\* The row is deleted if it is ours, or the statement fails and is logged.
Release(p) ==
    /\ phase[p] = "stopping"
    /\ phase' = [phase EXCEPT ![p] = "released"]
    /\ holder' \in {holder, IF holder = p THEN Nobody ELSE holder}
    /\ UNCHANGED <<fresh, claiming, beating, missed, exiting, writing>>

\* The pool is closed and the process exits.
Exit(p) ==
    /\ phase[p] = "released"
    /\ Dies(p)
    /\ holder' = Abandoned(p)
    /\ UNCHANGED fresh

\* A crash, at any point.
Crash(p) ==
    /\ Live(p)
    /\ Dies(p)
    /\ holder' = Abandoned(p)
    /\ UNCHANGED fresh
-----------------------------------------------------------------------------
Step(p) ==
    \/ Boot(p) \/ Acquire(p) \/ Refused(p) \/ ClaimFails(p)
    \/ Renew(p) \/ ExitLost(p) \/ Deliver(p) \/ Drain(p)
    \/ GiveUp(p) \/ Shutdown(p) \/ Release(p) \/ Exit(p) \/ Crash(p)

Next == GoStale \/ \E p \in Processes : Step(p)

Spec == Init /\ [][Next]_vars
-----------------------------------------------------------------------------
(* Properties.                                                             *)

\* Every variable has its type, and the row names a process only while that
\* process lives.
TypeOK ==
    /\ holder \in Processes \cup {Nobody, Gone} /\ fresh \in BOOLEAN
    /\ phase \in [Processes -> Phases]
    /\ claiming \in [Processes -> BOOLEAN] /\ beating \in [Processes -> BOOLEAN]
    /\ missed \in [Processes -> BOOLEAN] /\ exiting \in [Processes -> BOOLEAN]
    /\ writing \in [Processes -> BOOLEAN]
    /\ \A p \in Processes : holder = p => Live(p)

\* The single writer: of two processes that stream at the same time, one has
\* let its heartbeat grow stale and does not know it yet.
OneHealthyStreamer ==
    \A p, q \in Processes :
        p # q /\ Streams(p) /\ Streams(q) => missed[p] \/ missed[q]

\* A fresh lease changes hands only when its holder lets it go: nobody takes
\* it from a live holder, nor deletes it on another's behalf.
FreshLeaseIsRespected ==
    [][\A p \in Processes :
          holder = p /\ fresh /\ holder' # p
            => phase[p] = "stopping" \/ phase'[p] = "down"]_vars
-----------------------------------------------------------------------------
(* Liveness.  Supervisors restart what is down, every process beats while  *)
(* its timer runs, a row nobody renews grows stale, and no supervisor is   *)
(* so unlucky that each of its boots dies before its claim is answered.    *)

Fairness ==
    /\ \A p \in Processes :
          /\ WF_vars(Boot(p)) /\ SF_vars(Acquire(p)) /\ WF_vars(Refused(p))
          /\ WF_vars(Renew(p)) /\ WF_vars(ExitLost(p))
          /\ WF_vars(Release(p)) /\ WF_vars(Exit(p)) /\ WF_vars(Drain(p))
    /\ WF_vars(GoStale /\ holder \notin Processes)

FairSpec == Spec /\ Fairness

\* A process whose lease another one took over stops streaming.
UsurpedStreamerStops ==
    \A p \in Processes :
        (Streams(p) /\ holder \in Processes \ {p})
            ~> (~Streams(p) \/ holder = p)

\* The lease of a dead process is taken over, unless an instance has already
\* settled for serving the API alone.
LeaseRecovers ==
    (holder = Gone)
        ~> (holder # Gone \/ \E p \in Processes : phase[p] = "api")

\* A streamer that is gone is always replaced by a live one.
StreamerReturns ==
    (\A p \in Processes : ~Streams(p)) ~> (\E p \in Processes : Streams(p))
=============================================================================
