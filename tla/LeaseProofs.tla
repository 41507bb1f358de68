----------------------------- MODULE LeaseProofs -----------------------------
(***************************************************************************)
(* The single-writer guarantee of the lease, for any number of processes.  *)
(* The invariant behind it: a streaming process whose heartbeat has not    *)
(* been missed is the holder of a fresh row, so no claim can succeed       *)
(* beside it.                                                              *)
(***************************************************************************)
EXTENDS Lease, TLAPS

\* A streamer that has missed no beat holds a fresh lease; only the living claim.
Healthy(p) == Streams(p) /\ ~missed[p]
HealthyHolds == \A p \in Processes : Healthy(p) => holder = p /\ fresh
ClaimsAlive == \A p \in Processes : claiming[p] => Live(p)
LeaseInv == TypeOK /\ HealthyHolds /\ ClaimsAlive

\* No process runs at first.
LEMMA LeaseInit == Init => LeaseInv
BY HolderAssumption DEF Init, LeaseInv, TypeOK, HealthyHolds, Healthy, Streams,
                        Phases, Live, ClaimsAlive

\* A process that dies leaves every other process as it was.
LEMMA DiesType ==
    ASSUME TypeOK, NEW p \in Processes, Dies(p)
    PROVE  /\ phase' \in [Processes -> Phases]
           /\ claiming' \in [Processes -> BOOLEAN]
           /\ beating' \in [Processes -> BOOLEAN]
           /\ missed' \in [Processes -> BOOLEAN]
           /\ exiting' \in [Processes -> BOOLEAN]
           /\ writing' \in [Processes -> BOOLEAN]
           /\ phase'[p] = "down"
           /\ claiming'[p] = FALSE
           /\ \A q \in Processes \ {p} :
                 /\ phase'[q] = phase[q] /\ missed'[q] = missed[q]
                 /\ claiming'[q] = claiming[q]
BY DEF TypeOK, Dies, Phases

\* Every step of a process, and the passing of the TTL, keeps the invariant.
LEMMA LeaseStep == LeaseInv /\ [Next]_vars => LeaseInv'
<1> SUFFICES ASSUME LeaseInv, [Next]_vars PROVE LeaseInv'
  OBVIOUS
<1> USE HolderAssumption DEF LeaseInv, ClaimsAlive
<1>1. ASSUME NEW p \in Processes, Boot(p) PROVE LeaseInv'
  BY <1>1 DEF Boot, TypeOK, HealthyHolds, Healthy, Streams, Phases, Live
<1>2. ASSUME NEW p \in Processes, Acquire(p) PROVE LeaseInv'
  <2>1. TypeOK'
    BY <1>2 DEF Acquire, TypeOK, Phases, Live
  <2>2. \A q \in Processes \ {p} : ~Healthy(q)
    BY <1>2 DEF Acquire, Claimable, HealthyHolds, TypeOK
  <2>3. \A q \in Processes \ {p} : ~Healthy(q)'
    BY <1>2, <2>2 DEF Acquire, Healthy, Streams, TypeOK
  <2>4. holder' = p /\ fresh'
    BY <1>2 DEF Acquire
  <2>5. ClaimsAlive'
    BY <1>2 DEF Acquire, TypeOK, Live
  <2> QED BY <2>1, <2>3, <2>4, <2>5 DEF HealthyHolds
<1>3. ASSUME NEW p \in Processes, Refused(p) PROVE LeaseInv'
  <2>1. Dies(p) /\ holder # p /\ UNCHANGED <<holder, fresh>>
    BY <1>3 DEF Refused, Claimable
  <2> QED BY <2>1, DiesType DEF TypeOK, HealthyHolds, Healthy, Streams, Live
<1>4. ASSUME NEW p \in Processes, ClaimFails(p) PROVE LeaseInv'
  BY <1>4 DEF ClaimFails, TypeOK, HealthyHolds, Healthy, Streams, Phases, Live
<1>5. ASSUME NEW p \in Processes, Renew(p) PROVE LeaseInv'
  BY <1>5 DEF Renew, TypeOK, HealthyHolds, Healthy, Streams, Live
<1>6. ASSUME NEW p \in Processes, ExitLost(p) PROVE LeaseInv'
  <2>1. Dies(p) /\ holder' = (IF holder = p THEN Nobody ELSE holder) /\ fresh' = fresh
    BY <1>6 DEF ExitLost
  <2> QED BY <2>1, DiesType DEF TypeOK, HealthyHolds, Healthy, Streams, Live
<1>7. ASSUME NEW p \in Processes, Deliver(p) \/ Drain(p) PROVE LeaseInv'
  BY <1>7 DEF Deliver, Drain, TypeOK, HealthyHolds, Healthy, Streams, Live
<1>8. ASSUME NEW p \in Processes, GiveUp(p) \/ Shutdown(p) PROVE LeaseInv'
  BY <1>8 DEF GiveUp, Shutdown, TypeOK, HealthyHolds, Healthy, Streams, Phases, Live
<1>9. ASSUME NEW p \in Processes, Release(p) PROVE LeaseInv'
  BY <1>9 DEF Release, TypeOK, HealthyHolds, Healthy, Streams, Phases, Live
<1>10. ASSUME NEW p \in Processes, Exit(p) \/ Crash(p) PROVE LeaseInv'
  <2>1. Dies(p) /\ holder' = Abandoned(p) /\ fresh' = fresh
    BY <1>10 DEF Exit, Crash
  <2> QED BY <2>1, DiesType DEF Abandoned, TypeOK, HealthyHolds, Healthy, Streams, Live
<1>11. CASE GoStale
  BY <1>11 DEF GoStale, TypeOK, HealthyHolds, Healthy, Streams, Live
<1>12. CASE UNCHANGED vars
  BY <1>12 DEF vars, TypeOK, HealthyHolds, Healthy, Streams, Live
<1> QED
  BY <1>1, <1>2, <1>3, <1>4, <1>5, <1>6, <1>7, <1>8, <1>9, <1>10, <1>11, <1>12
     DEF Next, Step

\* The invariant of the lease holds for ever.
THEOREM LeaseInvariant == Spec => []LeaseInv
BY LeaseInit, LeaseStep, PTL DEF Spec

\* Every variable keeps its type, whoever claims, beats, stalls or dies.
THEOREM TypesHold == Spec => []TypeOK
<1>1. LeaseInv => TypeOK
  BY DEF LeaseInv
<1> QED BY <1>1, LeaseInvariant, PTL

\* The single writer: of two processes that stream at the same time, one has
\* missed its heartbeat and does not know it yet.
THEOREM SingleHealthyStreamer == Spec => []OneHealthyStreamer
<1>1. LeaseInv => OneHealthyStreamer
  BY DEF LeaseInv, HealthyHolds, Healthy, OneHealthyStreamer
<1> QED BY <1>1, LeaseInvariant, PTL

\* The claim, the renewal and the release respect a fresh lease of another
\* process: it changes hands only when its holder stops or dies.
THEOREM FreshLeaseHolds == Spec => FreshLeaseIsRespected
<1>1. ASSUME LeaseInv, [Next]_vars, NEW p \in Processes,
             holder = p, fresh, holder' # p
      PROVE  phase[p] = "stopping" \/ phase'[p] = "down"
  <2> USE <1>1 DEF LeaseInv
  <2>1. ASSUME NEW q \in Processes, Acquire(q) PROVE FALSE
    BY <2>1, HolderAssumption DEF Acquire, Claimable
  <2>2. ASSUME NEW q \in Processes, Release(q) PROVE phase[p] = "stopping"
    BY <2>2 DEF Release
  <2>3. ASSUME NEW q \in Processes, ExitLost(q) \/ Exit(q) \/ Crash(q)
        PROVE  phase'[p] = "down"
    <3>1. Dies(q) /\ q = p
      BY <2>3 DEF ExitLost, Exit, Crash, Abandoned
    <3> QED BY <3>1, DiesType
  <2>4. ASSUME NEW q \in Processes,
               \/ Boot(q) \/ Refused(q) \/ ClaimFails(q) \/ Renew(q)
               \/ Deliver(q) \/ Drain(q) \/ GiveUp(q) \/ Shutdown(q)
        PROVE  FALSE
    BY <2>4 DEF Boot, Refused, ClaimFails, Renew, Deliver, Drain, GiveUp, Shutdown
  <2>5. ~GoStale /\ ~UNCHANGED vars
    BY DEF GoStale, vars
  <2> QED BY <2>1, <2>2, <2>3, <2>4, <2>5 DEF Next, Step
<1>2. LeaseInv /\ [Next]_vars
        => [\A p \in Processes :
              holder = p /\ fresh /\ holder' # p
                => phase[p] = "stopping" \/ phase'[p] = "down"]_vars
  BY <1>1
<1> QED BY <1>2, LeaseInvariant, PTL DEF Spec, FreshLeaseIsRespected
==============================================================================
