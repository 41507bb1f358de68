-------------------------------- MODULE Intake --------------------------------
(***************************************************************************)
(* The intake of intents: an offer is created, a signed voucher is posted  *)
(* for it, looked up, verified and stored, while other requests do the     *)
(* same, the maintenance sweep expires unpaid offers and the engine        *)
(* settles paid ones.                                                      *)
(*                                                                         *)
(* Each await of verifySignedPayment ends an action, so what a request     *)
(* has read can be out of date when it stores.  The engine is reduced to   *)
(* what it does to a row and to a voucher: it reads the stored voucher,    *)
(* claims the row, settles, and marks the row whatever its status is then; *)
(* module Settlement has its detail.  The chain charges a voucher once.    *)
(***************************************************************************)
EXTENDS FiniteSets

CONSTANTS
    Intents,    \* the offers that can be created
    Vouchers,   \* the signed vouchers, one per Permit2 nonce
    Requests,   \* the POSTs that can be in flight at the same time
    NoVoucher,  \* an empty paymentNonce
    NoIntent    \* the target of an idle request

ASSUME NoVoucherAssumption == NoVoucher \notin Vouchers
ASSUME NoTargetAssumption == NoIntent \notin Intents

VARIABLES
    row,       \* the intents table: status and stored voucher
    late,      \* intents whose ttlTimestamp has passed
    quality,   \* what verification says of a voucher
    req,       \* the requests
    accepted,  \* <<voucher, intent>> pairs a POST was answered 202 for
    unanswered, \* pairs whose POST stored the voucher and died before its 202
    engine,    \* the engine's call for each intent
    charged,   \* <<voucher, intent>> pairs the chain has charged
    overlap    \* intents that two requests were posted for at the same time

vars == <<row, late, quality, req, accepted, unanswered, engine, charged, overlap>>

Unpaid   == {"none", "PENDING_PAYMENT", "EXPIRED"}
Terminal == {"SETTLED", "TIMEOUT", "SETTLE_FAILED"}
Statuses == Unpaid \cup {"MONITORING", "SETTLING"} \cup Terminal

\* "short": valid for the facilitator, with a deadline before TTL plus buffer.
Qualities == {"valid", "invalid", "short"}

RowType == [status : Statuses, nonce : Vouchers \cup {NoVoucher}]
ReqType == [pc : {"idle", "lookup", "status", "verify", "store", "answer"},
            voucher : Vouchers \cup {NoVoucher}, intent : Intents \cup {NoIntent}]
EngineType == [pc : {"idle", "claim", "settle"}, status : Statuses,
               voucher : Vouchers \cup {NoVoucher}]

IdleRequest == [pc |-> "idle", voucher |-> NoVoucher, intent |-> NoIntent]
IdleEngine  == [pc |-> "idle", status |-> "none", voucher |-> NoVoucher]

Init ==
    /\ row = [i \in Intents |-> [status |-> "none", nonce |-> NoVoucher]]
    /\ late = {}
    /\ quality \in [Vouchers -> Qualities]
    /\ req = [r \in Requests |-> IdleRequest]
    /\ accepted = {} /\ unanswered = {} /\ charged = {} /\ overlap = {}
    /\ engine = [i \in Intents |-> IdleEngine]
-----------------------------------------------------------------------------
(* Offers.                                                                 *)

\* createIntentHandler: the first phase of the handshake.
Create(i) ==
    /\ row[i].status = "none"
    /\ row' = [row EXCEPT ![i].status = "PENDING_PAYMENT"]
    /\ UNCHANGED <<late, quality, req, accepted, unanswered, engine, charged, overlap>>

PassTtl(i) ==
    /\ row[i].status # "none" /\ i \notin late
    /\ late' = late \cup {i}
    /\ UNCHANGED <<row, quality, req, accepted, unanswered, engine, charged, overlap>>

\* Mutant: the sweep takes the late paid intents instead.
StalePaid == {i \in late : row[i].status = "MONITORING"}

StaleOffers == {i \in late : row[i].status = "PENDING_PAYMENT"}

\* expireStalePendingPayments: one bulk update.
ExpireOffers ==
    /\ StaleOffers # {}
    /\ row' = [i \in Intents |-> IF i \in StaleOffers
                                 THEN [row[i] EXCEPT !.status = "EXPIRED"]
                                 ELSE row[i]]
    /\ UNCHANGED <<late, quality, req, accepted, unanswered, engine, charged, overlap>>
-----------------------------------------------------------------------------
(* One POST with a signature, await by await.                              *)

InFlight(i) == {r \in Requests : req[r].intent = i}

Post(r, v, i) ==
    /\ req[r].pc = "idle" /\ row[i].status # "none"
    /\ req' = [req EXCEPT ![r] = [pc |-> "lookup", voucher |-> v, intent |-> i]]
    /\ overlap' = IF InFlight(i) = {} THEN overlap ELSE overlap \cup {i}
    /\ UNCHANGED <<row, late, quality, accepted, unanswered, engine, charged>>

\* The request is over, with an answer or without.
Answer(r) == req' = [req EXCEPT ![r] = IdleRequest]

NonceHolders(v) == {i \in Intents : row[i].nonce = v}

\* The request is answered 202.
Confirm(r) ==
    /\ Answer(r)
    /\ accepted' = accepted \cup {<<req[r].voucher, req[r].intent>>}

\* getIntentByPaymentNonce: a bound nonce is answered, 202 for its own intent
\* and 409 for another one, and nothing else happens.
LookUp(r) ==
    LET holders == NonceHolders(req[r].voucher) IN
    /\ req[r].pc = "lookup"
    /\ \/ holders = {} /\ req' = [req EXCEPT ![r].pc = "status"] /\ UNCHANGED accepted
       \/ req[r].intent \in holders /\ Confirm(r)
       \/ holders \ {req[r].intent} # {} /\ Answer(r) /\ UNCHANGED accepted
    /\ UNCHANGED <<row, late, quality, unanswered, engine, charged, overlap>>

\* Mutant: any intent of the table will do.
PayableAny(status) == status # "none"

Payable(status) == status = "PENDING_PAYMENT"

\* getIntent: 404 unless the offer is open.
CheckStatus(r) ==
    /\ req[r].pc = "status"
    /\ IF Payable(row[req[r].intent].status)
       THEN req' = [req EXCEPT ![r].pc = "verify"]
       ELSE Answer(r)
    /\ UNCHANGED <<row, late, quality, accepted, unanswered, engine, charged, overlap>>

\* Mutant: the deadline guard is forgotten.
AcceptableShort(q) == q # "invalid"

Acceptable(q) == q = "valid"

\* The facilitator's verdict, then the deadline guard: 402 if either refuses.
Verify(r) ==
    /\ req[r].pc = "verify"
    /\ IF Acceptable(quality[req[r].voucher])
       THEN req' = [req EXCEPT ![r].pc = "store"]
       ELSE Answer(r)
    /\ UNCHANGED <<row, late, quality, accepted, unanswered, engine, charged, overlap>>

\* Mutants: no unique index on payment_nonce, and a voucher stored without
\* its nonce.
StorableAny(v, i) == TRUE
PaidNoNonce(v, i) == [row EXCEPT ![i].status = "MONITORING"]

\* The unique index on payment_nonce.
Storable(v, i) == NonceHolders(v) \subseteq {i}

Paid(v, i) == [row EXCEPT ![i] = [status |-> "MONITORING", nonce |-> v]]

\* The update of storeVerifiedPayment: by id, whatever the status is now.  A
\* nonce bound to another row since the lookup makes it throw.
Store(r) ==
    LET v == req[r].voucher
        i == req[r].intent
    IN  /\ req[r].pc = "store"
        /\ IF Storable(v, i)
           THEN row' = Paid(v, i) /\ req' = [req EXCEPT ![r].pc = "answer"]
           ELSE Answer(r) /\ UNCHANGED row
        /\ UNCHANGED <<late, quality, accepted, unanswered, engine, charged, overlap>>

\* The "paid" entry of the lifecycle is appended: 202.
Accept(r) ==
    /\ req[r].pc = "answer"
    /\ Confirm(r)
    /\ UNCHANGED <<row, late, quality, unanswered, engine, charged, overlap>>

\* The request dies: the facilitator or the database throws, or the process.
\* After its update the row stays as it is: paid for, and nobody was told.
Abort(r) ==
    /\ req[r].pc # "idle"
    /\ Answer(r)
    /\ unanswered' = IF req[r].pc = "answer"
                      THEN unanswered \cup {<<req[r].voucher, req[r].intent>>}
                      ELSE unanswered
    /\ UNCHANGED <<row, late, quality, accepted, engine, charged, overlap>>
-----------------------------------------------------------------------------
(* The engine, as far as it concerns the row and the voucher.              *)

Engine(i, next) == engine' = [engine EXCEPT ![i] = next]

\* getIntent: the status this call relies on and the payload it will settle.
ReadPaid(i) ==
    /\ engine[i].pc = "idle" /\ row[i].status \in {"MONITORING", "SETTLING"}
    /\ Engine(i, [pc |-> "claim", status |-> row[i].status, voucher |-> row[i].nonce])
    /\ UNCHANGED <<row, late, quality, req, accepted, unanswered, charged, overlap>>

\* acquireToSettle.
Claim(i) ==
    /\ engine[i].pc = "claim"
    /\ IF row[i].status = engine[i].status
       THEN /\ Engine(i, [engine[i] EXCEPT !.pc = "settle"])
            /\ row' = [row EXCEPT ![i].status = "SETTLING"]
       ELSE Engine(i, IdleEngine) /\ UNCHANGED row
    /\ UNCHANGED <<late, quality, req, accepted, unanswered, charged, overlap>>

Charged(v) == \E i \in Intents : <<v, i>> \in charged

\* The voucher is charged and the row marked, or it is marked without a
\* charge, or the call ends without an outcome and the row stays as it is.
Settle(i) ==
    LET v == engine[i].voucher IN
    /\ engine[i].pc = "settle"
    /\ Engine(i, IdleEngine)
    /\ \/ /\ ~Charged(v)
          /\ charged' = charged \cup {<<v, i>>}
          /\ \E st \in {"SETTLED", "TIMEOUT"} : row' = [row EXCEPT ![i].status = st]
       \/ /\ \E st \in {"TIMEOUT", "SETTLE_FAILED"} : row' = [row EXCEPT ![i].status = st]
          /\ UNCHANGED charged
       \/ /\ charged' \in {charged, charged \cup (IF Charged(v) THEN {} ELSE {<<v, i>>})}
          /\ UNCHANGED row
    /\ UNCHANGED <<late, quality, req, accepted, unanswered, overlap>>
-----------------------------------------------------------------------------
Handle(r) == LookUp(r) \/ CheckStatus(r) \/ Verify(r) \/ Store(r) \/ Accept(r) \/ Abort(r)

Next ==
    \/ \E i \in Intents : Create(i) \/ PassTtl(i) \/ ReadPaid(i) \/ Claim(i) \/ Settle(i)
    \/ ExpireOffers
    \/ \E r \in Requests, v \in Vouchers, i \in Intents : Post(r, v, i)
    \/ \E r \in Requests : Handle(r)

Spec == Init /\ [][Next]_vars
-----------------------------------------------------------------------------
(* Properties.                                                             *)

\* Every variable has its type; a row carries a voucher exactly when it has
\* been paid.
TypeOK ==
    /\ row \in [Intents -> RowType]
    /\ \A i \in Intents : row[i].nonce = NoVoucher <=> row[i].status \in Unpaid
    /\ late \subseteq Intents /\ overlap \subseteq Intents
    /\ quality \in [Vouchers -> Qualities]
    /\ req \in [Requests -> ReqType]
    /\ accepted \subseteq Vouchers \X Intents
    /\ unanswered \subseteq Vouchers \X Intents
    /\ charged \subseteq Vouchers \X Intents
    /\ engine \in [Intents -> EngineType]

\* A voucher is bound to at most one intent, whatever requests raced.
NonceBindsOneIntent ==
    \A i, j \in Intents :
        i # j /\ row[i].nonce = row[j].nonce => row[i].nonce = NoVoucher

\* An intent whose payment was accepted is served, and never expires as an
\* unpaid offer; unless two requests for it overlapped it keeps the voucher
\* that was accepted.
AcceptedVoucherIsBound ==
    \A a \in accepted :
        /\ row[a[2]].status \notin Unpaid
        /\ a[2] \notin overlap => row[a[2]].nonce = a[1]

\* What POSTs have stored: told 202, still to be told, or never to be told.
Stored == accepted \cup unanswered \cup
    {<<req[r].voucher, req[r].intent>> : r \in {q \in Requests : req[q].pc = "answer"}}

\* A voucher is charged only for an intent a POST stored it for after verifying
\* it with a deadline that covers the settlement.  Its payer was told 202 or is
\* about to be, unless that POST died between its update and its answer.
ChargedWasVerified ==
    \A c \in charged : c \in Stored /\ quality[c[1]] = "valid"

\* One intent is paid for by one voucher, unless two requests overlapped.
IntentChargedOnce ==
    \A c, d \in charged : c[2] = d[2] /\ c[2] \notin overlap => c = d

\* No request reopens an intent that has ended, unless two overlapped.
PaidIntentIsFinal ==
    [][\A i \in Intents \ overlap' :
          row[i].status \in Terminal => row'[i].status = row[i].status]_vars

\* The verify phase takes an intent to MONITORING only from PENDING_PAYMENT.
OnlyPendingIsPaid ==
    [][\A i \in Intents :
          row'[i].status = "MONITORING" /\ row[i].status # "MONITORING"
            => row[i].status = "PENDING_PAYMENT"]_vars
=============================================================================
