----------------------------- MODULE IntakeProofs -----------------------------
(***************************************************************************)
(* What the intake promises, for any number of intents, vouchers and       *)
(* requests.  The invariant behind it follows a voucher: a request about   *)
(* to store has verified it, a row and an engine call hold only vouchers   *)
(* that a POST stored for their intent, and while no two requests overlap  *)
(* on an intent, a request past its status check still finds it unpaid.    *)
(***************************************************************************)
EXTENDS Intake, TLAPS

Requested ==
    \A r \in Requests :
        /\ req[r].pc = "idle" => req[r].intent = NoIntent
        /\ req[r].pc # "idle" => req[r].voucher \in Vouchers /\ req[r].intent \in Intents
        /\ req[r].pc = "store" => quality[req[r].voucher] = "valid"

Engaged ==
    \A i \in Intents :
        engine[i].pc # "idle" =>
            /\ engine[i].status \in {"MONITORING", "SETTLING"}
            /\ <<engine[i].voucher, i>> \in Stored

Bound ==
    /\ \A i \in Intents : row[i].nonce # NoVoucher => <<row[i].nonce, i>> \in Stored
    /\ \A a \in Stored : quality[a[1]] = "valid" /\ row[a[2]].status \notin Unpaid
    /\ charged \subseteq Stored

\* What holds of an intent while no two requests for it overlap.
Alone(i) ==
    /\ \A r, s \in Requests : req[r].intent = i /\ req[s].intent = i => r = s
    /\ \A r \in Requests :
          req[r].intent = i /\ req[r].pc \in {"verify", "store"} => row[i].status \in Unpaid
    /\ \A a \in Stored : a[2] = i => row[i].nonce = a[1]
    /\ engine[i].pc = "settle" => row[i].status = "SETTLING"

Solo == \A i \in Intents \ overlap : Alone(i)

IntakeInv == TypeOK /\ NonceBindsOneIntent /\ Requested /\ Engaged /\ Bound /\ Solo

\* At first there is no offer, no request and no call.
LEMMA IntakeInit == Init => IntakeInv
BY NoVoucherAssumption, NoTargetAssumption
   DEF Init, IntakeInv, TypeOK, NonceBindsOneIntent, Requested, Engaged, Bound, Solo,
       Alone, RowType, ReqType, EngineType, IdleRequest, IdleEngine, Statuses, Unpaid,
       Stored

\* What is stored is a voucher for an intent.
LEMMA StoredTypes == ASSUME TypeOK, Requested PROVE Stored \subseteq Vouchers \X Intents
BY DEF TypeOK, Requested, Stored

\* A request that is not at its answer, before or after, changes no pair.
LEMMA StoredSame ==
    ASSUME IntakeInv, NEW r \in Requests, NEW next \in ReqType,
           req' = [req EXCEPT ![r] = next], UNCHANGED <<accepted, unanswered>>,
           req[r].pc # "answer", next.pc # "answer"
    PROVE  Stored' = Stored
<1>1. \A s \in Requests : req'[s] = IF s = r THEN next ELSE req[s]
  BY DEF IntakeInv, TypeOK
<1> QED BY <1>1 DEF Stored

\* Neither does a step of anyone else.
LEMMA OthersStored == UNCHANGED <<req, accepted, unanswered>> => Stored' = Stored
BY DEF Stored

\* A step that touches no row, no request and no call keeps the invariant.
LEMMA TtlKeeps ==
    ASSUME IntakeInv, NEW i \in Intents, PassTtl(i) PROVE IntakeInv'
BY OthersStored DEF PassTtl, IntakeInv, TypeOK, NonceBindsOneIntent, Requested, Engaged, Bound,
       Solo, Alone

\* A change of status from unpaid to unpaid keeps the invariant.
LEMMA UnpaidMoves ==
    ASSUME IntakeInv, row' \in [Intents -> RowType],
           \A j \in Intents : /\ row'[j].nonce = row[j].nonce
                              /\ row'[j].status \in Unpaid <=> row[j].status \in Unpaid
                              /\ row[j].status \notin Unpaid => row'[j].status = row[j].status,
           UNCHANGED <<late, quality, req, accepted, unanswered, engine, charged, overlap>>
    PROVE  IntakeInv'
<1>1. Stored' = Stored
  BY OthersStored
<1>2. TypeOK' /\ NonceBindsOneIntent' /\ Requested' /\ Engaged'
  BY <1>1 DEF IntakeInv, TypeOK, NonceBindsOneIntent, Requested, Engaged
<1>3. Bound'
  <2>1. Stored \subseteq Vouchers \X Intents
    BY StoredTypes DEF IntakeInv
  <2> QED BY <1>1, <2>1 DEF IntakeInv, Bound
<1>4. ASSUME NEW j \in Intents \ overlap' PROVE Alone(j)'
  <2>1. Alone(j)
    BY DEF IntakeInv, Solo
  <2> QED BY <1>1, <2>1 DEF Alone, Unpaid
<1> QED BY <1>2, <1>3, <1>4 DEF IntakeInv, Solo

\* An offer is created, or the sweep lets some expire.
LEMMA CreateKeeps ==
    ASSUME IntakeInv, NEW i \in Intents, Create(i) PROVE IntakeInv'
<1>1. row' \in [Intents -> RowType]
  BY DEF Create, IntakeInv, TypeOK, RowType, Statuses, Unpaid
<1>2. \A j \in Intents : /\ row'[j].nonce = row[j].nonce
                         /\ row'[j].status \in Unpaid <=> row[j].status \in Unpaid
                         /\ row[j].status \notin Unpaid => row'[j].status = row[j].status
  BY DEF Create, IntakeInv, TypeOK, RowType, Unpaid
<1> QED BY <1>1, <1>2, UnpaidMoves DEF Create

LEMMA ExpireKeeps == ASSUME IntakeInv, ExpireOffers PROVE IntakeInv'
<1>1. row' \in [Intents -> RowType]
  BY DEF ExpireOffers, IntakeInv, TypeOK, RowType, Statuses, Unpaid
<1>2. \A j \in Intents : /\ row'[j].nonce = row[j].nonce
                         /\ row'[j].status \in Unpaid <=> row[j].status \in Unpaid
                         /\ row[j].status \notin Unpaid => row'[j].status = row[j].status
  BY DEF ExpireOffers, StaleOffers, IntakeInv, TypeOK, RowType, Unpaid
<1> QED BY <1>1, <1>2, UnpaidMoves DEF ExpireOffers

\* A new request on an intent that has one makes it an overlap.
LEMMA PostKeeps ==
    ASSUME IntakeInv, NEW r \in Requests, NEW v \in Vouchers, NEW i \in Intents, Post(r, v, i)
    PROVE  IntakeInv'
<1> DEFINE new == [pc |-> "lookup", voucher |-> v, intent |-> i]
<1>1. req' = [req EXCEPT ![r] = new] /\ new \in ReqType
  BY DEF Post, ReqType
<1>2. TypeOK' /\ Requested' /\ Stored' = Stored
  <2>1. TypeOK' /\ Requested'
    BY <1>1 DEF Post, IntakeInv, TypeOK, Requested, InFlight
  <2>2. Stored' = Stored
    BY <1>1, StoredSame DEF Post
  <2> QED BY <2>1, <2>2
<1>3. ASSUME NEW j \in Intents \ overlap' PROVE Alone(j)'
  <2>1. j \notin overlap /\ (j = i => \A s \in Requests : req[s].intent # i)
    BY <1>3 DEF Post, InFlight
  <2>2. Alone(j)
    BY <2>1 DEF IntakeInv, Solo
  <2>3. \A s \in Requests : req'[s] = IF s = r THEN new ELSE req[s]
    BY <1>1 DEF IntakeInv, TypeOK
  <2> QED BY <1>2, <2>1, <2>2, <2>3 DEF Alone, Post
<1> QED BY <1>2, <1>3 DEF Post, IntakeInv, NonceBindsOneIntent, Engaged, Bound, Solo

\* A request that moves on without a write: to its answer, or to its next
\* await with the same voucher and intent.
LEMMA RequestMoves ==
    ASSUME IntakeInv, NEW r \in Requests, NEW next \in ReqType,
           req' = [req EXCEPT ![r] = next],
           UNCHANGED <<row, late, quality, engine, charged, overlap>>,
           Stored' = Stored,
           \/ next = IdleRequest
           \/ /\ req[r].pc # "idle" /\ next.pc # "idle"
              /\ next.voucher = req[r].voucher /\ next.intent = req[r].intent
              /\ next.pc = "store" => quality[next.voucher] = "valid"
              /\ next.pc = "verify" => row[next.intent].status \in Unpaid
              /\ next.pc = "store" => req[r].pc \in {"verify", "store"}
    PROVE  IntakeInv'
<1>1. TypeOK' /\ NonceBindsOneIntent' /\ Engaged' /\ Bound'
  <2>1. accepted' \subseteq Vouchers \X Intents /\ unanswered' \subseteq Vouchers \X Intents
    <3>1. Stored' \subseteq Vouchers \X Intents
      BY StoredTypes DEF IntakeInv
    <3> QED BY <3>1 DEF Stored
  <2> QED BY <2>1 DEF IntakeInv, TypeOK, NonceBindsOneIntent, Engaged, Bound
<1>2. \A s \in Requests : req'[s] = IF s = r THEN next ELSE req[s]
  BY DEF IntakeInv, TypeOK
<1>3. Requested'
  BY <1>2 DEF IntakeInv, Requested, IdleRequest
<1>4. ASSUME NEW j \in Intents \ overlap' PROVE Alone(j)'
  <2>1. Alone(j)
    BY DEF IntakeInv, Solo
  <2>2. \A s \in Requests : req'[s].intent = j => req[s].intent = j
    BY <1>2, NoTargetAssumption DEF IdleRequest
  <2> QED BY <1>2, <2>1, <2>2 DEF Alone, IdleRequest
<1> QED BY <1>1, <1>3, <1>4 DEF IntakeInv, Solo

\* A request that only goes on keeps what is stored as it is.
LEMMA LookUpKeeps == ASSUME IntakeInv, NEW r \in Requests, LookUp(r) PROVE IntakeInv'
<1>1. IdleRequest \in ReqType /\ [req[r] EXCEPT !.pc = "status"] \in ReqType
  BY DEF IntakeInv, TypeOK, ReqType, IdleRequest
<1>2. req[r] \in ReqType /\ req[r].pc = "lookup" /\ req[r].voucher \in Vouchers
  BY DEF LookUp, IntakeInv, TypeOK, Requested
<1>3. CASE UNCHANGED accepted
  <2>1. \A next \in ReqType : req' = [req EXCEPT ![r] = next] /\ next.pc # "answer"
                               => Stored' = Stored
    BY <1>2, <1>3, StoredSame DEF LookUp
  <2>2. CASE req' = [req EXCEPT ![r] = IdleRequest]
    BY <1>1, <1>3, <2>1, <2>2, RequestMoves DEF LookUp, IdleRequest
  <2>3. CASE req' = [req EXCEPT ![r].pc = "status"]
    BY <1>1, <1>2, <1>3, <2>1, <2>3, RequestMoves DEF LookUp, ReqType
  <2> QED BY <1>3, <2>2, <2>3 DEF LookUp, Answer, Confirm
<1>4. CASE accepted' = accepted \cup {<<req[r].voucher, req[r].intent>>}
  <2>1. <<req[r].voucher, req[r].intent>> \in Stored \/ UNCHANGED accepted
    BY <1>2, NoVoucherAssumption DEF LookUp, NonceHolders, IntakeInv, Bound
  <2>2. CASE UNCHANGED accepted
    BY <1>3, <2>2
  <2>3. CASE <<req[r].voucher, req[r].intent>> \in Stored /\ req' = [req EXCEPT ![r] = IdleRequest]
    <3>1. \A s \in Requests : req'[s] = IF s = r THEN IdleRequest ELSE req[s]
      BY <2>3 DEF IntakeInv, TypeOK
    <3>2. Stored' = Stored
      BY <1>2, <1>4, <2>3, <3>1 DEF LookUp, Stored, IdleRequest
    <3> QED BY <1>1, <2>3, <3>2, RequestMoves DEF LookUp
  <2> QED BY <2>1, <2>2, <2>3 DEF LookUp, Confirm, Answer
<1> QED BY <1>3, <1>4 DEF LookUp, Confirm

LEMMA CheckKeeps == ASSUME IntakeInv, NEW r \in Requests, CheckStatus(r) PROVE IntakeInv'
<1>1. IdleRequest \in ReqType /\ [req[r] EXCEPT !.pc = "verify"] \in ReqType
  BY DEF IntakeInv, TypeOK, ReqType, IdleRequest
<1>2. Stored' = Stored
  BY <1>1, StoredSame DEF CheckStatus, Answer, IdleRequest, IntakeInv, TypeOK, ReqType
<1> QED BY <1>1, <1>2, RequestMoves DEF CheckStatus, Payable, Unpaid, Answer, IntakeInv, TypeOK, ReqType

LEMMA VerifyKeeps == ASSUME IntakeInv, NEW r \in Requests, Verify(r) PROVE IntakeInv'
<1>1. IdleRequest \in ReqType /\ [req[r] EXCEPT !.pc = "store"] \in ReqType
  BY DEF IntakeInv, TypeOK, ReqType, IdleRequest
<1>2. Stored' = Stored
  BY <1>1, StoredSame DEF Verify, Answer, IdleRequest, IntakeInv, TypeOK, ReqType
<1> QED BY <1>1, <1>2, RequestMoves DEF Verify, Acceptable, Answer, IntakeInv, TypeOK, ReqType

\* A request that is answered, or dies, leaves its pair among the stored ones.
LEMMA EndKeeps == ASSUME IntakeInv, NEW r \in Requests, Accept(r) \/ Abort(r) PROVE IntakeInv'
<1>1. IdleRequest \in ReqType /\ req' = [req EXCEPT ![r] = IdleRequest]
  BY DEF ReqType, IdleRequest, Accept, Abort, Confirm, Answer
<1>2. \A s \in Requests : req'[s] = IF s = r THEN IdleRequest ELSE req[s]
  BY <1>1 DEF IntakeInv, TypeOK
<1>3. Stored' = Stored
  BY <1>2 DEF Stored, Accept, Abort, Confirm, IdleRequest
<1> QED BY <1>1, <1>3, RequestMoves DEF Accept, Abort

\* A verified payment is stored: the voucher is bound to this intent alone,
\* and while the request is alone on it the intent had no voucher before.
LEMMA StoreKeeps == ASSUME IntakeInv, NEW r \in Requests, Store(r) PROVE IntakeInv'
<1> DEFINE v == req[r].voucher
           i == req[r].intent
           next == [req[r] EXCEPT !.pc = "answer"]
<1>1. /\ v \in Vouchers /\ i \in Intents /\ quality[v] = "valid"
      /\ req[r].pc = "store" /\ r \in Requests
  BY DEF Store, IntakeInv, Requested
<1>2. IdleRequest \in ReqType /\ next \in ReqType
  BY DEF IdleRequest, ReqType, IntakeInv, TypeOK
<1>3. CASE ~Storable(v, i)
  <2>1. Stored' = Stored
    BY <1>1, <1>2, <1>3, StoredSame DEF Store, Answer, IdleRequest
  <2> QED BY <1>1, <1>2, <1>3, <2>1, RequestMoves DEF Store, Answer
<1>4. CASE Storable(v, i)
  <2>1. /\ row' = [row EXCEPT ![i] = [status |-> "MONITORING", nonce |-> v]]
        /\ req' = [req EXCEPT ![r] = next]
        /\ UNCHANGED <<late, quality, accepted, unanswered, engine, charged, overlap>>
    BY <1>4 DEF Store, Paid
  <2>2. \A j \in Intents : row'[j] = IF j = i THEN [status |-> "MONITORING", nonce |-> v]
                                              ELSE row[j]
    BY <1>1, <2>1 DEF IntakeInv, TypeOK
  <2>3. /\ \A s \in Requests : req'[s] = IF s = r THEN next ELSE req[s]
        /\ next.pc = "answer" /\ next.voucher = v /\ next.intent = i
    BY <2>1 DEF IntakeInv, TypeOK, ReqType
  <2>10. Stored' = Stored \cup {<<v, i>>}
    <3> DEFINE at  == {q \in Requests : req[q].pc = "answer"}
               at2 == {q \in Requests : req'[q].pc = "answer"}
    <3>1. at2 = at \cup {r}
      BY <1>1, <2>3
    <3>2. \A q \in at : req'[q] = req[q]
      BY <1>1, <2>3
    <3>3. <<req'[r].voucher, req'[r].intent>> = <<v, i>>
      BY <2>3
    <3>4. {<<req'[q].voucher, req'[q].intent>> : q \in at2}
             = {<<req[q].voucher, req[q].intent>> : q \in at} \cup {<<v, i>>}
      BY <3>1, <3>2, <3>3
    <3> QED BY <2>1, <3>4 DEF Stored
  <2>4. TypeOK'
    <3>1. [status |-> "MONITORING", nonce |-> v] \in RowType
      BY <1>1 DEF RowType, Statuses
    <3>2. row' \in [Intents -> RowType] /\ req' \in [Requests -> ReqType]
      BY <1>2, <2>1, <3>1 DEF IntakeInv, TypeOK
    <3>3. v # NoVoucher /\ "MONITORING" \notin Unpaid
      BY <1>1, NoVoucherAssumption DEF Unpaid
    <3> QED BY <2>1, <2>2, <3>2, <3>3 DEF IntakeInv, TypeOK
  <2>5. NonceBindsOneIntent'
    <3>1. \A j \in Intents : j # i => row[j].nonce # v
      BY <1>4 DEF Storable, NonceHolders
    <3> QED BY <2>2, <3>1 DEF IntakeInv, NonceBindsOneIntent
  <2>6. Requested'
    BY <1>1, <2>1, <2>3 DEF IntakeInv, Requested
  <2>7. Engaged'
    BY <2>1, <2>10 DEF IntakeInv, Engaged
  <2>8. Bound'
    <3>1. \A a \in Stored : a[2] \in Intents
      BY StoredTypes DEF IntakeInv
    <3> QED BY <1>1, <2>1, <2>2, <2>10, <3>1 DEF IntakeInv, Bound, Unpaid
  <2>9. ASSUME NEW j \in Intents \ overlap' PROVE Alone(j)'
    <3>1. Alone(j)
      BY <2>1 DEF IntakeInv, Solo
    <3>2. CASE j # i
      BY <2>1, <2>2, <2>3, <2>10, <3>1, <3>2 DEF Alone
    <3>3. CASE j = i
      <4>1. row[i].status \in Unpaid
        BY <1>1, <3>1, <3>3 DEF Alone
      <4>2. \A a \in Stored : a[2] # i
        BY <4>1 DEF IntakeInv, Bound
      <4>3. \A s \in Requests : req'[s].intent = i => s = r /\ req'[s].pc = "answer"
        BY <1>1, <2>3, <3>1, <3>3 DEF Alone
      <4>4. engine[i].pc # "settle"
        BY <3>1, <3>3, <4>1 DEF Alone, Unpaid
      <4> QED BY <1>1, <2>1, <2>2, <2>10, <3>3, <4>2, <4>3, <4>4 DEF Alone
    <3> QED BY <3>2, <3>3
  <2> QED BY <2>4, <2>5, <2>6, <2>7, <2>8, <2>9 DEF IntakeInv, Solo
<1> QED BY <1>3, <1>4

\* The engine reads the voucher of a paid row.
LEMMA ReadKeeps == ASSUME IntakeInv, NEW i \in Intents, ReadPaid(i) PROVE IntakeInv'
<1> DEFINE next == [pc |-> "claim", status |-> row[i].status, voucher |-> row[i].nonce]
<1>1. /\ row[i].status \in {"MONITORING", "SETTLING"} /\ row[i].nonce \in Vouchers
      /\ next \in EngineType /\ <<row[i].nonce, i>> \in Stored
  BY DEF ReadPaid, IntakeInv, TypeOK, Bound, RowType, EngineType, Statuses, Unpaid
<1>2. engine' = [engine EXCEPT ![i] = next]
  BY DEF ReadPaid, Engine
<1>3. \A j \in Intents : engine'[j] = IF j = i THEN next ELSE engine[j]
  BY <1>2 DEF IntakeInv, TypeOK
<1>4. TypeOK'
  BY <1>1, <1>2 DEF ReadPaid, IntakeInv, TypeOK
<1> QED BY <1>1, <1>3, <1>4, OthersStored DEF ReadPaid, IntakeInv, NonceBindsOneIntent, Requested,
                                Engaged, Bound, Solo, Alone

\* The row a call has claimed, or may write, keeps its voucher.
LEMMA RowMoves ==
    ASSUME IntakeInv, NEW i \in Intents, NEW next \in EngineType,
           NEW st \in {"SETTLING"} \cup Terminal,
           engine' = [engine EXCEPT ![i] = next],
           row' = [row EXCEPT ![i].status = st] \/ row' = row,
           charged' \subseteq Stored,
           UNCHANGED <<late, quality, req, accepted, unanswered, overlap>>,
           row[i].status \notin Unpaid,
           \/ next = IdleEngine
           \/ /\ engine[i].pc # "idle" /\ next = [engine[i] EXCEPT !.pc = "settle"]
              /\ row' = [row EXCEPT ![i].status = "SETTLING"]
    PROVE  IntakeInv'
<1>1. \A j \in Intents : /\ row'[j].nonce = row[j].nonce
                         /\ row'[j].status \in Unpaid <=> row[j].status \in Unpaid
                         /\ j # i => row'[j].status = row[j].status
  BY DEF IntakeInv, TypeOK, RowType, Unpaid, Terminal
<1>2. row' \in [Intents -> RowType]
  BY DEF IntakeInv, TypeOK, RowType, Statuses, Terminal
<1>3. \A j \in Intents : engine'[j] = IF j = i THEN next ELSE engine[j]
  BY DEF IntakeInv, TypeOK
<1>4. TypeOK'
  <2>1. Stored \subseteq Vouchers \X Intents
    BY StoredTypes DEF IntakeInv
  <2> QED BY <1>1, <1>2, <2>1 DEF IntakeInv, TypeOK
<1>5. NonceBindsOneIntent' /\ Requested' /\ Bound'
  <2>1. \A a \in Stored : a[2] \in Intents
    BY StoredTypes DEF IntakeInv
  <2> QED BY <1>1, <2>1, OthersStored DEF IntakeInv, NonceBindsOneIntent, Requested, Bound
<1>6. Engaged'
  BY <1>3, OthersStored DEF IntakeInv, TypeOK, Engaged, EngineType, IdleEngine
<1>7. ASSUME NEW j \in Intents \ overlap' PROVE Alone(j)'
  <2>1. Alone(j)
    BY DEF IntakeInv, Solo
  <2>2. engine'[j].pc = "settle" => row'[j].status = "SETTLING"
    BY <1>1, <1>3, <2>1 DEF IntakeInv, TypeOK, Alone, EngineType, IdleEngine, RowType
  <2> QED BY <1>1, <2>1, <2>2, OthersStored DEF Alone
<1> QED BY <1>4, <1>5, <1>6, <1>7 DEF IntakeInv, Solo

\* A call that runs is for a voucher stored for its intent.
LEMMA EngagedStored ==
    ASSUME IntakeInv, NEW i \in Intents, engine[i].pc # "idle"
    PROVE  row[i].status \notin Unpaid /\ <<engine[i].voucher, i>> \in Stored
<1>1. <<engine[i].voucher, i>> \in Stored
  BY DEF IntakeInv, Engaged
<1> QED BY <1>1 DEF IntakeInv, Bound

\* The claim writes SETTLING or gives the call up.
LEMMA ClaimKeeps == ASSUME IntakeInv, NEW i \in Intents, Claim(i) PROVE IntakeInv'
<1>1. engine[i].pc # "idle" /\ row[i].status \notin Unpaid
  BY EngagedStored DEF Claim
<1>2. IdleEngine \in EngineType /\ [engine[i] EXCEPT !.pc = "settle"] \in EngineType
  BY DEF IntakeInv, TypeOK, EngineType, IdleEngine, Statuses, Unpaid
<1>3. charged' = charged /\ charged \subseteq Stored
  BY DEF Claim, IntakeInv, Bound
<1> QED BY <1>1, <1>2, <1>3, RowMoves DEF Claim, Engine, Terminal

\* The outcome is written, or the call ends without one.
LEMMA SettleKeeps == ASSUME IntakeInv, NEW i \in Intents, Settle(i) PROVE IntakeInv'
<1>1. row[i].status \notin Unpaid /\ <<engine[i].voucher, i>> \in Stored
  BY EngagedStored DEF Settle
<1>2. IdleEngine \in EngineType
  BY DEF EngineType, IdleEngine, Statuses, Unpaid
<1>3. charged' \subseteq Stored
  BY <1>1 DEF Settle, IntakeInv, Bound
<1>4. \E st \in {"SETTLING"} \cup Terminal : row' = [row EXCEPT ![i].status = st] \/ row' = row
  BY DEF Settle, Terminal
<1> QED BY <1>1, <1>2, <1>3, <1>4, RowMoves DEF Settle, Engine

\* Every step keeps the invariant.
LEMMA IntakeStep == IntakeInv /\ [Next]_vars => IntakeInv'
<1> SUFFICES ASSUME IntakeInv, [Next]_vars PROVE IntakeInv'
  OBVIOUS
<1>1. CASE Next
  BY <1>1, CreateKeeps, TtlKeeps, ReadKeeps, ClaimKeeps, SettleKeeps, ExpireKeeps,
     PostKeeps, LookUpKeeps, CheckKeeps, VerifyKeeps, StoreKeeps, EndKeeps
  DEF Next, Handle
<1>2. CASE UNCHANGED vars
  BY <1>2, OthersStored DEF vars, IntakeInv, TypeOK, NonceBindsOneIntent, Requested, Engaged, Bound,
              Solo, Alone
<1> QED BY <1>1, <1>2

\* The invariant holds throughout.
LEMMA IntakeInvariant == Spec => []IntakeInv
BY IntakeInit, IntakeStep, PTL DEF Spec

\* Every variable keeps its type, whatever POSTs race with the sweep.
THEOREM TypesHold == Spec => []TypeOK
<1>1. IntakeInv => TypeOK
  BY DEF IntakeInv
<1> QED BY <1>1, IntakeInvariant, PTL

\* One Permit2 nonce pays for one intent: whatever POSTs race.
THEOREM OneIntentPerVoucher == Spec => []NonceBindsOneIntent
<1>1. IntakeInv => NonceBindsOneIntent
  BY DEF IntakeInv
<1> QED BY <1>1, IntakeInvariant, PTL

\* A paid intent never lapses into an unpaid one, and keeps the voucher that
\* was accepted for it while requests for it do not overlap.
THEOREM AcceptedStaysBound == Spec => []AcceptedVoucherIsBound
<1>1. IntakeInv => AcceptedVoucherIsBound
  BY DEF IntakeInv, TypeOK, Bound, Solo, Alone, AcceptedVoucherIsBound, Stored
<1> QED BY <1>1, IntakeInvariant, PTL

\* Money moves only for a voucher that a POST verified and stored for that
\* intent; its payer was told 202, or is about to be, unless the POST died
\* between the two.
THEOREM OnlyVerifiedIsCharged == Spec => []ChargedWasVerified
<1>1. IntakeInv => ChargedWasVerified
  BY DEF IntakeInv, Bound, ChargedWasVerified
<1> QED BY <1>1, IntakeInvariant, PTL

\* An intent is charged once while requests for it do not overlap.
THEOREM ChargedOnce == Spec => []IntentChargedOnce
<1>1. ASSUME IntakeInv PROVE IntentChargedOnce
  <2> SUFFICES ASSUME NEW c \in charged, NEW d \in charged, c[2] = d[2], c[2] \notin overlap
               PROVE  c = d
    BY DEF IntentChargedOnce
  <2>1. c \in Stored /\ d \in Stored
    BY <1>1 DEF IntakeInv, Bound
  <2>2. c \in Vouchers \X Intents /\ d \in Vouchers \X Intents
    BY <1>1 DEF IntakeInv, TypeOK
  <2>3. Alone(c[2])
    BY <1>1, <2>2 DEF IntakeInv, Solo
  <2>4. c[1] = d[1]
    BY <2>1, <2>3 DEF Alone
  <2> QED BY <2>2, <2>4
<1> QED BY <1>1, IntakeInvariant, PTL

\* No request reopens a finished intent while requests for it do not overlap.
THEOREM FinishedStaysFinished == Spec => PaidIntentIsFinal
<1> DEFINE Final == \A i \in Intents \ overlap' :
                       row[i].status \in Terminal => row'[i].status = row[i].status
<1>1. ASSUME IntakeInv, [Next]_vars PROVE [Final]_vars
  <2> SUFFICES ASSUME Next, NEW i \in Intents \ overlap', row[i].status \in Terminal
               PROVE  row'[i].status = row[i].status
    BY <1>1 DEF vars
  <2>1. row \in [Intents -> RowType] /\ Requested
    BY <1>1 DEF IntakeInv, TypeOK
  <2>2. CASE \E j \in Intents : Create(j)
    BY <2>1, <2>2 DEF Create, Terminal, RowType
  <2>3. CASE ExpireOffers
    BY <2>1, <2>3 DEF ExpireOffers, StaleOffers, Terminal
  <2>4. ASSUME NEW r \in Requests, Store(r) PROVE row'[i].status = row[i].status
    <3>1. Alone(i) /\ req[r].pc = "store" /\ req[r].intent \in Intents
      BY <1>1, <2>1, <2>4 DEF Store, IntakeInv, Solo, Requested
    <3>2. req[r].intent # i
      BY <3>1 DEF Alone, Unpaid, Terminal
    <3> QED BY <2>1, <2>4, <3>1, <3>2 DEF Store, Paid
  <2>5. ASSUME NEW j \in Intents, Claim(j) PROVE row'[i].status = row[i].status
    <3>1. engine[j].status \in {"MONITORING", "SETTLING"}
      BY <1>1, <2>5 DEF Claim, IntakeInv, Engaged
    <3> QED BY <2>1, <2>5, <3>1 DEF Claim, Terminal, RowType
  <2>6. ASSUME NEW j \in Intents, Settle(j) PROVE row'[i].status = row[i].status
    <3>1. j # i
      BY <1>1, <2>6 DEF Settle, IntakeInv, Solo, Alone, Terminal
    <3> QED BY <2>1, <2>6, <3>1 DEF Settle, RowType
  <2> QED BY <2>2, <2>3, <2>4, <2>5, <2>6
          DEF Next, Handle, PassTtl, ReadPaid, Post, LookUp, CheckStatus, Verify, Accept, Abort
<1> QED BY <1>1, IntakeInvariant, PTL DEF Spec, PaidIntentIsFinal
=============================================================================
