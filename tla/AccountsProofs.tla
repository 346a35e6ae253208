--------------------------- MODULE AccountsProofs ---------------------------
(***************************************************************************)
(* Theorems about Accounts: sessions follow signatures, a request outlives   *)
(* no revocation of its key, and one key alone cannot revoke the last one.   *)
(***************************************************************************)
EXTENDS Accounts, TLAPS

-----------------------------------------------------------------------------
(* The inductive invariant. *)

\* Whatever can authenticate has an owner.
Owners ==
  /\ \A k \in Keys : keys[k].active => keys[k].owner \in Merchants
  /\ \A s \in Sessions : session[s].state = "live" => session[s].merchant \in Merchants

Past(r) == req[r].step \notin {"idle", "verified", "admitted"}

\* A request with a credential acts for a merchant, and keeps the row of its
\* key from the stamp on.
Holds(r) ==
  /\ req[r].cred # None => req[r].who \in Merchants
  /\ req[r].step = "admitted" \/ req[r].live => req[r].cred \in Keys
  /\ Past(r) /\ req[r].cred \in Keys => lock[req[r].cred] = r
  /\ Past(r) /\ req[r].cred \in Keys /\ req[r].live => keys[req[r].cred].active

\* A revocation is of a key of the merchant's own; once it has counted, another
\* is left, unless his keys are being revoked under other credentials as well.
Counted(r) ==
  LET x == req[r]
  IN x.op = "revoke_api_key" /\ x.step # "idle" =>
       /\ x.cred # None /\ x.target \in Keys
       /\ x.step \in {"found", "counted"} => keys[x.target].owner = x.who
       /\ x.step = "counted" /\ x.cred \in Keys /\ under[x.who] \subseteq {x.cred}
            => Active(x.who) \ {x.target} # {}

\* What a login has established so far.
Proven(r) ==
  LET x == req[r]
  IN x.op = "verify_signature" =>
       /\ x.step \in {"got", "consumed", "signed", "found"}
       /\ x.target \in Nonces /\ x.addr \in Addresses /\ nonce[x.target].addr = x.addr
       /\ nonce[x.target].state # "unused"
       /\ x.step # "got" => nonce[x.target].state = "gone"
       /\ x.step \in {"signed", "found"} => <<x.target, x.addr>> \in signed
       /\ x.step = "found" => x.who \in Merchants /\ merchant[x.who].addr = x.addr

\* What else a request is about.
Named(r) ==
  /\ req[r].op = "register_merchant" => req[r].addr \in Addresses
  /\ req[r].op = "toggle_merchant_active" => req[r].target \in Merchants
  /\ req[r].op = "create_api_key" => req[r].cred # None

RequestInv(r) == Holds(r) /\ Counted(r) /\ Proven(r) /\ Named(r)

SessionInv ==
  \A s \in Sessions : session[s].state # "unused" =>
     /\ session[s].merchant \in Merchants /\ session[s].nonce \in Nonces

IInv == /\ TypeOK /\ Owners /\ SessionInv
        /\ \A r \in Requests : RequestInv(r)
        /\ SessionFollowsSignature /\ OneKeyKeepsOne

-----------------------------------------------------------------------------
(* Steps that only move a request. *)

\* What the others of a request's kind rely on stays.
Others(r) == /\ req' = [req EXCEPT ![r] = req'[r]]
             /\ \A x \in Requests \ {r}, k \in Keys : lock[k] = x => lock'[k] = x

LEMMA EndLeavesOthers ==
  ASSUME AccountsAssumption, TypeOK, NEW r \in Requests, End(r)
  PROVE  /\ Others(r) /\ req' \in [Requests -> Request]
         /\ lock' \in [Keys -> Requests \cup {None}]
         /\ req'[r] = NoRequest
<1>1. NoRequest \in Request
  BY DEF NoRequest, Request, Operation, Step, Target
<1>2. req' = [req EXCEPT ![r] = NoRequest] /\ req \in [Requests -> Request]
  BY DEF End, TypeOK
<1>3. req'[r] = NoRequest /\ req' \in [Requests -> Request]
  BY <1>1, <1>2
<1>4. lock' \in [Keys -> Requests \cup {None}]
  BY DEF End, TypeOK
<1>5. \A x \in Requests \ {r}, k \in Keys : lock[k] = x => lock'[k] = x
  BY DEF End, TypeOK
<1> QED
  BY <1>2, <1>3, <1>4, <1>5 DEF Others

LEMMA NothingAsked ==
  ASSUME AccountsAssumption, NEW r \in Requests, req'[r] = NoRequest
  PROVE  RequestInv(r)'
BY DEF AccountsAssumption, RequestInv, Holds, Past, Counted, Proven, Named, NoRequest

Rows == <<merchant, keys, nonce, signed, session, under>>

\* If a step changes one request and no rows, that request is all there is to
\* show the invariant for.
LEMMA OneRequest ==
  ASSUME AccountsAssumption, IInv, NEW r \in Requests,
         Others(r), UNCHANGED Rows,
         req' \in [Requests -> Request], lock' \in [Keys -> Requests \cup {None}],
         started' \in 0..MaxRequests, RequestInv(r)'
  PROVE  IInv'
<1>a. TypeOK'
  BY DEF IInv, TypeOK, Rows
<1>b. Owners' /\ SessionInv'
  BY DEF IInv, Rows, Owners, SessionInv
<1>c. SessionFollowsSignature'
  BY DEF IInv, Rows, SessionFollowsSignature
<1>d. OneKeyKeepsOne'
  BY DEF IInv, Rows, OneKeyKeepsOne, Active, Registered
<1>1. TypeOK' /\ Owners' /\ SessionInv' /\ SessionFollowsSignature' /\ OneKeyKeepsOne'
  BY <1>a, <1>b, <1>c, <1>d
<1>2. ASSUME NEW x \in Requests PROVE RequestInv(x)'
  <2>1. CASE x = r
    BY <2>1
  <2>2. CASE x # r
    <3>1. req'[x] = req[x]
      BY <2>2 DEF Others, IInv, TypeOK
    <3>2. RequestInv(x)
      BY DEF IInv
    <3>3. Holds(x)'
      BY <2>2, <3>1, <3>2 DEF RequestInv, Holds, Past, Others, Rows
    <3>4. Counted(x)'
      BY <3>1, <3>2 DEF RequestInv, Counted, Active, Rows
    <3>5. Proven(x)' /\ Named(x)'
      BY <3>1, <3>2 DEF RequestInv, Proven, Named, Rows
    <3> QED
      BY <3>3, <3>4, <3>5 DEF RequestInv
  <2> QED
    BY <2>1, <2>2
<1> QED
  BY <1>1, <1>2 DEF IInv

LEMMA EndKeeps ==
  ASSUME AccountsAssumption, IInv, NEW r \in Requests,
         End(r), UNCHANGED <<Rows, started>>
  PROVE  IInv'
<1>1. TypeOK
  BY DEF IInv
<1>2. started' \in 0..MaxRequests
  BY <1>1 DEF TypeOK
<1> QED
  BY <1>1, <1>2, EndLeavesOthers, NothingAsked, OneRequest

-----------------------------------------------------------------------------
(* Steps that take a request further. *)

LEMMA RequestMoves ==
  ASSUME AccountsAssumption, IInv, NEW r \in Requests, NEW x \in Request,
         req' = [req EXCEPT ![r] = x], lock' = lock, started' \in 0..MaxRequests,
         UNCHANGED Rows, RequestInv(r)'
  PROVE  IInv'
<1>1. TypeOK
  BY DEF IInv
<1>2. req'[r] = x /\ req' \in [Requests -> Request] /\ lock' \in [Keys -> Requests \cup {None}]
  BY <1>1 DEF TypeOK
<1>3. Others(r)
  BY <1>2 DEF Others
<1> QED
  BY <1>2, <1>3, OneRequest

\* A new request that is not yet past its stamp.
LEMMA Arrives ==
  ASSUME AccountsAssumption, IInv, NEW r \in Requests, NEW x \in Request, Begin(r, x),
         UNCHANGED <<Rows, lock>>,
         req'[r] = x => RequestInv(r)'
  PROVE  IInv'
<1>1. TypeOK
  BY DEF IInv
<1>2. req'[r] = x /\ started' \in 0..MaxRequests
  BY <1>1, AccountsAssumption DEF TypeOK, Begin, AccountsAssumption
<1> QED
  BY <1>2, RequestMoves DEF Begin

LEMMA PresentKeyKeeps ==
  ASSUME AccountsAssumption, IInv, NEW r \in Requests, NEW k \in Keys,
         NEW op \in {"create_api_key", "other", "revoke_api_key", "toggle_merchant_active"},
         NEW t \in Target, op = "revoke_api_key" => t \in Keys,
         op = "toggle_merchant_active" => t \in Merchants, PresentKey(r, k, op, t)
  PROVE  IInv'
<1> DEFINE x == [NoRequest EXCEPT !.op = op, !.step = "verified", !.cred = k,
                                  !.who = keys[k].owner, !.target = t]
<1>1. keys[k].owner \in Merchants
  BY DEF IInv, Owners, PresentKey
<1>2. x \in Request
  BY <1>1 DEF NoRequest, Request, Operation, Step, Target
<1>3. ASSUME req'[r] = x PROVE RequestInv(r)'
  <2>1. /\ req'[r].op = op /\ req'[r].step = "verified" /\ req'[r].cred = k
        /\ req'[r].who \in Merchants /\ req'[r].target = t /\ ~ req'[r].live
    BY <1>1, <1>3 DEF NoRequest
  <2> HIDE DEF x
  <2>2. k # None
    BY DEF AccountsAssumption
  <2> QED
    BY <2>1, <2>2 DEF RequestInv, Holds, Past, Counted, Proven, Named
<1>4. Begin(r, x) /\ UNCHANGED <<Rows, lock>>
  BY DEF PresentKey, Rows, redis
<1> HIDE DEF x
<1> QED
  BY <1>2, <1>3, <1>4, Arrives

LEMMA PresentSessionKeeps ==
  ASSUME AccountsAssumption, IInv, NEW r \in Requests, NEW s \in Sessions,
         NEW op \in {"create_api_key", "other", "revoke_api_key", "toggle_merchant_active"},
         NEW t \in Target, op = "revoke_api_key" => t \in Keys,
         op = "toggle_merchant_active" => t \in Merchants, PresentSession(r, s, op, t)
  PROVE  IInv'
<1> DEFINE x == [NoRequest EXCEPT !.op = op, !.step = "verified", !.cred = s,
                                  !.who = session[s].merchant, !.target = t]
<1>1. session[s].merchant \in Merchants
  BY DEF IInv, Owners, PresentSession
<1>2. x \in Request
  BY <1>1 DEF NoRequest, Request, Operation, Step, Target
<1>3. ASSUME req'[r] = x PROVE RequestInv(r)'
  <2>1. /\ req'[r].op = op /\ req'[r].step = "verified" /\ req'[r].cred = s
        /\ req'[r].who \in Merchants /\ req'[r].target = t /\ ~ req'[r].live
    BY <1>1, <1>3 DEF NoRequest
  <2> HIDE DEF x
  <2>2. s # None
    BY DEF AccountsAssumption
  <2> QED
    BY <2>1, <2>2 DEF RequestInv, Holds, Past, Counted, Proven, Named
<1>4. Begin(r, x) /\ UNCHANGED <<Rows, lock>>
  BY DEF PresentSession, Rows, redis
<1> HIDE DEF x
<1> QED
  BY <1>2, <1>3, <1>4, Arrives

LEMMA CheckAddressKeeps ==
  ASSUME AccountsAssumption, IInv, NEW r \in Requests, NEW a \in Addresses, CheckAddress(r, a)
  PROVE  IInv'
<1> DEFINE x == [NoRequest EXCEPT !.op = "register_merchant", !.step = "checked", !.addr = a]
<1>1. x \in Request
  BY DEF NoRequest, Request, Operation, Step, Target
<1>2. ASSUME req'[r] = x PROVE RequestInv(r)'
  <2>1. /\ req'[r].op = "register_merchant" /\ req'[r].step = "checked"
        /\ req'[r].cred = None /\ req'[r].addr = a /\ ~ req'[r].live
    BY <1>2 DEF NoRequest
  <2> HIDE DEF x
  <2> QED
    BY <2>1 DEF RequestInv, Holds, Past, Counted, Proven, Named, AccountsAssumption
<1>3. Begin(r, x) /\ UNCHANGED <<Rows, lock>>
  BY DEF CheckAddress, Rows, redis
<1> HIDE DEF x
<1> QED
  BY <1>1, <1>2, <1>3, Arrives

LEMMA GetNonceKeeps ==
  ASSUME AccountsAssumption, IInv, NEW r \in Requests, NEW n \in Nonces, NEW a \in Addresses,
         GetNonce(r, n, a)
  PROVE  IInv'
<1> DEFINE x == [NoRequest EXCEPT !.op = "verify_signature", !.step = "got", !.target = n,
                                  !.addr = a]
<1>1. x \in Request
  BY DEF NoRequest, Request, Operation, Step, Target
<1>2. nonce'[n].state # "unused" /\ nonce'[n].addr = a
  BY DEF GetNonce, redis
<1>3. ASSUME req'[r] = x PROVE RequestInv(r)'
  <2>1. /\ req'[r].op = "verify_signature" /\ req'[r].step = "got" /\ req'[r].cred = None
        /\ req'[r].addr = a /\ req'[r].target = n /\ ~ req'[r].live
    BY <1>3 DEF NoRequest
  <2> HIDE DEF x
  <2> QED
    BY <1>2, <2>1 DEF RequestInv, Holds, Past, Counted, Proven, Named, AccountsAssumption
<1>4. Begin(r, x) /\ UNCHANGED <<Rows, lock>>
  BY DEF GetNonce, Rows, redis
<1> HIDE DEF x
<1> QED
  BY <1>1, <1>3, <1>4, Arrives

\* A request that goes on keeps everything but its step.
LEMMA GoesOn ==
  ASSUME AccountsAssumption, IInv, NEW r \in Requests, NEW step \in Step, Goto(r, step),
         UNCHANGED <<Rows, lock, started>>,
         /\ req'[r].op = req[r].op /\ req'[r].cred = req[r].cred /\ req'[r].who = req[r].who
         /\ req'[r].target = req[r].target /\ req'[r].addr = req[r].addr
         /\ req'[r].live = req[r].live /\ req'[r].step = step
         => RequestInv(r)'
  PROVE  IInv'
<1> DEFINE x == [req[r] EXCEPT !.step = step]
<1>1. TypeOK /\ req[r] \in Request
  BY DEF IInv, TypeOK
<1>2. x \in Request
  BY <1>1 DEF Request
<1>3. req' = [req EXCEPT ![r] = x] /\ req'[r] = x
  BY <1>1 DEF Goto, TypeOK
<1>4. /\ req'[r].op = req[r].op /\ req'[r].cred = req[r].cred /\ req'[r].who = req[r].who
      /\ req'[r].target = req[r].target /\ req'[r].addr = req[r].addr
      /\ req'[r].live = req[r].live /\ req'[r].step = step
  BY <1>1, <1>3 DEF Request
<1>5. started' \in 0..MaxRequests
  BY <1>1 DEF TypeOK
<1> HIDE DEF x
<1> QED
  BY <1>2, <1>3, <1>4, <1>5, RequestMoves

LEMMA FindMerchantKeeps ==
  ASSUME AccountsAssumption, IInv, NEW r \in Requests, FindMerchant(r)
  PROVE  IInv'
<1> DEFINE step == IF req[r].cred \in Keys THEN "admitted" ELSE "working"
<1>1. UNCHANGED <<Rows, started>> /\ RequestInv(r) /\ step \in Step /\ req[r].step = "verified"
  BY DEF FindMerchant, Rows, redis, IInv, Step
<1>2. CASE End(r)
  BY <1>1, <1>2, EndKeeps
<1>3. CASE Goto(r, step) /\ UNCHANGED lock
  BY <1>1, <1>3, GoesOn DEF RequestInv, Holds, Past, Counted, Proven, Named, Rows
<1> QED
  BY <1>2, <1>3 DEF FindMerchant

LEMMA TouchKeyKeeps ==
  ASSUME AccountsAssumption, IInv, NEW r \in Requests, TouchKey(r)
  PROVE  IInv'
<1> DEFINE k == req[r].cred
           x == [req[r] EXCEPT !.step = "working", !.live = keys[k].active]
<1>1. TypeOK /\ req[r] \in Request /\ UNCHANGED <<Rows, started>> /\ RequestInv(r)
  BY DEF IInv, TypeOK, TouchKey, Rows, redis
<1>2. k \in Keys
  BY <1>1 DEF RequestInv, Holds, TouchKey
<1> QED
  <2>0. req[r] \in Request /\ keys[k].active \in BOOLEAN /\ req \in [Requests -> Request]
    BY <1>1, <1>2 DEF TypeOK
  <2>1. x \in Request /\ req' = [req EXCEPT ![r] = x] /\ req'[r] = x
    <3>1. x \in Request
      BY <2>0 DEF Request, Step
    <3>2. req' = [req EXCEPT ![r] = x]
      BY <2>0 DEF TouchKey
    <3> QED
      BY <2>0, <3>1, <3>2
  <2>2. /\ req'[r].op = req[r].op /\ req'[r].cred = k /\ req'[r].who = req[r].who
        /\ req'[r].target = req[r].target /\ req'[r].addr = req[r].addr
        /\ req'[r].live = keys[k].active /\ req'[r].step = "working"
    <3>1. req'[r] = [req[r] EXCEPT !.step = "working", !.live = keys[k].active]
      BY <2>1
    <3> QED
      BY <2>0, <3>1 DEF Request
  <2>3. lock' = [lock EXCEPT ![k] = r] /\ lock[k] = None /\ req[r].step = "admitted"
    BY DEF TouchKey
  <2>4. lock' \in [Keys -> Requests \cup {None}] /\ lock'[k] = r
    BY <1>1, <1>2, <2>3 DEF TypeOK
  <2>5. Others(r) /\ req' \in [Requests -> Request]
    <3>1. \A y \in Requests \ {r}, l \in Keys : lock[l] = y => lock'[l] = y
      BY <1>1, <1>2, <2>3 DEF TypeOK, AccountsAssumption
    <3> QED
      BY <1>1, <2>1, <3>1 DEF Others, TypeOK
  <2>6. RequestInv(r)'
    BY <1>1, <1>2, <2>2, <2>3, <2>4 DEF RequestInv, Holds, Past, Counted, Proven, Named, Rows
  <2> QED
    BY <1>1, <2>4, <2>5, <2>6, OneRequest DEF TypeOK

LEMMA OtherStepsKeep ==
  ASSUME AccountsAssumption, IInv, NEW r \in Requests,
         CountKeys(r) \/ OtherWork(r) \/ BreakDeadlock(r) \/ Abort(r)
  PROVE  IInv'
<1>1. UNCHANGED <<Rows, started>> /\ RequestInv(r) /\ "counted" \in Step
  BY DEF CountKeys, OtherWork, BreakDeadlock, Abort, Rows, redis, IInv, Step
<1>2. CASE End(r)
  BY <1>1, <1>2, EndKeeps
<1>3. CASE Goto(r, "counted") /\ UNCHANGED lock /\ At(r, "create_api_key", "working")
  BY <1>1, <1>3, GoesOn DEF RequestInv, Holds, Past, Counted, Proven, Named, Rows, At
<1> QED
  BY <1>2, <1>3 DEF CountKeys, OtherWork, BreakDeadlock, Abort

LEMMA FindKeyKeeps ==
  ASSUME AccountsAssumption, IInv, NEW r \in Requests, FindKey(r)
  PROVE  IInv'
<1>1. /\ UNCHANGED <<Rows, started>> /\ RequestInv(r) /\ "found" \in Step
      /\ req[r].op = "revoke_api_key" /\ req[r].step = "working"
  BY DEF FindKey, Rows, redis, IInv, Step, At
<1>2. CASE End(r)
  BY <1>1, <1>2, EndKeeps
<1>3. CASE Goto(r, "found") /\ UNCHANGED lock /\ keys[req[r].target].owner = req[r].who
  BY <1>1, <1>3, GoesOn DEF RequestInv, Holds, Past, Counted, Proven, Named, Rows
<1> QED
  BY <1>2, <1>3 DEF FindKey

LEMMA CountOthersKeeps ==
  ASSUME AccountsAssumption, IInv, NEW r \in Requests, CountOthers(r)
  PROVE  IInv'
<1>1. /\ UNCHANGED <<Rows, started>> /\ RequestInv(r) /\ "counted" \in Step
      /\ req[r].op = "revoke_api_key" /\ req[r].step = "found"
  BY DEF CountOthers, Rows, redis, IInv, Step, At
<1>2. CASE End(r)
  BY <1>1, <1>2, EndKeeps
<1>3. CASE Goto(r, "counted") /\ UNCHANGED lock /\ Active(req[r].who) \ {req[r].target} # {}
  <2>1. ASSUME /\ req'[r].op = req[r].op /\ req'[r].cred = req[r].cred
               /\ req'[r].who = req[r].who /\ req'[r].target = req[r].target
               /\ req'[r].live = req[r].live /\ req'[r].step = "counted"
        PROVE  RequestInv(r)'
    <3>0. \A m \in Merchants : Active(m)' = Active(m)
      BY <1>1 DEF Rows, Active
    <3>1. req[r].cred # None /\ req[r].who \in Merchants
      BY <1>1 DEF RequestInv, Holds, Counted
    <3>2. Counted(r)'
      BY <1>1, <1>3, <2>1, <3>0, <3>1 DEF RequestInv, Counted, Rows
    <3>3. Holds(r)' /\ Proven(r)' /\ Named(r)'
      BY <1>1, <1>3, <2>1 DEF RequestInv, Holds, Past, Proven, Named, Rows
    <3> QED
      BY <3>2, <3>3 DEF RequestInv
  <2> QED
    BY <1>1, <1>3, <2>1, GoesOn
<1> QED
  BY <1>2, <1>3 DEF CountOthers

LEMMA ReadMerchantKeeps ==
  ASSUME AccountsAssumption, IInv, NEW r \in Requests, ReadMerchant(r)
  PROVE  IInv'
<1> DEFINE m == req[r].target
           x == [req[r] EXCEPT !.step = "found", !.saw = merchant[m].active]
<1>1. /\ UNCHANGED <<Rows, started>> /\ RequestInv(r) /\ TypeOK /\ req[r] \in Request
      /\ req[r].op = "toggle_merchant_active" /\ req[r].step = "working"
  BY DEF ReadMerchant, Rows, redis, IInv, TypeOK, At
<1>2. CASE End(r)
  BY <1>1, <1>2, EndKeeps
<1>m. m \in Merchants
  BY <1>1 DEF RequestInv, Named
<1>3. CASE req' = [req EXCEPT ![r] = x] /\ UNCHANGED lock
  <2>1. x \in Request /\ req'[r] = x /\ started' \in 0..MaxRequests
    BY <1>1, <1>3, <1>m DEF TypeOK, Request, Step
  <2>2. /\ req'[r].op = req[r].op /\ req'[r].cred = req[r].cred /\ req'[r].who = req[r].who
        /\ req'[r].live = req[r].live /\ req'[r].step = "found"
    BY <1>1, <2>1 DEF Request
  <2>3. RequestInv(r)'
    BY <1>1, <1>3, <1>m, <2>2 DEF RequestInv, Holds, Past, Counted, Proven, Named, Rows
  <2> QED
    BY <1>1, <1>3, <2>1, <2>3, RequestMoves
<1> QED
  BY <1>2, <1>3 DEF ReadMerchant

LEMMA CheckSignatureKeeps ==
  ASSUME AccountsAssumption, IInv, NEW r \in Requests, CheckSignature(r)
  PROVE  IInv'
<1>1. /\ UNCHANGED <<Rows, started>> /\ RequestInv(r) /\ "signed" \in Step
      /\ req[r].op = "verify_signature" /\ req[r].step = "consumed"
  BY DEF CheckSignature, Rows, redis, IInv, Step, At
<1>2. CASE End(r)
  BY <1>1, <1>2, EndKeeps
<1>3. CASE Goto(r, "signed") /\ UNCHANGED lock /\ <<req[r].target, req[r].addr>> \in signed
  BY <1>1, <1>3, GoesOn DEF RequestInv, Holds, Past, Counted, Proven, Named, Rows
<1> QED
  BY <1>2, <1>3 DEF CheckSignature

LEMMA FindSignerKeeps ==
  ASSUME AccountsAssumption, IInv, NEW r \in Requests, FindSigner(r)
  PROVE  IInv'
<1>1. /\ UNCHANGED <<Rows, started>> /\ RequestInv(r) /\ TypeOK /\ req[r] \in Request
      /\ req[r].op = "verify_signature" /\ req[r].step = "signed"
  BY DEF FindSigner, Rows, redis, IInv, TypeOK, At
<1>2. CASE End(r)
  BY <1>1, <1>2, EndKeeps
<1>3. ASSUME NEW m \in ActiveAt(req[r].addr), UNCHANGED lock,
             req' = [req EXCEPT ![r].step = "found", ![r].who = m]
      PROVE  IInv'
  <2> DEFINE x == [req[r] EXCEPT !.step = "found", !.who = m]
  <2>1. m \in Merchants /\ merchant[m].addr = req[r].addr
    BY DEF ActiveAt
  <2>2. x \in Request /\ req' = [req EXCEPT ![r] = x] /\ req'[r] = x /\ started' \in 0..MaxRequests
    BY <1>1, <1>3, <2>1 DEF TypeOK, Request, Step
  <2>3. /\ req'[r].op = "verify_signature" /\ req'[r].cred = req[r].cred /\ req'[r].who = m
        /\ req'[r].target = req[r].target /\ req'[r].addr = req[r].addr
        /\ req'[r].live = req[r].live /\ req'[r].step = "found"
    <3>1. req'[r] = [req[r] EXCEPT !.step = "found", !.who = m]
      BY <2>2
    <3>2. req[r] \in Request /\ req[r].op = "verify_signature"
      BY <1>1
    <3> QED
      BY <3>1, <3>2 DEF Request
  <2>4. RequestInv(r)'
    <3>1. Holds(r)'
      BY <1>1, <1>3, <2>1, <2>3 DEF RequestInv, Holds, Past, Rows
    <3>2. Proven(r)'
      BY <1>1, <2>1, <2>3 DEF RequestInv, Proven, Rows
    <3>3. Counted(r)' /\ Named(r)'
      BY <2>3 DEF Counted, Named
    <3> QED
      BY <3>1, <3>2, <3>3 DEF RequestInv
  <2> QED
    BY <1>1, <1>3, <2>2, <2>4, RequestMoves
<1> QED
  BY <1>2, <1>3 DEF FindSigner

-----------------------------------------------------------------------------
(* Steps that write rows, other than a revocation. *)

LEMMA SessionNonceGone ==
  ASSUME IInv, NEW s \in Sessions, session[s].state # "unused"
  PROVE  session[s].nonce \in Nonces /\ nonce[session[s].nonce].state = "gone"
<1>1. session[s].nonce \in Nonces
  BY DEF IInv, SessionInv
<1>2. nonce[session[s].nonce] = [state |-> "gone", addr |-> merchant[session[s].merchant].addr]
  BY DEF IInv, SessionFollowsSignature
<1> QED
  BY <1>1, <1>2

\* Nothing is taken back: what a request has found stays as it was.
RowsGrow ==
  /\ under' = under /\ signed \subseteq signed'
  /\ \A k \in Keys : /\ keys[k].active => keys'[k].active
                     /\ keys[k].owner # None => keys'[k].owner = keys[k].owner
  /\ \A n \in Nonces : nonce[n].state # "unused" =>
        /\ nonce'[n].addr = nonce[n].addr /\ nonce'[n].state # "unused"
        /\ nonce[n].state = "gone" => nonce'[n].state = "gone"
  /\ \A m \in Merchants : merchant[m].addr # None => merchant'[m].addr = merchant[m].addr

LEMMA ActiveGrows ==
  ASSUME AccountsAssumption, RowsGrow, NEW m \in Merchants
  PROVE  Active(m) \subseteq Active(m)'
BY DEF RowsGrow, Active, AccountsAssumption

LEMMA RequestKept ==
  ASSUME AccountsAssumption, TypeOK, RowsGrow, NEW x \in Requests, RequestInv(x),
         req'[x] = req[x], \A k \in Keys : lock[k] = x => lock'[k] = x
  PROVE  RequestInv(x)'
<1>1. Holds(x)'
  BY DEF RequestInv, Holds, Past, RowsGrow
<1>2. Counted(x)'
  <2>1. req[x].cred # None => req[x].who \in Merchants
    BY DEF RequestInv, Holds
  <2>2. Active(req[x].who) \subseteq Active(req[x].who)' \/ req[x].cred = None
    BY <2>1, ActiveGrows
  <2>3. under' = under /\ \A k \in Keys : keys[k].owner # None => keys'[k].owner = keys[k].owner
    BY DEF RowsGrow
  <2> QED
    BY <2>1, <2>2, <2>3 DEF RequestInv, Counted, AccountsAssumption
<1>3. Proven(x)'
  BY DEF RequestInv, Proven, RowsGrow, AccountsAssumption
<1>4. Named(x)'
  BY DEF RequestInv, Named
<1> QED
  BY <1>1, <1>2, <1>3, <1>4 DEF RequestInv

LEMMA RequestsKept ==
  ASSUME AccountsAssumption, IInv, RowsGrow, UNCHANGED <<req, lock>>
  PROVE  \A x \in Requests : RequestInv(x)'
BY RequestKept DEF IInv

LEMMA RequestsKeptAtEnd ==
  ASSUME AccountsAssumption, IInv, RowsGrow, NEW r \in Requests, End(r)
  PROVE  \A x \in Requests : RequestInv(x)'
<1>1. /\ Others(r) /\ req'[r] = NoRequest /\ req' \in [Requests -> Request]
  BY EndLeavesOthers DEF IInv
<1>2. ASSUME NEW x \in Requests, x # r PROVE RequestInv(x)'
  BY <1>1, <1>2, RequestKept DEF IInv, Others, TypeOK
<1> QED
  BY <1>1, <1>2, NothingAsked

LEMMA OneKeyKept ==
  ASSUME AccountsAssumption, IInv, RowsGrow, UNCHANGED merchant
  PROVE  OneKeyKeepsOne'
<1>1. ASSUME NEW m \in Merchants, Registered(m)', \E k \in Keys : under'[m] \subseteq {k}
      PROVE  Active(m)' # {}
  <2>1. Active(m) # {}
    BY <1>1 DEF IInv, OneKeyKeepsOne, RowsGrow, Registered
  <2> QED
    BY <2>1, ActiveGrows
<1> QED
  BY <1>1 DEF OneKeyKeepsOne

LEMMA InsertKeyKeeps ==
  ASSUME AccountsAssumption, IInv, NEW r \in Requests, InsertKey(r)
  PROVE  IInv'
<1>1. TypeOK /\ RequestInv(r) /\ At(r, "create_api_key", "counted")
  BY DEF IInv, InsertKey
<1>2. /\ NewKey \in Keys /\ keys[NewKey].owner = None
      /\ keys' = [keys EXCEPT ![NewKey] = [owner |-> req[r].who, active |-> TRUE]]
      /\ End(r) /\ UNCHANGED <<merchant, nonce, signed, session, started, under>>
  BY DEF InsertKey, NewKey, Unused, redis
<1> HIDE DEF NewKey
<1>3. RowsGrow
  BY <1>1, <1>2 DEF RowsGrow, TypeOK
<1>4. req[r].who \in Merchants
  BY <1>1 DEF RequestInv, Named, Holds, At
<1>5. req' \in [Requests -> Request] /\ lock' \in [Keys -> Requests \cup {None}]
  BY <1>1, <1>2, EndLeavesOthers
<1>6. keys' \in [Keys -> [owner : Merchants \cup {None}, active : BOOLEAN]]
  BY <1>1, <1>2, <1>4 DEF TypeOK
<1>7. TypeOK'
  BY <1>1, <1>2, <1>5, <1>6 DEF TypeOK
<1>8. Owners' /\ SessionInv' /\ SessionFollowsSignature'
  BY <1>1, <1>2, <1>4 DEF IInv, TypeOK, Owners, SessionInv, SessionFollowsSignature
<1> QED
  BY <1>2, <1>3, <1>7, <1>8, RequestsKeptAtEnd, OneKeyKept DEF IInv

LEMMA WriteMerchantKeeps ==
  ASSUME AccountsAssumption, IInv, NEW r \in Requests, WriteMerchant(r)
  PROVE  IInv'
<1>1. TypeOK /\ RequestInv(r) /\ At(r, "toggle_merchant_active", "found") /\ End(r)
  BY DEF IInv, WriteMerchant
<1> DEFINE m == req[r].target
<1>2. /\ m \in Merchants
      /\ merchant' = [merchant EXCEPT ![m].active = ~ req[r].saw]
      /\ UNCHANGED <<keys, nonce, signed, session, started, under>>
  BY <1>1 DEF WriteMerchant, redis, RequestInv, Named, At
<1>3. \A x \in Merchants : merchant'[x].addr = merchant[x].addr
  BY <1>1, <1>2 DEF TypeOK
<1>4. RowsGrow
  BY <1>2, <1>3 DEF RowsGrow
<1>5. TypeOK'
  <2>1. req' \in [Requests -> Request] /\ lock' \in [Keys -> Requests \cup {None}]
    BY <1>1, EndLeavesOthers
  <2> DEFINE b == ~ req[r].saw
  <2> DEFINE c == [merchant[m] EXCEPT !.active = b]
  <2>2. b \in BOOLEAN /\ merchant' = [merchant EXCEPT ![m].active = b]
    BY <1>2
  <2> HIDE DEF b
  <2>0. merchant[m] \in [addr : Addresses \cup {None}, active : BOOLEAN]
    BY <1>1, <1>2 DEF TypeOK
  <2>3. c \in [addr : Addresses \cup {None}, active : BOOLEAN]
    BY <2>0, <2>2
  <2>4. merchant' = [merchant EXCEPT ![m] = c]
    BY <2>2
  <2> HIDE DEF c
  <2>5. merchant' \in [Merchants -> [addr : Addresses \cup {None}, active : BOOLEAN]]
    BY <1>1, <1>2, <2>3, <2>4 DEF TypeOK
  <2> QED
    BY <1>1, <1>2, <2>1, <2>5 DEF TypeOK
<1>6. Owners' /\ SessionInv'
  BY <1>2 DEF IInv, Owners, SessionInv
<1>7. SessionFollowsSignature'
  BY <1>2, <1>3 DEF IInv, SessionInv, SessionFollowsSignature
<1>8. OneKeyKeepsOne'
  BY <1>2, <1>3 DEF IInv, OneKeyKeepsOne, Registered, Active
<1> QED
  BY <1>1, <1>4, <1>5, <1>6, <1>7, <1>8, RequestsKeptAtEnd DEF IInv

LEMMA NoneIsNoAddress == None \notin Addresses
BY AccountsAssumption

LEMMA RegisterMerchantKeeps ==
  ASSUME AccountsAssumption, IInv, NEW r \in Requests, RegisterMerchant(r)
  PROVE  IInv'
<1> DEFINE m == CHOOSE m \in NewMerchants : TRUE
           l == CHOOSE k \in Unused \ {NewKey} : TRUE
           both == {NewKey, l}
           a == req[r].addr
<1>1. TypeOK /\ RequestInv(r) /\ At(r, "register_merchant", "checked") /\ End(r)
  BY DEF IInv, RegisterMerchant
<1>2. /\ m \in Merchants /\ merchant[m].addr = None
      /\ NewKey \in Keys /\ keys[NewKey].owner = None
      /\ l \in Keys /\ keys[l].owner = None
  BY DEF RegisterMerchant, NewMerchants, Registered, NewKey, Unused
<1>3. /\ merchant' = [merchant EXCEPT ![m] = [addr |-> a, active |-> TRUE]]
      /\ keys' = [k \in Keys |-> IF k \in both THEN [owner |-> m, active |-> TRUE] ELSE keys[k]]
      /\ UNCHANGED <<nonce, signed, session, started, under>>
  BY DEF RegisterMerchant, redis
<1>4. a \in Addresses
  BY <1>1 DEF RequestInv, Named, At
<1> HIDE DEF m, l, a, NewKey
<1>5. \A x \in Merchants : merchant'[x] = IF x = m THEN [addr |-> a, active |-> TRUE] ELSE merchant[x]
  BY <1>1, <1>2, <1>3 DEF TypeOK
<1>6. \A k \in Keys : keys'[k] = IF k \in both THEN [owner |-> m, active |-> TRUE] ELSE keys[k]
  BY <1>3
<1>7. RowsGrow
  BY <1>2, <1>3, <1>5, <1>6 DEF RowsGrow
<1>8. TypeOK'
  <2>1. req' \in [Requests -> Request] /\ lock' \in [Keys -> Requests \cup {None}]
    BY <1>1, EndLeavesOthers
  <2>2. merchant' \in [Merchants -> [addr : Addresses \cup {None}, active : BOOLEAN]]
    BY <1>1, <1>2, <1>3, <1>4 DEF TypeOK
  <2>3. keys' \in [Keys -> [owner : Merchants \cup {None}, active : BOOLEAN]]
    BY <1>1, <1>2, <1>3 DEF TypeOK
  <2> QED
    BY <1>1, <1>3, <2>1, <2>2, <2>3 DEF TypeOK
<1>9. Owners' /\ SessionInv'
  BY <1>2, <1>3, <1>6 DEF IInv, Owners, SessionInv
<1>10. SessionFollowsSignature'
  <2>1. ASSUME NEW s \in Sessions, session[s].state # "unused"
        PROVE  merchant'[session[s].merchant] = merchant[session[s].merchant]
    <3>1. merchant[session[s].merchant].addr \in Addresses /\ session[s].merchant \in Merchants
      <4>1. session[s].merchant \in Merchants
        BY <2>1 DEF IInv, SessionInv
      <4>2. <<session[s].nonce, merchant[session[s].merchant].addr>> \in signed
        BY <2>1 DEF IInv, SessionFollowsSignature
      <4>3. signed \subseteq Nonces \X Addresses
        BY <1>1 DEF TypeOK
      <4> QED
        BY <4>1, <4>2, <4>3
    <3>2. session[s].merchant # m
      BY <1>2, <3>1, NoneIsNoAddress
    <3> QED
      BY <1>5, <3>1, <3>2
  <2> QED
    BY <1>3, <2>1 DEF IInv, SessionFollowsSignature
<1>11. OneKeyKeepsOne'
  <2>1. ASSUME NEW x \in Merchants, Registered(x)', \E k \in Keys : under'[x] \subseteq {k}
        PROVE  Active(x)' # {}
    <3>1. CASE x = m
      BY <1>2, <1>6, <3>1 DEF Active
    <3>2. CASE x # m
      <4>1. Active(x) # {}
        BY <1>3, <1>5, <2>1, <3>2 DEF IInv, OneKeyKeepsOne, Registered
      <4> QED
        BY <1>7, <4>1, ActiveGrows
    <3> QED
      BY <3>1, <3>2
  <2> QED
    BY <2>1 DEF OneKeyKeepsOne
<1> QED
  BY <1>1, <1>7, <1>8, <1>9, <1>10, <1>11, RequestsKeptAtEnd DEF IInv

LEMMA NonceStepsKeep ==
  ASSUME AccountsAssumption, IInv, NEW n \in Nonces,
         NEW a \in Addresses, request_nonce(n, a) \/ Sign(n, a) \/ ExpireNonce(n)
  PROVE  IInv'
<1>1. TypeOK /\ UNCHANGED <<merchant, keys, lock, session, req, started, under>>
  BY DEF IInv, request_nonce, Sign, ExpireNonce
<1>2. /\ nonce' \in [Nonces -> [state : {"unused", "issued", "gone"}, addr : Addresses \cup {None}]]
      /\ signed' \subseteq Nonces \X Addresses
  <2>1. CASE request_nonce(n, a)
    BY <1>1, <2>1 DEF request_nonce, TypeOK
  <2>2. CASE Sign(n, a)
    BY <1>1, <2>2 DEF Sign, TypeOK
  <2>3. CASE ExpireNonce(n)
    <3> DEFINE c == [nonce[n] EXCEPT !.state = "gone"]
    <3>1. nonce[n] \in [state : {"unused", "issued", "gone"}, addr : Addresses \cup {None}]
      BY <1>1 DEF TypeOK
    <3>2. c \in [state : {"unused", "issued", "gone"}, addr : Addresses \cup {None}]
      BY <3>1
    <3>3. nonce' = [nonce EXCEPT ![n] = c] /\ signed' = signed
      BY <2>3 DEF ExpireNonce
    <3> HIDE DEF c
    <3> QED
      BY <1>1, <3>2, <3>3 DEF TypeOK
  <2> QED
    BY <2>1, <2>2, <2>3
<1>3. /\ signed \subseteq signed'
      /\ \A x \in Nonces : nonce[x].state # "unused" =>
            /\ nonce'[x].addr = nonce[x].addr /\ nonce'[x].state # "unused"
            /\ nonce[x].state = "gone" => nonce'[x] = nonce[x]
  BY <1>1 DEF request_nonce, Sign, ExpireNonce, TypeOK
<1>4. RowsGrow
  BY <1>1, <1>3 DEF RowsGrow
<1>5. TypeOK'
  BY <1>1, <1>2 DEF TypeOK
<1>6. Owners' /\ SessionInv'
  BY <1>1 DEF IInv, Owners, SessionInv
<1>7. SessionFollowsSignature'
  <2>1. ASSUME NEW s \in Sessions, session[s].state # "unused"
        PROVE  nonce'[session[s].nonce] = nonce[session[s].nonce]
    BY <1>3, <2>1, SessionNonceGone
  <2> QED
    BY <1>1, <1>3, <2>1 DEF IInv, SessionFollowsSignature
<1> QED
  BY <1>1, <1>4, <1>5, <1>6, <1>7, RequestsKept, OneKeyKept DEF IInv

LEMMA DeleteNonceKeeps ==
  ASSUME AccountsAssumption, IInv, NEW r \in Requests, DeleteNonce(r)
  PROVE  IInv'
<1> DEFINE n == req[r].target
           x == [req[r] EXCEPT !.step = "consumed"]
<1>1. TypeOK /\ RequestInv(r) /\ req[r].op = "verify_signature" /\ req[r].step = "got"
  BY DEF IInv, DeleteNonce, At
<1>2. n \in Nonces /\ nonce' = [nonce EXCEPT ![n].state = "gone"]
      /\ UNCHANGED <<merchant, keys, lock, signed, session, started, under>>
  BY <1>1 DEF DeleteNonce, RequestInv, Proven
<1>3. \A y \in Nonces : nonce'[y].addr = nonce[y].addr /\ nonce'[y].state \in {nonce[y].state, "gone"}
  BY <1>1, <1>2 DEF TypeOK
<1>4. RowsGrow
  BY <1>2, <1>3 DEF RowsGrow
<1>4a. req[r] \in Request
  BY <1>1 DEF TypeOK
<1>4b. x \in Request
  BY <1>4a DEF Request, Step
<1>5. req[r] \in Request /\ req' = [req EXCEPT ![r] = x] /\ x \in Request /\ req'[r] = x
  BY <1>1, <1>4a, <1>4b DEF TypeOK, DeleteNonce, Goto
<1>6. /\ req'[r].op = "verify_signature" /\ req'[r].cred = req[r].cred /\ req'[r].who = req[r].who
      /\ req'[r].target = n /\ req'[r].addr = req[r].addr
      /\ req'[r].live = req[r].live /\ req'[r].step = "consumed"
  BY <1>1, <1>5 DEF Request
<1> HIDE DEF n, x
<1>7. RequestInv(r)'
  <2>1. Holds(r)'
    BY <1>1, <1>2, <1>6 DEF RequestInv, Holds, Past
  <2>2. nonce'[n].state = "gone"
    BY <1>1, <1>2 DEF TypeOK
  <2>3. Proven(r)'
    BY <1>1, <1>2, <1>3, <1>6, <2>2 DEF RequestInv, Proven, n
  <2>4. Counted(r)' /\ Named(r)'
    BY <1>6 DEF Counted, Named
  <2> QED
    BY <2>1, <2>3, <2>4 DEF RequestInv
<1>8. ASSUME NEW y \in Requests, y # r PROVE RequestInv(y)'
  BY <1>1, <1>2, <1>4, <1>5, <1>8, RequestKept DEF IInv, TypeOK
<1>9. TypeOK'
  <2>1. req' \in [Requests -> Request]
    BY <1>1, <1>5 DEF TypeOK
  <2>2. nonce' \in [Nonces -> [state : {"unused", "issued", "gone"}, addr : Addresses \cup {None}]]
    BY <1>1, <1>2 DEF TypeOK
  <2> QED
    BY <1>1, <1>2, <2>1, <2>2 DEF TypeOK
<1>10. Owners' /\ SessionInv'
  BY <1>2 DEF IInv, Owners, SessionInv
<1>11. SessionFollowsSignature'
  <2>1. ASSUME NEW s \in Sessions, session[s].state # "unused"
        PROVE  nonce'[session[s].nonce] = nonce[session[s].nonce]
    <3>1. session[s].nonce \in Nonces /\ nonce[session[s].nonce].state = "gone"
      BY <2>1, SessionNonceGone
    <3> QED
      BY <1>1, <1>2, <3>1 DEF TypeOK
  <2> QED
    BY <1>2, <2>1 DEF IInv, SessionFollowsSignature
<1> QED
  BY <1>2, <1>4, <1>7, <1>8, <1>9, <1>10, <1>11, OneKeyKept DEF IInv

LEMMA CreateSessionKeeps ==
  ASSUME AccountsAssumption, IInv, NEW r \in Requests, CreateSession(r)
  PROVE  IInv'
<1> DEFINE s == CHOOSE s \in NewSessions : TRUE
           n == req[r].target
           m == req[r].who
<1>1. /\ TypeOK /\ RequestInv(r) /\ End(r)
      /\ req[r].op = "verify_signature" /\ req[r].step = "found"
  BY DEF IInv, CreateSession, At
<1>2. /\ s \in Sessions
      /\ session' = [session EXCEPT ![s] = [state |-> "live", merchant |-> m, nonce |-> n]]
      /\ UNCHANGED <<merchant, keys, nonce, signed, started, under>>
  BY DEF CreateSession, NewSessions
<1>3. /\ n \in Nonces /\ m \in Merchants /\ <<n, merchant[m].addr>> \in signed
      /\ nonce[n].state = "gone" /\ nonce[n].addr = merchant[m].addr
  BY <1>1 DEF RequestInv, Proven
<1> HIDE DEF s, n, m
<1>4. RowsGrow
  BY <1>2 DEF RowsGrow
<1>5. session' \in [Sessions -> [state : {"unused", "live", "gone"},
                               merchant : Merchants \cup {None}, nonce : Nonces \cup {None}]]
  BY <1>1, <1>2, <1>3 DEF TypeOK
<1>6. TypeOK'
  <2>1. req' \in [Requests -> Request] /\ lock' \in [Keys -> Requests \cup {None}]
    BY <1>1, EndLeavesOthers
  <2> QED
    BY <1>1, <1>2, <1>5, <2>1 DEF TypeOK
<1>7. \A x \in Sessions : session'[x] = IF x = s THEN [state |-> "live", merchant |-> m, nonce |-> n]
                                                 ELSE session[x]
  BY <1>1, <1>2 DEF TypeOK
<1>8. Owners' /\ SessionInv'
  BY <1>2, <1>3, <1>7 DEF IInv, Owners, SessionInv
<1>9. SessionFollowsSignature'
  <2>1. nonce[n] = [state |-> "gone", addr |-> merchant[m].addr]
    <3>1. nonce[n] \in [state : {"unused", "issued", "gone"}, addr : Addresses \cup {None}]
      BY <1>1, <1>3 DEF TypeOK
    <3> QED
      BY <1>3, <3>1
  <2> QED
    BY <1>2, <1>3, <1>7, <2>1 DEF IInv, SessionFollowsSignature
<1> QED
  BY <1>1, <1>2, <1>4, <1>6, <1>8, <1>9, RequestsKeptAtEnd, OneKeyKept DEF IInv

LEMMA EndSessionKeeps ==
  ASSUME AccountsAssumption, IInv, NEW s \in Sessions, EndSession(s)
  PROVE  IInv'
<1> DEFINE c == [session[s] EXCEPT !.state = "gone"]
<1>1. /\ TypeOK /\ session[s].state = "live" /\ session' = [session EXCEPT ![s] = c]
      /\ UNCHANGED <<merchant, keys, lock, nonce, signed, req, started, under>>
  BY DEF IInv, EndSession
<1>2. session[s] \in [state : {"unused", "live", "gone"},
                      merchant : Merchants \cup {None}, nonce : Nonces \cup {None}]
  BY <1>1 DEF TypeOK
<1>3. c \in [state : {"unused", "live", "gone"},
             merchant : Merchants \cup {None}, nonce : Nonces \cup {None}]
      /\ c.state = "gone" /\ c.merchant = session[s].merchant /\ c.nonce = session[s].nonce
  BY <1>2
<1> HIDE DEF c
<1>4. \A x \in Sessions : session'[x] = IF x = s THEN c ELSE session[x]
  BY <1>1 DEF TypeOK
<1>5. TypeOK'
  BY <1>1, <1>3 DEF TypeOK
<1>6. Owners' /\ SessionInv'
  BY <1>1, <1>3, <1>4 DEF IInv, Owners, SessionInv
<1>7. SessionFollowsSignature'
  BY <1>1, <1>3, <1>4 DEF IInv, SessionFollowsSignature
<1>8. RowsGrow
  BY <1>1 DEF RowsGrow
<1> QED
  BY <1>1, <1>5, <1>6, <1>7, <1>8, RequestsKept, OneKeyKept DEF IInv

-----------------------------------------------------------------------------
(* The revocation. *)

LEMMA RevokeKeyKeeps ==
  ASSUME AccountsAssumption, IInv, NEW r \in Requests, RevokeKey(r)
  PROVE  IInv'
<1> DEFINE k == req[r].target
           m == req[r].who
           c == req[r].cred
           z == [keys[k] EXCEPT !.active = FALSE]
<1>1. /\ TypeOK /\ RequestInv(r) /\ End(r) /\ lock[k] \in {None, r}
      /\ req[r].op = "revoke_api_key" /\ req[r].step = "counted" /\ req[r] \in Request
  BY DEF IInv, RevokeKey, At, TypeOK
<1>2. k \in Keys /\ m \in Merchants /\ keys[k].owner = m /\ c \in Keys \cup Sessions
  BY <1>1 DEF RequestInv, Holds, Counted, Request
<1>3. /\ keys' = [keys EXCEPT ![k] = z] /\ under' = [under EXCEPT ![m] = @ \cup {c}]
      /\ UNCHANGED <<merchant, nonce, signed, session, started>>
  BY DEF RevokeKey, redis
<1>4. c \in Keys => lock[c] = r
  BY <1>1 DEF RequestInv, Holds, Past
<1>5. c \in Keys /\ under[m] \subseteq {c} => Active(m) \ {k} # {}
  BY <1>1 DEF RequestInv, Counted
<1> HIDE DEF k, m, c
<1>6. z \in [owner : Merchants \cup {None}, active : BOOLEAN] /\ z.owner = m /\ z.active = FALSE
  <2>1. keys[k] \in [owner : Merchants \cup {None}, active : BOOLEAN]
    BY <1>1, <1>2 DEF TypeOK
  <2> QED
    BY <1>2, <2>1
<1> HIDE DEF z
<1>7. \A l \in Keys : keys'[l] = IF l = k THEN z ELSE keys[l]
  BY <1>1, <1>3 DEF TypeOK
<1>8. \A x \in Merchants : Active(x)' = IF x = m THEN Active(x) \ {k} ELSE Active(x)
  BY <1>2, <1>6, <1>7 DEF Active
<1>9. \A x \in Merchants : under'[x] = IF x = m THEN under[m] \cup {c} ELSE under[x]
  BY <1>1, <1>2, <1>3 DEF TypeOK
<1>10. TypeOK'
  <2>1. req' \in [Requests -> Request] /\ lock' \in [Keys -> Requests \cup {None}]
    BY <1>1, EndLeavesOthers
  <2>2. keys' \in [Keys -> [owner : Merchants \cup {None}, active : BOOLEAN]]
    BY <1>1, <1>3, <1>6 DEF TypeOK
  <2>3. under' \in [Merchants -> SUBSET (Keys \cup Sessions)]
    BY <1>1, <1>2, <1>3 DEF TypeOK
  <2> QED
    BY <1>1, <1>3, <2>1, <2>2, <2>3 DEF TypeOK
<1>11. Owners' /\ SessionInv'
  BY <1>3, <1>6, <1>7 DEF IInv, Owners, SessionInv
<1>12. SessionFollowsSignature'
  BY <1>3 DEF IInv, SessionFollowsSignature
<1>13. OneKeyKeepsOne'
  <2>1. ASSUME NEW x \in Merchants, Registered(x)', NEW l \in Keys, under'[x] \subseteq {l}
        PROVE  Active(x)' # {}
    <3>1. CASE x = m
      <4>1. c = l /\ under[m] \subseteq {l}
        BY <1>9, <2>1, <3>1
      <4> QED
        BY <1>5, <1>8, <2>1, <3>1, <4>1
    <3>2. CASE x # m
      BY <1>3, <1>8, <1>9, <2>1, <3>2 DEF IInv, OneKeyKeepsOne, Registered
    <3> QED
      BY <3>1, <3>2
  <2> QED
    BY <2>1 DEF OneKeyKeepsOne
<1>14. ASSUME NEW x \in Requests, x # r PROVE RequestInv(x)'
  <2>1. /\ req'[x] = req[x] /\ RequestInv(x)
        /\ \A l \in Keys : lock[l] = x => lock'[l] = x
    BY <1>1, <1>14, EndLeavesOthers DEF IInv, Others, TypeOK
  <2>2. Holds(x)'
    <3>1. Past(x) /\ req[x].cred \in Keys => req[x].cred # k
      BY <1>1, <1>2, <1>14, <2>1 DEF RequestInv, Holds, k, AccountsAssumption
    <3> QED
      BY <1>7, <2>1, <3>1 DEF RequestInv, Holds, Past
  <2>3. Counted(x)'
    <3>0. ASSUME req[x].op = "revoke_api_key", req[x].step = "counted", req[x].cred \in Keys,
                 under'[req[x].who] \subseteq {req[x].cred}
          PROVE  Active(req[x].who)' \ {req[x].target} # {}
      <4>1. req[x].who \in Merchants /\ lock[req[x].cred] = x
        BY <2>1, <3>0 DEF RequestInv, Holds, Past, AccountsAssumption
      <4>2. req[x].who # m
        BY <1>4, <1>9, <1>14, <3>0, <4>1
      <4> QED
        BY <1>8, <1>9, <2>1, <3>0, <4>1, <4>2 DEF RequestInv, Counted
    <3>1. \A l \in Keys : keys'[l].owner = keys[l].owner
      BY <1>2, <1>6, <1>7
    <3> QED
      BY <2>1, <3>0, <3>1 DEF RequestInv, Counted
  <2>4. Proven(x)' /\ Named(x)'
    BY <1>3, <2>1 DEF RequestInv, Proven, Named
  <2> QED
    BY <2>2, <2>3, <2>4 DEF RequestInv
<1>15. RequestInv(r)'
  BY <1>1, EndLeavesOthers, NothingAsked
<1> QED
  BY <1>10, <1>11, <1>12, <1>13, <1>14, <1>15 DEF IInv

-----------------------------------------------------------------------------

LEMMA InitInv ==
  ASSUME AccountsAssumption, Init
  PROVE  IInv
<1>1. NoRequest \in Request
  BY DEF NoRequest, Request, Operation, Step, Target
<1>2. TypeOK
  BY <1>1 DEF Init, TypeOK, AccountsAssumption
<1>3. Owners /\ SessionInv /\ SessionFollowsSignature
  BY DEF Init, Owners, SessionInv, SessionFollowsSignature, AccountsAssumption
<1>4. \A r \in Requests : RequestInv(r)
  BY DEF Init, RequestInv, Holds, Past, Counted, Proven, Named, NoRequest, AccountsAssumption
<1>5. OneKeyKeepsOne
  BY DEF Init, OneKeyKeepsOne, Registered, Active, AccountsAssumption
<1> QED
  BY <1>2, <1>3, <1>4, <1>5 DEF IInv

LEMMA StepInv ==
  ASSUME AccountsAssumption, IInv, [Next]_vars
  PROVE  IInv'
<1>1. ASSUME NEW r \in Requests, Arrive(r) PROVE IInv'
  BY <1>1, PresentKeyKeeps, PresentSessionKeeps, CheckAddressKeeps, GetNonceKeeps
     DEF Arrive, Target
<1>2. ASSUME NEW r \in Requests, Work(r) \/ BreakDeadlock(r) \/ Abort(r) PROVE IInv'
  BY <1>2, FindMerchantKeeps, TouchKeyKeeps, OtherStepsKeep, FindKeyKeeps, CountOthersKeeps,
     ReadMerchantKeeps, CheckSignatureKeeps, FindSignerKeeps, InsertKeyKeeps, WriteMerchantKeeps,
     RegisterMerchantKeeps, DeleteNonceKeeps, CreateSessionKeeps, RevokeKeyKeeps
     DEF Work
<1>3. ASSUME NEW n \in Nonces, NEW a \in Addresses,
             request_nonce(n, a) \/ Sign(n, a) \/ ExpireNonce(n)
      PROVE  IInv'
  BY <1>3, NonceStepsKeep
<1>4. Home \in Addresses
  BY DEF AccountsAssumption
<1>5. ASSUME NEW s \in Sessions, EndSession(s) PROVE IInv'
  BY <1>5, EndSessionKeeps
<1>6. CASE UNCHANGED vars
  <2>1. RowsGrow /\ UNCHANGED <<req, lock>>
    BY <1>6 DEF vars, RowsGrow
  <2>2. \A x \in Requests : RequestInv(x)'
    BY <2>1, RequestsKept
  <2>3. /\ merchant' = merchant /\ keys' = keys /\ lock' = lock /\ nonce' = nonce
        /\ signed' = signed /\ session' = session /\ req' = req /\ started' = started
        /\ under' = under
    BY <1>6 DEF vars
  <2>4. TypeOK'
    BY <2>3 DEF IInv, TypeOK
  <2>5. Owners' /\ SessionInv'
    BY <2>3 DEF IInv, Owners, SessionInv
  <2>6. SessionFollowsSignature'
    BY <2>3 DEF IInv, SessionFollowsSignature
  <2>7. OneKeyKeepsOne'
    BY <2>3 DEF IInv, OneKeyKeepsOne, Registered, Active
  <2> QED
    BY <2>2, <2>4, <2>5, <2>6, <2>7 DEF IInv
<1> QED
  BY <1>1, <1>2, <1>3, <1>4, <1>5, <1>6 DEF Next

THEOREM Inductive == Spec => []IInv
<1>1. Init => IInv
  BY InitInv, AccountsAssumption
<1>2. IInv /\ [Next]_vars => IInv'
  BY StepInv, AccountsAssumption
<1> QED
  BY <1>1, <1>2, PTL DEF Spec

\* Accounts keeps the types of its variables.
THEOREM AccountsTypeCorrect == Spec => []TypeOK
<1>1. IInv => TypeOK
  BY DEF IInv
<1> QED
  BY <1>1, Inductive, PTL

\* Every session follows a signature of its nonce, issued to the merchant it
\* acts for and deleted by then, however many logins run at a time.  Two that
\* have both read one nonce may both get a session.
THEOREM SessionsAreSigned == Spec => []SessionFollowsSignature
<1>1. IInv => SessionFollowsSignature
  BY DEF IInv
<1> QED
  BY <1>1, Inductive, PTL

\* No key is revoked under a request that it has been stamped for.
THEOREM KeysOutliveRequests == Spec => []KeyOutlivesRequest
<1>1. IInv => KeyOutlivesRequest
  <2>1. ASSUME IInv, NEW r \in Requests, Past(r), req[r].live PROVE keys[req[r].cred].active
    BY <2>1 DEF IInv, RequestInv, Holds
  <2> QED
    BY <2>1 DEF KeyOutlivesRequest, Past
<1> QED
  BY <1>1, Inductive, PTL

\* Requests under one key never leave a merchant without a key.
THEOREM OneKeyCannotRevokeAll == Spec => []OneKeyKeepsOne
<1>1. IInv => OneKeyKeepsOne
  BY DEF IInv
<1> QED
  BY <1>1, Inductive, PTL
=============================================================================
