------------------------------ MODULE Accounts ------------------------------
(***************************************************************************)
(* Who may do what: merchants, their API keys, and the sessions they get by *)
(* signing a nonce with their wallet (api/auth.py, api/routes/api_keys.py,  *)
(* merchants.py, auth_signature.py, admin.py, core/monero_auth.py).         *)
(*                                                                         *)
(* A request runs in one transaction (READ COMMITTED), cut here at its      *)
(* reads and writes.  Authentication with a key ends in an UPDATE of        *)
(* last_used_at, so the request keeps that key's row locked until it ends;  *)
(* a session takes no lock.  Nonces and sessions are in Redis, where each   *)
(* call takes effect at once.                                               *)
(***************************************************************************)
EXTENDS Naturals, FiniteSets

CONSTANTS Merchants, Keys, Addresses, Nonces, Sessions,
          Requests,     \* what the server works on at the same time
          Admin,        \* ADMIN_MERCHANT_ID, with an address and two keys of his own
          Home, Given,
          None,
          MaxKeys,      \* active keys a merchant may have
          MaxRequests   \* bound: requests that are made

ASSUME AccountsAssumption ==
  /\ Admin \in Merchants /\ Home \in Addresses /\ Given \in SUBSET Keys /\ Given # {}
  /\ None \notin Merchants \cup Keys \cup Addresses \cup Nonces \cup Sessions \cup Requests
  /\ Keys \cap Sessions = {}
  /\ IsFiniteSet(Keys) /\ IsFiniteSet(Requests)
  /\ MaxKeys \in Nat \ {0} /\ MaxRequests \in Nat

VARIABLES merchant,   \* the rows of merchants: address and is_active
          keys,       \* the rows of api_keys: owner and is_active
          lock,       \* the request that holds a key's row
          nonce,      \* Redis: ghostbill_nonce:*
          signed,     \* the nonces that were signed, and for which address
          session,    \* Redis: ghostbill_session:*, and the nonce each came from
          req,        \* the requests under way
          started,    \* how many there have been
          under       \* history: the credentials each merchant's keys were revoked under

vars == <<merchant, keys, lock, nonce, signed, session, req, started, under>>

Operation == {"create_api_key", "revoke_api_key", "toggle_merchant_active", "other",
              "register_merchant", "verify_signature"}
Step == {"idle", "verified", "admitted", "working", "found", "counted", "checked",
         "got", "consumed", "signed"}
Target == Keys \cup Merchants \cup Nonces \cup {None}
Request == [op : Operation \cup {"none"}, step : Step, cred : Keys \cup Sessions \cup {None},
            who : Merchants \cup {None}, target : Target,
            addr : Addresses \cup {None},   \* the address the body names
            live : BOOLEAN,   \* the key was active when it was stamped
            saw : BOOLEAN]    \* is_active of the merchant, as read
NoRequest == [op |-> "none", step |-> "idle", cred |-> None, who |-> None,
              target |-> None, addr |-> None, live |-> FALSE, saw |-> FALSE]

Active(m) == {k \in Keys : keys[k].owner = m /\ keys[k].active}
Registered(m) == merchant[m].addr # None
\* Rows not yet inserted, and the one that is next: an identifier is as good as another.
Unused == {k \in Keys : keys[k].owner = None}
NewKey == CHOOSE k \in Unused : TRUE
NewMerchants == {m \in Merchants : ~ Registered(m)}
NewSessions == {s \in Sessions : session[s].state = "unused"}
\* select(Merchant).where(monero_address == a, is_active): none, one, or an error
ActiveAt(a) == {m \in Merchants : merchant[m].addr = a /\ merchant[m].active}

\* The first merchant is registered, with the two keys registration gives.
Init ==
  /\ merchant = [m \in Merchants |-> IF m = Admin THEN [addr |-> Home, active |-> TRUE]
                                                   ELSE [addr |-> None, active |-> FALSE]]
  /\ keys = [k \in Keys |-> IF k \in Given THEN [owner |-> Admin, active |-> TRUE]
                                           ELSE [owner |-> None, active |-> FALSE]]
  /\ lock = [k \in Keys |-> None]
  /\ nonce = [n \in Nonces |-> [state |-> "unused", addr |-> None]]
  /\ signed = {}
  /\ session = [s \in Sessions |-> [state |-> "unused", merchant |-> None, nonce |-> None]]
  /\ req = [r \in Requests |-> NoRequest]
  /\ started = 0
  /\ under = [m \in Merchants |-> {}]

-----------------------------------------------------------------------------
(* The life of a request. *)

Begin(r, x) ==
  /\ req[r].step = "idle" /\ started < MaxRequests
  /\ req' = [req EXCEPT ![r] = x] /\ started' = started + 1

Goto(r, step) == req' = [req EXCEPT ![r].step = step]

\* Mutant of End: a connection goes back to the pool with its transaction open.
End_Leaks(r) == req' = [req EXCEPT ![r] = NoRequest] /\ UNCHANGED lock

\* The transaction ends, by commit or rollback, and lets go of its locks.
End(r) ==
  /\ req' = [req EXCEPT ![r] = NoRequest]
  /\ lock' = [k \in Keys |-> IF lock[k] = r THEN None ELSE lock[k]]

At(r, op, step) == req[r].op = op /\ req[r].step = step

redis == <<nonce, signed, session>>

-----------------------------------------------------------------------------
(* Authentication (get_current_merchant). *)

\* _auth_via_api_key: the active key with this prefix and hash.
PresentKey(r, k, op, target) ==
  /\ keys[k].active
  /\ Begin(r, [NoRequest EXCEPT !.op = op, !.step = "verified", !.cred = k,
                                !.who = keys[k].owner, !.target = target])
  /\ UNCHANGED <<merchant, keys, lock, redis, under>>

\* _auth_via_session: the token is in Redis.
PresentSession(r, s, op, target) ==
  /\ session[s].state = "live"
  /\ Begin(r, [NoRequest EXCEPT !.op = op, !.step = "verified", !.cred = s,
                                !.who = session[s].merchant, !.target = target])
  /\ UNCHANGED <<merchant, keys, lock, redis, under>>

\* The merchant must be active; a session needs nothing more.
FindMerchant(r) ==
  /\ req[r].step = "verified"
  /\ IF merchant[req[r].who].active
       THEN Goto(r, IF req[r].cred \in Keys THEN "admitted" ELSE "working") /\ UNCHANGED lock
       ELSE End(r)
  /\ UNCHANGED <<merchant, keys, redis, started, under>>

\* Mutant of TouchKey: the stamp has a transaction of its own.
TouchKey_Commits(r) ==
  /\ req[r].step = "admitted" /\ lock[req[r].cred] = None
  /\ req' = [req EXCEPT ![r].step = "working", ![r].live = keys[req[r].cred].active]
  /\ UNCHANGED <<lock, merchant, keys, redis, started, under>>

\* UPDATE api_keys SET last_used_at: waits for the row, and does not ask
\* again whether the key is active (`live` remembers whether it is).
TouchKey(r) ==
  /\ req[r].step = "admitted" /\ lock[req[r].cred] = None
  /\ lock' = [lock EXCEPT ![req[r].cred] = r]
  /\ req' = [req EXCEPT ![r].step = "working", ![r].live = keys[req[r].cred].active]
  /\ UNCHANGED <<merchant, keys, redis, started, under>>

-----------------------------------------------------------------------------
(* What a request does. *)

\* create_api_key: the count, then the insert with its commit.
CountKeys(r) ==
  /\ At(r, "create_api_key", "working")
  /\ IF Cardinality(Active(req[r].who)) >= MaxKeys THEN End(r)
                                                   ELSE Goto(r, "counted") /\ UNCHANGED lock
  /\ UNCHANGED <<merchant, keys, redis, started, under>>

InsertKey(r) ==
  /\ At(r, "create_api_key", "counted")
  /\ Unused # {}
  /\ keys' = [keys EXCEPT ![NewKey] = [owner |-> req[r].who, active |-> TRUE]]
  /\ End(r)
  /\ UNCHANGED <<merchant, redis, started, under>>

\* revoke_api_key: the session knows the row of the key it authenticated
\* with and does not read it again; any other row is read now.
FindKey(r) ==
  LET k == req[r].target
  IN /\ At(r, "revoke_api_key", "working")
     /\ IF keys[k].owner = req[r].who /\ (keys[k].active \/ k = req[r].cred)
          THEN Goto(r, "found") /\ UNCHANGED lock
          ELSE End(r)
     /\ UNCHANGED <<merchant, keys, redis, started, under>>

CountOthers(r) ==
  /\ At(r, "revoke_api_key", "found")
  /\ IF Active(req[r].who) \ {req[r].target} = {} THEN End(r)
                                                  ELSE Goto(r, "counted") /\ UNCHANGED lock
  /\ UNCHANGED <<merchant, keys, redis, started, under>>

\* Mutant of RevokeKey: the revocation is kept beside the row, as in Redis.
RevokeKey_Unlocked(r) ==
  /\ At(r, "revoke_api_key", "counted")
  /\ keys' = [keys EXCEPT ![req[r].target].active = FALSE]
  /\ under' = [under EXCEPT ![req[r].who] = @ \cup {req[r].cred}]
  /\ End(r)
  /\ UNCHANGED <<merchant, redis, started>>

RevokeKey(r) ==
  LET k == req[r].target
  IN /\ At(r, "revoke_api_key", "counted") /\ lock[k] \in {None, r}
     /\ keys' = [keys EXCEPT ![k].active = FALSE]
     /\ under' = [under EXCEPT ![req[r].who] = @ \cup {req[r].cred}]
     /\ End(r)
     /\ UNCHANGED <<merchant, redis, started>>

\* toggle_merchant_active, for the administrator, and not on himself.
ReadMerchant(r) ==
  LET m == req[r].target
  IN /\ At(r, "toggle_merchant_active", "working")
     /\ IF req[r].who = Admin /\ m # Admin
          THEN /\ req' = [req EXCEPT ![r].step = "found", ![r].saw = merchant[m].active]
               /\ UNCHANGED lock
          ELSE End(r)
     /\ UNCHANGED <<merchant, keys, redis, started, under>>

WriteMerchant(r) ==
  /\ At(r, "toggle_merchant_active", "found")
  /\ merchant' = [merchant EXCEPT ![req[r].target].active = ~ req[r].saw]
  /\ End(r)
  /\ UNCHANGED <<keys, redis, started, under>>

\* Any other authenticated request: it ends when its own work is done.
OtherWork(r) ==
  /\ At(r, "other", "working")
  /\ End(r)
  /\ UNCHANGED <<merchant, keys, redis, started, under>>

\* register_merchant: the look for the address, then merchant and keys.
CheckAddress(r, a) ==
  /\ \A m \in Merchants : merchant[m].addr # a
  /\ Begin(r, [NoRequest EXCEPT !.op = "register_merchant", !.step = "checked", !.addr = a])
  /\ UNCHANGED <<merchant, keys, lock, redis, under>>

RegisterMerchant(r) ==
  /\ At(r, "register_merchant", "checked")
  /\ NewMerchants # {} /\ Unused \ {NewKey} # {}
  /\ LET m    == CHOOSE m \in NewMerchants : TRUE
         both == {NewKey, CHOOSE k \in Unused \ {NewKey} : TRUE}
     IN /\ merchant' = [merchant EXCEPT ![m] = [addr |-> req[r].addr, active |-> TRUE]]
        /\ keys' = [k \in Keys |-> IF k \in both THEN [owner |-> m, active |-> TRUE] ELSE keys[k]]
  /\ End(r)
  /\ UNCHANGED <<redis, started, under>>

-----------------------------------------------------------------------------
(* Login. *)

\* request_nonce: for the address of one active merchant.
request_nonce(n, a) ==
  /\ nonce[n].state = "unused" /\ Cardinality(ActiveAt(a)) = 1
  /\ nonce' = [nonce EXCEPT ![n] = [state |-> "issued", addr |-> a]]
  /\ UNCHANGED <<merchant, keys, lock, signed, session, req, started, under>>

\* The holder of an address signs what he likes, with a wallet of his own.
Sign(n, a) ==
  /\ nonce[n].state = "issued" /\ <<n, a>> \notin signed
  /\ signed' = signed \cup {<<n, a>>}
  /\ UNCHANGED <<merchant, keys, lock, nonce, session, req, started, under>>

\* Mutant of GetNonce: the nonce is taken for whatever address the body names.
GetNonce_Unbound(r, n, a) ==
  /\ nonce[n].state = "issued"
  /\ Begin(r, [NoRequest EXCEPT !.op = "verify_signature", !.step = "got", !.target = n,
                                !.addr = a])
  /\ UNCHANGED <<merchant, keys, lock, redis, under>>

\* verify_signature: the nonce is looked up, deleted, and then judged.
GetNonce(r, n, a) ==
  /\ nonce[n].state = "issued" /\ nonce[n].addr = a
  /\ Begin(r, [NoRequest EXCEPT !.op = "verify_signature", !.step = "got", !.target = n,
                                !.addr = a])
  /\ UNCHANGED <<merchant, keys, lock, redis, under>>

DeleteNonce(r) ==
  /\ At(r, "verify_signature", "got")
  /\ nonce' = [nonce EXCEPT ![req[r].target].state = "gone"]
  /\ Goto(r, "consumed")
  /\ UNCHANGED <<merchant, keys, lock, signed, session, started, under>>

\* An error of the wallet counts as a bad signature.
CheckSignature(r) ==
  /\ At(r, "verify_signature", "consumed")
  /\ \/ <<req[r].target, req[r].addr>> \in signed /\ Goto(r, "signed") /\ UNCHANGED lock
     \/ End(r)
  /\ UNCHANGED <<merchant, keys, redis, started, under>>

FindSigner(r) ==
  /\ At(r, "verify_signature", "signed")
  /\ LET found == ActiveAt(req[r].addr)
     IN IF Cardinality(found) = 1
          THEN /\ \E m \in found : req' = [req EXCEPT ![r].step = "found", ![r].who = m]
               /\ UNCHANGED lock
          ELSE End(r)
  /\ UNCHANGED <<merchant, keys, redis, started, under>>

CreateSession(r) ==
  /\ At(r, "verify_signature", "found")
  /\ NewSessions # {}
  /\ session' = [session EXCEPT ![CHOOSE s \in NewSessions : TRUE] =
                   [state |-> "live", merchant |-> req[r].who, nonce |-> req[r].target]]
  /\ End(r)
  /\ UNCHANGED <<merchant, keys, nonce, signed, started, under>>

\* logout, or 24 hours.
EndSession(s) ==
  /\ session[s].state = "live"
  /\ session' = [session EXCEPT ![s].state = "gone"]
  /\ UNCHANGED <<merchant, keys, lock, nonce, signed, req, started, under>>

\* Five minutes.
ExpireNonce(n) ==
  /\ nonce[n].state = "issued"
  /\ nonce' = [nonce EXCEPT ![n].state = "gone"]
  /\ UNCHANGED <<merchant, keys, lock, signed, session, req, started, under>>

-----------------------------------------------------------------------------
(* What the database and the network do. *)

Wanted(r) == CASE req[r].step = "admitted" -> {req[r].cred}
               [] At(r, "revoke_api_key", "counted") -> {req[r].target}
               [] OTHER -> {}
WaitsFor(r) == {lock[k] : k \in Wanted(r)} \ {None, r}

\* PostgreSQL breaks a circle of waiting transactions by ending one of them.
Deadlocked(r) == \E S \in SUBSET Requests :
                   r \in S /\ \A x \in S : WaitsFor(x) \cap S # {}
BreakDeadlock(r) ==
  /\ Deadlocked(r) /\ End(r)
  /\ UNCHANGED <<merchant, keys, redis, started, under>>

\* The connection or the process is lost, and with it what was not committed.
Abort(r) ==
  /\ req[r].step # "idle" /\ End(r)
  /\ UNCHANGED <<merchant, keys, redis, started, under>>

-----------------------------------------------------------------------------

Arrive(r) ==
  \/ \E op \in {"create_api_key", "other"} :
       \/ \E k \in Keys : PresentKey(r, k, op, None)
       \/ \E s \in Sessions : PresentSession(r, s, op, None)
  \/ \E t \in Keys \ Unused :
       \/ \E k \in Keys : PresentKey(r, k, "revoke_api_key", t)
       \/ \E s \in Sessions : PresentSession(r, s, "revoke_api_key", t)
  \/ \E m \in Merchants \ NewMerchants :
       \/ \E k \in Keys : PresentKey(r, k, "toggle_merchant_active", m)
       \/ \E s \in Sessions : PresentSession(r, s, "toggle_merchant_active", m)
  \/ \E a \in Addresses : CheckAddress(r, a) \/ \E n \in Nonces : GetNonce(r, n, a)

Work(r) ==
  \/ FindMerchant(r) \/ TouchKey(r) \/ CountKeys(r) \/ InsertKey(r) \/ FindKey(r)
  \/ CountOthers(r) \/ RevokeKey(r) \/ ReadMerchant(r) \/ WriteMerchant(r) \/ OtherWork(r)
  \/ RegisterMerchant(r) \/ DeleteNonce(r) \/ CheckSignature(r) \/ FindSigner(r)
  \/ CreateSession(r)

Next ==
  \/ \E r \in Requests : Arrive(r) \/ Work(r) \/ BreakDeadlock(r) \/ Abort(r)
  \/ \E n \in Nonces : (\E a \in Addresses : request_nonce(n, a) \/ Sign(n, a)) \/ ExpireNonce(n)
  \/ \E s \in Sessions : EndSession(s)

\* The server works on every request it has taken, and the database looks
\* for deadlocks (deadlock_timeout).
Fairness == \A r \in Requests : WF_vars(Work(r)) /\ WF_vars(BreakDeadlock(r))

Spec == Init /\ [][Next]_vars
FairSpec == Spec /\ Fairness

-----------------------------------------------------------------------------

TypeOK ==
  /\ merchant \in [Merchants -> [addr : Addresses \cup {None}, active : BOOLEAN]]
  /\ keys \in [Keys -> [owner : Merchants \cup {None}, active : BOOLEAN]]
  /\ lock \in [Keys -> Requests \cup {None}]
  /\ nonce \in [Nonces -> [state : {"unused", "issued", "gone"}, addr : Addresses \cup {None}]]
  /\ signed \subseteq Nonces \X Addresses
  /\ session \in [Sessions -> [state : {"unused", "live", "gone"},
                               merchant : Merchants \cup {None}, nonce : Nonces \cup {None}]]
  /\ req \in [Requests -> Request]
  /\ started \in 0..MaxRequests
  /\ under \in [Merchants -> SUBSET (Keys \cup Sessions)]

\* Every session follows a signature, made with the wallet of the merchant it
\* acts for, of a nonce that was issued for his address and is deleted by the
\* time the session exists, so that no login after that can begin with it:
\* however the calls of several logins to Redis, the wallet and the database
\* interleave (verify_signature).  It does not say that one nonce makes one
\* session: NonceIsSingleUse, below, is not kept.
SessionFollowsSignature ==
  \A s \in Sessions : session[s].state # "unused" =>
     LET n == session[s].nonce
         a == merchant[session[s].merchant].addr
     IN <<n, a>> \in signed /\ nonce[n] = [state |-> "gone", addr |-> a]

\* A request whose key was active when it was stamped is over before the key
\* is revoked: the stamp keeps the row (auth.py, the UPDATE of last_used_at).
\* A revocation takes effect when those under way with the key have ended.
KeyOutlivesRequest ==
  \A r \in Requests :
     req[r].step \notin {"idle", "verified", "admitted"} /\ req[r].live => keys[req[r].cred].active

\* As long as a merchant's keys are revoked with one and the same key, he keeps
\* one: requests under a key wait for each other, so the count of
\* revoke_api_key is still true when it writes.
OneKeyKeepsOne ==
  \A m \in Merchants :
     Registered(m) /\ (\E k \in Keys : under[m] \subseteq {k}) => Active(m) # {}

\* Every request ends, whatever rows it waits for, also where two requests
\* hold a key each and want the other's.
RequestsEnd == \A r \in Requests : req[r].step # "idle" ~> req[r].step = "idle"

\* Does NOT hold: two revocations under two keys, or two sessions, count each
\* other's key and revoke both ("Cannot revoke the last active API key",
\* api_keys.py:154).
AlwaysAKey == \A m \in Merchants : Registered(m) => Active(m) # {}

\* Does NOT hold: two logins that have both read the nonce before either deletes
\* it, which are two calls to Redis (monero_auth.py:115, :128), get a session
\* each.  "atomic get-and-delete" (auth_signature.py:162), "single-use"
\* (monero_auth.py:10, auth_signature.py:146, docs/SECURITY.md:178), "one-time
\* nonce" (docs/API.md:858).
NonceIsSingleUse ==
  \A s, t \in Sessions :
     session[s].state # "unused" /\ session[s].nonce = session[t].nonce => s = t

\* Does NOT hold: two registrations look for the address at the same time, and
\* merchants.monero_address has no unique constraint (merchants.py:195).
AddressesDiffer ==
  \A l, m \in Merchants : Registered(l) /\ merchant[l].addr = merchant[m].addr => l = m
=============================================================================
