---------------------------- MODULE IntakeProofs ----------------------------
(***************************************************************************)
(* Proofs about Intake and the price feed in it.  At most one task is       *)
(* within its lease, and what it holds on its way to Redis is younger than  *)
(* a price another put there within its own; updates that outlast their     *)
(* lease may run beside it, as many as there are processes.                 *)
(***************************************************************************)
EXTENDS Intake, FiniteSetTheorems, TLAPS

\* Within its lease, a holder is the only one, and the two clocks agree.
Leases ==
  /\ \A p \in Updaters : IF Holding(p) THEN updater[p].clock <= Slow
                                        ELSE updater[p].clock <= POLL_INTERVAL
  /\ \A p \in Updaters : Holding(p) /\ ~ Outlasted(p) =>
                           lease = LEASE_TTL - (Slow - updater[p].clock)
  /\ \A p, q \in Updaters :
       Holding(p) /\ ~ Outlasted(p) /\ Holding(q) /\ ~ Outlasted(q) => p = q

\* What is on its way was asked for during the update, within the lease after what
\* is there.
OnItsWay ==
  \A p \in Updaters :
    /\ updater[p].step = "fetching" => updater[p].age = 0
    /\ updater[p].step = "storing" =>
         /\ updater[p].age + updater[p].clock <= Slow
         /\ cache.left > 0 /\ ~ cache.late /\ ~ Outlasted(p) => updater[p].age <= cache.age

\* The older the price, the less time it has left.
KeyRunsOut == cache.left > 0 => cache.age + cache.left <= CACHE_TTL + Slow

FeedInv == FeedTypeOK /\ Leases /\ OnItsWay /\ KeyRunsOut

\* What the requests have of it.
IntakeInv == /\ TypeOK /\ RatesAreFresh /\ AddressesDiffer
             /\ \A r \in Requests : /\ req[r].rate # "old"
                                    /\ req[r].step = "addressed" => req[r].index \in Nat

Inv == FeedInv /\ IntakeInv

-----------------------------------------------------------------------------

LEMMA FeedStarts == FeedInit => FeedInv
<1> SUFFICES ASSUME FeedInit PROVE FeedInv
  OBVIOUS
<1> USE PriceFeedAssumption
<1>1. PICK clock \in [Updaters -> 0 .. POLL_INTERVAL] :
        updater = [p \in Updaters |-> Asleep(clock[p])]
  <2>1. /\ updater \in [Updaters -> {Asleep(c) : c \in 0 .. POLL_INTERVAL}]
        /\ \A p \in Updaters : \E c \in 0 .. POLL_INTERVAL : updater[p] = Asleep(c)
    BY DEF FeedInit
  <2> DEFINE f == [p \in Updaters |-> CHOOSE c \in 0 .. POLL_INTERVAL : updater[p] = Asleep(c)]
  <2>2. f \in [Updaters -> 0 .. POLL_INTERVAL] /\ \A p \in Updaters : updater[p] = Asleep(f[p])
    BY <2>1
  <2>3. updater = [p \in Updaters |-> Asleep(f[p])]
    BY <2>1, <2>2
  <2> QED
    BY <2>2, <2>3
<1>2. \A p \in Updaters : updater[p].step = "asleep" /\ updater[p].clock <= POLL_INTERVAL
  <2> TAKE p \in Updaters
  <2>1. updater[p] = [step |-> "asleep", clock |-> clock[p], age |-> 0]
    BY <1>1 DEF Asleep
  <2> QED
    BY <2>1
<1>3. FeedTypeOK
  BY <1>1 DEF FeedInit, FeedTypeOK, Asleep, NoPrice
<1>4. Leases /\ OnItsWay /\ KeyRunsOut
  BY <1>2 DEF Leases, OnItsWay, KeyRunsOut, Holding, FeedInit, NoPrice
<1> QED
  BY <1>3, <1>4 DEF FeedInv

\* One updater changes, the price and the lease do not get worse for the rest.
LEMMA FallsAsleep ==
  ASSUME FeedInv, NEW p \in Updaters, Sleep(p), lease' = lease, misses' \in 0 .. Spare + 1,
         cache' = cache
  PROVE  FeedInv'
<1> USE PriceFeedAssumption
<1>1. updater'[p] = [step |-> "asleep", clock |-> POLL_INTERVAL, age |-> 0]
  BY DEF FeedInv, FeedTypeOK, Sleep, Asleep
<1>2. \A q \in Updaters : q # p => updater'[q] = updater[q]
  BY DEF FeedInv, FeedTypeOK, Sleep
<1>3. FeedTypeOK'
  BY DEF FeedInv, FeedTypeOK, Sleep, Asleep
<1>4. Leases'
  BY <1>1, <1>2 DEF FeedInv, Leases, Holding, Outlasted
<1>5. OnItsWay'
  BY <1>1, <1>2 DEF FeedInv, OnItsWay, Outlasted
<1>6. KeyRunsOut'
  BY DEF FeedInv, KeyRunsOut
<1> QED
  BY <1>3, <1>4, <1>5, <1>6 DEF FeedInv

LEMMA MissCounts == ASSUME FeedTypeOK, Miss PROVE misses' \in 0 .. Spare + 1
BY PriceFeedAssumption DEF FeedTypeOK, Miss

LEMMA TakeLeaseKeeps == ASSUME FeedInv, NEW p \in Updaters, TakeLease(p) PROVE FeedInv'
<1> USE PriceFeedAssumption
<1>1. updater'[p] = [step |-> "fetching", clock |-> Slow, age |-> 0]
  BY DEF FeedInv, FeedTypeOK, TakeLease
<1>2. \A q \in Updaters : q # p => updater'[q] = updater[q]
  BY DEF FeedInv, FeedTypeOK, TakeLease
<1>3. \A q \in Updaters : Holding(q) => Outlasted(q)
  <2> SUFFICES ASSUME NEW q \in Updaters, Holding(q), ~ Outlasted(q) PROVE FALSE
    OBVIOUS
  <2>1. /\ lease = 0 /\ updater[q].clock \in Nat
        /\ lease = LEASE_TTL - (Slow - updater[q].clock)
    BY DEF FeedInv, FeedTypeOK, Leases, TakeLease
  <2> QED
    BY <2>1 DEF Outlasted
<1>4. FeedTypeOK'
  BY DEF FeedInv, FeedTypeOK, TakeLease
<1>5. Leases'
  <2>1. \A q \in Updaters : q # p => /\ Holding(q)' <=> Holding(q)
                                     /\ Outlasted(q)' <=> Outlasted(q)
    BY <1>2 DEF Holding, Outlasted
  <2>2. \A q \in Updaters : q # p => ~ (Holding(q)' /\ ~ Outlasted(q)')
    BY <1>3, <2>1
  <2>3. \A q \in Updaters : IF Holding(q)' THEN updater'[q].clock <= Slow
                                           ELSE updater'[q].clock <= POLL_INTERVAL
    BY <1>1, <1>2, <2>1 DEF FeedInv, Leases, Holding
  <2>4. lease' = LEASE_TTL - (Slow - updater'[p].clock)
    BY <1>1 DEF TakeLease
  <2> QED
    BY <2>2, <2>3, <2>4 DEF Leases
<1>6. OnItsWay' /\ KeyRunsOut'
  BY <1>1, <1>2 DEF FeedInv, OnItsWay, KeyRunsOut, TakeLease, Outlasted
<1> QED
  BY <1>4, <1>5, <1>6 DEF FeedInv

LEMMA FetchKeeps == ASSUME FeedInv, NEW p \in Updaters, Fetch(p) PROVE FeedInv'
<1> USE PriceFeedAssumption
<1>1. /\ updater'[p] = [updater[p] EXCEPT !.step = "storing"]
      /\ updater'[p].clock = updater[p].clock /\ updater'[p].age = updater[p].age
      /\ updater'[p].step = "storing" /\ Holding(p)
  BY DEF FeedInv, FeedTypeOK, Fetch, Holding
<1>2. \A q \in Updaters : q # p => updater'[q] = updater[q]
  BY DEF FeedInv, FeedTypeOK, Fetch
<1>3. FeedTypeOK'
  BY DEF FeedInv, FeedTypeOK, Fetch
<1>4. Leases'
  <2>1. \A q \in Updaters : /\ Holding(q)' <=> Holding(q)
                            /\ updater'[q].clock = updater[q].clock
    BY <1>1, <1>2 DEF Holding
  <2> QED
    BY <2>1 DEF FeedInv, Leases, Outlasted, Fetch
<1>5. OnItsWay'
  <2>1. updater[p].age = 0 /\ updater[p].clock <= Slow /\ updater[p].clock \in Nat
    BY <1>1 DEF FeedInv, FeedTypeOK, Leases, OnItsWay, Fetch
  <2>2. cache' = cache /\ cache.age \in Nat
    BY DEF FeedInv, FeedTypeOK, Fetch
  <2>3. \A q \in Updaters : q # p =>
          /\ updater'[q].step = "fetching" => updater'[q].age = 0
          /\ updater'[q].step = "storing" => /\ updater'[q].age + updater'[q].clock <= Slow
                                             /\ (cache'.left > 0 /\ ~ cache'.late /\ ~ Outlasted(q)'
                                                   => updater'[q].age <= cache'.age)
    BY <1>2, <2>2 DEF FeedInv, OnItsWay, Outlasted
  <2>4. /\ updater'[p].step # "fetching" /\ updater'[p].age + updater'[p].clock <= Slow
        /\ updater'[p].age <= cache'.age
    BY <1>1, <2>1, <2>2
  <2> QED
    BY <2>3, <2>4 DEF OnItsWay
<1>6. KeyRunsOut'
  BY DEF FeedInv, KeyRunsOut, Fetch
<1> QED
  BY <1>3, <1>4, <1>5, <1>6 DEF FeedInv

LEMMA StoreKeeps == ASSUME FeedInv, NEW p \in Updaters, StorePrice(p) PROVE FeedInv'
<1> USE PriceFeedAssumption
<1>1. updater'[p] = [step |-> "asleep", clock |-> POLL_INTERVAL, age |-> 0]
  BY DEF FeedInv, FeedTypeOK, StorePrice, Sleep, Asleep
<1>2. \A q \in Updaters : q # p => updater'[q] = updater[q]
  BY DEF FeedInv, FeedTypeOK, StorePrice, Sleep
<1>3. /\ Holding(p) /\ lease' = lease
      /\ cache' = [age |-> updater[p].age, left |-> CACHE_TTL, late |-> Outlasted(p)]
  BY DEF StorePrice, Holding
<1>4. FeedTypeOK'
  <2>1. Outlasted(p) \in BOOLEAN /\ updater[p].age \in Nat
    BY DEF FeedInv, FeedTypeOK, Outlasted
  <2>2. cache' \in [age : Nat, left : 0 .. CACHE_TTL, late : BOOLEAN]
    BY <1>3, <2>1
  <2> QED
    BY <2>2 DEF FeedInv, FeedTypeOK, StorePrice, Sleep, Asleep
<1>5. Leases'
  BY <1>1, <1>2, <1>3 DEF FeedInv, Leases, Holding, Outlasted
<1>6. OnItsWay'
  <2> SUFFICES ASSUME NEW q \in Updaters, q # p, updater[q].step = "storing",
                      ~ cache'.late, ~ Outlasted(q)
               PROVE  FALSE
    BY <1>1, <1>2 DEF FeedInv, OnItsWay, Outlasted
  <2>1. ~ Outlasted(p)
    BY <1>3
  <2>2. Holding(q)
    BY DEF Holding
  <2> QED
    BY <1>3, <2>1, <2>2 DEF FeedInv, Leases
<1>7. KeyRunsOut'
  <2>1. /\ updater[p].age + updater[p].clock <= Slow
        /\ updater[p].age \in Nat /\ updater[p].clock \in Nat
    BY DEF FeedInv, FeedTypeOK, OnItsWay, StorePrice
  <2>2. cache'.age = updater[p].age /\ cache'.left = CACHE_TTL
    BY <1>3
  <2> QED
    BY <2>1, <2>2 DEF KeyRunsOut
<1> QED
  BY <1>4, <1>5, <1>6, <1>7 DEF FeedInv

LEMMA TickKeeps == ASSUME FeedInv, Tick PROVE FeedInv'
<1> USE PriceFeedAssumption
<1>0. /\ updater \in [Updaters -> [step : {"asleep", "fetching", "storing"},
                                   clock : Nat, age : Nat]]
      /\ cache \in [age : Nat, left : 0 .. CACHE_TTL, late : BOOLEAN]
      /\ lease \in 0 .. LEASE_TTL /\ misses \in 0 .. Spare + 1
  BY DEF FeedInv, FeedTypeOK
<1>1. \A p \in Updaters :
        /\ updater[p].clock > 0 /\ updater[p].clock \in Nat /\ updater[p].age \in Nat
        /\ updater'[p] \in [step : {"asleep", "fetching", "storing"}, clock : Nat, age : Nat]
        /\ updater'[p].step = updater[p].step /\ updater'[p].clock = updater[p].clock - 1
        /\ updater[p].step = "storing" => updater'[p].age = updater[p].age + 1
        /\ updater[p].step # "storing" => updater'[p].age = 0
  <2> TAKE p \in Updaters
  <2>1. updater[p] \in [step : {"asleep", "fetching", "storing"}, clock : Nat, age : Nat]
    BY <1>0
  <2>2. updater'[p] = [updater[p] EXCEPT !.clock = @ - 1,
                         !.age = IF updater[p].step = "storing" THEN @ + 1 ELSE 0]
    BY DEF Tick
  <2>3. updater[p].clock > 0
    BY DEF Tick
  <2>4. updater'[p].step = updater[p].step /\ updater'[p].clock = updater[p].clock - 1
    BY <2>1, <2>2
  <2>5. CASE updater[p].step = "storing"
    <3>1. updater'[p] = [updater[p] EXCEPT !.clock = @ - 1, !.age = @ + 1]
      BY <2>2, <2>5
    <3>2. updater'[p].age = updater[p].age + 1
      BY <2>1, <3>1
    <3>3. updater'[p] \in [step : {"asleep", "fetching", "storing"}, clock : Nat, age : Nat]
      <4>1. updater[p].clock - 1 \in Nat /\ updater[p].age + 1 \in Nat
        BY <2>1, <2>3
      <4> DEFINE c == updater[p].clock - 1
                 a == updater[p].age + 1
      <4>2. c \in Nat /\ a \in Nat
        BY <4>1
      <4>3. updater'[p] = [updater[p] EXCEPT !.clock = c, !.age = a]
        BY <3>1
      <4> HIDE DEF c, a
      <4> QED
        BY <2>1, <4>2, <4>3
    <3> QED
      BY <2>1, <2>3, <2>4, <2>5, <3>2, <3>3
  <2>6. CASE updater[p].step # "storing"
    <3>1. updater'[p] = [updater[p] EXCEPT !.clock = @ - 1, !.age = 0]
      BY <2>2, <2>6
    <3>2. updater'[p].age = 0
      BY <2>1, <3>1
    <3>3. updater'[p] \in [step : {"asleep", "fetching", "storing"}, clock : Nat, age : Nat]
      <4>1. updater[p].clock - 1 \in Nat
        BY <2>1, <2>3
      <4> DEFINE c == updater[p].clock - 1
                 a == 0
      <4>2. c \in Nat /\ a \in Nat
        BY <4>1
      <4>3. updater'[p] = [updater[p] EXCEPT !.clock = c, !.age = a]
        BY <3>1
      <4> HIDE DEF c, a
      <4> QED
        BY <2>1, <4>2, <4>3
    <3> QED
      BY <2>1, <2>3, <2>4, <2>6, <3>2, <3>3
  <2> QED
    BY <2>5, <2>6
<1>2. /\ cache.left \in Nat /\ cache.age \in Nat
      /\ cache' \in [age : Nat, left : 0 .. CACHE_TTL, late : BOOLEAN]
      /\ cache.left > 1 => /\ cache'.age = cache.age + 1 /\ cache'.left = cache.left - 1
                           /\ cache'.late = cache.late
      /\ cache.left <= 1 => cache'.age = 0 /\ cache'.left = 0
  <2>1. CASE cache.left > 1
    <3> DEFINE a == cache.age + 1
               l == cache.left - 1
    <3>1. cache' = [cache EXCEPT !.age = a, !.left = l]
      BY <2>1 DEF Tick
    <3>2. a \in Nat /\ l \in 0 .. CACHE_TTL
      BY <1>0, <2>1
    <3> HIDE DEF a, l
    <3>3. /\ cache' \in [age : Nat, left : 0 .. CACHE_TTL, late : BOOLEAN]
          /\ cache'.age = a /\ cache'.left = l /\ cache'.late = cache.late
      BY <1>0, <3>1, <3>2
    <3> QED
      BY <1>0, <2>1, <3>3 DEF a, l
  <2>2. CASE ~ cache.left > 1
    <3>1. cache' = [age |-> 0, left |-> 0, late |-> FALSE]
      BY <2>2 DEF Tick, NoPrice
    <3>2. cache' \in [age : Nat, left : 0 .. CACHE_TTL, late : BOOLEAN]
      BY <3>1
    <3>3. cache'.age = 0 /\ cache'.left = 0
      BY <3>1
    <3>4. cache.left \in Nat /\ cache.age \in Nat /\ ~ cache.left > 1
      BY <1>0, <2>2
    <3> QED
      BY <3>2, <3>3, <3>4
  <2> QED
    BY <2>1, <2>2
<1>3. lease \in Nat /\ (lease > 0 => lease' = lease - 1) /\ (lease = 0 => lease' = 0)
  <2>1. lease' = Less(lease)
    BY DEF Tick
  <2> QED
    BY <1>0, <2>1 DEF Less
<1>4. FeedTypeOK'
  <2>1. cache' \in [age : Nat, left : 0 .. CACHE_TTL, late : BOOLEAN]
    BY <1>2
  <2>2. lease' \in 0 .. LEASE_TTL /\ misses' \in 0 .. Spare + 1
    <3>1. misses' = misses
      BY DEF Tick
    <3> QED
      BY <1>0, <1>3, <3>1
  <2>3. \A p \in Updaters : updater'[p] \in [step : {"asleep", "fetching", "storing"},
                                             clock : Nat, age : Nat]
    BY <1>1
  <2>4. updater' = [p \in Updaters |-> updater'[p]]
    BY DEF Tick
  <2>5. updater' \in [Updaters -> [step : {"asleep", "fetching", "storing"},
                                   clock : Nat, age : Nat]]
    BY <2>3, <2>4
  <2> QED
    BY <2>1, <2>2, <2>5 DEF FeedTypeOK
<1>5. /\ \A p \in Updaters : Holding(p)' <=> Holding(p)
      /\ \A p \in Updaters : ~ Outlasted(p)' => ~ Outlasted(p)
  BY <1>1 DEF Holding, Outlasted
<1>6. Leases'
  <2>1. \A p \in Updaters : IF Holding(p)' THEN updater'[p].clock <= Slow
                                           ELSE updater'[p].clock <= POLL_INTERVAL
    BY <1>1, <1>5 DEF FeedInv, Leases
  <2>2. ASSUME NEW p \in Updaters, Holding(p)', ~ Outlasted(p)'
        PROVE  lease' = LEASE_TTL - (Slow - updater'[p].clock)
    <3>1. lease = LEASE_TTL - (Slow - updater[p].clock)
      BY <1>5, <2>2 DEF FeedInv, Leases
    <3>2. lease > 0
      BY <1>1, <1>3, <1>5, <2>2, <3>1 DEF Outlasted
    <3> QED
      BY <1>1, <1>3, <3>1, <3>2
  <2>3. \A p, q \in Updaters :
          Holding(p)' /\ ~ Outlasted(p)' /\ Holding(q)' /\ ~ Outlasted(q)' => p = q
    BY <1>5 DEF FeedInv, Leases
  <2> QED
    BY <2>1, <2>2, <2>3 DEF Leases
<1>7. OnItsWay'
  <2> SUFFICES ASSUME NEW p \in Updaters
               PROVE  /\ updater'[p].step = "fetching" => updater'[p].age = 0
                      /\ updater'[p].step = "storing" =>
                           /\ updater'[p].age + updater'[p].clock <= Slow
                           /\ (cache'.left > 0 /\ ~ cache'.late /\ ~ Outlasted(p)'
                                 => updater'[p].age <= cache'.age)
    BY DEF OnItsWay
  <2>1. updater[p].step = "storing" =>
          /\ updater[p].age + updater[p].clock <= Slow
          /\ cache.left > 0 /\ ~ cache.late /\ ~ Outlasted(p) => updater[p].age <= cache.age
    BY DEF FeedInv, OnItsWay
  <2>2. ~ Outlasted(p)' => ~ Outlasted(p)
    BY <1>5
  <2> QED
    BY <1>1, <1>2, <2>1, <2>2
<1>8. KeyRunsOut'
  BY <1>2 DEF FeedInv, KeyRunsOut
<1> QED
  BY <1>4, <1>6, <1>7, <1>8 DEF FeedInv

LEMMA FeedKeeps == ASSUME FeedInv, FeedNext PROVE FeedInv'
<1>1. CASE Tick
  BY <1>1, TickKeeps
<1>2. ASSUME NEW p \in Updaters, TakeLease(p) PROVE FeedInv'
  BY <1>2, TakeLeaseKeeps
<1>3. ASSUME NEW p \in Updaters, SkipTurn(p) PROVE FeedInv'
  <2>1. misses' \in 0 .. Spare + 1
    BY <1>3, MissCounts DEF FeedInv, FeedTypeOK, SkipTurn
  <2> QED
    BY <1>3, <2>1, FallsAsleep DEF SkipTurn
<1>4. ASSUME NEW p \in Updaters, Fetch(p) PROVE FeedInv'
  BY <1>4, FetchKeeps
<1>5. ASSUME NEW p \in Updaters, UpdateFails(p) PROVE FeedInv'
  <2>1. misses' \in 0 .. Spare + 1
    BY <1>5, MissCounts DEF FeedInv, UpdateFails
  <2> QED
    BY <1>5, <2>1, FallsAsleep DEF UpdateFails
<1>6. ASSUME NEW p \in Updaters, StorePrice(p) PROVE FeedInv'
  BY <1>6, StoreKeeps
<1> QED
  BY <1>1, <1>2, <1>3, <1>4, <1>5, <1>6 DEF FeedNext

LEMMA FeedStutters == ASSUME FeedInv, UNCHANGED feed PROVE FeedInv'
BY DEF FeedInv, FeedTypeOK, Leases, OnItsWay, KeyRunsOut, Holding, Outlasted, feed

-----------------------------------------------------------------------------

RequestType == [step : {"new", "flushed", "addressed", "created", "refused"}, rate : Rate,
                tries : 0 .. MAX_RETRIES, index : Nat \cup {None}]

LEMMA Typed ==
  ASSUME Inv
  PROVE  /\ req \in [Requests -> RequestType]
         /\ invoice \in [Requests -> [index : Nat, rate : Rate] \cup {None}]
         /\ wallet \in [next : Nat, saved : Nat]
BY DEF Inv, IntakeInv, TypeOK, RequestType

LEMMA OneTyped ==
  ASSUME Inv, NEW r \in Requests
  PROVE  /\ req[r] \in RequestType
         /\ req[r].rate # "old"
         /\ req[r].step = "addressed" => req[r].index \in Nat
<1>1. req[r].rate # "old" /\ (req[r].step = "addressed" => req[r].index \in Nat)
  BY DEF Inv, IntakeInv
<1>2. req \in [Requests -> RequestType]
  BY Typed
<1>3. req[r] \in RequestType
  BY <1>2
<1> QED
  BY <1>1, <1>3

LEMMA Starts == Init => Inv
<1> SUFFICES ASSUME Init PROVE Inv
  OBVIOUS
<1>1. FeedInv
  BY FeedStarts DEF Init
<1>2. NewRequest \in RequestType
  BY IntakeAssumption DEF NewRequest, RequestType, Rate
<1>3. TypeOK
  BY <1>1, <1>2 DEF Init, TypeOK, FeedInv, RequestType
<1>4. RatesAreFresh /\ AddressesDiffer /\ \A r \in Requests :
        req[r].rate # "old" /\ (req[r].step = "addressed" => req[r].index \in Nat)
  BY DEF Init, RatesAreFresh, AddressesDiffer, NewRequest
<1> QED
  BY <1>1, <1>3, <1>4 DEF Inv, IntakeInv

\* A step that only writes one request, and leaves the invoices alone.
LEMMA RequestWritten ==
  ASSUME Inv, FeedTypeOK', NEW r \in Requests, NEW x \in RequestType, x.rate # "old",
         x.step = "addressed" => x.index \in Nat,
         req' = [req EXCEPT ![r] = x], invoice' = invoice,
         wallet' \in [next : Nat, saved : Nat]
  PROVE  IntakeInv'
<1>1. req' \in [Requests -> RequestType]
  BY DEF Inv, IntakeInv, TypeOK, RequestType
<1>2. TypeOK'
  BY <1>1 DEF Inv, IntakeInv, TypeOK, RequestType
<1>3. \A q \in Requests :
        req'[q].rate # "old" /\ (req'[q].step = "addressed" => req'[q].index \in Nat)
  <2> TAKE q \in Requests
  <2>1. CASE q = r
    <3>1. req'[q] = x
      BY <2>1, Typed
    <3> QED
      BY <3>1
  <2>2. CASE q # r
    <3>1. req'[q] = req[q]
      BY <2>2, Typed
    <3> QED
      BY <3>1, OneTyped
  <2> QED
    BY <2>1, <2>2
<1>4. RatesAreFresh' /\ AddressesDiffer'
  BY DEF Inv, IntakeInv, RatesAreFresh, AddressesDiffer
<1> QED
  BY <1>2, <1>3, <1>4 DEF IntakeInv

LEMMA AnswerTyped ==
  ASSUME NEW step \in {"created", "refused"}
  PROVE  /\ [NewRequest EXCEPT !.step = step] \in RequestType
         /\ [NewRequest EXCEPT !.step = step].rate # "old"
         /\ [NewRequest EXCEPT !.step = step].step # "addressed"
BY IntakeAssumption DEF NewRequest, RequestType, Rate

\* What is read is fresh, because a key that is still there runs out in time.
LEMMA QuotedIsFresh == ASSUME FeedInv PROVE Quoted \in {"none", "fresh"}
<1>1. cache.left \in Nat /\ cache.age \in Nat
  BY DEF FeedInv, FeedTypeOK
<1>2. cache.left > 0 => cache.age <= CACHE_TTL + Slow
  BY <1>1, PriceFeedAssumption DEF FeedInv, KeyRunsOut
<1> QED
  BY <1>1, <1>2 DEF Quoted

LEMMA AddressMade ==
  ASSUME Inv, MakeAddress \/ UNCHANGED wallet
  PROVE  wallet' \in [next : Nat, saved : Nat]
BY DEF Inv, IntakeInv, TypeOK, MakeAddress

LEMMA CommitKeeps ==
  ASSUME Inv, NEW r \in Requests, CommitInvoice(r), FeedTypeOK'
  PROVE  IntakeInv'
<1>1. CASE \E q \in Requests : invoice[q] # None /\ invoice[q].index = req[r].index
  <2>1. /\ req' = [req EXCEPT ![r] = [NewRequest EXCEPT !.step = "refused"]]
        /\ invoice' = invoice /\ wallet' = wallet
    BY <1>1 DEF CommitInvoice, Refuse, Answer
  <2>2. wallet' \in [next : Nat, saved : Nat]
    BY <2>1 DEF Inv, IntakeInv, TypeOK
  <2> DEFINE x == [NewRequest EXCEPT !.step = "refused"]
  <2>3. x \in RequestType /\ x.rate # "old" /\ x.step # "addressed"
    BY AnswerTyped
  <2> HIDE DEF x
  <2> QED
    BY <2>1, <2>2, <2>3, RequestWritten DEF x
<1>2. CASE ~ \E q \in Requests : invoice[q] # None /\ invoice[q].index = req[r].index
  <2> DEFINE x == [NewRequest EXCEPT !.step = "created"]
             row == [index |-> req[r].index, rate |-> req[r].rate]
  <2>1. /\ req' = [req EXCEPT ![r] = x]
        /\ invoice' = [invoice EXCEPT ![r] = row] /\ wallet' = wallet
    BY <1>2 DEF CommitInvoice, Answer
  <2>2. x \in RequestType /\ x.rate # "old" /\ x.step # "addressed"
    BY AnswerTyped
  <2>3. req[r].index \in Nat /\ req[r].rate \in Rate /\ req[r].rate # "old"
    <3>1. req[r].step = "addressed"
      BY DEF CommitInvoice
    <3>2. req[r].rate \in Rate
      BY OneTyped DEF RequestType
    <3> QED
      BY <3>1, <3>2, OneTyped
  <2> HIDE DEF x
  <2>4. req' \in [Requests -> RequestType]
    BY <2>1, <2>2 DEF Inv, IntakeInv, TypeOK, RequestType
  <2>5. invoice' \in [Requests -> [index : Nat, rate : Rate] \cup {None}]
    BY <2>1, <2>3 DEF Inv, IntakeInv, TypeOK
  <2>6. TypeOK'
    BY <2>1, <2>4, <2>5 DEF Inv, IntakeInv, TypeOK, RequestType
  <2>7. RatesAreFresh'
    BY <2>1, <2>3 DEF Inv, IntakeInv, TypeOK, RatesAreFresh
  <2>8. AddressesDiffer'
    <3> SUFFICES ASSUME NEW p \in Requests, NEW q \in Requests, p # q,
                        invoice'[p] # None, invoice'[q] # None
                 PROVE  invoice'[p].index # invoice'[q].index
      BY DEF AddressesDiffer
    <3>1. \A o \in Requests : o # r => invoice'[o] = invoice[o]
      BY <2>1 DEF Inv, IntakeInv, TypeOK
    <3>2. invoice'[r].index = req[r].index
      BY <2>1 DEF Inv, IntakeInv, TypeOK
    <3> QED
      BY <1>2, <3>1, <3>2 DEF Inv, IntakeInv, AddressesDiffer
  <2>9. \A q \in Requests :
          req'[q].rate # "old" /\ (req'[q].step = "addressed" => req'[q].index \in Nat)
    <3> TAKE q \in Requests
    <3>1. CASE q = r
      <4>1. req'[q] = x
        BY <2>1, <3>1, Typed
      <4> QED
        BY <2>2, <4>1
    <3>2. CASE q # r
      <4>1. req'[q] = req[q]
        BY <2>1, <3>2, Typed
      <4> QED
        BY <4>1, OneTyped
    <3> QED
      BY <3>1, <3>2
  <2> QED
    BY <2>6, <2>7, <2>8, <2>9 DEF IntakeInv
<1> QED
  BY <1>1, <1>2

LEMMA RefuseKeeps ==
  ASSUME Inv, FeedTypeOK', NEW r \in Requests, Refuse(r), invoice' = invoice,
         wallet' \in [next : Nat, saved : Nat]
  PROVE  IntakeInv'
<1> DEFINE x == [NewRequest EXCEPT !.step = "refused"]
<1>1. x \in RequestType /\ x.rate # "old" /\ x.step # "addressed"
  BY AnswerTyped
<1>2. req' = [req EXCEPT ![r] = x]
  BY DEF Refuse, Answer
<1> HIDE DEF x
<1> QED
  BY <1>1, <1>2, RequestWritten

LEMMA RequestsKeep ==
  ASSUME Inv, FeedTypeOK', NEW r \in Requests,
         \/ ReadRate(r) \/ create_address(r) \/ TryAgain(r) \/ GiveUp(r) \/ CommitInvoice(r)
  PROVE  IntakeInv'
<1>0. /\ req[r] \in RequestType /\ req \in [Requests -> RequestType] /\ req[r].rate # "old"
      /\ wallet \in [next : Nat, saved : Nat]
  BY Typed, OneTyped
<1>1. CASE ReadRate(r)
  <2> DEFINE x == [req[r] EXCEPT !.step = "flushed", !.rate = Quoted]
  <2>1. Quoted \in {"none", "fresh"}
    BY QuotedIsFresh DEF Inv
  <2>2. x \in RequestType /\ x.rate # "old" /\ x.step # "addressed"
    BY <1>0, <2>1 DEF RequestType, Rate
  <2>3. req' = [req EXCEPT ![r] = x] /\ invoice' = invoice /\ wallet' = wallet
    BY <1>0, <1>1 DEF ReadRate
  <2> HIDE DEF x
  <2> QED
    BY <1>0, <2>2, <2>3, RequestWritten
<1>2. CASE create_address(r)
  <2> DEFINE x == [req[r] EXCEPT !.step = "addressed", !.index = wallet.next]
  <2>1. wallet.next \in Nat /\ wallet' \in [next : Nat, saved : Nat]
    BY <1>0, <1>2, AddressMade DEF create_address
  <2>2. x \in RequestType /\ x.rate # "old" /\ x.index \in Nat
    BY <1>0, <2>1 DEF RequestType, Rate
  <2>3. req' = [req EXCEPT ![r] = x] /\ invoice' = invoice
    BY <1>0, <1>2 DEF create_address
  <2> HIDE DEF x
  <2> QED
    BY <2>1, <2>2, <2>3, RequestWritten
<1>3. CASE TryAgain(r)
  <2>1. wallet' \in [next : Nat, saved : Nat] /\ invoice' = invoice
    BY <1>3, AddressMade DEF TryAgain
  <2>2. CASE req[r].tries + 1 < MAX_RETRIES
    <3> DEFINE x == [req[r] EXCEPT !.tries = @ + 1]
    <3>1. req[r].tries + 1 \in 0 .. MAX_RETRIES
      BY <1>0, <2>2, IntakeAssumption DEF RequestType
    <3>2. x \in RequestType /\ x.rate # "old" /\ x.step = req[r].step
      BY <1>0, <3>1 DEF RequestType
    <3>3. req' = [req EXCEPT ![r] = x] /\ x.step # "addressed"
      BY <1>0, <1>3, <2>2, <3>2 DEF TryAgain
    <3> HIDE DEF x
    <3> QED
      BY <2>1, <3>2, <3>3, RequestWritten
  <2>3. CASE ~ (req[r].tries + 1 < MAX_RETRIES)
    BY <1>3, <2>1, <2>3, RefuseKeeps DEF TryAgain
  <2> QED
    BY <2>2, <2>3
<1>4. CASE GiveUp(r)
  BY <1>0, <1>4, RefuseKeeps DEF GiveUp
<1>5. CASE CommitInvoice(r)
  BY <1>5, CommitKeeps
<1> QED
  BY <1>1, <1>2, <1>3, <1>4, <1>5

LEMMA Keeps == ASSUME Inv, [Next]_vars PROVE Inv'
<1>1. FeedInv'
  <2>1. CASE FeedNext
    BY <2>1, FeedKeeps DEF Inv
  <2>2. CASE UNCHANGED feed
    BY <2>2, FeedStutters DEF Inv
  <2>3. FeedNext \/ UNCHANGED feed
    BY DEF Next, vars, feed, ReadRate, create_address, TryAgain, GiveUp, CommitInvoice,
           WalletSaves, WalletRestarts
  <2> QED
    BY <2>1, <2>2, <2>3
<1>2. FeedTypeOK'
  BY <1>1 DEF FeedInv
<1>3. CASE req' = req /\ invoice' = invoice /\ wallet' \in [next : Nat, saved : Nat]
  <2>1. TypeOK'
    BY <1>2, <1>3, Typed DEF TypeOK, RequestType
  <2>2. RatesAreFresh' /\ AddressesDiffer'
    BY <1>3 DEF Inv, IntakeInv, RatesAreFresh, AddressesDiffer
  <2>3. \A r \in Requests : /\ req'[r].rate # "old"
                            /\ req'[r].step = "addressed" => req'[r].index \in Nat
    BY <1>3, OneTyped
  <2> QED
    BY <1>1, <2>1, <2>2, <2>3 DEF Inv, IntakeInv
<1>4. WalletSaves \/ WalletRestarts => wallet' \in [next : Nat, saved : Nat]
  BY Typed DEF WalletSaves, WalletRestarts
<1>5. ASSUME NEW r \in Requests,
             \/ ReadRate(r) \/ create_address(r) \/ TryAgain(r) \/ GiveUp(r)
             \/ CommitInvoice(r)
      PROVE  IntakeInv'
  BY <1>2, <1>5, RequestsKeep
<1>6. CASE UNCHANGED intake
  BY <1>3, <1>6, Typed DEF intake
<1>7. CASE WalletSaves \/ WalletRestarts
  BY <1>3, <1>4, <1>7 DEF WalletSaves, WalletRestarts
<1>8. CASE \E r \in Requests : \/ ReadRate(r) \/ create_address(r) \/ TryAgain(r) \/ GiveUp(r)
                               \/ CommitInvoice(r)
  BY <1>1, <1>5, <1>8 DEF Inv
<1> QED
  BY <1>6, <1>7, <1>8 DEF Next, vars, intake

\* A step puts an older price in the place of a newer one only if one of them is late.
LEMMA OlderIsLate ==
  ASSUME FeedInv, FeedNext, cache.left > 0, cache'.left >= cache.left, cache'.age > cache.age,
         ~ cache.late
  PROVE  cache'.late
<1>0. cache.left \in Nat /\ cache.age \in Nat
  BY DEF FeedInv, FeedTypeOK
<1>1. CASE Tick
  <2>1. CASE cache.left > 1
    <3>1. cache' = [cache EXCEPT !.age = cache.age + 1, !.left = cache.left - 1]
      BY <1>1, <2>1 DEF Tick
    <3>2. cache'.left = cache.left - 1
      BY <3>1 DEF FeedInv, FeedTypeOK
    <3> QED
      BY <1>0, <3>2
  <2>2. CASE ~ cache.left > 1
    <3>1. cache' = [age |-> 0, left |-> 0, late |-> FALSE]
      BY <1>1, <2>2 DEF Tick, NoPrice
    <3>2. cache'.left = 0
      BY <3>1
    <3> QED
      BY <1>0, <3>2
  <2> QED
    BY <2>1, <2>2
<1>2. ASSUME NEW p \in Updaters, StorePrice(p) PROVE cache'.late
  <2>1. /\ updater[p].step = "storing" /\ cache'.age = updater[p].age
        /\ cache'.late = Outlasted(p)
    BY <1>2 DEF StorePrice
  <2>2. ~ Outlasted(p) => updater[p].age <= cache.age
    BY <2>1 DEF FeedInv, OnItsWay
  <2>3. updater[p].age \in Nat
    BY DEF FeedInv, FeedTypeOK
  <2>4. Outlasted(p)
    BY <1>0, <2>1, <2>2, <2>3
  <2> QED
    BY <2>1, <2>4
<1>3. ASSUME NEW p \in Updaters, TakeLease(p) \/ SkipTurn(p) \/ Fetch(p) \/ UpdateFails(p)
      PROVE  FALSE
  <2>1. cache' = cache
    BY <1>3 DEF TakeLease, SkipTurn, Fetch, UpdateFails
  <2> QED
    BY <1>0, <2>1
<1> QED
  BY <1>1, <1>2, <1>3 DEF FeedNext

-----------------------------------------------------------------------------
(* How long the key lasts. *)

\* The longest it can take from one lease to the next, whoever takes it.
Turn == Longest + POLL_INTERVAL

\* The longest it can take until p finds no lease, if its update comes to nothing.
Until(p) ==
  IF Holding(p)
    THEN (IF updater[p].clock >= lease THEN updater[p].clock ELSE lease) + POLL_INTERVAL
    ELSE IF updater[p].clock >= lease THEN updater[p].clock ELSE lease + POLL_INTERVAL

\* The updates under way that are done before the key runs out.
Hopes == {p \in Updaters : Holding(p) /\ updater[p].clock < cache.left}

\* The failures that may still come are fewer than the updates under way, or else
\* the key outlasts a turn for each that may come after those, and one update.
KeyOutlasts(m) ==
  \/ Cardinality(Hopes) > m
  \/ /\ Cardinality(Hopes) <= m
     /\ \A p \in Updaters : cache.left > (m - Cardinality(Hopes)) * Turn + Slow + Until(p)

SurvivalInv == misses <= Spare => cache.left > 0 /\ KeyOutlasts(Spare - misses)

LEMMA Sizes ==
  ASSUME FeedInv
  PROVE  /\ \A p \in Updaters : /\ updater[p].clock \in Nat
                                /\ Holding(p) => updater[p].clock <= Slow
                                /\ ~ Holding(p) => updater[p].clock <= POLL_INTERVAL
         /\ lease \in Nat /\ lease <= LEASE_TTL
         /\ cache.left \in Nat /\ misses \in 0 .. Spare + 1
         /\ Longest \in Nat /\ LEASE_TTL <= Longest /\ Slow <= Longest
         /\ Turn \in Nat /\ Turn = Longest + POLL_INTERVAL
<1> USE PriceFeedAssumption
<1>1. /\ \A p \in Updaters : updater[p].clock \in Nat
      /\ lease \in Nat /\ lease <= LEASE_TTL
      /\ cache.left \in Nat /\ misses \in 0 .. Spare + 1
  BY DEF FeedInv, FeedTypeOK
<1>2. \A p \in Updaters : /\ Holding(p) => updater[p].clock <= Slow
                          /\ ~ Holding(p) => updater[p].clock <= POLL_INTERVAL
  BY DEF FeedInv, Leases
<1>3. Longest \in Nat /\ LEASE_TTL <= Longest /\ Slow <= Longest
  BY DEF Longest
<1> QED
  BY <1>1, <1>2, <1>3 DEF Turn

LEMMA HopesAreFinite == IsFiniteSet(Hopes) /\ Cardinality(Hopes) \in Nat
<1>1. Hopes \subseteq Updaters
  BY DEF Hopes
<1> QED
  BY <1>1, FS_Subset, FS_CardinalityType, PriceFeedAssumption

LEMMA TurnsAre ==
  ASSUME FeedInv, NEW i \in Nat, NEW j \in Nat
  PROVE  /\ i * Turn \in Nat /\ j * Turn \in Nat
         /\ j <= i => j * Turn <= i * Turn
         /\ j < i => j * Turn + Turn <= i * Turn
<1>0. Turn \in Nat
  BY Sizes
<1> HIDE DEF Turn
<1>1. i * Turn \in Nat /\ j * Turn \in Nat
  BY <1>0
<1>2. ASSUME NEW d \in Nat, i = j + d PROVE i * Turn = j * Turn + d * Turn /\ d * Turn \in Nat
  BY <1>0, <1>2
<1>3. j <= i => j * Turn <= i * Turn
  <2> SUFFICES ASSUME j <= i PROVE j * Turn <= i * Turn
    OBVIOUS
  <2>1. PICK d \in Nat : i = j + d
    OBVIOUS
  <2> QED
    BY <1>1, <1>2, <2>1
<1>4. j < i => j * Turn + Turn <= i * Turn
  <2> SUFFICES ASSUME j < i PROVE j * Turn + Turn <= i * Turn
    OBVIOUS
  <2>1. PICK e \in Nat : i = j + (e + 1)
    <3>1. i - j - 1 \in Nat /\ i = j + ((i - j - 1) + 1)
      OBVIOUS
    <3> QED
      BY <3>1
  <2>2. (e + 1) * Turn = e * Turn + Turn /\ e * Turn \in Nat
    BY <1>0
  <2>3. i * Turn = j * Turn + (e + 1) * Turn
    BY <1>2, <2>1
  <2> QED
    BY <1>0, <1>1, <2>2, <2>3
<1> QED
  BY <1>1, <1>3, <1>4

\* No wait is longer than a turn.
LEMMA WaitsAreTurns == FeedInv => \A p \in Updaters : Until(p) \in Nat /\ Until(p) <= Turn
<1> SUFFICES ASSUME FeedInv, NEW p \in Updaters PROVE Until(p) \in Nat /\ Until(p) <= Turn
  OBVIOUS
<1>1. CASE Holding(p)
  BY <1>1, Sizes, PriceFeedAssumption DEF Until
<1>2. CASE ~ Holding(p)
  BY <1>2, Sizes, PriceFeedAssumption DEF Until
<1> QED
  BY <1>1, <1>2

\* How many hopes there are, and how long the waits, before and after a step.
LEMMA Counts ==
  ASSUME FeedInv, FeedInv'
  PROVE  /\ Cardinality(Hopes) \in Nat /\ Cardinality(Hopes') \in Nat
         /\ \A p \in Updaters : /\ Until(p) \in Nat /\ Until(p)' \in Nat
                                /\ Until(p)' <= Turn
<1>1. (IsFiniteSet(Hopes) /\ Cardinality(Hopes) \in Nat)'
  BY HopesAreFinite, PTL
<1>2. (FeedInv => \A p \in Updaters : Until(p) \in Nat /\ Until(p) <= Turn)'
  BY WaitsAreTurns, PTL
<1>3. Turn' = Turn
  BY DEF Turn
<1> HIDE DEF Turn
<1> QED
  BY <1>1, <1>2, <1>3, HopesAreFinite, WaitsAreTurns

\* The key, which is as it was, still outlasts what may come if no wait and no
\* number of turns has grown, or if there is a turn less.
LEMMA StillOutlasts ==
  ASSUME FeedInv, FeedInv', NEW m \in Nat, KeyOutlasts(m), NEW n \in Nat,
         cache'.left = cache.left,
         \A p \in Updaters :
           \/ /\ n - Cardinality(Hopes') <= m - Cardinality(Hopes)
              /\ Until(p)' <= Until(p)
           \/ n - Cardinality(Hopes') < m - Cardinality(Hopes)
  PROVE  KeyOutlasts(n)'
<1> DEFINE h == Cardinality(Hopes)
           k == Cardinality(Hopes')
<1>1. /\ h \in Nat /\ k \in Nat
      /\ \A p \in Updaters : Until(p) \in Nat /\ Until(p)' \in Nat /\ Until(p)' <= Turn
  BY Counts
<1>2. h > m \/ (h <= m /\ \A p \in Updaters : cache.left > (m - h) * Turn + Slow + Until(p))
  BY DEF KeyOutlasts
<1>3. /\ KeyOutlasts(n)' <=>
           \/ k > n
           \/ k <= n /\ \A p \in Updaters : cache'.left > (n - k) * Turn + Slow + Until(p)'
      /\ \A p \in Updaters : (n - k <= m - h /\ Until(p)' <= Until(p)) \/ n - k < m - h
  BY DEF KeyOutlasts, Turn
<1> HIDE DEF h, k
<1>4. CASE k > n
  BY <1>3, <1>4
<1>5. ASSUME k <= n, NEW p \in Updaters
      PROVE  cache'.left > (n - k) * Turn + Slow + Until(p)'
  <2>1. h <= m
    BY <1>1, <1>3, <1>5
  <2>2. PICK i \in Nat : i = m - h
    BY <1>1, <2>1
  <2>3. PICK j \in Nat : j = n - k
    BY <1>1, <1>5
  <2>4. cache.left > i * Turn + Slow + Until(p)
    BY <1>1, <1>2, <2>1, <2>2
  <2>5. (j <= i /\ Until(p)' <= Until(p)) \/ j < i
    BY <1>3, <2>2, <2>3
  <2>6. /\ i * Turn \in Nat /\ j * Turn \in Nat /\ Turn \in Nat
        /\ j <= i => j * Turn <= i * Turn
        /\ j < i => j * Turn + Turn <= i * Turn
    BY TurnsAre, Sizes
  <2>7. /\ Until(p) \in Nat /\ Until(p)' \in Nat /\ Until(p)' <= Turn
        /\ cache.left \in Nat /\ Slow \in Nat
    BY <1>1, Sizes, PriceFeedAssumption
  <2> HIDE DEF Turn
  <2>8. cache'.left > j * Turn + Slow + Until(p)'
    BY <2>4, <2>5, <2>6, <2>7
  <2> QED
    BY <2>3, <2>8
<1> QED
  BY <1>1, <1>3, <1>4, <1>5

\* One updater goes to sleep: it may have been a hope, and the rest are as before.
LEMMA AsleepHopes ==
  ASSUME FeedInv, NEW p \in Updaters, Sleep(p), lease' = lease, cache'.left = cache.left
  PROVE  /\ Hopes' = Hopes \ {p}
         /\ Cardinality(Hopes') = IF p \in Hopes THEN Cardinality(Hopes) - 1 ELSE Cardinality(Hopes)
         /\ \A q \in Updaters : q # p => Until(q)' = Until(q)
         /\ ~ Holding(p)' /\ updater'[p].clock = POLL_INTERVAL
<1>1. updater'[p] = [step |-> "asleep", clock |-> POLL_INTERVAL, age |-> 0]
  BY DEF FeedInv, FeedTypeOK, Sleep, Asleep
<1>2. \A q \in Updaters : q # p => updater'[q] = updater[q]
  BY DEF FeedInv, FeedTypeOK, Sleep
<1>3. ~ Holding(p)' /\ updater'[p].clock = POLL_INTERVAL
  BY <1>1 DEF Holding
<1>4. Hopes' = Hopes \ {p}
  BY <1>2, <1>3 DEF Hopes, Holding
<1>5. \A q \in Updaters : q # p => Until(q)' = Until(q)
  BY <1>2 DEF Until, Holding
<1> QED
  BY <1>3, <1>4, <1>5, HopesAreFinite, FS_RemoveElement

\* An update that comes to nothing, and a turn that is lost though nobody has
\* the lease.
LEMMA MissSurvives ==
  ASSUME FeedInv, FeedInv', SurvivalInv, NEW p \in Updaters, Sleep(p), Miss,
         lease' = lease, cache' = cache, Holding(p) \/ (Due(p) /\ lease = 0)
  PROVE  SurvivalInv'
<1> USE PriceFeedAssumption
<1> SUFFICES ASSUME misses' <= Spare PROVE cache'.left > 0 /\ KeyOutlasts(Spare - misses)'
  BY DEF SurvivalInv
<1>1. misses \in Nat /\ misses <= Spare /\ misses' = misses + 1
  BY Sizes DEF Miss
<1>a. PICK m \in Nat : m = Spare - misses
  BY <1>1
<1>b. PICK n \in Nat : n = Spare - misses'
  BY <1>1
<1>2. n = m - 1
  BY <1>1, <1>a, <1>b
<1>3. cache.left > 0 /\ KeyOutlasts(m)
  BY <1>1, <1>a DEF SurvivalInv
<1>4. KeyOutlasts(Spare - misses)' <=> KeyOutlasts(n)'
  BY <1>b DEF KeyOutlasts
<1>5. /\ Cardinality(Hopes') = IF p \in Hopes THEN Cardinality(Hopes) - 1 ELSE Cardinality(Hopes)
      /\ \A q \in Updaters : q # p => Until(q)' = Until(q)
      /\ ~ Holding(p)' /\ updater'[p].clock = POLL_INTERVAL
  BY AsleepHopes
<1>6. Cardinality(Hopes) \in Nat /\ \A q \in Updaters : Until(q) \in Nat
  BY Counts
<1>7. \A q \in Updaters :
        \/ /\ n - Cardinality(Hopes') <= m - Cardinality(Hopes)
           /\ Until(q)' <= Until(q)
        \/ n - Cardinality(Hopes') < m - Cardinality(Hopes)
  <2>1. CASE p \in Hopes
    <3>1. Holding(p)
      BY <2>1 DEF Hopes
    <3>2. Until(p)' <= Until(p)
      BY <1>5, <3>1, Sizes DEF Until
    <3>3. \A q \in Updaters : Until(q)' <= Until(q)
      BY <1>5, <1>6, <3>2
    <3> QED
      BY <1>2, <1>5, <1>6, <2>1, <3>3
  <2>2. CASE p \notin Hopes
    BY <1>2, <1>5, <1>6, <2>2
  <2> QED
    BY <2>1, <2>2
<1>8. KeyOutlasts(n)'
  BY <1>2, <1>3, <1>7, StillOutlasts
<1> QED
  BY <1>3, <1>4, <1>8

\* A turn that is lost to the holder of the lease, or to the lease that is left.
LEMMA SkipSurvives ==
  ASSUME FeedInv, FeedInv', SurvivalInv, NEW p \in Updaters, Due(p), lease > 0, Sleep(p),
         UNCHANGED <<cache, lease, misses>>
  PROVE  SurvivalInv'
<1> USE PriceFeedAssumption
<1> SUFFICES ASSUME misses <= Spare PROVE cache'.left > 0 /\ KeyOutlasts(Spare - misses)'
  BY DEF SurvivalInv
<1>1. PICK m \in Nat : m = Spare - misses
  BY Sizes
<1>2. cache.left > 0 /\ KeyOutlasts(m)
  BY <1>1 DEF SurvivalInv
<1>3. KeyOutlasts(Spare - misses)' <=> KeyOutlasts(m)'
  BY <1>1 DEF KeyOutlasts
<1>4. /\ Cardinality(Hopes') = IF p \in Hopes THEN Cardinality(Hopes) - 1 ELSE Cardinality(Hopes)
      /\ \A q \in Updaters : q # p => Until(q)' = Until(q)
      /\ ~ Holding(p)' /\ updater'[p].clock = POLL_INTERVAL
  BY AsleepHopes
<1>5. ~ Holding(p) /\ updater[p].clock = 0 /\ p \notin Hopes
  BY DEF Due, Holding, Hopes
<1>6. Until(p)' <= Until(p)
  BY <1>4, <1>5, Sizes DEF Until
<1>7. Cardinality(Hopes) \in Nat /\ \A q \in Updaters : Until(q) \in Nat
  BY Counts
<1>8. /\ m - Cardinality(Hopes') <= m - Cardinality(Hopes)
      /\ \A q \in Updaters : Until(q)' <= Until(q)
  BY <1>1, <1>4, <1>5, <1>6, <1>7
<1>9. KeyOutlasts(m)'
  BY <1>1, <1>2, <1>8, StillOutlasts
<1> QED
  BY <1>2, <1>3, <1>9

LEMMA LeaseSurvives ==
  ASSUME FeedInv, FeedInv', SurvivalInv, NEW p \in Updaters, TakeLease(p)
  PROVE  SurvivalInv'
<1> USE PriceFeedAssumption
<1> SUFFICES ASSUME misses <= Spare PROVE cache'.left > 0 /\ KeyOutlasts(Spare - misses)'
  BY DEF SurvivalInv, TakeLease
<1> DEFINE h == Cardinality(Hopes)
           k == Cardinality(Hopes')
<1>1. PICK m \in Nat : m = Spare - misses
  BY Sizes
<1>2. cache.left > 0 /\ KeyOutlasts(m)
  BY <1>1 DEF SurvivalInv
<1>3. /\ KeyOutlasts(Spare - misses)' <=> KeyOutlasts(m)'
      /\ cache' = cache
  BY <1>1 DEF KeyOutlasts, TakeLease
<1>4. /\ updater'[p] = [step |-> "fetching", clock |-> Slow, age |-> 0]
      /\ lease = 0 /\ updater[p].clock = 0 /\ ~ Holding(p)
      /\ \A q \in Updaters : q # p => updater'[q] = updater[q]
  BY DEF FeedInv, FeedTypeOK, TakeLease, Holding, Due
<1>5. Holding(p)' /\ updater'[p].clock = Slow /\ Until(p) = 0
  BY <1>4 DEF Holding, Until
<1>6. Hopes' = IF Slow < cache.left THEN Hopes \cup {p} ELSE Hopes
  BY <1>3, <1>4, <1>5 DEF Hopes, Holding
<1>7. h \in Nat /\ k = IF Slow < cache.left THEN h + 1 ELSE h
  <2>1. p \notin Hopes /\ IsFiniteSet(Hopes) /\ h \in Nat
    BY <1>4, HopesAreFinite DEF Hopes
  <2>2. Cardinality(Hopes \cup {p}) = h + 1
    BY <2>1, FS_AddElement
  <2> QED
    BY <1>6, <2>1, <2>2
<1>8. h > m \/ (h <= m /\ cache.left > (m - h) * Turn + Slow + Until(p))
  BY <1>2 DEF KeyOutlasts
<1>9. CASE h > m
  <2>1. k > m
    BY <1>1, <1>7, <1>9
  <2> QED
    BY <1>2, <1>3, <2>1 DEF KeyOutlasts
<1>10. CASE h <= m
  <2> HIDE DEF h, k
  <2>1. PICK i \in Nat : i = m - h
    BY <1>1, <1>7, <1>10
  <2>2. i * Turn \in Nat
    BY TurnsAre
  <2>3. cache.left > i * Turn + Slow
    BY <1>1, <1>5, <1>7, <1>8, <1>10, <2>1, <2>2, Sizes
  <2>4. k = h + 1
    BY <1>7, <2>2, <2>3, Sizes
  <2>5. \A q \in Updaters : m - Cardinality(Hopes') < m - Cardinality(Hopes)
    BY <1>1, <1>7, <2>4 DEF h, k
  <2>6. KeyOutlasts(m)'
    BY <1>1, <1>2, <1>3, <2>5, StillOutlasts
  <2> QED
    BY <1>2, <1>3, <2>6
<1> QED
  BY <1>1, <1>7, <1>9, <1>10

LEMMA FetchSurvives ==
  ASSUME FeedInv, SurvivalInv, NEW p \in Updaters, Fetch(p)
  PROVE  SurvivalInv'
<1>1. /\ \A q \in Updaters : updater'[q].clock = updater[q].clock /\ (Holding(q)' <=> Holding(q))
      /\ UNCHANGED <<cache, lease, misses>>
  BY DEF FeedInv, FeedTypeOK, Fetch, Holding
<1>2. \A q \in Updaters : Until(q)' = Until(q)
  BY <1>1 DEF Until
<1>3. Hopes' = Hopes
  BY <1>1 DEF Hopes
<1> QED
  BY <1>1, <1>2, <1>3 DEF SurvivalInv, KeyOutlasts

LEMMA StoreSurvives ==
  ASSUME FeedInv, FeedInv', NEW p \in Updaters, StorePrice(p)
  PROVE  SurvivalInv'
<1> USE PriceFeedAssumption
<1>1. cache'.left = CACHE_TTL /\ misses' = 0 /\ Spare - misses' = Spare
  BY DEF StorePrice
<1> DEFINE k == Cardinality(Hopes')
<1>2. k \in Nat /\ \A q \in Updaters : Until(q)' \in Nat /\ Until(q)' <= Turn
  BY Counts
<1>3. KeyOutlasts(Spare - misses)' <=>
         \/ k > Spare
         \/ k <= Spare /\ \A q \in Updaters : cache'.left > (Spare - k) * Turn + Slow + Until(q)'
  BY <1>1 DEF KeyOutlasts, Turn
<1> HIDE DEF k
<1>4. ASSUME k <= Spare, NEW q \in Updaters
      PROVE  cache'.left > (Spare - k) * Turn + Slow + Until(q)'
  <2>1. PICK j \in Nat : j = Spare - k
    BY <1>2, <1>4
  <2>2. /\ j * Turn \in Nat /\ (Spare + 1) * Turn \in Nat /\ Turn \in Nat
        /\ j * Turn + Turn <= (Spare + 1) * Turn
    <3>1. j < Spare + 1 /\ Spare + 1 \in Nat
      BY <1>2, <2>1
    <3> QED
      BY <3>1, TurnsAre, Sizes
  <2>3. (Spare + 1) * Turn + Slow < CACHE_TTL
    BY SurvivalAssumption DEF Turn
  <2> HIDE DEF Turn
  <2>4. cache'.left > j * Turn + Slow + Until(q)'
    BY <1>1, <1>2, <2>2, <2>3
  <2> QED
    BY <2>1, <2>4
<1> QED
  BY <1>1, <1>2, <1>3, <1>4 DEF SurvivalInv

LEMMA TickSurvives ==
  ASSUME FeedInv, FeedInv', SurvivalInv, Tick
  PROVE  SurvivalInv'
<1> USE PriceFeedAssumption
<1>0. misses' = misses
  BY DEF Tick
<1> SUFFICES ASSUME misses <= Spare PROVE cache'.left > 0 /\ KeyOutlasts(Spare - misses)'
  BY <1>0 DEF SurvivalInv
<1>1. \A q \in Updaters :
        /\ updater[q].clock > 0 /\ updater'[q].clock = updater[q].clock - 1
        /\ Holding(q)' <=> Holding(q)
  <2> SUFFICES ASSUME NEW q \in Updaters
               PROVE  /\ updater[q].clock > 0 /\ updater'[q].clock = updater[q].clock - 1
                      /\ Holding(q)' <=> Holding(q)
    OBVIOUS
  <2>1. /\ updater[q].clock > 0
        /\ updater'[q] = [updater[q] EXCEPT
             !.clock = @ - 1, !.age = IF updater[q].step = "storing" THEN @ + 1 ELSE 0]
    BY DEF Tick
  <2>2. updater[q] \in [step : {"asleep", "fetching", "storing"}, clock : Nat, age : Nat]
    BY DEF FeedInv, FeedTypeOK
  <2>3. updater'[q].step = updater[q].step /\ updater'[q].clock = updater[q].clock - 1
    BY <2>1, <2>2
  <2> QED
    BY <2>1, <2>3 DEF Holding
<1>2. /\ lease' = (IF lease = 0 THEN 0 ELSE lease - 1)
      /\ cache.left > 1 => cache'.left = cache.left - 1
  <2>1. ASSUME cache.left > 1 PROVE cache'.left = cache.left - 1
    <3>1. cache' = [cache EXCEPT !.age = cache.age + 1, !.left = cache.left - 1]
      BY <2>1 DEF Tick
    <3> QED
      BY <3>1 DEF FeedInv, FeedTypeOK
  <2> QED
    BY <2>1 DEF Tick, Less
<1> DEFINE m == Spare - misses
           h == Cardinality(Hopes)
<1>3. m \in Nat /\ h \in Nat /\ cache.left \in Nat
  BY Sizes, HopesAreFinite
<1>4. cache.left > 0 /\ KeyOutlasts(m)
  BY DEF SurvivalInv
<1>5. \A q \in Updaters : Until(q)' = Until(q) - 1 /\ Until(q) \in Nat /\ Until(q) > 0
  <2> TAKE q \in Updaters
  <2>1. updater[q].clock \in Nat /\ lease \in Nat
    BY Sizes
  <2>2. CASE Holding(q)
    BY <1>1, <1>2, <2>1, <2>2 DEF Until
  <2>3. CASE ~ Holding(q)
    BY <1>1, <1>2, <2>1, <2>3 DEF Until
  <2> QED
    BY <2>2, <2>3
<1>6. h > m \/ (h <= m /\ \A q \in Updaters : cache.left > (m - h) * Turn + Slow + Until(q))
  BY <1>4 DEF KeyOutlasts
<1>7. cache.left > 1
  <2>1. CASE h > m
    <3>1. Hopes # {}
      BY <1>3, <2>1, FS_EmptySet
    <3>2. PICK q \in Updaters : Holding(q) /\ updater[q].clock < cache.left
      BY <3>1 DEF Hopes
    <3> QED
      BY <1>1, <1>3, <3>2, Sizes
  <2>2. CASE h <= m
    <3>1. PICK q \in Updaters : TRUE
      BY SurvivalAssumption
    <3> HIDE DEF m, h
    <3>2. PICK i \in Nat : i = m - h
      BY <1>3, <2>2
    <3>3. i * Turn \in Nat
      BY TurnsAre
    <3>4. cache.left > i * Turn + Slow + Until(q)
      BY <1>3, <1>6, <2>2, <3>2
    <3> QED
      BY <1>3, <1>5, <3>3, <3>4
  <2> QED
    BY <1>3, <2>1, <2>2
<1>8. Hopes' = Hopes
  <2>1. \A q \in Updaters : updater'[q].clock < cache'.left <=> updater[q].clock < cache.left
    BY <1>1, <1>2, <1>3, <1>7, Sizes
  <2> QED
    BY <1>1, <2>1 DEF Hopes
<1>9. KeyOutlasts(m)' <=>
         \/ h > m
         \/ h <= m /\ \A q \in Updaters : cache'.left > (m - h) * Turn + Slow + Until(q)'
  BY <1>0, <1>8 DEF KeyOutlasts, Turn
<1>10. KeyOutlasts(Spare - misses)' <=> KeyOutlasts(m)'
  BY <1>0 DEF KeyOutlasts
<1> HIDE DEF m, h
<1>11. ASSUME h <= m, NEW q \in Updaters
       PROVE  cache'.left > (m - h) * Turn + Slow + Until(q)'
  <2>1. PICK i \in Nat : i = m - h
    BY <1>3, <1>11
  <2>2. i * Turn \in Nat
    BY TurnsAre
  <2>3. cache.left > i * Turn + Slow + Until(q)
    BY <1>3, <1>6, <1>11, <2>1
  <2>4. cache'.left > i * Turn + Slow + Until(q)'
    BY <1>2, <1>3, <1>5, <1>7, <2>2, <2>3
  <2> QED
    BY <2>1, <2>4
<1> QED
  BY <1>2, <1>3, <1>6, <1>7, <1>9, <1>10, <1>11

LEMMA SurvivalKeeps ==
  ASSUME FeedInv, FeedInv', SurvivalInv, FeedNext \/ UNCHANGED feed
  PROVE  SurvivalInv'
<1>1. CASE Tick
  BY <1>1, TickSurvives
<1>2. ASSUME NEW p \in Updaters, TakeLease(p) PROVE SurvivalInv'
  BY <1>2, LeaseSurvives
<1>3. ASSUME NEW p \in Updaters, SkipTurn(p) PROVE SurvivalInv'
  <2>1. CASE lease > 0
    BY <1>3, <2>1, SkipSurvives DEF SkipTurn
  <2>2. CASE lease = 0
    BY <1>3, <2>2, MissSurvives DEF SkipTurn
  <2> QED
    BY <2>1, <2>2, Sizes
<1>4. ASSUME NEW p \in Updaters, Fetch(p) PROVE SurvivalInv'
  BY <1>4, FetchSurvives
<1>5. ASSUME NEW p \in Updaters, UpdateFails(p) PROVE SurvivalInv'
  BY <1>5, MissSurvives DEF UpdateFails
<1>6. ASSUME NEW p \in Updaters, StorePrice(p) PROVE SurvivalInv'
  BY <1>6, StoreSurvives
<1>7. CASE UNCHANGED feed
  BY <1>7 DEF feed, SurvivalInv, KeyOutlasts, Hopes, Holding, Until
<1> QED
  BY <1>1, <1>2, <1>3, <1>4, <1>5, <1>6, <1>7 DEF FeedNext

-----------------------------------------------------------------------------
(* The theorems. *)

\* The invariant all of the others follow from.
THEOREM Inductive == Spec => []Inv
<1>1. Init => Inv
  BY Starts
<1>2. Inv /\ [Next]_vars => Inv'
  BY Keeps
<1> QED
  BY <1>1, <1>2, PTL DEF Spec

\* No invoice has a rate that was older than the cache allows when it was read
\* (_get_fiat_rate), for every interval, lease and number of processes.
THEOREM RatesStayFresh == Spec => []RatesAreFresh
<1>1. Inv => RatesAreFresh
  BY DEF Inv, IntakeInv
<1> QED
  BY <1>1, Inductive, PTL

\* No two invoices have one subaddress, for any number of requests and
\* whatever the wallet forgets (create_invoice).
THEOREM OneInvoicePerAddress == Spec => []AddressesDiffer
<1>1. Inv => AddressesDiffer
  BY DEF Inv, IntakeInv
<1> QED
  BY <1>1, Inductive, PTL

\* An update puts an older price in the place of a newer one only if it, or the one
\* it overtakes, has outlasted its lease, for every time an update may take
\* (price_updater_loop).
THEOREM OlderPricesAreLate == Spec => OlderOnlyIfLate
<1>1. Inv /\ [Next]_vars =>
        [cache.left > 0 /\ cache'.left >= cache.left /\ cache'.age > cache.age
           => cache.late \/ cache'.late]_feed
  <2> SUFFICES ASSUME Inv, [Next]_vars, feed' # feed, cache.left > 0,
                      cache'.left >= cache.left, cache'.age > cache.age, ~ cache.late
               PROVE  cache'.late
    OBVIOUS
  <2>1. FeedNext
    BY DEF Next, vars, feed, ReadRate, create_address, TryAgain, GiveUp, CommitInvoice,
           WalletSaves, WalletRestarts
  <2> QED
    BY <2>1, OlderIsLate DEF Inv
<1> QED
  BY <1>1, Inductive, PTL DEF Spec, OlderOnlyIfLate

\* The price is lost only when more than Spare updates in a row have come to
\* nothing, for any number of processes, although every second turn is lost to
\* the lease, and updates that outlast theirs run beside others
\* (price_updater_loop).
THEOREM PriceLasts == Spec => []PriceSurvives
<1>1. Init => SurvivalInv
  BY PriceFeedAssumption DEF Init, FeedInit, SurvivalInv
<1>2. Inv /\ SurvivalInv /\ [Next]_vars => SurvivalInv'
  <2> SUFFICES ASSUME Inv, SurvivalInv, [Next]_vars PROVE SurvivalInv'
    OBVIOUS
  <2>1. FeedNext \/ UNCHANGED feed
    BY DEF Next, vars, feed, ReadRate, create_address, TryAgain, GiveUp, CommitInvoice,
           WalletSaves, WalletRestarts
  <2>2. Inv'
    BY Keeps
  <2> QED
    BY <2>1, <2>2, SurvivalKeeps DEF Inv
<1>3. Inv /\ SurvivalInv => PriceSurvives
  <2> SUFFICES ASSUME Inv, SurvivalInv, cache.left = 0 PROVE misses > Spare
    BY DEF PriceSurvives
  <2> QED
    BY Sizes, PriceFeedAssumption DEF SurvivalInv, Inv
<1> QED
  BY <1>1, <1>2, <1>3, Inductive, PTL DEF Spec
=============================================================================
