------------------------------ MODULE PriceFeed ------------------------------
(***************************************************************************)
(* The XMR price in Redis and the tasks that keep it there                  *)
(* (tasks/price_updater.py, services/price_feed.py), one per process of the *)
(* server, with a lease that is taken and never given back.                 *)
(*                                                                         *)
(* Time is counted in the distance to what is to come: a clock runs down,   *)
(* and time goes on (Tick) only if no clock has run out.                    *)
(***************************************************************************)
EXTENDS Naturals, FiniteSets

CONSTANTS Updaters,
          POLL_INTERVAL, LEASE_TTL, CACHE_TTL,
          Slow,     \* the time of the slowest update, with both sources and Redis
          Spare     \* updates in a row that may fail without the price being lost

\* Nothing is assumed of Slow: the code has no deadline for an update (HTTP_TIMEOUT
\* is one for each phase of a request, dependencies.py:15 sets none for Redis), so
\* an update may outlast the lease it was begun with.
ASSUME PriceFeedAssumption ==
  /\ IsFiniteSet(Updaters)
  /\ POLL_INTERVAL \in Nat \ {0} /\ LEASE_TTL \in Nat /\ CACHE_TTL \in Nat \ {0}
  /\ Slow \in Nat /\ Spare \in Nat

Longest == IF Slow > LEASE_TTL THEN Slow ELSE LEASE_TTL

\* There is a process to update the price, and its key outlasts Spare turns that
\* fail, the turn after them and its update.  This does limit Slow: for the
\* times of the code, 60, 120 and 600 seconds, two failures are to spare while no
\* update takes a minute (3 * 180 + Slow < 600), and one while none takes 160
\* seconds (2 * (Slow + 60) + Slow < 600).
ASSUME SurvivalAssumption ==
  Updaters # {} /\ (Spare + 1) * (Longest + POLL_INTERVAL) + Slow < CACHE_TTL

VARIABLES cache,    \* xmr_price: the age of the price, and the time the key has left;
                    \* history: whether the update it came from outlasted its lease
          lease,    \* the time the lease has left
          updater,  \* the tasks, with a clock, and the age of a price on its way to Redis
          misses    \* history: updates in a row that came to nothing

feed == <<cache, lease, updater, misses>>

NoPrice == [age |-> 0, left |-> 0, late |-> FALSE]
Asleep(clock) == [step |-> "asleep", clock |-> clock, age |-> 0]
Holding(p) == updater[p].step # "asleep"

\* The update of p has taken as long as its lease, which another may have by now.
Outlasted(p) == Slow - updater[p].clock >= LEASE_TTL

FeedInit ==
  /\ cache = NoPrice /\ lease = 0 /\ misses = Spare + 1
  /\ updater \in [Updaters -> {Asleep(c) : c \in 0 .. POLL_INTERVAL}]

Sleep(p) == updater' = [updater EXCEPT ![p] = Asleep(POLL_INTERVAL)]
Miss == misses' = IF misses <= Spare THEN misses + 1 ELSE misses

-----------------------------------------------------------------------------
(* The loop (price_updater_loop). *)

Due(p) == updater[p].step = "asleep" /\ updater[p].clock = 0

\* Mutant of TakeLease: every process updates.
TakeLease_Shared(p) ==
  /\ Due(p)
  /\ lease' = LEASE_TTL
  /\ updater' = [updater EXCEPT ![p] = [step |-> "fetching", clock |-> Slow, age |-> 0]]
  /\ UNCHANGED <<cache, misses>>

\* SET NX EX, by the one that finds no lease.
TakeLease(p) ==
  /\ Due(p) /\ lease = 0
  /\ lease' = LEASE_TTL
  /\ updater' = [updater EXCEPT ![p] = [step |-> "fetching", clock |-> Slow, age |-> 0]]
  /\ UNCHANGED <<cache, misses>>

\* Mutant of SkipTurn: who does not get the lease sleeps for its whole time.
SkipTurn_Longer(p) ==
  /\ Due(p)
  /\ updater' = [updater EXCEPT ![p] = Asleep(3 * LEASE_TTL)]
  /\ IF lease > 0 THEN UNCHANGED misses ELSE Miss
  /\ UNCHANGED <<cache, lease>>

\* Another has it, or Redis does not answer.
SkipTurn(p) ==
  /\ Due(p)
  /\ Sleep(p)
  /\ IF lease > 0 THEN UNCHANGED misses ELSE Miss
  /\ UNCHANGED <<cache, lease>>

\* CoinGecko, or else Kraken, has answered: the price has the time of the answer.
Fetch(p) ==
  /\ updater[p].step = "fetching"
  /\ updater' = [updater EXCEPT ![p].step = "storing"]
  /\ UNCHANGED <<cache, lease, misses>>

\* Mutant of UpdateFails: the last price is stored once more.
UpdateFails_Rewrites(p) ==
  /\ Holding(p)
  /\ cache' = IF cache.left > 0 THEN [cache EXCEPT !.left = CACHE_TTL] ELSE cache
  /\ Sleep(p) /\ Miss
  /\ UNCHANGED lease

\* Neither has, or Redis fails, or the process is restarted.
UpdateFails(p) ==
  /\ Holding(p)
  /\ Sleep(p) /\ Miss
  /\ UNCHANGED <<cache, lease>>

\* SETEX, whoever has the lease by now.
StorePrice(p) ==
  /\ updater[p].step = "storing"
  /\ cache' = [age |-> updater[p].age, left |-> CACHE_TTL, late |-> Outlasted(p)]
  /\ Sleep(p) /\ misses' = 0
  /\ UNCHANGED lease

-----------------------------------------------------------------------------

Less(n) == IF n = 0 THEN 0 ELSE n - 1

\* Redis drops what has run out.
Tick ==
  /\ \A p \in Updaters : updater[p].clock > 0
  /\ cache' = IF cache.left > 1 THEN [cache EXCEPT !.age = @ + 1, !.left = @ - 1] ELSE NoPrice
  /\ lease' = Less(lease)
  /\ updater' = [p \in Updaters |->
                   [updater[p] EXCEPT !.clock = @ - 1,
                                      !.age = IF updater[p].step = "storing" THEN @ + 1 ELSE 0]]
  /\ UNCHANGED misses

FeedNext ==
  \/ Tick
  \/ \E p \in Updaters : \/ TakeLease(p) \/ SkipTurn(p) \/ Fetch(p)
                         \/ UpdateFails(p) \/ StorePrice(p)

-----------------------------------------------------------------------------
(* Properties. *)

\* The types of the variables.
FeedTypeOK ==
  /\ cache \in [age : Nat, left : 0 .. CACHE_TTL, late : BOOLEAN]
  /\ lease \in 0 .. LEASE_TTL
  /\ updater \in [Updaters -> [step : {"asleep", "fetching", "storing"}, clock : Nat, age : Nat]]
  /\ misses \in 0 .. Spare + 1

\* The price is lost only when more than Spare updates in a row have failed,
\* although the lease outlives its holder's turn and every second turn is lost
\* to it, and whoever is restarted keeps the others out until it runs out.
PriceSurvives == cache.left = 0 => misses > Spare

\* An older price takes the place of a newer one only if the update of one of the
\* two outlasted its lease, and so ran beside the other (price_updater_loop).
OlderOnlyIfLate ==
  [][cache.left > 0 /\ cache'.left >= cache.left /\ cache'.age > cache.age
       => cache.late \/ cache'.late]_feed

\* Does NOT hold: a price is never replaced with an older one.  There is a lease
\* "so only one process performs a given task iteration" (detection_helpers.py:80),
\* but it runs out while its holder waits, and the SETEX does not ask for it.
PriceIsNewest ==
  [][cache.left > 0 /\ cache'.left >= cache.left => cache'.age <= cache.age]_feed
=============================================================================
