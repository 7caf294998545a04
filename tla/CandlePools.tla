----------------------------- MODULE CandlePools -----------------------------
(***************************************************************************)
(* A price connector of one venue (src/price: binance, bybit, okx, bitget, *)
(* kucoin): the candle rooms requested, the pool of clients that carry     *)
(* them, the debounce queue and its timer, the connects waiting for their  *)
(* mutex, and what a restart, a failure or a silent socket does to them.   *)
(* The ticker side is kept as the markets subscribed by the init loops.    *)
(*                                                                         *)
(* Where the venues differ the operation has one definition per venue.     *)
(* One market is modelled; the markets of a venue do not touch each        *)
(* other's rooms, queue or pool, except for Bybit's client ids.            *)
(***************************************************************************)
EXTENDS Naturals, Sequences, FiniteSets

CONSTANTS
    Rooms,      \* candle rooms that may be requested
    Kept,       \* rooms the rebuilt connector is given; KuCoin's is given none
    Venues,     \* venues the run explores
    Roles,      \* worker roles: "candle", "price"
    Special,    \* Bitget: Reality or inverse symbols, served by v3 sockets
    Streamless, \* those of them with an interval v3 has no stream for
    Delisted,   \* Bitget: rooms the venue refuses
    Cap,        \* maxCandlesPerConnection, maxSubs
    Batch,      \* chunkSize of Binance and Bitget, BATCH_MAX_ITEMS of KuCoin
    MinSubs,    \* clientSilenceMinSubs
    NMarkets,   \* markets a ticker init loop goes through
    SpotPool,   \* length of Bybit's spot pool, the id of new futures clients
    MaxTargeted, \* maxTargetedRestarts
    MaxErrors,  \* KuCoin socket errors that end the process
    MaxFaults   \* bound on exceptions, failures, drops and silences

ASSUME PoolsAssumption ==
    /\ IsFiniteSet(Rooms) /\ Kept \subseteq Rooms
    /\ Streamless \subseteq Special
    /\ Venues \subseteq {"binance", "bybit", "bybitFutures", "okx", "bitget",
                         "kucoin"}
    /\ Roles \subseteq {"candle", "price"}
    /\ Cap \in Nat /\ Batch \in 1..Cap /\ MinSubs \in Nat
    /\ NMarkets \in Nat \ {0} /\ SpotPool \in Nat /\ MaxTargeted \in Nat
    /\ MaxErrors \in Nat \ {0} /\ MaxFaults \in Nat

VARIABLES
    venue, role, \* chosen at the start
    rooms,      \* subscribedCandlesMap
    pool,       \* the candle clients, or the dialled sockets (Binance)
    special,    \* topics on the v3 sockets (Bitget)
    channels,   \* realityChannels, inverseChannels (Bitget)
    queue,      \* inQueueCandles, pendingCandles
    timer,      \* the debounce timer runs
    execute,    \* Binance: the next connect dials
    jobs,       \* calls holding or awaiting the connect mutex, in order
    restarting, \* bybitRestarting, binanceRestarting
    inits,      \* ticker init loops in progress
    retries,    \* Bybit: retry timers of failed inits
    tickers,    \* markets subscribed on the current ticker clients
    lost,       \* rooms a dropped or failed socket left behind (ghost)
    targeted,   \* targetedRestarts of the exchange
    errors,     \* kucoinErrors
    ended,      \* the connector threw, or its process ended
    faults

roomVars == <<rooms, queue, timer, execute, jobs>>
poolVars == <<pool, special, channels, lost>>
tickVars == <<restarting, inits, retries, tickers>>
failVars == <<targeted, errors, ended, faults>>
vars == <<venue, role, roomVars, poolVars, tickVars, failVars>>

\* OKX stores a second name for each room it connects (interval@symbol); when
\* replayed it asks for a topic that does not exist, an echo of the room.
Topics == [room : Rooms, echo : BOOLEAN]
Room(r) == [room |-> r, echo |-> FALSE]
Echo(t) == [t EXCEPT !.echo = TRUE]

Markets == 1..NMarkets
Bybit == venue \in {"bybit", "bybitFutures"}

-----------------------------------------------------------------------------
(* The pool.                                                                *)

\* mute: the socket delivers nothing.  tries: clientRestarts of the socket.
Client(id, n, ts) ==
    [id |-> id, count |-> n, topics |-> ts, mute |-> FALSE, tries |-> 0]

Below(p, n) == {i \in DOMAIN p : p[i].count + n <= Cap}
LeastLoaded(p, S) ==
    CHOOSE i \in S : \A j \in S : \/ p[i].count < p[j].count
                                  \/ p[i].count = p[j].count /\ i <= j
Fullest(p, S) ==
    CHOOSE i \in S : \A j \in S : \/ p[i].count > p[j].count
                                  \/ p[i].count = p[j].count /\ i <= j

\* find.count += n, written back to every client with the id of the one found.
Filled(p, i, n, ts) ==
    [j \in DOMAIN p |->
        IF p[j].id = p[i].id
        THEN [p[j] EXCEPT !.count = p[i].count + n,
                          !.topics = IF i = j THEN @ \cup ts ELSE @]
        ELSE p[j]]

\* The id of a new futures client is the length of the spot pool.
NewBybitId(p) == IF venue = "bybit" THEN Len(p) ELSE SpotPool

GetBybitClient(p, t) ==
    LET free == Below(p, 1)
    IN  IF free = {} THEN Append(p, Client(NewBybitId(p), 1, {t}))
        ELSE Filled(p, LeastLoaded(p, free), 1, {t})

GetOkxClient(p, ts) ==
    LET free == Below(p, 1) n == Cardinality(ts)
    IN  IF free = {} THEN Append(p, Client(Len(p), n, ts))
        ELSE Filled(p, LeastLoaded(p, free), n, ts)

GetBitgetClient(p, ts) ==
    LET free == Below(p, 1) n == Cardinality(ts)
    IN  IF free = {} THEN Append(p, Client(Len(p), n, ts))
        ELSE Filled(p, Fullest(p, free), n, ts)

\* Mutant: room for one topic is taken for room for the batch.
GetKucoinClientLoose(p, n, ts) ==
    LET free == Below(p, 1)
    IN  IF free = {} THEN Append(p, Client(Len(p), n, ts))
        ELSE Filled(p, LeastLoaded(p, free), n, ts)

\* A failed subscribe keeps its count.
GetKucoinClient(p, n, ts) ==
    LET free == Below(p, n)
    IN  IF free = {} THEN Append(p, Client(Len(p), n, ts))
        ELSE Filled(p, LeastLoaded(p, free), n, ts)

\* Every client replaced by a fresh one of the same id.
Recreated(p) == [i \in DOMAIN p |-> [Client(p[i].id, 0, {})
                                     EXCEPT !.tries = p[i].tries]]

\* The next n of S, in an order that does not matter here.
NextOf(S, n) ==
    IF Cardinality(S) <= n THEN S
    ELSE CHOOSE c \in SUBSET S : Cardinality(c) = n

-----------------------------------------------------------------------------
(* Calls on the connect mutex: the head holds it.                           *)

Job(kind, ts) == [kind |-> kind, data |-> ts]
Connects(ts) == IF ts = {} THEN <<>> ELSE <<Job("connect", ts)>>
Holds(kind) == jobs # <<>> /\ Head(jobs).kind = kind

\* The head goes on with the rooms ts, or is done.
GoesOn(kind, ts) ==
    IF ts = {} THEN Tail(jobs) ELSE <<Job(kind, ts)>> \o Tail(jobs)

\* Bybit's connects run to the end as microtasks, and so does a Bitget flush.
Quiet == /\ ~ended
         /\ Bybit => jobs = <<>>
         /\ venue = "bitget" => ~Holds("subscribe")

Init ==
    /\ venue \in Venues /\ role \in Roles
    /\ rooms = IF role = "candle" /\ venue # "kucoin"
               THEN {Room(r) : r \in Kept} ELSE {}
    /\ pool = IF venue = "binance" THEN <<>> ELSE <<Client(0, 0, {})>>
    /\ special = {} /\ channels = {}
    /\ queue = {} /\ timer = FALSE /\ execute = FALSE
    /\ jobs = IF role = "price" \/ venue = "kucoin" THEN <<>>
              ELSE IF venue = "binance" THEN <<Job("connect", {})>>
              ELSE IF venue = "okx" THEN <<Job("connect", rooms)>>
              ELSE Connects(rooms)
    /\ restarting = FALSE /\ retries = 0
    /\ inits = IF role = "candle" \/ venue = "binance" THEN <<>>
               ELSE <<[market |-> 1, cycle |-> FALSE]>>
    /\ tickers = IF role = "price" /\ venue = "binance" THEN Markets ELSE {}
    /\ lost = {} /\ targeted = 0 /\ errors = 0
    /\ ended = FALSE /\ faults = 0

-----------------------------------------------------------------------------
(* subscribeCandleCb: a room nobody asked for before.                       *)

\* Binance dials the whole set, whatever room asks for it.
BinanceAsks == jobs' = Append(jobs, Job("connect", {}))
BybitAsks(t) == jobs' = Append(jobs, Job("connect", {t}))
OkxAsks(t) == jobs' = Append(jobs, Job("connect", {t}))
BitgetAsks(t) == jobs' = Append(jobs, Job("connect", {t}))
KucoinAsks(t) ==
    /\ queue' = queue \cup {t}
    /\ timer' = TRUE
    /\ UNCHANGED jobs

Request(r) ==
    /\ Quiet /\ role = "candle" /\ Room(r) \notin rooms
    /\ rooms' = rooms \cup {Room(r)}
    /\ CASE venue = "binance" -> BinanceAsks
         [] Bybit             -> BybitAsks(Room(r))
         [] venue = "okx"     -> OkxAsks(Room(r))
         [] venue = "bitget"  -> BitgetAsks(Room(r))
         [] venue = "kucoin"  -> KucoinAsks(Room(r))
    /\ venue # "kucoin" => UNCHANGED <<queue, timer>>
    /\ UNCHANGED <<venue, role, execute, poolVars, tickVars,
                   failVars>>

\* Mutant: the timer calls the connect without its execute flag.
TimerFiresAgain ==
    /\ Quiet /\ timer
    /\ timer' = FALSE
    /\ execute' = FALSE
    /\ jobs' = Append(jobs, Job(IF venue = "binance" THEN "connect"
                                ELSE "flush", {}))
    /\ UNCHANGED <<venue, role, rooms, queue, poolVars, tickVars,
                   failVars>>

TimerFires ==
    /\ Quiet /\ timer
    /\ timer' = FALSE
    /\ execute' = (venue = "binance")
    /\ jobs' = Append(jobs, Job(IF venue = "binance" THEN "connect"
                                ELSE "flush", {}))
    /\ UNCHANGED <<venue, role, rooms, queue, poolVars, tickVars,
                   failVars>>

-----------------------------------------------------------------------------
(* Binance.  A dialled socket carries one chunk of rooms in its URL.        *)

BinanceDebounce ==
    /\ timer' = TRUE
    /\ jobs' = Tail(jobs)
    /\ UNCHANGED <<execute, pool, lost>>

\* Mutant: the sockets dialled before are left open.
BinanceRedialOver ==
    /\ execute' = FALSE
    /\ jobs' = GoesOn("subscribe", rooms)
    /\ UNCHANGED <<pool, lost, timer>>

\* closeBinanceCandleStream, then the rooms of this moment are to be dialled.
BinanceRedial ==
    /\ execute' = FALSE
    /\ pool' = <<>> /\ lost' = {}
    /\ jobs' = GoesOn("subscribe", rooms)
    /\ UNCHANGED timer

BinanceConnect ==
    /\ venue = "binance" /\ ~ended /\ Holds("connect")
    /\ IF execute THEN BinanceRedial ELSE BinanceDebounce
    /\ UNCHANGED <<venue, role, rooms, queue, special, channels,
                   tickVars, failVars>>

\* One chunk a second, on the client of that moment.
BinanceDials ==
    /\ venue = "binance" /\ ~ended /\ Holds("subscribe")
    /\ LET c == NextOf(Head(jobs).data, Batch) IN
         /\ pool' = Append(pool, Client(Len(pool), Cardinality(c), c))
         /\ jobs' = GoesOn("subscribe", Head(jobs).data \ c)
    /\ UNCHANGED <<venue, role, rooms, queue, timer, execute,
                   special, channels, lost, tickVars, failVars>>

BinanceStops == pool' = <<>> /\ lost' = {}

\* Candle streams are reconnected, ticker streams are dialled at once.
BinanceInit ==
    /\ tickers' = IF role = "price" THEN Markets ELSE {}
    /\ jobs' = IF role = "candle" THEN Append(jobs, Job("connect", {}))
               ELSE jobs

\* stopBinance and init, held under the guard until the dial has settled.
BinanceException ==
    /\ venue = "binance" /\ Quiet /\ faults < MaxFaults /\ ~restarting
    /\ faults' = faults + 1
    /\ restarting' = TRUE
    /\ BinanceStops /\ BinanceInit
    /\ UNCHANGED <<venue, role, rooms, queue, timer, execute,
                   special, channels, inits, retries, targeted, errors, ended>>

BinanceSettled ==
    /\ venue = "binance" /\ Quiet /\ restarting
    /\ restarting' = FALSE
    /\ UNCHANGED <<venue, role, roomVars, poolVars, inits, retries, tickers,
                   failVars>>

\* The SDK answers a drop by dialling a socket without streams.
BinanceSocketDrops(i) ==
    /\ venue = "binance" /\ Quiet /\ faults < MaxFaults
    /\ pool[i].topics # {}
    /\ faults' = faults + 1
    /\ lost' = lost \cup pool[i].topics
    /\ pool' = [pool EXCEPT ![i].topics = {}]
    /\ UNCHANGED <<venue, role, roomVars, special, channels, tickVars,
                   targeted, errors, ended>>

-----------------------------------------------------------------------------
(* Bybit.                                                                   *)

BybitConnects ==
    /\ Bybit /\ ~ended /\ Holds("connect")
    /\ \E t \in Head(jobs).data :
         /\ pool' = GetBybitClient(pool, t)
         /\ jobs' = GoesOn("connect", Head(jobs).data \ {t})
    /\ UNCHANGED <<venue, role, rooms, queue, timer, execute,
                   special, channels, lost, tickVars, failVars>>

\* stopBybit, then initBybitWS under the guard, whatever the role.
StartCycle ==
    /\ restarting' = TRUE
    /\ pool' = Recreated(pool)
    /\ tickers' = {}
    /\ inits' = Append(inits, [market |-> 1, cycle |-> TRUE])

BybitException ==
    /\ Bybit /\ Quiet /\ faults < MaxFaults /\ ~restarting
    /\ faults' = faults + 1
    /\ StartCycle
    /\ UNCHANGED <<venue, role, roomVars, special, channels, lost, retries,
                   targeted, errors, ended>>

BybitRetryTimer ==
    /\ Bybit /\ Quiet /\ retries > 0
    /\ retries' = retries - 1
    /\ IF restarting THEN UNCHANGED <<restarting, pool, tickers, inits>>
       ELSE StartCycle
    /\ UNCHANGED <<venue, role, roomVars, special, channels, lost, failVars>>

ReconnectBybit == jobs' = jobs \o Connects(rooms)

\* The candle rooms are reconnected and the guard of a cycle is released.
CycleEnds(cycle) ==
    IF cycle
    THEN /\ ReconnectBybit
         /\ restarting' = FALSE
    ELSE UNCHANGED <<jobs, restarting>>

Without(s, i) == SubSeq(s, 1, i - 1) \o SubSeq(s, i + 1, Len(s))
Subscribed(i) == tickers \cup {inits[i].market}
NextMarket(i) == [inits EXCEPT ![i].market = @ + 1]
Last(i) == inits[i].market = NMarkets

BybitInit(i) ==
    /\ tickers' = Subscribed(i)
    /\ IF Last(i)
       THEN inits' = Without(inits, i) /\ CycleEnds(inits[i].cycle)
       ELSE inits' = NextMarket(i) /\ UNCHANGED <<jobs, restarting>>
    /\ UNCHANGED <<retries, pool, special, channels, ended>>

\* Mutant: the catch restarts at once, into the guard its cycle still holds.
BybitInitFailsLost(i) ==
    /\ inits' = Without(inits, i)
    /\ CycleEnds(inits[i].cycle)
    /\ UNCHANGED <<retries, tickers, pool, special, channels, ended>>

\* The catch only schedules the retry: the cycle goes on to its end.
BybitInitFails(i) ==
    /\ retries' = retries + 1
    /\ inits' = Without(inits, i)
    /\ CycleEnds(inits[i].cycle)
    /\ UNCHANGED <<tickers, pool, special, channels, ended>>

-----------------------------------------------------------------------------
(* OKX.                                                                     *)

\* Every call stores the names it connects once more, as topics.
OkxQueues ==
    /\ rooms' = rooms \cup {Echo(t) : t \in Head(jobs).data}
    /\ queue' = queue \cup Head(jobs).data
    /\ timer' = TRUE
    /\ jobs' = Tail(jobs)

OkxConnect ==
    /\ venue = "okx" /\ ~ended /\ Holds("connect")
    /\ OkxQueues
    /\ UNCHANGED <<venue, role, execute, poolVars, tickVars, failVars>>

TakeQueue ==
    /\ timer' = FALSE
    /\ queue' = {}
    /\ jobs' = GoesOn("subscribe", queue)

OkxFlush ==
    /\ venue = "okx" /\ ~ended /\ Holds("flush")
    /\ TakeQueue
    /\ UNCHANGED <<venue, role, rooms, execute, poolVars, tickVars, failVars>>

\* A chunk, then a short sleep.
OkxSubscribes ==
    /\ venue = "okx" /\ ~ended /\ Holds("subscribe")
    /\ LET c == NextOf(Head(jobs).data, Cap) IN
         /\ pool' = GetOkxClient(pool, c)
         /\ jobs' = GoesOn("subscribe", Head(jobs).data \ c)
    /\ UNCHANGED <<venue, role, rooms, queue, timer, execute, special,
                   channels, lost, tickVars, failVars>>

OkxStops == pool' = Recreated(pool) /\ tickers' = {}
ReconnectOkx == jobs' = Append(jobs, Job("connect", rooms))

\* Tickers and candles both, whatever the role.
OkxRestarts(running) ==
    /\ OkxStops
    /\ inits' = Append(running, [market |-> 1, cycle |-> FALSE])
    /\ ReconnectOkx

OkxException ==
    /\ venue = "okx" /\ Quiet /\ faults < MaxFaults
    /\ faults' = faults + 1
    /\ OkxRestarts(inits)
    /\ UNCHANGED <<venue, role, rooms, queue, timer, execute, special,
                   channels, lost, restarting, retries, targeted, errors,
                   ended>>

OkxInit(i) ==
    /\ tickers' = Subscribed(i)
    /\ inits' = IF Last(i) THEN Without(inits, i) ELSE NextMarket(i)
    /\ UNCHANGED <<jobs, restarting, retries, pool, special, channels, ended>>

\* The catch restarts at once.
OkxInitFails(i) ==
    /\ OkxRestarts(Without(inits, i))
    /\ UNCHANGED <<restarting, retries, special, channels, ended>>

-----------------------------------------------------------------------------
(* Bitget.                                                                  *)

\* Mutant: the timer of the queue is cleared before the early return.
BitgetSpecialClears(t) ==
    /\ special' = IF t.room \in channels THEN special ELSE special \cup {t}
    /\ channels' = channels \cup {t.room}
    /\ timer' = FALSE
    /\ UNCHANGED queue

\* A Reality or inverse symbol is subscribed on v3 at once, and only once;
\* where v3 has no stream the REST back-fill is left to bring its candles.
BitgetSpecial(t) ==
    /\ IF t.room \in channels \cup Streamless THEN UNCHANGED <<special, channels>>
       ELSE /\ special' = special \cup {t}
            /\ channels' = channels \cup {t.room}
    /\ UNCHANGED <<queue, timer>>

BitgetQueues(t) ==
    /\ queue' = queue \cup {t}
    /\ timer' = TRUE
    /\ UNCHANGED <<special, channels>>

BitgetConnect ==
    /\ venue = "bitget" /\ ~ended /\ Holds("connect")
    /\ \E t \in Head(jobs).data :
         /\ IF t.room \in Special THEN BitgetSpecial(t) ELSE BitgetQueues(t)
         /\ jobs' = GoesOn("connect", Head(jobs).data \ {t})
    /\ UNCHANGED <<venue, role, rooms, execute, pool, lost, tickVars, failVars>>

BitgetFlush ==
    /\ venue = "bitget" /\ ~ended /\ Holds("flush")
    /\ TakeQueue
    /\ UNCHANGED <<venue, role, rooms, execute, poolVars, tickVars, failVars>>

BitgetSubscribes ==
    /\ venue = "bitget" /\ ~ended /\ Holds("subscribe")
    /\ LET c == NextOf(Head(jobs).data, Batch) IN
         /\ pool' = GetBitgetClient(pool, c)
         /\ jobs' = GoesOn("subscribe", Head(jobs).data \ c)
    /\ UNCHANGED <<venue, role, rooms, queue, timer, execute, special,
                   channels, lost, tickVars, failVars>>

BitgetStops ==
    /\ pool' = Recreated(pool)
    /\ special' = {} /\ channels' = {}
    /\ tickers' = {}

ReconnectBitget == jobs' = jobs \o Connects(rooms)

BitgetRestarts(running) ==
    /\ BitgetStops
    /\ inits' = IF role = "price"
                THEN Append(running, [market |-> 1, cycle |-> FALSE])
                ELSE running
    /\ IF role = "candle" THEN ReconnectBitget ELSE UNCHANGED jobs

BitgetException ==
    /\ venue = "bitget" /\ Quiet /\ faults < MaxFaults
    /\ faults' = faults + 1
    /\ BitgetRestarts(inits)
    /\ UNCHANGED <<venue, role, rooms, queue, timer, execute, lost,
                   restarting, retries, targeted, errors, ended>>

\* The init loops take turns.
BitgetInit(i) ==
    /\ i = 1
    /\ tickers' = Subscribed(i)
    /\ inits' = IF Last(i) THEN Without(inits, i) ELSE NextMarket(i)
    /\ UNCHANGED <<jobs, restarting, retries, pool, special, channels, ended>>

BitgetInitFails(i) ==
    /\ i = 1
    /\ BitgetRestarts(Without(inits, i))
    /\ UNCHANGED <<restarting, retries, ended>>

\* The venue refuses an instrument it does not list: its topic is forgotten.
DropRejectedTopic(i) ==
    /\ venue = "bitget" /\ Quiet
    /\ \E t \in pool[i].topics :
         /\ t.room \in Delisted
         /\ pool' = [pool EXCEPT ![i].topics = @ \ {t}]
    /\ UNCHANGED <<venue, role, roomVars, special, channels, lost, tickVars,
                   failVars>>

-----------------------------------------------------------------------------
(* KuCoin.                                                                  *)

KucoinFlush ==
    /\ venue = "kucoin" /\ ~ended /\ Holds("flush")
    /\ queue' = {}
    /\ jobs' = GoesOn("subscribe", queue)
    /\ UNCHANGED <<venue, role, rooms, timer, execute, poolVars, tickVars,
                   failVars>>

KucoinSubscribes ==
    /\ venue = "kucoin" /\ ~ended /\ Holds("subscribe")
    /\ LET c == NextOf(Head(jobs).data, Batch) IN
         /\ pool' = GetKucoinClient(pool, Cardinality(c), c)
         /\ jobs' = GoesOn("subscribe", Head(jobs).data \ c)
    /\ UNCHANGED <<venue, role, rooms, queue, timer, execute, special,
                   channels, lost, tickVars, failVars>>

\* A failed subscribe is logged; its rooms stay in the set.
KucoinSubscribeFails ==
    /\ venue = "kucoin" /\ ~ended /\ Holds("subscribe") /\ faults < MaxFaults
    /\ faults' = faults + 1
    /\ LET c == NextOf(Head(jobs).data, Batch) IN
         /\ pool' = GetKucoinClient(pool, Cardinality(c), {})
         /\ lost' = lost \cup c
         /\ jobs' = GoesOn("subscribe", Head(jobs).data \ c)
    /\ UNCHANGED <<venue, role, rooms, queue, timer, execute, special,
                   channels, tickVars, targeted, errors, ended>>

\* The socket errors of a process are counted and never forgotten.
KucoinError ==
    /\ venue = "kucoin" /\ Quiet /\ faults < MaxFaults
    /\ faults' = faults + 1
    /\ errors' = errors + 1
    /\ ended' = (errors' >= MaxErrors)
    /\ UNCHANGED <<venue, role, roomVars, poolVars, tickVars, targeted>>

KucoinInit(i) ==
    /\ tickers' = Subscribed(i)
    /\ inits' = IF Last(i) THEN Without(inits, i) ELSE NextMarket(i)
    /\ UNCHANGED <<jobs, restarting, retries, pool, special, channels, ended>>

\* Nobody catches: the rejection reaches the service, which rebuilds.
KucoinInitFails(i) ==
    /\ ended' = TRUE
    /\ UNCHANGED <<tickers, inits, jobs, restarting, retries, pool, special,
                   channels>>

-----------------------------------------------------------------------------
(* The init loops of the ticker side.                                       *)

InitStep(i) ==
    /\ Quiet
    /\ CASE Bybit            -> BybitInit(i)
         [] venue = "okx"    -> OkxInit(i)
         [] venue = "bitget" -> BitgetInit(i)
         [] venue = "kucoin" -> KucoinInit(i)
    /\ UNCHANGED <<venue, role, rooms, queue, timer, execute, lost, targeted,
                   errors, faults>>

InitFails(i) ==
    /\ Quiet /\ faults < MaxFaults
    /\ faults' = faults + 1
    /\ CASE Bybit            -> BybitInitFails(i)
         [] venue = "okx"    -> OkxInitFails(i)
         [] venue = "bitget" -> BitgetInitFails(i)
         [] venue = "kucoin" -> KucoinInitFails(i)
    /\ UNCHANGED <<venue, role, rooms, queue, timer, execute, lost, targeted,
                   errors>>

-----------------------------------------------------------------------------
(* The watchdog.                                                            *)

Carries(i) == pool[i].topics # {}
Delivers(i) == Carries(i) /\ ~pool[i].mute
FeedAlive == special # {} \/ \E i \in DOMAIN pool : Delivers(i)

\* The subscriptions of a socket die; the socket itself may go on answering.
GoesSilent(i) ==
    /\ venue # "binance" /\ Quiet /\ faults < MaxFaults
    /\ Delivers(i)
    /\ faults' = faults + 1
    /\ pool' = [pool EXCEPT ![i].mute = TRUE]
    /\ UNCHANGED <<venue, role, roomVars, special, channels, lost, tickVars,
                   targeted, errors, ended>>

\* noteCandleActivity
NoteActivity ==
    /\ Quiet /\ FeedAlive /\ targeted > 0
    /\ targeted' = 0
    /\ UNCHANGED <<venue, role, roomVars, poolVars, tickVars, errors, ended,
                   faults>>

\* The candles of the exchange have stopped after they had started.
FeedDied == /\ ~FeedAlive
            /\ lost # {} \/ \E i \in DOMAIN pool : pool[i].mute

\* handleStall of Bybit: the candle clients alone, with no guard.
BybitHandleStall ==
    /\ pool' = Recreated(pool)
    /\ ReconnectBybit
    /\ targeted' = targeted + 1
    /\ UNCHANGED ended

Throws ==
    /\ ended' = TRUE
    /\ UNCHANGED <<pool, jobs, targeted>>

\* Mutant: one targeted restart too many.
CandleStallOneMore ==
    /\ Quiet /\ role = "candle" /\ FeedDied
    /\ IF Bybit /\ targeted <= MaxTargeted THEN BybitHandleStall ELSE Throws
    /\ UNCHANGED <<venue, role, rooms, queue, timer, execute, special,
                   channels, lost, tickVars, errors, faults>>

CandleStall ==
    /\ Quiet /\ role = "candle" /\ FeedDied
    /\ IF Bybit /\ targeted < MaxTargeted THEN BybitHandleStall ELSE Throws
    /\ UNCHANGED <<venue, role, rooms, queue, timer, execute, special,
                   channels, lost, tickVars, errors, faults>>

\* A connect or a price stall: no venue of this module handles it in place.
TickerStall ==
    /\ Quiet /\ role = "price" /\ faults < MaxFaults
    /\ faults' = faults + 1
    /\ ended' = TRUE
    /\ UNCHANGED <<venue, role, roomVars, poolVars, tickVars, targeted, errors>>

\* findSilentClients: silent with enough topics, while a peer delivers.
Silent == {i \in DOMAIN pool : /\ pool[i].mute /\ pool[i].count >= MinSubs
                               /\ \E j \in DOMAIN pool : Delivers(j)}

\* recreateClient keeps the topics; noteClientData restores the budget.
RecreateClient(i) == [pool[i] EXCEPT !.mute = FALSE, !.tries = @ + 1]

AfterCheck(i) ==
    IF i \in Silent THEN RecreateClient(i)
    ELSE IF Delivers(i) THEN [pool[i] EXCEPT !.tries = 0] ELSE pool[i]

CheckClientStalls ==
    /\ venue = "bitget" /\ Quiet
    /\ \/ Silent # {}
       \/ \E i \in DOMAIN pool : Delivers(i) /\ pool[i].tries > 0
    /\ IF \E i \in Silent : pool[i].tries >= MaxTargeted
       THEN ended' = TRUE /\ UNCHANGED pool
       ELSE pool' = [i \in DOMAIN pool |-> AfterCheck(i)] /\ UNCHANGED ended
    /\ UNCHANGED <<venue, role, roomVars, special, channels, lost, tickVars,
                   targeted, errors, faults>>

-----------------------------------------------------------------------------

MutexStep ==
    \/ BinanceConnect \/ BinanceDials
    \/ BybitConnects
    \/ OkxConnect \/ OkxFlush \/ OkxSubscribes
    \/ BitgetConnect \/ BitgetFlush \/ BitgetSubscribes
    \/ KucoinFlush \/ KucoinSubscribes

WatchdogStep == CandleStall \/ CheckClientStalls

Exception ==
    \/ BinanceException \/ BybitException \/ OkxException \/ BitgetException
    \/ KucoinError \/ KucoinSubscribeFails \/ TickerStall
    \/ \E i \in DOMAIN inits : InitFails(i)
    \/ \E i \in DOMAIN pool : BinanceSocketDrops(i) \/ GoesSilent(i)

Next ==
    \/ \E r \in Rooms : Request(r)
    \/ MutexStep \/ TimerFires
    \/ BinanceSettled \/ BybitRetryTimer
    \/ \E i \in DOMAIN inits : InitStep(i)
    \/ \E i \in DOMAIN pool : DropRejectedTopic(i)
    \/ NoteActivity \/ WatchdogStep
    \/ Exception

Spec == Init /\ [][Next]_vars

\* Timers fire, the mutex is passed on, fetches are answered and the watchdog
\* runs; nothing is assumed of requests and failures.
FairSpec ==
    /\ Spec
    /\ WF_vars(MutexStep) /\ WF_vars(TimerFires)
    /\ WF_vars(BinanceSettled) /\ WF_vars(BybitRetryTimer)
    /\ WF_vars(\E i \in DOMAIN inits : InitStep(i))
    /\ WF_vars(WatchdogStep)

-----------------------------------------------------------------------------
(* Properties.                                                              *)

\* The state of a connector, with the counters in the ranges the bounds give.
TypeOK ==
    /\ venue \in Venues /\ role \in Roles
    /\ rooms \subseteq Topics /\ queue \subseteq Topics /\ lost \subseteq Topics
    /\ pool \in Seq([id : Nat, count : Nat, topics : SUBSET Topics,
                     mute : BOOLEAN, tries : 0..MaxTargeted])
    /\ special \subseteq Topics /\ channels \subseteq Rooms
    /\ timer \in BOOLEAN /\ execute \in BOOLEAN
    /\ jobs \in Seq([kind : {"connect", "flush", "subscribe"},
                     data : SUBSET Topics])
    /\ restarting \in BOOLEAN /\ ended \in BOOLEAN
    /\ inits \in Seq([market : Markets, cycle : BOOLEAN])
    /\ retries \in Nat /\ tickers \subseteq Markets
    /\ targeted \in 0..MaxTargeted
    /\ errors \in 0..MaxErrors /\ faults \in 0..MaxFaults

On(t) == {i \in DOMAIN pool : t \in pool[i].topics}
Served(t) == t \in special \/ On(t) # {}
Waits(kind) == \E j \in DOMAIN jobs : jobs[j].kind = kind
InJob(t) == \E j \in DOMAIN jobs : t \in jobs[j].data
Queued(t) == t \in queue /\ (timer \/ Waits("flush"))

\* Something the connector has set going will subscribe the room.
Coming(t) ==
    \/ InJob(t) \/ Queued(t)
    \/ venue = "binance" /\ (timer \/ Waits("connect"))
    \/ Bybit /\ restarting

\* Rooms known to stay dead: on a socket Binance dropped or in a subscribe
\* KuCoin failed (until the next dial or rebuild), or refused by the venue or
\* without a stream there (Bitget).
Abandoned(t) ==
    t \in lost \/ (venue = "bitget" /\ t.room \in Delisted \cup Streamless)

\* A room in the set is never asked for again: whatever restarts, failures
\* and requests meet, it is on a client of the pool, or on its way to one.
NoDeadRoom ==
    ~ended => \A t \in rooms : ~t.echo =>
        Served(t) \/ Coming(t) \/ Abandoned(t)

\* No client carries more than the venue's limit: a pool that takes whole
\* chunks while it is below the limit may pass it by all but one topic.
WithinMax ==
    \A i \in DOMAIN pool :
        LET n == Cardinality(pool[i].topics)
        IN  CASE venue = "binance" -> n <= Batch
              [] venue = "bitget"  -> n < Cap + Batch
              [] venue = "okx"     -> n < 2 * Cap
              [] OTHER             -> n <= Cap

\* Binance: a room streams on one socket only, though a restart may fall into
\* the seconds a dial takes and the dial goes on with the new client.
OneSocketPerRoom ==
    venue = "binance" => \A t \in rooms : Cardinality(On(t)) <= 1

\* Sockets the watchdog does not look at: silent while others deliver, where
\* the venue has no check per socket or the socket has too few topics for it.
Overlooked(i) ==
    /\ pool[i].mute /\ FeedAlive
    /\ ~(venue = "bitget" /\ i \in Silent)
Heard(t) == t \in special \/ \E i \in On(t) : Delivers(i)

\* Every room that is requested is heard of in the end, unless it is abandoned
\* or on an overlooked socket, or the connector gives up and is rebuilt.
RoomHeard ==
    \A r \in Rooms :
        Room(r) \in rooms ~>
            \/ Heard(Room(r)) \/ Abandoned(Room(r)) \/ ended
            \/ \E i \in On(Room(r)) : Overlooked(i)

\* A price worker ends up with every market subscribed, whatever fails while
\* it starts and restarts.
TickersReturn == <>[](role = "price" => tickers = Markets \/ ended)

\* Both: what a process asked for comes to be delivered.
FeedsReturn == RoomHeard /\ TickersReturn

=============================================================================
