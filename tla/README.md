# A verification project for the Gainium websocket connector

TLA+ specifications of the control logic of the connector, instances of them
for TLC, and proofs for TLAPS. `PROJECT.json` maps every definition that models
code to the lines it stands for; this file says what is modelled, what the
checks and the proofs show, and what is left. Paths are relative to the
repository.

The connector stands between exchanges and trading bots. Bots ask over RabbitMQ
for the *user stream* of an account or the *price streams* of symbols; the
connector keeps the exchange sockets behind them and republishes what arrives
on Redis. It runs as several processes: user-stream connectors, one Hyperliquid
balancer with its workers, and price connectors.

## 1. Inventory

Each entry: what it is and the state it keeps; what it does and with whom; what
is hard; what makes it correct.

**User-stream rooms** (`src/userStream.ts`, class `UserConnector`).
Rooms are account uuids. State: `users` (entry with `pending` and `close`),
`subscribersMap` (count), `subscribeMsgsMap` (the open to replay), the breaker
(`authCooldownUntil`, `authCooldownCredFp`, strikes), `authRetryTimers`, error
counters. Operations: `open stream`, `close stream`, `force restart stream`,
the error and auth handlers of each exchange client, the liveness guard and the
admin switch. Opens of one exchange family queue behind one `IdMutex` id; all
other handlers run between two awaits of an open. Hard: a close or an error in
the middle of an open; sleeping handlers that act on stale counts; retries and
deferred opens that come back later; one entry written by seven code paths.
Correct: a counted room has a client, a room has one client, the last close
stops it, a rejected key is not retried while its cooldown is in force, and the
family mutex is always given back.

**Hyperliquid fill park** (`src/utils/hyperliquidFillPark.ts`, spec 018).
State: the map of parked orders, their timers and attempts; the buffer of fills
in an `ExpirableMap`. Two independent channels feed it, `orderUpdates` (filled,
without a price) and `userFills` (the price). Hard: either may come first, late
or twice; a grace timer, the fills, an overflow, REST lookups and back-off race
to report one order. Correct: every park gets exactly one report, and does get
it; the limit price is reported only when nothing better is known.

**Cancel fill history** (same file, spec 020). Fills seen per order, so that a
cancel reports what was executed before it; lookups of missing ones. Hard:
a cancel overtaking its fills. Correct: a cancel never reports less than was
executed when the fills were seen.

**Hyperliquid balancer and workers** (`src/utils/hyperliquidBalancer.ts`,
worker mode of `src/userStream.ts`, spec 019). State of the balancer:
`assignments`, `refusedOpens`, `workerBoot`, `workerCap`, mirrored in Redis in
part; of a worker: the room state above and the keys `:hb`, `:boot`, `:cap`,
`:users`. Bots -> balancer (RabbitMQ) -> worker (request and reply over a
durable queue); worker -> Redis keys -> the balancer's tick. Hard: routing is
serialised, the tick is not; keys lag by a heartbeat; crashes on both sides.
Correct: no open is forgotten, a cap is never exceeded, a dead worker is
drained, what a worker holds is known, a closed account is not reopened.

**IdMutex** (`src/utils/mutex.ts`). Per-id queue of waiters, a held-lock timer,
`clear`. Hard: the timer that gives a lock away while its owner still runs.
Correct: mutual exclusion and first-in-first-out unless a timer fired.

**Hyperliquid user client and restart** (`src/utils/hyperliquidUserClient.ts`,
`scheduleHyperliquidRestart`). Socket and subscription per account, a restart
that is postponed and coalesced. Correct: one restart at a time, no restart of
a closed room.

**Hyperliquid IP rotation** (`src/utils/hyperliquidIpRotation.ts`,
`lateIpDetection.ts`). IPs with loads and penalties. Correct: loads equal the
accounts placed; late IPs only raise the cap.

**Kraken fills** (`krakenFillSettle.ts`, `krakenOpenOrders.ts`, handlers in
`userStream.ts`). Executions gathered per order until they settle. Correct: the
settled report contains each execution once.

**Price process** (`index.price.ts`, `src/priceConnector.ts`,
`src/price/service.ts`). A `Connector` keeps one worker thread per exchange
family, feeds it the candle rooms taken from a durable queue, and announces its
boot id so that the consumers ask for their rooms again; rooms live in memory
only. A fatal error stops the `Connector` and makes a new one in the same
process, or, at the fourth error that asks for a close, ends the process; a
thread rebuilds its connector in place the same way and is meant to exit when a
feed stays dead. State: `workers`, the
listeners on their threads, `bootId`, the beacon, `retry` and `lock` of the
handlers, the stalls counted per feed. Hard: what a stopped `Connector` leaves
behind; late exits; 403 sleeps; a boot message nobody hears. Correct: a thread
is owned by the entry of its family, a room asked for stays served, consumers
learn the boot, a thread whose feeds stay dead is replaced.

**Price connectors and watchdog** (`src/price/*.ts`). Per venue: the rooms
asked for, the debounced queue, a pool of clients with their subscription
counts, init loops and restart guards; a watchdog that looks for silence per
feed and, on Bitget, per client. Hard: a restart between two awaits of a
connect, a timer cleared and not set again, counts written before a subscribe
that fails. Correct: a room that was asked for is on a client or on its way to
one, no client is filled past its limit, no room streams twice.

**Exchange WebSocket clients** (`bybit-custom`, `okx-custom`,
`bitget-custom`). Forks of vendor SDKs the repository maintains. State per
connection: its state, the registered socket, the stored topics, ping, pong and
reconnect timers, the login flag. Hard: handlers know the connection, not the
socket, so that a late event of an old socket acts on its successor; three
sources of reconnects race each other and the close of the caller. Correct: a
connection with topics is never stranded, has one socket, requests its topics
again after each drop, and stays closed once it was closed.

**RabbitMQ client, Redis client, admin config** (`src/utils/rabbit.ts`,
`redis.ts`, `adminConfig.ts`). Reconnecting singletons, reply queues with
timeouts, polling of enabled exchanges. Correct: a reconnect restores listeners
once; each request gets one answer or a timeout.

**Binance WebSocket API stream, paper socket** (`src/binance-custom`,
`paperTradingWS.ts`). Correct: no resubscription after a stop.

**Not behaviour to model**: converters and symbol tables (pure, unit tested),
logging, redaction, health endpoint, command-line tools, the
entry point of the user streams.

## 2. Modules

| Module | Models | Instance |
|---|---|---|
| `UserRooms` | life of the rooms of one exchange family | `MCUserRooms` |
| `FillPark` | the fill park and its two feeding handlers | `MCFillPark` |
| `EmitOnce` | abstract promise of the fill park, implemented by `FillPark` | - |
| `HlBalancer` | balancer, workers, their Redis keys and queues | `MCHlBalancer` |
| `WsClients` | the three exchange WebSocket clients, with their mutexes | `MCWsClients` |
| `CandlePools` | price connector of one of five venues: rooms, pools, watchdog | `MCCandlePools` |
| `HlCandles` | price connector of Hyperliquid: rooms, subscribe loops, restarts | `MCHlCandles` |
| `PriceWorkers` | price process: connectors, threads, boot, admin switch | `MCPriceWorkers` |
| `*_proof` | theorems about the module of that name | - |
| `LeastElement` | least elements of sets of numbers, which the proofs use where they would need induction | - |

### 2.1 UserRooms

One action is the code between two awaits. `OpenStream` puts a request in
`opens`, the queue of the family mutex; `opening` is the open that holds it.
From the grant the open goes through exactly one of `SkipOpen` (exchange
disabled or cooldown), `DeferOpen` (entry pending: a 500 ms timer),
`JoinRoom` (already counted), `RejectLegacy`, `ThrowInBranch` or `Connect`;
then `Connected` or `FailOpen` (refused or timed out), then `FinishOpen` after
the pacing sleep. `CloseStream` runs `closeStreamCallback` whole. The client's
events are `TripBreaker`, `TripTransport`, `AuthWatchdog`, `AccountEvent`,
`DropRejected`, `ForgetRejected`, `ClientError`, `ErrorLimitReached` and, after
that handler's 5 s sleep, `EndRebuild`. Timers: `CooldownLapses`, `SelfHeal`,
`RetryDeferred`. Operators: `ForceRestart` with its settle and its loop,
`ForceResubscribe`, `DisableExchange`, `EnableExchange`.

The seven branches of `openStreamCallback` share this skeleton and differ in
nine choices; each branch is one record (`BinanceBranch`, ... `KrakenBranch`)
and `branch` holds the family's. `limit` is 0 where the rebuild threshold is
never reached: Bybit, OKX, Coinbase and Bitget count errors under a key made of
the message and read the count under the room id.

`wanted` is a ghost: opens minus closes the callers sent.

Simplifications. A client raises events only while it is up; one sleeping
handler per client; `stopMethod` is synchronous and does not throw; one hit
below the auth threshold leaves the room alone and is not a step; 500 ms and
5 s timers fire in any order; restarts name a uuid; three client names, and a
`Connect` that finds none free waits (three suffice for a live client, a
sleeping handler's and the one being opened). The Hyperliquid and paper
branches are not in this module.

### 2.2 FillPark and EmitOnce

`park` says where an order stands on the ladder: free, waiting out its grace
window, at lookup n, in back-off n. `ReportFilled` is the handler of a FILLED
update that finds fills in the buffer, `RefreshParked` and `Park` the two ways
`park()` goes (the second evicts at the cap), `LiveFills` and `SnapshotFills`
what `userFills` does, per fill in the order of the code's loop,
`FillsExpire` the buffer's expiry. `GraceExpires`, `LookupFinds`,
`LookupFails`, `LookupsSpent` and `BackoffEnds` are `resolve()` from one await
to the next. Fills are numbers; prices, sizes and fees follow from the set of
fills in a report, so `report` records which fills it was made of.

`EmitOnce` is the promise: a parked order is owed one report, and receives it
once. `Promise == INSTANCE EmitOnce WITH owed <- parked orders` is the
refinement; the run checks it with fairness, the theorem without.

Simplifications. REST lookups settle; building and emitting an event does not
throw; the reports a batch makes directly are relayed after the batch. A
process restart loses the parked orders (the code has nothing to recover them
from) and is not a step.

### 2.3 HlBalancer

Bots `Open` and `Close` and, when asked (`reopen`), `Resend`. Opens queue for
the route mutex; `RouteOpen`, `Ask`, `RouteAccepted`, `RouteRefused` and
`KeepRefused` are `routeOpen` from await to await, `RouteClose` is
`routeClose`. A tick is `TickStarts`, one `LookDead` or `LookAlive` per
worker, `TickEnds`, which starts a pass over the refused opens; `RetryNext`
takes the next of them to the mutex. The worker: `WorkerHandlesOpen` (the
pre-check and reply), `WorkerOpens` (its turn behind its own mutex, with the
second cap check), `WorkerHandlesClose`, `WorkerPublishes`, `CapRises`,
`WorkerCrashes`, `WorkerBoots`, `KeysExpire`. `BalancerRestarts`,
`InitReconciles` and `InitEnds` are a restart and its `init`.

Simplifications. Redis awaits inside a selection, a reconcile or a drain are
one step. Workers are looked at in their configured order. A request times out
only when its worker is down and its keys have expired (the 5 minutes of the
RPC against the 90 s of the keys). RabbitMQ delivers; a worker's queue is
durable and survives its crash; requests the balancer had not acknowledged are
delivered again after its restart. The tie-break by `selectionCounter` is a
free choice. `BootKeys` is the set of workers whose boot epoch is in Redis:
`{}` is what the program itself produces (finding 1 below), `{w1}` what the
tests of the retry set up, and an epoch left by an earlier version.
A worker keeps its boot epoch for good. `force restart stream` routing and the
worker's error handlers (they are in `UserRooms`) are left out.

### 2.4 WsClients

`kind` says which client all connections belong to. A connection is its entry
of the store (`conn`: state, registered socket, timers, login flag), its stored
topics and the sockets dialled for it; `sent` and `login` say what was
requested and asked on a socket; `stray` is the entry that an error of an OKX
batch connection creates in the store of the ordinary ones, where the error and
close of all look for its state (`NotesStray`, `BatchCloseAll`). `Subscribe`
and `CloseAll` are the caller; `BybitConnect`, `OkxConnect` and `BitgetConnect`
are `connect` from its guard to the dial, with `BybitDials`, `BybitWakes`,
`OkxDials`, `OkxRegisters` where a mutex, a sleep or a promise lies between.
`OnWsOpen`, `OnWsAuthenticated`, `OnWsMessage`, `OnWsError` and `OnWsClose` are
the handlers of a socket, with one definition per client where they differ;
`Ping`, `PongTimeout` and `ReconnectTimer` the timers; `OkxRequests`,
`BitgetRequests` the subscribe batches whose turn has come. `SocketFails` is
the network. `Refused`, `Prompt` and `Quiet` order the steps as the event loop
does: the error and close of a refused dial come first, then what a mutex
granted, then the end of an open socket, then the rest. `retired` is a ghost:
the connections the caller closed.

All six invariants of the run are proved (section 5). `OneSocket` says that
topics arrive over one socket. Bitget never dials a second; Bybit may
(`bug_dials`), but asks for topics on the registered one only.

Simplifications. Every connection stands for one client object; the 500 ms
poll of `lock` is left out; topics are opaque; a batch is one message. The
properties name the clients they hold for; TLC refutes the others, and this is
why. OKX registers its socket 500 ms after it dialled it: in that window a
topic, a close or a second connect meets no socket (`StoredIsRequested`,
`OneSocket`, `ClosedStaysClosed`, `Recovers`). A connect of Bybit that waits
for the module-wide mutex dials after its connection was closed
(`ClosedStaysClosed`). Bitget sets `isAuthenticated` and never resets it, so a
private topic may go out on the next socket before its login
(`PrivateAfterLogin`), and a login answered after the close dials anew
(`ClosedStaysClosed`, private connections).

### 2.5 CandlePools

`venue` and `role` are chosen at the start. `rooms` is the set asked for,
`pool` the clients with their counts, `queue` and `timer` the debounce, `jobs`
the calls on the connect mutex, whose head runs from await to await;
`restarting`, `inits`, `retries` and `tickers` are the ticker side, of which
the order of markets and the failures of a loop are kept. `Request` is
`subscribeCandleCb`; per venue there are a connect (`BinanceConnect` and
`BinanceDials`, `BybitConnects`, `OkxConnect` to `OkxSubscribes`,
`BitgetConnect` to `BitgetSubscribes`, `KucoinFlush` and `KucoinSubscribes`),
a restart (`...Exception`, `...Restarts`) and the end or the failure of an
init. `GoesSilent`, `BinanceSocketDrops` and `DropRejectedTopic` are the venue;
`CandleStall`, `TickerStall` and `CheckClientStalls` the watchdog, which in
the candle role may restart in place, recreate one client, or throw. Then
`ended` holds: the thread above rebuilds the connector, which is
`PriceWorkers`.

Bitget's Reality and inverse symbols are served by v3 sockets (`Special`); a
room of theirs whose interval v3 has no stream for (`Streamless`) is left to the
REST back-fill, and the properties do not ask for it.

Simplifications. A feed that goes silent has delivered to the connector of the
instance: the watchdog judges candles only then, and what follows when it has
not is shown by `PriceWorkers`. One market: the markets of a venue share neither
rooms nor pools, except for Bybit's client ids (section 4). Rooms carry no time. A throw
ends the instance. Left out: the timers and the queue listener a connector's
own `stop()` leaves, OKX clients whose batch fails, OKX's EU perpetuals, the
subscription counts of ticker pools, KuCoin's token fetch and the branch of
its `stop` that clears the wrong list, a failing init of Bybit in the candle
role, and Coinbase and Kraken; Hyperliquid is the next module.

### 2.6 PriceWorkers

The role of the price process that carries both kinds of feeds. `connectors`
holds every `Connector` made, by its boot id, since stopped ones keep
listening; each has a slot per family: the threads started and the entry of
`workers`. A thread is running, dying or gone, listened to or not, holds the
rooms of its present connector (`live`) and those the stopped ones took
(`stray`), and counts stalls per feed, which is a kind (ticker or candles) of a
market. `bad` are the feeds no rebuild revives, and `stopped` those of them
that had delivered to the present connector when they died. The difference
matters: a rebuilt connector starts with `lastData` and `lastDataTrade` at 0
and the watchdog judges a feed only above 0, except when no ticker of any
market came at all. `Watched` is that judgement, so a dead feed whose connector
was rebuilt is not seen unless all tickers are dead. `AdminSaves`, `Refresh`,
`ApplyRead` and `ReadFails` are the admin config with several reads in flight;
a read that fails answers nothing, which becomes the cache and enables
everything until the next one; `MainStarts`, `FatalError`, `Got403`, `Wakes`
and `Restarts` the process; `AnnounceBoot`, `Beacon` and `TakesRequest` what
passes between process and consumers; `ThreadExits`, `Crash`, `ThreadError`,
`ThreadWakes`, `FeedDies`, `Stall` and `Data` the threads. `loss` is a ghost: a
thread, a room or a request was lost since the consumer last acted on a boot
id, other than by a rebuild that keeps its rooms.

Simplifications. One room per exchange variant; the roles that carry one kind of
feed start the same workers and are left out. A dead feed of Kraken's is a dead
socket (its `isFeedAlive` counts a connected one as alive); Bitget's check of
single sockets is in `CandlePools`. A stall here is one the connector did not
answer with a targeted restart. `retry` may start over at any
error, since the last one may lie more than a minute back. Connectors outside
`Shared` forget their rooms when a thread rebuilds; that of a family is a
constant of the code. `Hears` is the consumer, which is not in this
repository: it acts once on each boot id (`CHANGELOG.md`, lines 307-308).

### 2.7 HlCandles

The connector of Hyperliquid differs from the others: its sockets reconnect by
themselves, and rooms are subscribed one request at a time by loops that
outlive the socket they were started for. `rooms`, `queue`, `timer`, `jobs` and
`pool` are as above; of a client, `items` are the rooms it replays after a
reopen, `subs` those the venue has, `once` is `connectedOnce`, and `live` says
that the reconnect hook still holds the object the pool has. A record in
`loops` is one run of `connectHyperliquidCandleStreams` ("flush") or of
`resubscribeEntry` ("resub"): the client it works on (0 once a restart has
replaced it), the rooms of its chunk still to ask for, those of later chunks,
the one it waits for and those that failed. `NextChunk`, `Subscribes`,
`Answered`, `Refused` and `LoopEnds` are its steps; `SocketCloses` rejects the
request that waits, `SocketOpens` starts a resub. `Restart` replaces every
client and queues all rooms again. `ticker` is the subscription to all mids;
data of it gives the targeted restarts back (`TickerActivity`), in a candle
worker too, where a restart subscribes it (`bug_hl_budget`).

`dropped` is a ghost. When the socket closes under a connect loop, the loop
breaks off and the rest of its chunk is neither replayed nor retried; and the
first open replays nothing, so a room that was asked for before it is left as
well. `RoomKept` and `FeedsReturn` leave these rooms out, and `bug_hl_chunk`
shows them.

`RoomKept` is also proved, for every size (section 5).

Simplifications. Rooms of perpetuals only in the run (with spot twins
`RoomKept` fails, `bug_hl_twins`). The order of the queue, and with it which
rooms make a chunk, is left open. The stall check waits until nothing is under
way (`UnderWay`): its 75 seconds are longer than a debounce and the first
request of a loop, though not longer than a retry or a pending restart, which
it may overtake. A request for the ticker settles before the next restart.
Left out: the delays of a redial, single builder dexes, the refresh of the
symbol tables, the role that runs both kinds of feeds, and `stop()`.

## 3. Runs

| Run | Question | Bounds |
|---|---|---|
| `rooms_families` | Is a counted room served, forced restarts included? | Binance, Bybit, Bitget, Kraken; 1 room, 1 credential, 3 clients, 3 requests, 1 restart; 758,263 states |
| `rooms_patient` | With callers that wait for an open before they close: has a pending entry an owner, with guard and switch too, and, where the operator sends nothing, have retries owners and do rebuilds multiply subscribers? | Binance (one key legacy) and Kucoin with threshold 2, OKX, Coinbase; 2 credentials, 3 requests, 1 operator action; 2,413,462 states |
| `park` | One report per park, always; cap, no fills waiting | 3 orders, cap 1, 2 lookups, 3 updates, 1 replay; fairness |
| `balancer_routing` | No open forgotten, caps kept, one retry at a time | 3 accounts, 2 workers of 1 place, 3 opens, 1 rise of a cap, symmetry |
| `balancer_repair` | Crash and restart: drained, adopted; does a refused open get its turn? | 1 account, 1 worker, 1 crash, 1 restart; fairness |
| `ws_clients` | Is nothing with topics stranded, doubled or reopened, and does it come back? | the three clients, 1 public and 1 private connection, 2 topics, 4 sockets, 2 calls, 2 failures; 862,048 states; fairness |
| `candle_pools` | Is every room asked for on a client or on its way, once, within the limit, and heard again? | five venues, both roles, 3 rooms, limit and chunk 2, 2 markets, 2 failures, 1 targeted restart; 130,085 states; fairness |
| `hl_candles` | Is every room asked for on Hyperliquid streaming or on its way, and do candles and ticker come back? | both roles, 2 rooms and 1 unknown one, limit 2, 2 clients, 2 failures, 1 targeted restart; 157,214 states; fairness |
| `price_workers` | Are threads owned, rooms kept, boots learnt, the switch obeyed, threads with dead tickers replaced? | 1 family, 1 variant, 2 feeds, exit at stall 3 and retry 2, 1 change, 2 failures; 153,000 states; fairness |
| `bug_park`, `bug_boot`, `bug_candle` | The findings of section 4 | the least that shows each |

Why the bounds are enough. Rooms of a family touch each other through the mutex
queue alone, so one room with several requests shows every race of a room; what
a second room adds is a longer wait. Two credentials are what a fingerprint can
tell apart: the one that armed the breaker and another; in `rooms_families`
there is one, for time (a cooldown then ends by lapsing only; the theorem
`CountedIsServed` has any number). Kraken's branch in `rooms_patient`
(3,034,121 states) holds too, and is left out for time. Three requests give a
room with two subscribers and one more open on its way. Three orders against a
cap of one give an eviction while an earlier victim still resolves, which is
the case the code's comment names; two lookups give a first, a last and a
back-off between. Two workers of one place and three accounts give both a
choice and a refusal; in `balancer_repair` an open is refused while its only
worker is down. Two connections show what they share, the mutexes; four sockets
leave a late one of each connection besides its current one, and two failures a
failed reconnect after a drop. Three rooms against a limit and a chunk of two
fill one client and start another; two failures put an exception into the
connect that the first one caused. In `hl_candles` they drop a socket twice,
the second time in the loop that the first one started, and the unknown room
fills a client that does not stream it; its three properties were also checked
once with three known rooms (0.4 million states). In `price_workers` the second
of two failures meets the handling of the first, with three stalls to an exit,
so that one is counted for a connector that had data, one for a connector that
never had, and one exits; its properties were also checked once with two
variants in one family and no change of the switch (220,757 states). Bitget's
streamless rooms have a configuration run by hand, `pools_bitget` (Bitget
alone, 4 rooms, the properties of `candle_pools`, 48,616 states). Symmetry is
used only for names that no code orders, and never in a run with a liveness
property. `CHECK_DEADLOCK FALSE` stands where a bounded number of requests ends
all activity; the balancer's tick never stops, so its runs check deadlock.

**Which branches a run takes.** `CountedRoomIsServed` is false for OKX and
Coinbase (their stop errors drop entry and client and keep the count), with the
liveness guard (it restores the count even if its open failed) and with the
admin switch (it drops streams and keeps counts). These exposures are listed as
hazards at their lines; `rooms_families` checks the property where the code
keeps client and count together. `RetryHasOwner` and `NoExtraSubscribers` speak
of histories without guard and forced restart (`Untouched`), the switch
included; `PendingIsOwned` holds with all of them, but not for Kucoin, which
may throw before its `try`.

**Hazards without a property.** Eleven of the list have none, and say why at their
entry. Most are refuted by an experiment of section 4, so that no true property
covers them: a close in the middle of an open, the counts of OKX and Coinbase,
Kucoin's throw, the retry that opens a closed account, listeners and rooms a
stopped `Connector` leaves (a room handed to a thread that crashes is `loss`,
which `AskedIsServed` leaves out). Two are behind a single guard of a single
step, which a property could only repeat: the gate of the breaker (`PassGate`)
and the last look at the fills before the limit price (`LookupsSpent`). That
the mutex is given back rests on two timers and is the fairness itself.
`RefusedIsRetried` has one account in its run and shows that the guard of the
pass is released; that the opens behind a refused one get their turn is
`balancer_retry`.

**Fairness.** `UserRooms` has no liveness property and no fairness. `FillPark`:
grace and back-off timers fire and the REST client settles; its HTTP client has
no timeout configured, so the last is an assumption. `HlBalancer`: the
balancer's own steps, the tick (an interval), a live worker's handling, opening
and publishing, and the expiry of keys. Nothing obliges bots to act, caps to
rise or a worker to boot again. `WsClients`: reconnect timers fire, whoever
waits for a mutex or a turn gets it (each holder gives it back after a bounded
wait), and the network answers a dial or a login in some way; pings need no
fairness, since a silent socket is not claimed to be noticed. `CandlePools`:
debounce, retry and guard timers fire, the mutex is passed on, the requests of
an init loop are answered and the watchdog, an interval, looks. `HlCandles`:
the same, and the library dials until a socket opens. `PriceWorkers`: the
refresh interval, the reads, `main`, the end of a sleep, the end of a thread,
the watchdog, the queue, Redis' answer to an announcement, and the beacon of
the `Connector` the process has. In none of them anything is assumed of
operators, venues or failures.

## 4. Findings

1. `bug_boot`: the worker writes its boot epoch before its Redis client exists,
   so no epoch is ever stored; the balancer then neither drains dead workers
   nor reconciles.
2. `bug_park`: the first of several fills in one message wakes the order, which
   is reported without the others.
3. `bug_candle`: `CountedFeedIsRescued` ("After `STALL_EXIT_THRESHOLD` stalls of
   the same feed with no data in between, the worker exits",
   `src/price/stallEscalation.ts:8-10`). A stall rebuilds the connector, whose
   `lastData` and `lastDataTrade` start at 0, and the watchdog judges a market's
   ticker (`common.ts:352`) and candles (`common.ts:370-376`) only above 0. A
   candle feed that no rebuild revives, or one dead ticker beside a live one, is
   counted once and never again; the thread is not replaced.
   `DeadTickersGetFreshThread` is what does hold: with every ticker of the
   thread dead, the check on the connect time counts on.

**Further experiments.** Each configuration below states what a comment, a
specification or the change log says, and TLC refutes it; they are kept beside
the runs for whoever changes that code. Run them by hand:
`tlc -config <name>.cfg <module>`.

| Configuration | Module | Refuted, and how |
|---|---|---|
| `bug_orphan` | `MCUserRooms` | `NoOrphanStream`: a close that arrives while its open is connecting finds no count and is lost; the stream that comes up is never closed |
| `bug_two_clients` | `MCUserRooms` | `OneClientPerRoom`: after its 5 s sleep an error handler drops whatever count it finds and opens again, over a client opened meanwhile |
| `bug_closed` | `MCHlBalancer` | `ClosedStaysClosed` (spec 019, 4.3): the retry of a refused open looks whether it is wanted before it waits for the mutex and not after, and opens a closed account |
| `bug_limit` | `MCFillPark` | `LateFillsWin` ("late-arriving fills always win on price", `CHANGELOG.md:335`): a replayed FILLED update parks an order again that its fills have answered; no fills come a second time, and when the lookups fail it is reported once more, at the limit price |
| `bug_ws` | `MCWsClients` | `NeverStranded` ("automatically be resubscribed", `bitget-custom/BaseWSClient.ts:122`): after a failed first dial the state stays CONNECTING and the reconnect refuses itself, in the OKX and Bitget clients |
| `bug_dials` | `MCWsClients` | `OneDial` ("connection attempt already active", `bybit-custom/BaseWSClient.ts:565`): two subscribes queue two connects behind the mutex another client holds; the error of the first dial frees the mutex and its close sets RECONNECTING, which `connect` does not refuse, so the queued connect and the reconnect timer both dial |
| `bug_two_workers` | `MCPriceWorkers` | `OneWorkerPerFamily` (`src/priceConnector.ts:90`): a stopped `Connector` keeps the exit listener that starts a thread, so two run the same family |
| `bug_refed` | `MCPriceWorkers` | `WorkersAreRefed` (`src/priceConnector.ts:311`): a thread that replaces a crashed one is not fed until the next boot id |
| `bug_hl_chunk` | `MCHlCandles` | `NoRoomLeftBehind` ("the onopen reconnect hook will re-queue it", `src/price/hyperliquid.ts:853`): the rooms of a chunk behind the one whose request the close rejected are in no list, and what was asked for before the first open is not replayed by it; only a full restart asks for them again |
| `bug_hl_twins` | `MCHlCandles` | `RoomKept` with spot rooms: the queue and the items of a client are keyed by coin and interval, so of a spot room and its perpetual one is lost in the same debounce and in every replay |
| `bug_hl_count` | `MCHlCandles` | `WithinMax` (`maxCandlesPerConnection`): a reopen sets the count of a client to 0 and counts up as it subscribes, half a second per room; a connect in between takes the client for empty |
| `bug_hl_budget` | `MCHlCandles` | `BudgetIsKept` ("still escalates to the full-worker restart after maxTargetedRestarts", `src/price/hyperliquid.ts:651-653`): a restart subscribes the ticker in candle workers too, and its data clears the count of targeted restarts, so silent candles may be restarted without end |
| `bug_beacons` | `MCPriceWorkers` | `BeaconsDoNotStack` (`CHANGELOG.md:308`): Redis' answer may outlast the `Connector`, whose beacon then starts after `stop()` |

`balancer_retry` is `RefusedIsRetried` with two accounts that compete for one
place; `pools_bitget` is `candle_pools` for Bitget with streamless rooms. Both
pass.

Seen in the models, without a configuration of their own:

- a close in the 250 ms settle of a forced restart is lost;
- a full restart of Hyperliquid waits up to five minutes, while the stall check
  comes back after 75 seconds and counts a coalesced restart as another attempt:
  the connector may give up before the restart it waits for (`Escalate`);
- a transport breaker that trips after a credential breaker healed finds the
  fingerprint of the old key still stored (`SelfHeal` drops the cooldown only,
  `userStream.ts:1650`; `armTransportCooldown` writes none), so a room that is
  down for its transport may let an open with another key through at once;
- Kucoin's symbol request throws outside its `try` and leaves the entry pending
  for good;
- with two bots on an account the first close deletes the assignment the second
  still needs; a worker's second cap check may drop an open it has accepted;
- a new client of Bybit's futures pools takes the length of the *spot* pool as
  its id, two clients share an id, and each takes the count of the other, so
  that one may be filled past its limit (`NewBybitId`; with `Venues =
  {"bybitFutures"}`, `Cap = 3` and nine rooms TLC refutes `WithinMax`);
- Binance's SDK answers the drop of a socket with streams in its URL by dialling
  one without them: the rooms stay silent while other sockets deliver
  (`BinanceSocketDrops`; `lost` holds them);
- OKX stores a second name for each room it connects and subscribes it when the
  rooms are replayed (`Echo`);
- a parked fill, a kept open and a candle room live in memory only and do not
  survive a restart of their process; the first two are lost, the third is
  asked for again.

## 5. Proofs

`UserRooms_proof`, for every set of rooms, credentials and clients and for
every branch:

- `TypeCorrect`. Typing alone is not inductive: `restart` counts down the opens
  of a restart, and a return marked `restart` must meet a restart that waits
  for it. `RestartOwnsItsOpen` adds that: at most one such open is queued or in
  flight, and only while `restart.step = "awaiting"`.
- `PendingOwned`, for branches that cannot throw before their `try`. The
  invariant is inductive with the typing: only `Connect` writes a pending entry
  and it takes the mutex in the same step; all else removes pending entries, or
  saves them as not pending before `opening` is let go.
- `CountedIsServed`, without guard and admin switch and for branches that do not
  drop entry and client on a rejection, forced restarts included; with each of
  the three excluded cases TLC refutes it. The property speaks of three places
  where the client of a counted room may be: its entry, the open that paces, the
  handler that sleeps. `Served` says which one it is (`Serving`: while the open
  of a room paces, the client it opened, else the registered one), and
  `ClientsMatch` that entries and the open in flight name clients of their own
  room, and that an open that connects has found no subscribers. Without the
  latter a failing open could take the client of a room that counts.
  `NoGuards` carries the exclusion through the queue.
- `SubscribersNeverMultiply` and `RetriesHaveOwners`, under `PatientSpec`. The
  invariant `ExtraInv` bounds by `wanted` what a room asks for (`Asked`): counted
  subscribers, opens in the queue, deferrals, the open that connects, and the
  subscribers a kept retry stands for, of which there is at least one. Each
  action moves subscribers between these places; the lemmas on `Queued` say
  what appending to the queue and taking its head do to the number of a room's
  opens. Guard and restart send opens of their own, and TLC refutes both
  properties with either: they speak of histories without either (`Untouched`),
  and so does the invariant; a step never makes a touched history untouched, so
  the hypothesis held before the step as well.

`FillPark_proof`, for every number of orders, fills, lookups and every cap:

- `ParkTypeCorrect`, `FillsNeverWait`. The invariant is the typing of the
  ladder and `WaitingHasNoFills`, inductive together.
- `CapOnWaiting`. `WaitingBounded` holds because `park` evicts the oldest
  waiting order, so the proof has to show that one exists. `Counted` adds to
  the invariant that the parked orders are finitely many and `before` orders
  them; the oldest is the one with the fewest waiting orders before it
  (`LeastElement`), and without it the set keeps its size when one parks.
- `ParkEmitsOnce`: `FillPark` implements `EmitOnce!Spec`. Each step answers one
  order, parks one, or stutters. The case that needs the invariant is the
  overflow: the evicted order starts its ladder in the same step that parks
  another, and would be answered there if it had fills; it has none.

`HlBalancer_proof`, for every set of accounts and workers and every bound:

- `BalancerTypeCorrect`, `OnePassAtATime`, `CapHolds`, from one invariant in
  four parts: types; a retry in the queue or at the mutex belongs to a busy
  pass (`RetryInv`); a request whose answer is awaited belongs to the open that
  holds the mutex (`AskInv`); a worker counts only accounts it holds, and no
  more of them than its cap (`CapInv`).
- `NothingForgotten` (`NoOpenForgotten`) with one bot per account, no boot epochs
  and no restart of the balancer (`Lone`); workers may crash, boot and time out,
  which the run does not even try. TLC refutes it without any one of the three:
  the first of two closes takes the assignment the second bot needs; a reconcile
  drops an account that the second cap check had dropped; a restart forgets the
  kept opens. `NoOpenForgotten` alone is not inductive. `SureInv` says that the
  balancer itself has the open, that an open sent to a worker is assigned for the
  time being (so an accepted one may be taken off the kept ones), and that behind
  each queued close of an account that is wanted again there is its open
  (`Reopened`), so the close may take the assignment.

`WsClients_proof`, for every set of connections, topics and sockets, every
bound and every client:

- `WsTypeCorrect`: types with `Shape`, which ties each socket to the connection
  that dialled it and each client to its own queues.
- `NobodyStrands` (`ReconnectsForEver`): a connection in use is idle, has a
  socket that is dialled or open or about to close, a reconnect timer, or a place
  behind the mutex (`Reach`). For Bybit this holds whenever it has topics, and
  the state CONNECTING implies a live socket; for the others only in the states
  the property names, since a failed first dial of theirs does strand (`bug_ws`).
- `NoTopicIsForgotten` (`StoredIsRequested`): on the registered open socket each
  stored topic was requested or will be, and a private one is logged in or about
  to be (`Covered`).
- `NoDialAfterClose` (`ClosedStaysClosed`) for Bitget: all sockets of a
  connection are the registered one, its timer runs only when that is gone, and
  a closed one is not dialled (`Single`).
- `PrivateTopicsWait` (`PrivateAfterLogin`) and `OneCarries` (`OneSocket`) for
  Bybit: `Guarded` says that what was asked was asked on the registered socket,
  and that a connection counts as authenticated by that socket or by one whose
  close is about to reset the flag. The stronger "one socket in use" is what was
  first tried; it is not invariant (`bug_dials`). `OneCarries` for Bitget follows
  from `Single`.

`CandlePools_proof`, for every set of rooms, every limit, chunk and number of
markets, every venue and both roles:

- `PoolsTypeCorrect`: types with `Shape` (a price worker asks for nothing, only
  OKX stores second names, a symbol on a list of Bitget's v3 sockets is
  subscribed there).
- `NoRoomDies` (`NoDeadRoom`): a room asked for is on a client, in a call, queued
  with its timer or a flush, behind a restart, or among the rooms the module says
  are lost (`Safe`). Each action is shown to move a topic from one of these
  places only into another, and `Safe` holds after the connector gave up as well.
- `NeverOverfilled` (`WithinMax`) for all venues but `bybitFutures`, whose shared
  client ids refute it (section 4): each client has its place in the pool for id,
  carries at most what it counts, and counts no more than the limit (`Counted`).
  The picks of all pools meet in one lemma (`PutsCounted`); it needs the ids,
  since a pick writes back to every client that has the id of the one it chose.
- `OneSocketOnly` (`OneSocketPerRoom`, which is about Binance): the sockets are
  pairwise disjoint, at most one call dials, and what it has still to dial is on
  no socket (`Dialled`).

`PriceWorkers_proof`, for every set of families, variants and feeds and every
bound:

- `WorkersTypeCorrect`, `ThreadsAreOwned`. The invariant `Inv` is the typing
  and `SlotOK` of every slot; it is inductive because each operation of a slot
  (`InitWorker`, `TerminateFamily`, `ReconcileSlot`, `StopSlot`, `ExitSlot`)
  keeps `SlotOK`, which one lemma per operation shows, and no action touches a
  slot otherwise.
- `AskedStaysServed`. On top of `Inv`: an action that does not set `loss` keeps
  every running thread running with at least the rooms it had, or answers by
  asking again; one lemma per operation says so for its slot. Removing a room
  from `requests` is the case where it is handed to a thread, or `loss` is set.

`HlCandles_proof`, for every set of rooms, every number of clients and every
bound:

- `HlTypeCorrect`. Typing goes with `Shape`: only a connect loop takes chunks,
  a loop of `resubscribeEntry` runs on a client that opened before, and only a
  client that opened has answers or subscriptions.
- `RoomsKept`: no room of the set is lost, when no coin is asked for as a spot
  and as a perpetual room (`NoTwins`; without it `bug_hl_twins` refutes the
  property). `RoomKept` is not inductive: a room that a loop of a replaced
  client waits for is on its way, and is not any more when that request is
  rejected. `AllSecured` names what really keeps a room: a restart, its job, the
  queue with a timer or a connect that has not begun, a retry; a loop, for its
  later and failed rooms, and for the others while its client is there; or the
  items of a client that opened before and will replay them. Each action takes
  a room from one of these only to put it into another, or into `dropped`.

Those of `PriceWorkers` need `RetryCount > 1` (the code has 4): with 1 the
counter, set to 1 by the first error, would pass its limit without being
compared.

All rest on the named assumptions of the modules, which TLC evaluates in every
run: finite sets of accounts, workers, rooms and topics, rooms to keep and
unknown rooms among the rooms, markers outside the data they stand for, positive
caps, chunks, thresholds and lookups.

Only model-checked: liveness (`EmitsAtLast` with its
fairness, `RefusedIsRetried`, `SeenDeadIsDrained`, `HeldIsAssigned`,
`Recovers`, `FeedsReturn`, `WorkersMatchConfig`,
`BootIsLearnt`, `DeadTickersGetFreshThread`), since the prover handles neither
fairness nor `ENABLED`. Every safety invariant and every action property of the
passing runs is stated by a theorem.

## 6. Not modelled

- `IdMutex` as such: its queue is in every module that waits for it. The
  held-lock timer, `limit` and `clear` have no caller in this repository.
- The cancel fill history (spec 020), the settling of Kraken fills and the
  Hyperliquid user client, its restarts and IP rotation: control logic of their
  own, next in the plan.
- The reconnects of the RabbitMQ and Redis clients: single requests and
  commands are atomic in the models, or may be lost and late where a model says
  so.
- The Hyperliquid and paper branches of the user streams; the Coinbase
  and Kraken price connectors; the WebSocket API stream of Binance.
- Converters, symbol tables, logging and tools: pure, or no behaviour.

## 7. Plan

1. `CancelHistory` (spec 020) beside `FillPark`; `KrakenFills` (settling of
   executions and open-order snapshots), with the settled report against a
   reference sum.
2. `HlClient`: user client, restart scheduling and IP rotation; then the
   Hyperliquid and paper branches of `UserRooms`.
3. `IdMutex` with an abstract first-in-first-out lock and the refinement.
4. `RabbitRpc` (reconnects, reply queues, timeouts) with the abstract promise
   of one answer per request, which `HlBalancer` takes as a step; `RedisLink`.
5. Runs stay few: a run is kept for each question, and the runs of the
   balancer are the ones to merge when new modules need theirs.
6. Theorems next: what the new modules promise, and the steps of the liveness
   arguments that are safety (that each helpful action stays enabled until it is
   taken).
