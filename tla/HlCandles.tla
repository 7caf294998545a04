------------------------------ MODULE HlCandles ------------------------------
(***************************************************************************)
(* The Hyperliquid price connector (src/price/hyperliquid.ts): the candle  *)
(* rooms asked for, the debounced queue, the pool of candle clients whose  *)
(* sockets reconnect by themselves, the loops that subscribe one room      *)
(* after the other on a client, and the paced restart of everything.       *)
(*                                                                         *)
(* A loop runs from one await to the next and may outlive the socket, or   *)
(* the client, it was started for.  The ticker is kept as its state.       *)
(***************************************************************************)
EXTENDS Naturals, Sequences, FiniteSets

CONSTANTS
    Coins,      \* coin and interval of a room, the keys of the code's maps
    Asked,      \* rooms that callers may ask for
    Unknown,    \* rooms that have no coin of the venue
    Kept,       \* rooms the rebuilt connector is given
    Roles,      \* worker roles: "candle", "price"
    Cap,        \* maxCandlesPerConnection
    MaxClients, \* maxCandleClients
    MaxTargeted, \* maxTargetedRestarts
    MaxFaults   \* bound on drops, failed dials, refusals and ticker failures

Room == [coin : Coins, spot : BOOLEAN]

ASSUME HlAssumption ==
    /\ Asked \subseteq Room /\ IsFiniteSet(Asked)
    /\ Unknown \subseteq Asked /\ Kept \subseteq Asked
    /\ Roles \subseteq {"candle", "price"}
    /\ Cap \in Nat \ {0} /\ MaxClients \in Nat \ {0}
    /\ MaxTargeted \in Nat /\ MaxFaults \in Nat

VARIABLES
    role,       \* chosen at the start
    rooms,      \* subscribedCandlesMap
    queue,      \* inQueueCandles
    timer,      \* its timer runs
    jobs,       \* calls that hold or await the connect mutex, in order
    pool,       \* hyperliquidClientCandle
    loops,      \* subscribe loops in progress
    retries,    \* failed rooms of a loop, each waiting a minute
    restart,    \* restartTimer runs
    ticker,     \* the subscription to all mids
    seen,       \* candles were delivered since the start
    targeted,   \* targetedRestarts
    ended,      \* the watchdog threw
    dropped,    \* rooms a connect loop left behind (ghost)
    faults

roomVars == <<rooms, queue, timer, jobs>>
poolVars == <<pool, loops, retries, dropped>>
failVars == <<restart, ticker, seen, targeted, ended>>
vars == <<role, roomVars, poolVars, failVars, faults>>

-----------------------------------------------------------------------------
(* The maps are keyed by coin and interval: of a spot room and its perp the *)
(* later one stays, and a replay goes through the spot rooms first.         *)

DeleteAll(m, S) == {s \in m : \A r \in S : s.coin # r.coin}
Perp(r) == [r EXCEPT !.spot = FALSE]
PutAll(m, S) ==
    DeleteAll(m, S) \cup {r \in S : r.spot => Perp(r) \notin S}

-----------------------------------------------------------------------------
(* Clients.  once: connectedOnce.  live: the object the reconnect hook holds *)
(* is still in the pool; a client that is picked is replaced by a copy with  *)
(* the same items, of which the hook does not know.                          *)

Client == [count |-> 0, live |-> TRUE, items |-> {}, subs |-> {},
           open |-> FALSE, once |-> FALSE]

WithRoom(n) == {i \in DOMAIN pool : pool[i].count + n <= Cap}
LeastBusy(S) ==
    {i \in S : \A j \in S : \/ pool[i].count < pool[j].count
                            \/ pool[i].count = pool[j].count /\ i <= j}
Picked(i, n) ==
    [pool EXCEPT ![i] = [pool[i] EXCEPT !.count = @ + n, !.live = FALSE]]

\* Past the cap of clients the least busy one is filled on.
GetCandleClient(n) ==
    IF WithRoom(n) # {} THEN LeastBusy(WithRoom(n))
    ELSE IF Len(pool) >= MaxClients THEN LeastBusy(DOMAIN pool)
    ELSE {Len(pool) + 1}
PoolWith(i, n) ==
    IF i > Len(pool) THEN Append(pool, [Client EXCEPT !.count = n])
    ELSE Picked(i, n)

-----------------------------------------------------------------------------
(* Loops.  client: its place in the pool, 0 once the client was replaced.   *)

Loop(kind, i, todo, later) ==
    [kind |-> kind, client |-> i, todo |-> todo, later |-> later,
     waits |-> {}, failed |-> {}]

\* Mutant: a connect does not wait for the one before it.
NeverFlushing == FALSE

Flushing == \E l \in loops : l.kind = "flush"

Becomes(l, m) == loops' = (loops \ {l}) \cup {m}

ItemsOf(l) == IF l.client = 0 THEN {} ELSE pool[l.client].items
WithItems(l, items) ==
    IF l.client = 0 THEN pool
    ELSE [pool EXCEPT ![l.client] = [pool[l.client] EXCEPT !.items = items]]

\* The order of the queue is left open.
Chunks(S) ==
    IF Cardinality(S) <= Cap THEN {S}
    ELSE {c \in SUBSET S : Cardinality(c) = Cap}

Ask(S) == [flush |-> FALSE, data |-> S]
Flush == [flush |-> TRUE, data |-> {}]

Init ==
    /\ role \in Roles
    /\ rooms = IF role = "candle" THEN Kept ELSE {}
    /\ queue = {} /\ timer = FALSE
    /\ jobs = IF role = "candle" THEN <<Ask(rooms)>> ELSE <<>>
    /\ pool = <<Client>>
    /\ loops = {} /\ retries = {} /\ dropped = {}
    /\ restart = FALSE
    /\ ticker = IF role = "price" THEN "asking" ELSE "off"
    /\ seen = FALSE /\ targeted = 0 /\ ended = FALSE
    /\ faults = 0

Fault == faults < MaxFaults /\ faults' = faults + 1

-----------------------------------------------------------------------------
(* Rooms on their way to a loop.                                            *)

SubscribeCandle(r) ==
    /\ ~ended /\ role = "candle" /\ r \notin rooms
    /\ rooms' = rooms \cup {r}
    /\ jobs' = Append(jobs, Ask({r}))
    /\ UNCHANGED <<role, queue, timer, poolVars, failVars, faults>>

\* connectHyperliquidCandleStreams without its timer flag.
Queues ==
    /\ ~ended /\ jobs # <<>> /\ ~Head(jobs).flush
    /\ queue' = PutAll(queue, Head(jobs).data)
    /\ timer' = TRUE
    /\ jobs' = Tail(jobs)
    /\ UNCHANGED <<role, rooms, poolVars, failVars, faults>>

TimerFires ==
    /\ ~ended /\ timer
    /\ timer' = FALSE
    /\ jobs' = Append(jobs, Flush)
    /\ UNCHANGED <<role, rooms, queue, poolVars, failVars, faults>>

FlushStarts ==
    /\ ~ended /\ jobs # <<>> /\ Head(jobs).flush /\ ~Flushing
    /\ loops' = loops \cup {Loop("flush", 0, {}, queue)}
    /\ queue' = {}
    /\ UNCHANGED <<role, rooms, timer, jobs, pool, retries, dropped, failVars,
                   faults>>

\* Mutant: the rooms are queued and no timer is set for them.
RetryUntimed(S) ==
    /\ ~ended /\ S \in retries
    /\ retries' = retries \ {S}
    /\ queue' = PutAll(queue, S)
    /\ UNCHANGED <<role, rooms, timer, jobs, pool, loops, dropped, failVars,
                   faults>>

\* The minute of a retry is over.
RetryFires(S) ==
    /\ ~ended /\ S \in retries
    /\ retries' = retries \ {S}
    /\ queue' = PutAll(queue, S)
    /\ timer' = TRUE
    /\ UNCHANGED <<role, rooms, jobs, pool, loops, dropped, failVars, faults>>

-----------------------------------------------------------------------------
(* Subscribing.                                                             *)

NextChunk(l) ==
    /\ l.todo = {} /\ l.waits = {} /\ l.later # {}
    /\ \E c \in Chunks(l.later) : \E i \in GetCandleClient(Cardinality(c)) :
         /\ pool' = PoolWith(i, Cardinality(c))
         /\ Becomes(l, [l EXCEPT !.client = i, !.todo = c, !.later = @ \ c])
    /\ UNCHANGED <<roomVars, retries, dropped>>

\* The room is among the client's items before it is asked for.
Subscribes(l) ==
    /\ l.waits = {}
    /\ \E r \in l.todo :
         /\ pool' = WithItems(l, IF r \in Unknown THEN DeleteAll(ItemsOf(l), {r})
                                 ELSE PutAll(ItemsOf(l), {r}))
         /\ Becomes(l, [l EXCEPT !.todo = @ \ {r}, !.waits = {r} \ Unknown])
    /\ UNCHANGED <<roomVars, retries, dropped>>

\* resubscribeEntry counts what it subscribed, on the object it was given.
Counts(l) == l.kind = "resub" /\ pool[l.client].live

Answered(l) ==
    /\ l.waits # {} /\ l.client # 0 /\ pool[l.client].open
    /\ pool' = [pool EXCEPT ![l.client] =
         [pool[l.client] EXCEPT !.subs = @ \cup l.waits,
                   !.count = IF Counts(l) THEN @ + 1 ELSE @]]
    /\ Becomes(l, [l EXCEPT !.waits = {}])
    /\ dropped' = dropped \ (l.waits \cap pool[l.client].items)
    /\ UNCHANGED <<roomVars, retries>>

\* The failed rooms are tried again in a minute.
LoopEnds(l) ==
    /\ l.todo = {} /\ l.waits = {} /\ l.later = {}
    /\ loops' = loops \ {l}
    /\ retries' = IF l.failed = {} THEN retries ELSE retries \cup {l.failed}
    /\ jobs' = IF l.kind = "flush" THEN Tail(jobs) ELSE jobs
    /\ UNCHANGED <<rooms, queue, timer, pool, dropped>>

LoopStep ==
    /\ ~ended
    /\ \E l \in loops : \/ NextChunk(l) \/ Subscribes(l) \/ Answered(l)
                        \/ LoopEnds(l)
    /\ UNCHANGED <<role, failVars, faults>>

\* The venue refuses, or answers after ten seconds have passed.
Refused(l) ==
    /\ Fault /\ ~ended /\ l.waits # {}
    /\ l.client # 0
    /\ \E late \in {{}, l.waits} :
         /\ late # {} => pool[l.client].open
         /\ pool' = [pool EXCEPT ![l.client] =
              [pool[l.client] EXCEPT !.items = DeleteAll(@, l.waits),
                                     !.subs = @ \cup late]]
    /\ Becomes(l, [l EXCEPT !.waits = {}, !.failed = @ \cup l.waits])
    /\ UNCHANGED <<role, roomVars, retries, dropped, failVars>>

-----------------------------------------------------------------------------
(* Sockets.                                                                 *)

Hit(i) == {l \in loops : l.client = i /\ l.waits # {}}

\* A loop whose request was rejected by the close of its socket.
Stops(l) == [l EXCEPT !.todo = {}, !.waits = {}]

\* Mutant: the rooms that were to follow are left out.
ResumesNothing(i) == {}

ResumesAtOpen(i) == UNION {l.todo : l \in {m \in Hit(i) : m.kind = "resub"}}

\* Also the room that was asked for, when the socket was never open: the first
\* open replays nothing.
LeavesBehind(i) ==
    UNION {l.todo \cup (IF pool[i].once THEN {} ELSE l.waits) :
             l \in {m \in Hit(i) : m.kind = "flush"}}

\* A loop of connectHyperliquidCandleStreams leaves the rest of its chunk; a
\* loop of resubscribeEntry leaves it to the next open.
Rejects(i) ==
    /\ pool' = [pool EXCEPT ![i] =
         [pool[i] EXCEPT !.items = PutAll(@, ResumesAtOpen(i)),
                   !.subs = {}, !.open = FALSE]]
    /\ loops' = (loops \ Hit(i)) \cup {Stops(l) : l \in Hit(i)}
    /\ dropped' = dropped \cup LeavesBehind(i)

\* The socket closes, or a dial fails.
SocketCloses(i) ==
    /\ Fault /\ ~ended
    /\ pool[i].open \/ Hit(i) # {}
    /\ Rejects(i)
    /\ UNCHANGED <<role, roomVars, retries, failVars>>

SocketOpens(i) ==
    /\ ~ended /\ ~pool[i].open
    /\ LET again == pool[i].once
           items == pool[i].items
       IN  /\ pool' = [pool EXCEPT ![i] =
                [pool[i] EXCEPT !.open = TRUE, !.once = TRUE,
                          !.items = IF again THEN {} ELSE @,
                          !.count = IF again /\ pool[i].live THEN 0 ELSE @]]
           /\ loops' = IF again /\ items # {}
                       THEN loops \cup {Loop("resub", i, items, {})}
                       ELSE loops
    /\ UNCHANGED <<role, roomVars, retries, dropped, failVars, faults>>

\* The rejection of a request on a client that was replaced.
ReplacedRejects ==
    /\ ~ended
    /\ \E l \in loops : /\ l.client = 0 /\ l.waits # {}
                        /\ Becomes(l, Stops(l))
    /\ UNCHANGED <<role, roomVars, pool, retries, dropped, failVars, faults>>

-----------------------------------------------------------------------------
(* Restarts.                                                                *)

Schedule == restart' = TRUE

Replay == Append(jobs, Ask(rooms))

\* stopHyperliquid, initHyperliquidWS, reconnectHyperliquidCandleStream.  The
\* request for the ticker is answered or times out long before.
Restart ==
    /\ ~ended /\ restart /\ ticker # "asking"
    /\ restart' = FALSE
    /\ pool' = [i \in DOMAIN pool |-> Client]
    /\ loops' = {[l EXCEPT !.client = 0] : l \in loops}
    /\ dropped' = {}
    /\ jobs' = Replay
    /\ ticker' = "asking"
    /\ UNCHANGED <<role, rooms, queue, timer, retries, seen, targeted, ended,
                   faults>>

TickerAnswers ==
    /\ ~ended /\ ticker = "asking"
    /\ ticker' = "on"
    /\ UNCHANGED <<role, roomVars, poolVars, restart, seen, targeted, ended,
                   faults>>

TickerFails ==
    /\ Fault /\ ~ended /\ ticker = "asking"
    /\ ticker' = "off"
    /\ Schedule
    /\ UNCHANGED <<role, roomVars, poolVars, seen, targeted, ended>>

\* The feed dies; what the library's reconnect brings back is no step.
TickerDies ==
    /\ Fault /\ ~ended /\ role = "price" /\ ticker = "on"
    /\ ticker' = "off"
    /\ UNCHANGED <<role, roomVars, poolVars, restart, seen, targeted, ended>>

-----------------------------------------------------------------------------
(* The watchdog.                                                            *)

Delivers == \E i \in DOMAIN pool : pool[i].subs # {}

\* noteCandleActivity
NoteActivity ==
    /\ ~ended /\ Delivers /\ (~seen \/ targeted > 0)
    /\ seen' = TRUE /\ targeted' = 0
    /\ UNCHANGED <<role, roomVars, poolVars, restart, ticker, ended, faults>>

\* cbWs.  A restart subscribes the ticker in candle workers too.
TickerActivity ==
    /\ ~ended /\ ticker = "on" /\ targeted > 0
    /\ targeted' = 0
    /\ UNCHANGED <<role, roomVars, poolVars, restart, ticker, seen, ended, faults>>

\* escalateOrHandle and handleStall
Escalate ==
    IF targeted < MaxTargeted
    THEN targeted' = targeted + 1 /\ Schedule /\ UNCHANGED ended
    ELSE ended' = TRUE /\ UNCHANGED <<targeted, restart>>

\* What is under way is over before the 75 seconds of a stall are: a timer, a
\* connect, a subscribe loop, a dial with rooms to replay.
UnderWay ==
    \/ timer \/ jobs # <<>> \/ loops # {}
    \/ \E i \in DOMAIN pool : pool[i].items # {} /\ ~pool[i].open

CandleStall ==
    /\ ~ended /\ role = "candle" /\ seen /\ ~Delivers /\ ~UnderWay
    /\ Escalate
    /\ UNCHANGED <<role, roomVars, poolVars, ticker, seen, faults>>

TickerStall ==
    /\ ~ended /\ role = "price" /\ ticker = "off"
    /\ Escalate
    /\ UNCHANGED <<role, roomVars, poolVars, ticker, seen, faults>>

-----------------------------------------------------------------------------

RoomStep ==
    Queues \/ TimerFires \/ FlushStarts \/ \E S \in retries : RetryFires(S)
SocketStep == ReplacedRejects \/ \E i \in DOMAIN pool : SocketOpens(i)
WatchdogStep == CandleStall \/ TickerStall

Next ==
    \/ \E r \in Asked : SubscribeCandle(r)
    \/ RoomStep \/ LoopStep \/ SocketStep
    \/ Restart \/ TickerAnswers \/ NoteActivity \/ TickerActivity
    \/ WatchdogStep
    \/ \E l \in loops : Refused(l)
    \/ \E i \in DOMAIN pool : SocketCloses(i)
    \/ TickerFails \/ TickerDies

Spec == Init /\ [][Next]_vars

\* Timers fire, requests settle, the library dials until a socket opens and
\* the watchdog looks; nothing is assumed of callers and failures.
FairSpec ==
    /\ Spec
    /\ WF_vars(RoomStep) /\ WF_vars(LoopStep) /\ WF_vars(SocketStep)
    /\ WF_vars(Restart) /\ WF_vars(TickerAnswers) /\ WF_vars(WatchdogStep)

-----------------------------------------------------------------------------
(* Properties.                                                              *)

Jobs == [flush : BOOLEAN, data : SUBSET Asked]
Clients == [count : Nat, live : BOOLEAN, items : SUBSET Asked,
            subs : SUBSET Asked, open : BOOLEAN, once : BOOLEAN]
Loops == [kind : {"flush", "resub"}, client : 0..Len(pool),
          todo : SUBSET Asked, later : SUBSET Asked, waits : SUBSET Asked,
          failed : SUBSET Asked]

\* The state of the connector; at most one connect runs, and it holds the
\* mutex, and a loop asks for one room at a time.
TypeOK ==
    /\ role \in Roles
    /\ rooms \subseteq Asked /\ queue \subseteq Asked /\ dropped \subseteq Asked
    /\ timer \in BOOLEAN /\ restart \in BOOLEAN
    /\ seen \in BOOLEAN /\ ended \in BOOLEAN
    /\ jobs \in Seq(Jobs)
    /\ pool \in Seq(Clients) /\ Len(pool) \in 1..MaxClients
    /\ loops \subseteq Loops
    /\ \A l \in loops : \A r, s \in l.waits : r = s
    /\ \A l, m \in loops : l.kind = "flush" /\ m.kind = "flush" =>
         l = m /\ jobs # <<>> /\ Head(jobs).flush
    /\ retries \subseteq SUBSET Asked
    /\ ticker \in {"asking", "on", "off"}
    /\ targeted \in 0..MaxTargeted /\ faults \in 0..MaxFaults

Streams(r) == \E i \in DOMAIN pool : r \in pool[i].subs

\* Something the connector has set going will subscribe the room.
Coming(r) ==
    \/ restart
    \/ \E j \in DOMAIN jobs : r \in jobs[j].data
    \/ r \in queue /\ (timer \/ \E j \in DOMAIN jobs : jobs[j].flush)
    \/ \E l \in loops : r \in l.todo \cup l.later \cup l.waits \cup l.failed
    \/ r \in UNION retries
    \/ \E i \in DOMAIN pool : r \in pool[i].items /\ ~pool[i].open

\* A room in the set is not asked for again: through drops in the middle of a
\* loop, reopens, late refusals and restarts it streams or is on its way.
\* The rooms a connect loop leaves behind are the exception.
RoomKept ==
    ~ended => \A r \in rooms \ Unknown :
        Streams(r) \/ Coming(r) \/ r \in dropped

\* "If the connection closes mid-subscribe this item stays in entry.items, so
\* the onopen reconnect hook will re-queue it" (lines 853-857): no room of the
\* connection is left behind.
NoRoomLeftBehind ==
    ~ended => \A r \in rooms \ Unknown : Streams(r) \/ Coming(r)

\* "CommonConnector still escalates to the full-worker restart after
\* maxTargetedRestarts, so a genuinely dead worker is still replaced" (lines
\* 651-653): nothing but candles gives the budget of a candle worker back.
BudgetIsKept ==
    [][role = "candle" /\ targeted' < targeted => Delivers]_vars

\* No client is given more rooms than maxCandlesPerConnection while the pool
\* may grow.
WithinMax ==
    Len(pool) < MaxClients => \A i \in DOMAIN pool :
        Cardinality(pool[i].items \cup pool[i].subs) <= Cap

\* Every room asked for streams in the end, or was left behind, and the ticker
\* of a price worker comes back, whatever fails while the restart is under way;
\* or the connector gives up and is rebuilt.
FeedsReturn ==
    /\ \A r \in Asked \ Unknown :
         r \in rooms ~> Streams(r) \/ r \in dropped \/ ended
    /\ <>[](role = "price" => ticker = "on" \/ ended)

=============================================================================
