----------------------------- MODULE PriceWorkers -----------------------------
(***************************************************************************)
(* The price process in its candle role (index.price.ts): the Connector    *)
(* with one worker thread per exchange family (src/priceConnector.ts), its *)
(* rebuilds after a fatal error, the admin switch that spawns and          *)
(* terminates families (src/utils/adminConfig.ts), the boot announcement   *)
(* that makes consumers ask for their candle rooms again, and the thread   *)
(* itself (src/price/service.ts), which rebuilds its connector in place    *)
(* and exits when a feed stays dead (src/price/stallEscalation.ts).        *)
(*                                                                         *)
(* A stopped Connector stays in the process with its listeners.  One room  *)
(* is modelled per variant.                                                *)
(***************************************************************************)
EXTENDS Naturals, Sequences

CONSTANTS
    Families,   \* worker families
    Variants,   \* exchanges, spot and futures
    FamilyOf,   \* the family of a variant
    EnvFamilies, \* PRICE_CONNECTOR_EXCHANGES
    Shared,     \* families whose connectors are given subscribedCandlesMap
    Kinds,      \* kinds of feed the role watches: "price", "candle"
    Threshold,  \* STALL_EXIT_THRESHOLD
    RetryCount, \* retryCount of index.price.ts
    MaxReads,   \* bound on reads of the admin key in flight
    MaxChanges, \* bound on changes of the admin key
    MaxFaults   \* bound on exceptions, crashes, stalls, losses and exits

ASSUME WorkersAssumption ==
    /\ FamilyOf \in [Variants -> Families]
    /\ EnvFamilies \subseteq Families /\ Shared \subseteq Families
    /\ Kinds \subseteq {"price", "candle"}
    /\ Threshold \in Nat \ {0} /\ RetryCount \in Nat \ {0, 1}
    /\ MaxReads \in Nat \ {0} /\ MaxChanges \in Nat /\ MaxFaults \in Nat

VARIABLES
    stored,     \* the enabled set in Redis
    reads,      \* values read and not applied yet
    cache,      \* the enabled set of this process
    phase,      \* of main(): "sync", "start", "run"
    connectors, \* every Connector made, by boot id
    stream,     \* the Connector a fatal error stops, or 0
    locked,     \* a handler sleeps after a 403
    retry,
    requests,   \* candlesRequests
    boot,       \* the boot id the consumer last acted on
    loss,       \* threads, rooms or requests were lost since (ghost)
    faults, changes

configVars == <<stored, reads, cache, phase, changes>>
fatalVars == <<stream, locked, retry>>
askVars == <<requests, boot, loss>>
vars == <<configVars, connectors, fatalVars, askVars, faults>>

\* {S} for an enabled set S, {} while the key is absent or not readable.
Configs == {{}} \cup {{S} : S \in SUBSET Variants}

\* isExchangeEnabled, isFamilyNeeded
Enabled(v) == \A S \in cache : v \in S
Needed(config, f) ==
    IF config = {} THEN f \in EnvFamilies
    ELSE \E S \in config : \E v \in S : FamilyOf[v] = f

-----------------------------------------------------------------------------
(* A thread: the rooms of its present connector, those its stopped ones     *)
(* took, the stalls counted per feed, the feeds no rebuild revives and,     *)
(* among these, the ones that stopped: they delivered to the present        *)
(* connector, so that its lastData or lastDataTrade is not 0.               *)

\* A kind of a market: the ticker or the candles of one exchange.
Feeds == Kinds \X Variants
FeedsOf(f, kind) == {k \in Feeds : k[1] = kind /\ FamilyOf[k[2]] = f}

NewThread ==
    [state |-> "running", heard |-> TRUE, live |-> {}, stray |-> {},
     rebuilt |-> FALSE, asleep |-> FALSE,
     stalls |-> [k \in Feeds |-> 0], bad |-> {}, stopped |-> {}]
Ended(t, state) == [NewThread EXCEPT !.state = state, !.heard = t.heard]

Running(t) == t.state = "running"
Rooms(t) == t.live \cup t.stray

\* Mutant: the new connector starts without the rooms.
RebuiltBare(t, f) == [t EXCEPT !.live = {}, !.rebuilt = TRUE, !.stopped = {}]

\* The rooms live on in the shared map; the sockets are made anew, and every
\* market of the new connector starts from `base`, without data.
Rebuilt(t, f) ==
    [t EXCEPT !.live = IF f \in Shared THEN Rooms(t) ELSE {},
              !.rebuilt = TRUE, !.stopped = {}]

\* The listener of a stopped connector is the first to find a new room.
Handles(t, f, v) ==
    IF v \in Rooms(t) THEN t
    ELSE IF t.rebuilt /\ f \in Shared
         THEN [t EXCEPT !.stray = @ \cup {v}]
         ELSE [t EXCEPT !.live = @ \cup {v}]

-----------------------------------------------------------------------------
(* The slot of a family in a Connector: the threads it started and the      *)
(* entry of `workers`, 0 when there is none.                                *)

Empty == [entry |-> 0, threads |-> <<>>]

InitWorker(s) ==
    IF s.entry # 0 THEN s
    ELSE [entry |-> Len(s.threads) + 1,
          threads |-> Append(s.threads, NewThread)]

\* Mutant: the listeners stay.
TerminateHeard(s) ==
    [entry |-> 0, threads |-> [s.threads EXCEPT ![s.entry] = Ended(@, "dying")]]

\* The thread stops; the listeners of its end are removed first.
TerminateFamily(s) ==
    [entry |-> 0,
     threads |-> [s.threads EXCEPT ![s.entry] = [Ended(@, "dying")
                                                 EXCEPT !.heard = FALSE]]]

ReconcileSlot(s, needed) ==
    IF needed /\ s.entry = 0 THEN InitWorker(s)
    ELSE IF ~needed /\ s.entry # 0 THEN TerminateFamily(s)
    ELSE s

\* Connector.stop adds a listener and leaves the one that starts a new thread.
StopSlot(s) ==
    IF s.entry = 0 THEN s
    ELSE [s EXCEPT !.threads[s.entry] = Ended(@, "dying")]

\* The end of a thread, after an error that says `terminated` or not: both
\* handlers run before the new thread is started, and start one.
ExitSlot(s, n) ==
    LET ended == [s EXCEPT !.threads[n] = [Ended(@, "gone")
                                           EXCEPT !.heard = FALSE]]
    IN  IF s.threads[n].heard THEN InitWorker([ended EXCEPT !.entry = 0])
        ELSE ended

-----------------------------------------------------------------------------
(* Connectors.                                                              *)

\* constructor and init
NewConnector ==
    [alive |-> TRUE, announced |-> FALSE, beacon |-> FALSE,
     slots |-> [f \in Families |->
                    IF Needed(cache, f) THEN InitWorker(Empty) ELSE Empty]]

\* stop
Stopped(c) == [c EXCEPT !.beacon = FALSE,
                        !.slots = [f \in Families |-> StopSlot(@[f])]]

Died(c) == [alive |-> FALSE, announced |-> TRUE, beacon |-> FALSE,
            slots |-> [f \in Families |-> Empty]]

Alive == {g \in DOMAIN connectors : connectors[g].alive}
Threads(g, f) == connectors[g].slots[f].threads
Up(g, f, n) ==
    /\ g \in Alive /\ n \in DOMAIN Threads(g, f) /\ Running(Threads(g, f)[n])

Init ==
    /\ stored \in Configs
    /\ reads = <<stored>> /\ cache = {} /\ phase = "sync"
    /\ connectors = <<>> /\ stream = 0
    /\ locked = FALSE /\ retry = 0
    /\ requests = {} /\ boot = 0 /\ loss = FALSE
    /\ faults = 0 /\ changes = 0

-----------------------------------------------------------------------------
(* Admin config.                                                            *)

AdminSaves(config) ==
    /\ changes < MaxChanges /\ config # stored
    /\ changes' = changes + 1
    /\ stored' = config
    /\ UNCHANGED <<reads, cache, phase, connectors, fatalVars, askVars, faults>>

\* On a message, or every ten seconds; a lost message is a later refresh.
Refresh ==
    /\ phase # "sync" /\ Len(reads) < MaxReads
    /\ reads' = Append(reads, stored)
    /\ UNCHANGED <<stored, cache, phase, changes, connectors, fatalVars,
                   askVars, faults>>

Synced == phase' = IF phase = "sync" THEN "start" ELSE phase

\* reconcileWorkers of every Connector that ever listened in this process.
Reconciled(config) ==
    [g \in DOMAIN connectors |->
        IF ~connectors[g].alive THEN connectors[g]
        ELSE [connectors[g] EXCEPT !.slots =
                [f \in Families |-> ReconcileSlot(@[f], Needed(config, f))]]]

\* What a read found becomes the cache; if it differs, the listeners run.
Apply(config) ==
    /\ cache' = config /\ reads' = Tail(reads)
    /\ Synced
    /\ connectors' = IF config = cache THEN connectors ELSE Reconciled(config)
    /\ loss' = (loss \/ config # cache)
    /\ UNCHANGED <<stored, changes, fatalVars, requests, boot>>

\* Mutant: the listeners run before the cache is set.
ApplyReadLate ==
    /\ reads # <<>>
    /\ cache' = Head(reads) /\ reads' = Tail(reads)
    /\ Synced
    /\ connectors' = IF cache' = cache THEN connectors ELSE Reconciled(cache)
    /\ loss' = (loss \/ cache' # cache)
    /\ UNCHANGED <<stored, changes, fatalVars, requests, boot, faults>>

ApplyRead ==
    /\ reads # <<>>
    /\ Apply(Head(reads))
    /\ UNCHANGED faults

\* A get that fails or finds Redis not ready answers undefined, which is read
\* as an absent key until the next read.
ReadFails ==
    /\ reads # <<>> /\ faults < MaxFaults
    /\ faults' = faults + 1
    /\ Apply({})

-----------------------------------------------------------------------------
(* index.price.ts.                                                          *)

\* main does not look whether a handler has made a Connector meanwhile.
MainStarts ==
    /\ phase = "start"
    /\ phase' = "run"
    /\ connectors' = Append(connectors, NewConnector)
    /\ stream' = Len(connectors')
    /\ UNCHANGED <<stored, reads, cache, changes, locked, retry, askVars,
                   faults>>

RebuildStream ==
    /\ connectors' = Append([g \in DOMAIN connectors |->
                                IF g = stream THEN Stopped(connectors[g])
                                ELSE connectors[g]], NewConnector)
    /\ stream' = Len(connectors')
    /\ loss' = TRUE
    /\ UNCHANGED <<reads, cache, phase>>

\* The container starts the process again; the queue is durable.
ProcessExits ==
    /\ connectors' = [g \in DOMAIN connectors |-> Died(connectors[g])]
    /\ stream' = 0 /\ locked' = FALSE /\ retry' = 0
    /\ reads' = <<stored>> /\ cache' = {} /\ phase' = "sync"
    /\ loss' = TRUE

\* Mutant: `retry === retryCount` is asked before retry is counted.
RetryForEver ==
    /\ retry' = 1 \/ (retry > 0 /\ retry' = retry + 1)
    /\ RebuildStream
    /\ locked' = FALSE

\* The last retries lie within a minute of each other, or retry starts over.
RetryOrExit ==
    \/ retry > 0 /\ retry + 1 = RetryCount /\ ProcessExits
    \/ /\ retry' = 1 \/ (retry > 0 /\ retry + 1 < RetryCount /\ retry' = retry + 1)
       /\ RebuildStream
       /\ locked' = FALSE

FatalError ==
    /\ ~locked /\ faults < MaxFaults
    /\ faults' = faults + 1
    /\ RetryOrExit
    /\ UNCHANGED <<stored, changes, requests, boot>>

Got403 ==
    /\ ~locked /\ faults < MaxFaults
    /\ faults' = faults + 1
    /\ locked' = TRUE
    /\ UNCHANGED <<configVars, connectors, stream, retry, askVars>>

Wakes ==
    /\ locked
    /\ RetryOrExit
    /\ UNCHANGED <<stored, changes, requests, boot, faults>>

Restarts ==
    /\ phase = "run" /\ faults < MaxFaults
    /\ faults' = faults + 1
    /\ ProcessExits
    /\ UNCHANGED <<stored, changes, requests, boot>>

-----------------------------------------------------------------------------
(* The boot announcement and the rooms.                                     *)

\* A consumer that reads a boot id it has not acted on asks for all its rooms.
Hears(g) ==
    IF boot = g THEN UNCHANGED askVars
    ELSE /\ boot' = g
         /\ requests' = Variants
         /\ loss' = FALSE

\* Mutant: the boot is announced once.
AnnounceOnce(g) ==
    /\ g \in Alive /\ ~connectors[g].announced
    /\ connectors' = [connectors EXCEPT ![g].announced = TRUE]
    /\ \/ Hears(g) /\ UNCHANGED faults
       \/ faults < MaxFaults /\ faults' = faults + 1 /\ UNCHANGED askVars
    /\ UNCHANGED <<configVars, fatalVars>>

\* Redis answers, however late, and the beacon starts; its first message and
\* the one before it may find nobody subscribed.
AnnounceBoot(g) ==
    /\ g \in Alive /\ ~connectors[g].announced
    /\ connectors' = [connectors EXCEPT ![g].announced = TRUE,
                                        ![g].beacon = TRUE]
    /\ \/ Hears(g) /\ UNCHANGED faults
       \/ faults < MaxFaults /\ faults' = faults + 1 /\ UNCHANGED askVars
    /\ UNCHANGED <<configVars, fatalVars>>

Beacon(g) ==
    /\ g \in Alive /\ connectors[g].beacon /\ boot # g
    /\ Hears(g)
    /\ UNCHANGED <<configVars, connectors, fatalVars, faults>>

\* subscribeCandleCb of any Connector that consumes the queue.
SubscribeCandle(v, g) ==
    LET f == FamilyOf[v]
        s == connectors[g].slots[f]
    IN  IF Enabled(v) /\ s.entry # 0 /\ Running(s.threads[s.entry])
        THEN /\ connectors' = [connectors EXCEPT
                    ![g].slots[f].threads[s.entry] = Handles(@, f, v)]
             /\ UNCHANGED loss
        ELSE /\ loss' = TRUE
             /\ UNCHANGED connectors

TakesRequest(v) ==
    /\ v \in requests
    /\ requests' = requests \ {v}
    /\ \E g \in Alive : SubscribeCandle(v, g)
    /\ UNCHANGED <<configVars, fatalVars, boot, faults>>

-----------------------------------------------------------------------------
(* Threads.                                                                 *)

Becomes(g, f, n, t) ==
    connectors' = [connectors EXCEPT ![g].slots[f].threads[n] = t]

ThreadExits(g, f, n) ==
    /\ g \in Alive /\ n \in DOMAIN Threads(g, f)
    /\ Threads(g, f)[n].state = "dying"
    /\ connectors' = [connectors EXCEPT ![g].slots[f] = ExitSlot(@, n)]
    /\ UNCHANGED <<configVars, fatalVars, askVars, faults>>

\* The thread is killed, by the memory limit or by an exit of its own.
Crash(g, f, n) ==
    /\ Up(g, f, n) /\ faults < MaxFaults
    /\ faults' = faults + 1
    /\ Becomes(g, f, n, Ended(Threads(g, f)[n], "dying"))
    /\ loss' = TRUE
    /\ UNCHANGED <<configVars, fatalVars, requests, boot>>

\* stop and getStream of service.ts; connectors without the shared map forget.
RebuildThread(g, f, n, t) ==
    /\ Becomes(g, f, n, Rebuilt(t, f))
    /\ loss' = (loss \/ f \notin Shared)

ThreadError(g, f, n) ==
    /\ Up(g, f, n) /\ faults < MaxFaults /\ ~Threads(g, f)[n].asleep
    /\ faults' = faults + 1
    /\ \/ RebuildThread(g, f, n, Threads(g, f)[n])
       \/ /\ Becomes(g, f, n, [Threads(g, f)[n] EXCEPT !.asleep = TRUE])
          /\ UNCHANGED loss
    /\ UNCHANGED <<configVars, fatalVars, requests, boot>>

ThreadWakes(g, f, n) ==
    /\ Up(g, f, n) /\ Threads(g, f)[n].asleep
    /\ RebuildThread(g, f, n, [Threads(g, f)[n] EXCEPT !.asleep = FALSE])
    /\ UNCHANGED <<configVars, fatalVars, requests, boot, faults>>

\* The connector of the thread gets what feed k delivers: for candles, those
\* of a room of its own.
Feeding(t, f, k) ==
    FamilyOf[k[2]] = f /\ k \notin t.bad /\ (k[1] = "candle" => k[2] \in t.live)

\* What the thread holds kills the feed: a rebuild does not bring it back.
\* It may have delivered to the present connector or not yet.
FeedDies(g, f, n, k) ==
    LET t == Threads(g, f)[n] IN
    /\ Up(g, f, n) /\ faults < MaxFaults
    /\ FamilyOf[k[2]] = f /\ k \notin t.bad
    /\ faults' = faults + 1
    /\ \/ Becomes(g, f, n, [t EXCEPT !.bad = @ \cup {k}])
       \/ /\ Feeding(t, f, k)
          /\ Becomes(g, f, n, [t EXCEPT !.bad = @ \cup {k},
                                        !.stopped = @ \cup {k}])
    /\ UNCHANGED <<configVars, fatalVars, askVars>>

\* Mutant: data of any feed forgets the stalls of all.
NoteAnyData(t, k) == [t EXCEPT !.stalls = [j \in Feeds |-> 0]]

NoteData(t, k) == [t EXCEPT !.stalls[k] = 0]
NoteStall(t, k) == [t EXCEPT !.stalls[k] = @ + 1]

\* The feed a pass of the watchdog throws for, its targeted restarts spent:
\* the first market when no ticker came at all; a ticker that stopped; the
\* first market whose candles stopped, when none still come.  A feed without
\* data on the present connector is judged in the first case only.
First(feeds) == CHOOSE k \in feeds : TRUE
Watched(t, f, k) ==
    LET tickers == FeedsOf(f, "price")
        candles == FeedsOf(f, "candle")
    IN  \/ tickers \subseteq t.bad \ t.stopped /\ k = First(tickers)
        \/ k \in tickers \cap t.stopped
        \/ /\ \A c \in candles : ~Feeding(t, f, c)
           /\ candles \cap t.stopped # {} /\ k = First(candles \cap t.stopped)

\* The watchdog of the thread throws; while a handler sleeps nobody listens.
Stall(g, f, n, k) ==
    LET t == Threads(g, f)[n] IN
    /\ Up(g, f, n) /\ Watched(t, f, k) /\ ~t.asleep
    /\ IF NoteStall(t, k).stalls[k] >= Threshold
       THEN /\ Becomes(g, f, n, Ended(t, "dying"))
            /\ loss' = TRUE
       ELSE RebuildThread(g, f, n, NoteStall(t, k))
    /\ UNCHANGED <<configVars, fatalVars, requests, boot, faults>>

\* A ticker, or a frame of a room, of the present connector or a stopped one.
Data(g, f, n, k) ==
    LET t == Threads(g, f)[n] IN
    /\ Up(g, f, n) /\ FamilyOf[k[2]] = f /\ k \notin t.bad
    /\ k[1] = "candle" => k[2] \in Rooms(t)
    /\ Becomes(g, f, n, NoteData(t, k))
    /\ UNCHANGED <<configVars, fatalVars, askVars, faults>>

-----------------------------------------------------------------------------

ThreadStep(g, f, n) ==
    \/ ThreadExits(g, f, n) \/ ThreadWakes(g, f, n)
    \/ \E k \in Feeds : Stall(g, f, n, k)

ThreadFault(g, f, n) ==
    \/ Crash(g, f, n) \/ ThreadError(g, f, n)
    \/ \E k \in Feeds : FeedDies(g, f, n, k)

Next ==
    \/ \E config \in Configs : AdminSaves(config)
    \/ Refresh \/ ApplyRead \/ ReadFails
    \/ MainStarts \/ FatalError \/ Got403 \/ Wakes \/ Restarts
    \/ \E g \in DOMAIN connectors : AnnounceBoot(g) \/ Beacon(g)
    \/ \E v \in Variants : TakesRequest(v)
    \/ \E g \in DOMAIN connectors, f \in Families :
        \E n \in DOMAIN Threads(g, f) :
            \/ ThreadStep(g, f, n) \/ ThreadFault(g, f, n)
            \/ \E k \in Feeds : Data(g, f, n, k)

Spec == Init /\ [][Next]_vars

SomeThread(A(_, _, _)) ==
    \E g \in DOMAIN connectors, f \in Families :
        \E n \in DOMAIN Threads(g, f) : A(g, f, n)

\* Timers fire, Redis and RabbitMQ answer, threads end and watchdogs look;
\* nothing is assumed of the operator, the venues and the failures.
Fairness ==
    /\ WF_vars(Refresh) /\ WF_vars(ApplyRead)
    /\ WF_vars(MainStarts) /\ WF_vars(Wakes)
    /\ WF_vars(SomeThread(ThreadStep))
    /\ \A v \in Variants : WF_vars(TakesRequest(v))
    /\ WF_vars(\E g \in Alive : AnnounceBoot(g))
    /\ WF_vars(stream # 0 /\ Beacon(stream))

FairSpec == Spec /\ Fairness

-----------------------------------------------------------------------------
(* Properties.                                                              *)

Thread ==
    [state : {"running", "dying", "gone"}, heard : BOOLEAN,
     live : SUBSET Variants, stray : SUBSET Variants,
     rebuilt : BOOLEAN, asleep : BOOLEAN,
     stalls : [Feeds -> 0..Threshold], bad : SUBSET Feeds,
     stopped : SUBSET Feeds]
Slot == [entry : Nat, threads : Seq(Thread)]
Connector == [alive : BOOLEAN, announced : BOOLEAN, beacon : BOOLEAN,
              slots : [Families -> Slot]]

\* The state of the price process.
TypeOK ==
    /\ stored \in Configs /\ cache \in Configs
    /\ reads \in Seq(Configs)
    /\ phase \in {"sync", "start", "run"}
    /\ connectors \in Seq(Connector)
    /\ stream \in 0..Len(connectors) /\ boot \in 0..Len(connectors)
    /\ locked \in BOOLEAN /\ loss \in BOOLEAN
    /\ retry \in 0..(RetryCount - 1)
    /\ requests \subseteq Variants
    /\ faults \in 0..MaxFaults /\ changes \in 0..MaxChanges

\* A thread whose end is listened to is the one its Connector has under its
\* family: no thread runs that the Connector could neither feed nor terminate,
\* and no late end takes the entry of a successor away.
SlotOK(s) ==
    /\ s.entry \in 0..Len(s.threads)
    /\ \A n \in DOMAIN s.threads :
        n = s.entry <=> s.threads[n].heard
    /\ \A n \in DOMAIN s.threads :
        /\ Running(s.threads[n]) => n = s.entry
        /\ s.threads[n].state = "gone" => n # s.entry
NoOrphanThread ==
    \A g \in DOMAIN connectors, f \in Families : SlotOK(connectors[g].slots[f])

Served(v) ==
    \E g \in Alive : \E n \in DOMAIN Threads(g, FamilyOf[v]) :
        LET t == Threads(g, FamilyOf[v])[n] IN Running(t) /\ v \in Rooms(t)

\* From the moment a consumer has asked for its rooms, and until a thread or a
\* request is lost, each of them is served or still asked for: rebuilds of a
\* connector inside its thread, sleeps and stalls lose none.
AskedIsServed ==
    boot # 0 /\ ~loss => \A v \in Variants : v \in requests \/ Served(v)

\* The admin switch wins in the end over crashes, rebuilds and failed reads: a
\* family has a worker in each Connector of the process iff it is needed.
WorkersMatchConfig ==
    <>[](\A g \in Alive, f \in Families :
            Needed(stored, f) <=> connectors[g].slots[f].entry # 0)

\* The consumers learn the boot id of the Connector the process has, although
\* announcements get lost and Redis may answer after it was replaced.
BootIsLearnt == []<>(boot = stream)

\* A thread whose tickers all stay dead is replaced, whatever its candle feeds
\* deliver and whatever else is thrown meanwhile: the first stall is counted
\* for a ticker that stopped, the next for connectors that never had one.
DeadTickersGetFreshThread ==
    []<>(\A g \in Alive, f \in Families : \A n \in DOMAIN Threads(g, f) :
            ~(FeedsOf(f, "price") \subseteq Threads(g, f)[n].bad))

\* "After `STALL_EXIT_THRESHOLD` stalls of the same feed with no data in
\* between, the worker exits" (stallEscalation.ts:8-10): a feed whose stall
\* was counted delivers again or gets a fresh thread.
CountedFeedIsRescued ==
    []<>(\A g \in Alive, f \in Families : \A n \in DOMAIN Threads(g, f) :
            \A k \in Threads(g, f)[n].bad : Threads(g, f)[n].stalls[k] = 0)

\* "One Worker per family handles all variants" (priceConnector.ts:90).
OneWorkerPerFamily ==
    \A f \in Families :
        \A g, h \in Alive :
            /\ connectors[g].slots[f].entry # 0
            /\ connectors[h].slots[f].entry # 0
            => g = h

\* "stop() clears the timer so an in-process rebuild doesn't stack beacons"
\* (CHANGELOG.md:308).
BeaconsDoNotStack == \A g, h \in Alive :
    connectors[g].beacon /\ connectors[h].beacon => g = h

\* "a freshly-spawned worker gets re-fed naturally" (priceConnector.ts:311):
\* when failures and switches are over, every room of an enabled variant is
\* served.
WorkersAreRefed ==
    <>[](\A v \in Variants : Needed(stored, FamilyOf[v]) /\ Enabled(v) => Served(v))

=============================================================================
