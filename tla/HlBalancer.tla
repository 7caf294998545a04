----------------------------- MODULE HlBalancer ------------------------------
(***************************************************************************)
(* The Hyperliquid balancer (utils/hyperliquidBalancer.ts) and the workers *)
(* it routes to (userStream.ts in worker mode).                            *)
(*                                                                         *)
(* Bots open and close accounts; the balancer hands each account to one    *)
(* worker, keeps the opens nobody would take, and repairs its view of the  *)
(* workers once per heartbeat from the keys they publish in Redis.  All    *)
(* routing runs under one mutex, the heartbeat tick does not.              *)
(***************************************************************************)
EXTENDS Naturals, Sequences, FiniteSets, SequencesExt

CONSTANTS
    Uuids,        \* Hyperliquid accounts
    Workers,      \* configured workers
    Nobody,       \* no worker
    Idle,         \* the mutex is free, no tick runs, no retry pass runs
    Unknown,      \* a worker's list that is not in Redis
    BaseCap,      \* accounts a worker may hold
    BootKeys,     \* workers whose boot epoch is in Redis (see WorkerBoots)
    MaxBots,      \* bots per account
    MaxOpens,     \* bound on opens sent by bots
    MaxRaises,    \* bound on caps raised by late IPs
    MaxCrashes,   \* bound on worker crashes
    MaxRestarts   \* bound on balancer restarts

Payloads == [uuid : Uuids, load : Nat]
Requests == [op : {"open", "close"}, uuid : Uuids, load : Nat, by : {"bot", "retry"}]
Messages == [op : {"open", "close"}, uuid : Uuids, asks : BOOLEAN]
Routings == [uuid : Uuids, load : Nat, by : {"bot", "retry"},
             tried : SUBSET Workers, target : Workers \cup {Nobody},
             reply : {"none", "yes", "no"}]
Ticks == [left : SUBSET Workers, at : Workers \cup {Nobody}, init : BOOLEAN]
Passes == [left : Seq(Payloads), busy : BOOLEAN]

ASSUME BalancerAssumption ==
    /\ Nobody \notin Workers /\ Idle \notin Passes \cup Routings
    /\ BootKeys \subseteq Workers
    /\ BaseCap \in Nat \ {0}
    /\ IsFiniteSet(Uuids) /\ IsFiniteSet(Workers)
    /\ \A n \in {MaxBots, MaxOpens, MaxRaises, MaxCrashes, MaxRestarts} : n \in Nat

VARIABLES
    assign,      \* this.assignments
    refused,     \* this.refusedOpens, in insertion order
    workerBoot,  \* this.workerBoot: workers whose boot epoch was seen
    capSeen,     \* capFor
    queue,       \* requests waiting for the route mutex, oldest first
    routing,     \* the open that holds the mutex, or Idle
    tick,        \* the heartbeat tick in progress, or Idle
    retry,       \* the pass over refused opens in progress, or Idle
    stored,      \* userStream:hlAssign:<uuid>
    lastBoot,    \* userStream:lastBoot:<id>
    hb, listed,  \* userStream:worker:<id>:hb and :users
    up,          \* is the worker's process up
    cap,         \* HYPERLIQUID_USER_CAP of the worker
    inbox,       \* usersStream:worker:<id>, a durable queue
    accepted,    \* accepted opens waiting in the worker for their turn
    users,       \* accounts with an entry in the worker's this.users
    count,       \* the worker's subscribersMap
    wanted,      \* bots that have the account open
    reopen,      \* accounts whose bots were asked to open again
    sent, raises, crashes, restarts \* how much of the bounds is used

mapVars    == <<assign, stored>>
refuseVars == <<refused, retry>>
seenVars   == <<workerBoot, lastBoot, capSeen>>
keyVars    == <<hb, listed>>
workerVars == <<up, cap, accepted, users, count>>
botVars    == <<wanted, reopen>>
boundVars  == <<sent, raises, crashes, restarts>>
vars == <<mapVars, refuseVars, seenVars, keyVars, workerVars, botVars,
          boundVars, queue, routing, tick, inbox>>

-----------------------------------------------------------------------------

Request(op, u, load, by) == [op |-> op, uuid |-> u, load |-> load, by |-> by]

\* loadByWorker.
Load(w) == Cardinality({u \in Uuids : assign[u] = w})

\* refusedOpens without u, and with the payload load of u: Map.set of a key
\* that is there keeps its place.
Kept(u) == \E i \in DOMAIN refused : refused[i].uuid = u
PlaceOf(u) == CHOOSE i \in DOMAIN refused : refused[i].uuid = u
Without(u) == IF Kept(u) THEN RemoveAt(refused, PlaceOf(u)) ELSE refused
\* Mutant: the open is logged and forgotten.
Drop(u, load) == refused
Keep(u, load) ==
    IF Kept(u) THEN [refused EXCEPT ![PlaceOf(u)] = [uuid |-> u, load |-> load]]
    ELSE Append(refused, [uuid |-> u, load |-> load])

Init ==
    /\ assign = [u \in Uuids |-> Nobody] /\ stored = assign
    /\ refused = <<>> /\ retry = Idle
    /\ workerBoot = {} /\ lastBoot = {}
    /\ capSeen = [w \in Workers |-> BaseCap]
    /\ hb = [w \in Workers |-> TRUE]
    /\ listed = [w \in Workers |-> {}]
    /\ up = [w \in Workers |-> TRUE]
    /\ cap = [w \in Workers |-> BaseCap]
    /\ accepted = [w \in Workers |-> <<>>]
    /\ users = [w \in Workers |-> {}]
    /\ count = [w \in Workers |-> [u \in Uuids |-> 0]]
    /\ wanted = [u \in Uuids |-> 0] /\ reopen = {}
    /\ sent = 0 /\ raises = 0 /\ crashes = 0 /\ restarts = 0
    /\ queue = <<>> /\ routing = Idle /\ tick = Idle
    /\ inbox = [w \in Workers |-> <<>>]

-----------------------------------------------------------------------------
(* route: what the bots ask.  It waits for init.                             *)

Initialising == tick # Idle /\ tick.init

Open(u) ==
    /\ ~Initialising
    /\ sent < MaxOpens /\ wanted[u] < MaxBots
    /\ sent' = sent + 1
    /\ wanted' = [wanted EXCEPT ![u] = @ + 1]
    /\ queue' = Append(queue, Request("open", u, sent + 1, "bot"))
    /\ UNCHANGED <<mapVars, refuseVars, seenVars, keyVars, workerVars, reopen,
                   raises, crashes, restarts, routing, tick, inbox>>

\* A close forgets a kept open; it is forwarded only if the account has an
\* assignment at that moment, and is taken for a local account otherwise.
Close(u) ==
    /\ ~Initialising
    /\ wanted[u] > 0
    /\ wanted' = [wanted EXCEPT ![u] = @ - 1]
    /\ refused' = Without(u)
    /\ queue' = IF assign[u] = Nobody THEN queue
                ELSE Append(queue, Request("close", u, 0, "bot"))
    /\ UNCHANGED <<mapVars, retry, seenVars, keyVars, workerVars, reopen,
                   boundVars, routing, tick, inbox>>

\* Bots that were asked to send their opens again.
Resend(u) ==
    /\ ~Initialising
    /\ u \in reopen
    /\ reopen' = reopen \ {u}
    /\ queue' = queue \o [i \in 1..wanted[u] |-> Request("open", u, sent, "bot")]
    /\ UNCHANGED <<mapVars, refuseVars, seenVars, keyVars, workerVars, wanted,
                   boundVars, routing, tick, inbox>>

-----------------------------------------------------------------------------
(* routeOpen and routeClose, under the route mutex.                          *)

\* leastLoadedAlive without the workers tried.
Takers(tried) == {w \in Workers \ tried : hb[w] /\ Load(w) < capSeen[w]}
LeastLoaded(tried) ==
    {w \in Takers(tried) : \A v \in Takers(tried) :
        Load(w) * capSeen[v] <= Load(v) * capSeen[w]}

\* The existing assignment comes first, if its worker is alive.
Targets(r) ==
    IF r.tried = {} /\ assign[r.uuid] # Nobody /\ hb[assign[r.uuid]]
    THEN {assign[r.uuid]} ELSE LeastLoaded(r.tried)

\* A retry pass goes on after an open that was routed and stops at the first
\* that is refused again.
PassGoesOn == retry' = [retry EXCEPT !.left = Tail(@), !.busy = FALSE]
\* Mutant: retryingRefused is not reset.
PassHangs == UNCHANGED retry
PassStops == retry' = Idle

\* Nobody waits for the answers to earlier RPCs any more.
Unasked == [w \in Workers |->
              [i \in DOMAIN inbox[w] |-> [inbox[w][i] EXCEPT !.asks = FALSE]]]

Granted(op) ==
    ~Initialising /\ routing = Idle /\ queue # <<>> /\ Head(queue).op = op

RouteOpen ==
    LET q == Head(queue) IN
    /\ Granted("open")
    /\ queue' = Tail(queue)
    /\ routing' = [uuid |-> q.uuid, load |-> q.load, by |-> q.by, tried |-> {},
                   target |-> Nobody, reply |-> "none"]
    /\ UNCHANGED <<mapVars, refuseVars, seenVars, keyVars, workerVars, botVars,
                   boundVars, tick, inbox>>

\* Assign a target provisionally and send it the open.
Ask ==
    /\ routing # Idle /\ routing.target = Nobody
    /\ \E w \in Targets(routing) :
          /\ assign' = [assign EXCEPT ![routing.uuid] = w]
          /\ inbox' = [inbox EXCEPT ![w] = Append(@,
                         [op |-> "open", uuid |-> routing.uuid, asks |-> TRUE])]
          /\ routing' = [routing EXCEPT !.target = w]
    /\ UNCHANGED <<stored, refuseVars, seenVars, keyVars, workerVars, botVars,
                   boundVars, queue, tick>>

\* No worker would take it: the open is kept.
KeepRefused ==
    /\ routing # Idle /\ routing.target = Nobody /\ Targets(routing) = {}
    /\ refused' = Keep(routing.uuid, routing.load)
    /\ routing' = Idle
    /\ IF routing.by = "retry" THEN PassStops ELSE UNCHANGED retry
    /\ UNCHANGED <<mapVars, seenVars, keyVars, workerVars, botVars, boundVars,
                   queue, tick, inbox>>

\* The worker took it.
RouteAccepted ==
    /\ routing # Idle /\ routing.reply = "yes"
    /\ stored' = [stored EXCEPT ![routing.uuid] = routing.target]
    /\ refused' = Without(routing.uuid)
    /\ routing' = Idle
    /\ IF routing.by = "retry" THEN PassGoesOn ELSE UNCHANGED retry
    /\ UNCHANGED <<assign, seenVars, keyVars, workerVars, botVars, boundVars,
                   queue, tick, inbox>>

\* The worker refused, or the RPC timed out: a worker that is up answers at
\* once, and the RPC waits longer (5 min) than a dead worker's keys live (90 s).
RouteRefused ==
    /\ routing # Idle /\ routing.target # Nobody
    /\ \/ routing.reply = "no"
       \/ /\ routing.reply = "none"
          /\ ~up[routing.target] /\ ~hb[routing.target]
    /\ assign' = [assign EXCEPT ![routing.uuid] = Nobody]
    /\ routing' = [routing EXCEPT !.tried = @ \cup {routing.target},
                                  !.target = Nobody, !.reply = "none"]
    /\ inbox' = Unasked
    /\ UNCHANGED <<stored, refuseVars, seenVars, keyVars, workerVars, botVars,
                   boundVars, queue, tick>>

\* routeClose, with the refusedOpens.delete it starts with.
RouteClose ==
    LET u == Head(queue).uuid
        w == assign[u]
    IN
    /\ Granted("close")
    /\ queue' = Tail(queue)
    /\ refused' = Without(u)
    /\ IF w = Nobody THEN UNCHANGED <<mapVars, inbox>>
       ELSE /\ inbox' = [inbox EXCEPT ![w] =
                           Append(@, [op |-> "close", uuid |-> u, asks |-> FALSE])]
            /\ assign' = [assign EXCEPT ![u] = Nobody]
            /\ stored' = [stored EXCEPT ![u] = Nobody]
    /\ UNCHANGED <<retry, seenVars, keyVars, workerVars, botVars, boundVars,
                   routing, tick>>

-----------------------------------------------------------------------------
(* The heartbeat tick and the pass over refused opens it ends with.          *)

TickStarts ==
    /\ tick = Idle
    /\ tick' = [left |-> Workers, at |-> Nobody, init |-> FALSE]
    /\ UNCHANGED <<mapVars, refuseVars, seenVars, keyVars, workerVars, botVars,
                   boundVars, queue, routing, inbox>>

\* Workers are looked at in an order fixed by the configuration.
Look(w) == /\ tick # Idle /\ ~tick.init /\ tick.at = Nobody
           /\ tick.left # {} /\ w = CHOOSE v \in tick.left : TRUE

\* No heartbeat: the accounts of a worker that was seen alive are dropped and
\* their bots asked to open again (rebalanceFrom).
\* Mutant: it goes by the list the worker published last.
LostListed(w) == {u \in Uuids : assign[u] = w /\ listed[w] # Unknown /\ u \in listed[w]}
Lost(w) == {u \in Uuids : assign[u] = w}

LookDead(w) ==
    /\ Look(w) /\ ~hb[w]
    /\ tick' = [tick EXCEPT !.left = @ \ {w}]
    /\ IF w \notin workerBoot THEN UNCHANGED <<mapVars, workerBoot, lastBoot, reopen>>
       ELSE /\ assign' = [u \in Uuids |-> IF u \in Lost(w) THEN Nobody ELSE assign[u]]
            /\ stored' = [u \in Uuids |-> IF u \in Lost(w) THEN Nobody ELSE stored[u]]
            /\ reopen' = reopen \cup Lost(w)
            /\ workerBoot' = workerBoot \ {w}
            /\ lastBoot' = lastBoot \ {w}
    /\ UNCHANGED <<refuseVars, capSeen, keyVars, workerVars, wanted, boundVars,
                   queue, routing, inbox>>

\* A heartbeat: the cap is read, the boot epoch recorded, and the worker's
\* list read next, unless there is no epoch.
LookAlive(w) ==
    /\ Look(w) /\ hb[w]
    /\ capSeen' = [capSeen EXCEPT ![w] = cap[w]]
    /\ tick' = [tick EXCEPT !.left = @ \ {w},
                            !.at = IF w \in BootKeys THEN w ELSE Nobody]
    /\ workerBoot' = workerBoot \cup ({w} \cap BootKeys)
    /\ lastBoot' = lastBoot \cup ({w} \cap BootKeys)
    /\ UNCHANGED <<mapVars, refuseVars, keyVars, workerVars, botVars, boundVars,
                   queue, routing, inbox>>

\* reconcileWorkerAssignments of w, on the assignments as: what w does not
\* list is dropped, what it lists and nobody has is adopted.
\* Mutant: nothing is adopted.
DroppedOnly(w, as) ==
    [u \in Uuids |-> IF as[u] = w /\ u \notin listed[w] THEN Nobody ELSE as[u]]
Reconciled(w, as) ==
    [u \in Uuids |->
        IF as[u] = w /\ u \notin listed[w] THEN Nobody
        ELSE IF as[u] = Nobody /\ u \in listed[w] THEN w ELSE as[u]]

ReconcileWith(w) ==
    IF listed[w] = Unknown THEN UNCHANGED mapVars
    ELSE /\ assign' = Reconciled(w, assign)
         /\ stored' = [u \in Uuids |-> IF assign'[u] = assign[u]
                                       THEN stored[u] ELSE assign'[u]]

Reconcile(w) ==
    /\ tick # Idle /\ tick.at = w
    /\ tick' = [tick EXCEPT !.at = Nobody]
    /\ ReconcileWith(w)
    /\ UNCHANGED <<refuseVars, seenVars, keyVars, workerVars, botVars, boundVars,
                   queue, routing, inbox>>

\* Mutant: a pass starts whether or not one is running.
NeverRetrying == FALSE
Retrying == retry # Idle

\* retryRefusedOpens takes a snapshot, unless a pass is still running.
TickEnds ==
    /\ tick # Idle /\ ~tick.init /\ tick.at = Nobody /\ tick.left = {}
    /\ tick' = Idle
    /\ retry' = IF Retrying \/ refused = <<>> THEN retry
                ELSE [left |-> refused, busy |-> FALSE]
    /\ UNCHANGED <<mapVars, refused, seenVars, keyVars, workerVars, botVars,
                   boundVars, queue, routing, inbox>>

\* The next of the snapshot, if it is still kept as it was, asks for the mutex.
RetryNext ==
    /\ retry # Idle /\ ~retry.busy
    /\ IF retry.left = <<>> THEN retry' = Idle /\ UNCHANGED queue
       ELSE LET e == Head(retry.left) IN
            IF e \in Range(refused)
            THEN /\ retry' = [retry EXCEPT !.busy = TRUE]
                 /\ queue' = Append(queue, Request("open", e.uuid, e.load, "retry"))
            ELSE /\ retry' = [retry EXCEPT !.left = Tail(@)]
                 /\ UNCHANGED queue
    /\ UNCHANGED <<mapVars, refused, seenVars, keyVars, workerVars, botVars,
                   boundVars, routing, tick, inbox>>

-----------------------------------------------------------------------------
(* A worker.                                                                 *)

\* The cap pre-check of the RPC, and the answer if anybody waits for it.
WorkerHandlesOpen(w) ==
    LET m  == Head(inbox[w])
        ok == m.uuid \in users[w] \/ Cardinality(users[w]) < cap[w]
    IN
    /\ up[w] /\ inbox[w] # <<>> /\ m.op = "open"
    /\ inbox' = [inbox EXCEPT ![w] = Tail(@)]
    /\ accepted' = IF ok THEN [accepted EXCEPT ![w] = Append(@, m.uuid)]
                   ELSE accepted
    /\ routing' = IF m.asks THEN [routing EXCEPT !.reply = IF ok THEN "yes" ELSE "no"]
                  ELSE routing
    /\ UNCHANGED <<mapVars, refuseVars, seenVars, keyVars, up, cap, users, count,
                   botVars, boundVars, queue, tick>>

\* A close nobody is counted for does nothing.
\* Mutant: it does what every close does.
AlwaysCounted(w, u) == FALSE
NotCounted(w, u) == count[w][u] = 0

WorkerHandlesClose(w) ==
    LET u == Head(inbox[w]).uuid IN
    /\ up[w] /\ inbox[w] # <<>> /\ Head(inbox[w]).op = "close"
    /\ inbox' = [inbox EXCEPT ![w] = Tail(@)]
    /\ IF NotCounted(w, u) THEN UNCHANGED <<users, count>>
       ELSE /\ count' = [count EXCEPT ![w][u] = @ - 1]
            /\ users' = IF count[w][u] > 1 THEN users
                        ELSE [users EXCEPT ![w] = @ \ {u}]
    /\ UNCHANGED <<mapVars, refuseVars, seenVars, keyVars, up, cap, accepted,
                   botVars, boundVars, queue, routing, tick>>

\* Room for one more in the worker, the check openStreamCallback itself makes.
\* Mutant: the pre-check was enough.
AlwaysRoom(w, u) == TRUE
RoomFor(w, u) == Cardinality(users[w] \ {u}) < cap[w]

\* An accepted open gets its turn: it joins, is refused by the second check
\* without a word, connects, or fails to connect and leaves its entry.
WorkerOpens(w) ==
    LET u == Head(accepted[w]) IN
    /\ up[w] /\ accepted[w] # <<>>
    /\ accepted' = [accepted EXCEPT ![w] = Tail(@)]
    /\ \/ /\ count[w][u] > 0 \/ RoomFor(w, u)
          /\ count' = [count EXCEPT ![w][u] = @ + 1]
          /\ users' = [users EXCEPT ![w] = @ \cup {u}]
       \/ /\ count[w][u] = 0 /\ RoomFor(w, u)
          /\ users' = [users EXCEPT ![w] = @ \cup {u}]
          /\ UNCHANGED count
       \/ /\ count[w][u] = 0 /\ ~RoomFor(w, u)
          /\ users' = [users EXCEPT ![w] = @ \ {u}]
          /\ UNCHANGED count
    /\ UNCHANGED <<mapVars, refuseVars, seenVars, keyVars, up, cap, botVars,
                   boundVars, queue, routing, tick, inbox>>

\* The worker's heartbeat: its key, its cap and its list.
WorkerPublishes(w) ==
    /\ up[w]
    /\ hb[w] = FALSE \/ listed[w] # users[w]
    /\ hb' = [hb EXCEPT ![w] = TRUE]
    /\ listed' = [listed EXCEPT ![w] = users[w]]
    /\ UNCHANGED <<mapVars, refuseVars, seenVars, workerVars, botVars,
                   boundVars, queue, routing, tick, inbox>>

\* IPs that appear late raise the cap.
CapRises(w) ==
    /\ up[w] /\ raises < MaxRaises
    /\ cap' = [cap EXCEPT ![w] = @ + 1]
    /\ raises' = raises + 1
    /\ UNCHANGED <<mapVars, refuseVars, seenVars, keyVars, up, accepted, users,
                   count, botVars, sent, crashes, restarts, queue, routing, tick,
                   inbox>>

-----------------------------------------------------------------------------
(* Crashes and restarts.                                                     *)

WorkerCrashes(w) ==
    /\ up[w] /\ crashes < MaxCrashes
    /\ crashes' = crashes + 1
    /\ up' = [up EXCEPT ![w] = FALSE]
    /\ accepted' = [accepted EXCEPT ![w] = <<>>]
    /\ users' = [users EXCEPT ![w] = {}]
    /\ count' = [count EXCEPT ![w] = [u \in Uuids |-> 0]]
    /\ UNCHANGED <<mapVars, refuseVars, seenVars, keyVars, cap, botVars, sent,
                   raises, restarts, queue, routing, tick, inbox>>

\* The heartbeat and the list outlive the worker by their TTL.
KeysExpire(w) ==
    /\ ~up[w] /\ hb[w]
    /\ hb' = [hb EXCEPT ![w] = FALSE]
    /\ listed' = [listed EXCEPT ![w] = Unknown]
    /\ UNCHANGED <<mapVars, refuseVars, seenVars, workerVars, botVars,
                   boundVars, queue, routing, tick, inbox>>

\* A new process asks every bot to open again.  It writes its first keys before
\* its Redis client exists, so they come with the first WorkerPublishes; the boot
\* epoch is written only here, so it is in Redis (BootKeys) only if something
\* else put it there, and it does not change.
WorkerBoots(w) ==
    /\ ~up[w]
    /\ up' = [up EXCEPT ![w] = TRUE]
    /\ reopen' = {u \in Uuids : wanted[u] > 0}
    /\ UNCHANGED <<mapVars, refuseVars, seenVars, keyVars, cap, accepted, users,
                   count, wanted, boundVars, queue, routing, tick, inbox>>

\* Requests of bots that were not acknowledged are delivered again.  Queued
\* retries go with the process: there is at most one.
BotRequests ==
    LET retries == {i \in DOMAIN queue : queue[i].by = "retry"} IN
    IF retries = {} THEN queue
    ELSE RemoveAt(queue, CHOOSE i \in retries : TRUE)

\* doInit reads assignments, epochs and caps back from Redis; the kept opens
\* are lost.
BalancerRestarts ==
    /\ restarts < MaxRestarts
    /\ restarts' = restarts + 1
    /\ assign' = stored
    /\ refused' = <<>> /\ retry' = Idle
    /\ workerBoot' = lastBoot
    /\ capSeen' = [w \in Workers |-> IF hb[w] THEN cap[w] ELSE BaseCap]
    /\ tick' = [left |-> Workers, at |-> Nobody, init |-> TRUE]
    /\ routing' = Idle
    /\ inbox' = Unasked
    /\ queue' = IF routing # Idle /\ routing.by = "bot"
                THEN <<Request("open", routing.uuid, routing.load, "bot")>> \o BotRequests
                ELSE BotRequests
    /\ UNCHANGED <<stored, lastBoot, keyVars, workerVars, botVars, sent, raises,
                   crashes>>

\* doInit reconciles with every worker before anything is routed; the watchdog
\* starts after it.
InitReconciles(w) ==
    /\ Initialising /\ tick.left # {} /\ w = CHOOSE v \in tick.left : TRUE
    /\ tick' = [tick EXCEPT !.left = @ \ {w}]
    /\ ReconcileWith(w)
    /\ UNCHANGED <<refuseVars, seenVars, keyVars, workerVars, botVars, boundVars,
                   queue, routing, inbox>>

InitEnds ==
    /\ Initialising /\ tick.left = {}
    /\ tick' = Idle
    /\ UNCHANGED <<mapVars, refuseVars, seenVars, keyVars, workerVars, botVars,
                   boundVars, queue, routing, inbox>>

-----------------------------------------------------------------------------

BalancerStep ==
    \/ RouteOpen \/ Ask \/ RouteAccepted \/ RouteRefused \/ KeepRefused
    \/ RouteClose \/ RetryNext
TickStep ==
    \/ TickStarts \/ TickEnds
    \/ \E w \in Workers : LookDead(w) \/ LookAlive(w) \/ Reconcile(w)
    \/ InitEnds \/ \E w \in Workers : InitReconciles(w)
WorkerHandles(w) == WorkerHandlesOpen(w) \/ WorkerHandlesClose(w)

Next ==
    \/ \E u \in Uuids : Open(u) \/ Close(u) \/ Resend(u)
    \/ BalancerStep \/ TickStep \/ BalancerRestarts
    \/ \E w \in Workers :
          \/ WorkerHandles(w) \/ WorkerOpens(w) \/ WorkerPublishes(w) \/ CapRises(w)
          \/ WorkerCrashes(w) \/ KeysExpire(w) \/ WorkerBoots(w)

Spec == Init /\ [][Next]_vars

\* The balancer works off its queue and ticks once per heartbeat; workers that
\* are up work off theirs and publish.  A worker may stay down.
Fairness ==
    /\ WF_vars(BalancerStep) /\ WF_vars(TickStep)
    /\ \A w \in Workers :
          /\ WF_vars(WorkerHandles(w)) /\ WF_vars(WorkerOpens(w))
          /\ WF_vars(WorkerPublishes(w)) /\ WF_vars(KeysExpire(w))

LiveSpec == Spec /\ Fairness

-----------------------------------------------------------------------------
(* Properties.                                                               *)

\* Every variable has its type.
TypeOK ==
    /\ assign \in [Uuids -> Workers \cup {Nobody}]
    /\ stored \in [Uuids -> Workers \cup {Nobody}]
    /\ refused \in Seq(Payloads)
    /\ retry \in {Idle} \cup Passes
    /\ queue \in Seq(Requests)
    /\ routing \in {Idle} \cup Routings
    /\ tick \in {Idle} \cup Ticks
    /\ workerBoot \subseteq Workers /\ lastBoot \subseteq Workers
    /\ capSeen \in [Workers -> Nat] /\ cap \in [Workers -> Nat]
    /\ up \in [Workers -> BOOLEAN] /\ hb \in [Workers -> BOOLEAN]
    /\ listed \in [Workers -> (SUBSET Uuids) \cup {Unknown}]
    /\ inbox \in [Workers -> Seq(Messages)]
    /\ accepted \in [Workers -> Seq(Uuids)]
    /\ users \in [Workers -> SUBSET Uuids]
    /\ count \in [Workers -> [Uuids -> Nat]]
    /\ wanted \in [Uuids -> Nat] /\ reopen \subseteq Uuids
    /\ sent \in Nat /\ raises \in Nat /\ crashes \in Nat /\ restarts \in Nat

\* One pass over the refused opens runs at a time, and it asks for the mutex
\* once at a time, although ticks go on while it waits (retryingRefused).
RetryQueued(i) == queue[i].by = "retry"
RetryRuns == routing # Idle /\ routing.by = "retry"
OneRetryAtATime ==
    \A i \in DOMAIN queue : RetryQueued(i) =>
        /\ ~RetryRuns
        /\ \A j \in DOMAIN queue : RetryQueued(j) => i = j

\* No worker holds more accounts than its connections allow, whatever was
\* accepted before its turn came (userStream.ts 3405-3431).
WorkerWithinCap == \A w \in Workers : Cardinality(users[w]) <= cap[w]

\* Somebody still has the account's open.
Handled(u) ==
    \/ \E i \in DOMAIN queue : queue[i].uuid = u /\ queue[i].op = "open"
    \/ routing # Idle /\ routing.uuid = u
    \/ Kept(u)
    \/ assign[u] # Nobody \/ u \in reopen
    \/ \E w \in Workers : u \in users[w] \/ u \in Range(accepted[w])
                        \/ \E m \in Range(inbox[w]) : m.uuid = u

\* The balancer forgets no open: an account its bot wants is queued, kept,
\* assigned or with a worker (spec 019, 4.1 and 4.2).
NoOpenForgotten == \A u \in Uuids : wanted[u] > 0 => Handled(u)

\* An open that was refused does not wait for ever while a worker has room
\* (spec 019, 1.1).
Room == \E w \in Workers :
    /\ up[w] /\ hb[w]
    /\ Load(w) < cap[w]
    /\ Cardinality(users[w]) + Len(accepted[w]) < cap[w]
RefusedIsRetried == \A u \in Uuids : Kept(u) ~> (~Kept(u) \/ ~Room)

\* A worker that died after a tick found it alive loses its accounts.
SeenDeadIsDrained == \A u \in Uuids, w \in Workers :
    (assign[u] = w /\ ~up[w] /\ w \in workerBoot) ~> (assign[u] # w \/ up[w])

\* A worker without a heartbeat is dead and loses its accounts (lines 32-34).
DeadIsDrained == \A u \in Uuids, w \in Workers :
    (assign[u] = w /\ ~up[w]) ~> (assign[u] # w \/ up[w])

\* What a worker holds is assigned, so that its close and its next open find it
\* (lines 457-460).
HeldIsAssigned == \A u \in Uuids : \A w \in Workers :
    (u \in users[w]) ~> (u \notin users[w] \/ assign[u] # Nobody)

\* A closed account is never reopened (spec 019, 4.3).
ClosedStaysClosed == [][
    routing = Idle /\ routing' # Idle /\ routing'.by = "retry"
        => wanted[routing'.uuid] > 0]_vars
=============================================================================
