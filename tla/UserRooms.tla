------------------------------ MODULE UserRooms ------------------------------
(***************************************************************************)
(* Life of the user-stream rooms of one exchange family in the             *)
(* UserConnector (src/src/userStream.ts).                                  *)
(*                                                                         *)
(* A room is an account uuid.  Callers send `open stream` and              *)
(* `close stream` over RabbitMQ; the connector keeps one exchange client   *)
(* per room, counts the room's subscribers, and rebuilds or drops the      *)
(* client on errors.  openStreamCallback runs under an IdMutex keyed by    *)
(* the family, so the opens of a family form one queue; every other        *)
(* handler runs between two awaits of an open.                             *)
(*                                                                         *)
(* What a family does differently is the record branch, which never        *)
(* changes: one record per branch of openStreamCallback is defined below.  *)
(***************************************************************************)
EXTENDS Naturals, Sequences, FiniteSets

CONSTANTS
    Rooms,         \* account uuids of the family
    Creds,         \* credential fingerprints a request may carry
    LegacyCreds,   \* credentials Binance spot can never stream (HMAC / RSA)
    Clients,       \* names for exchange clients
    Branches,      \* branches of openStreamCallback the family may have
    Features,      \* which operator-driven handlers may run
    MaxRequests,   \* bound on `open stream` messages
    MaxForced,     \* bound on operator-driven actions
    Absent, NoCred, NoClient, NoUser, NoTimer, NoOpen, NoRestart

ASSUME RoomsAssumption ==
    /\ Absent \notin Nat
    /\ NoCred \notin Creds
    /\ NoClient \notin Clients
    /\ LegacyCreds \subseteq Creds
    /\ Features \subseteq {"restart", "guard", "admin"}
    /\ MaxRequests \in Nat /\ MaxForced \in Nat

ASSUME BranchAssumption ==
    Branches \subseteq [awaits : BOOLEAN, timeout : BOOLEAN, closes : BOOLEAN,
                         paced : BOOLEAN, throws : BOOLEAN, limit : Nat,
                         stops : {"own", "entry"}, watchdog : BOOLEAN,
                         rejected : {"breaker", "drop", "forget", "none"}]

VARIABLES
    branch,           \* what this family's branch of openStreamCallback does
    users,            \* this.users: room -> entry, close() named by its client
    subscribersMap,   \* room -> subscriber count, or Absent
    subscribeMsgsMap, \* room -> credentials of the stored open message
    cooldown,         \* authCooldownUntil: "off", in force, or lapsed
    credFp,           \* authCooldownCredFp
    retryTimer,       \* authRetryTimers: the pending self-heal retry
    errors,           \* consecutive error counter of the room
    client,           \* every exchange client that was constructed
    sleeping,         \* clients whose error handler sleeps before reopening
    opens,            \* opens waiting for the family mutex, oldest first
    opening,          \* the open that holds the mutex
    deferred,         \* 500 ms retry timers of opens that met a pending entry
    restart,          \* restartStreams in progress
    refcount,         \* forceResubscribe in progress: count it will restore
    enabled,          \* is the exchange enabled by the host's admin config
    wanted,           \* opens minus closes the callers sent (ghost)
    sent, forced      \* requests sent, operator-driven actions taken

roomVars   == <<users, subscribersMap, subscribeMsgsMap>>
gateVars   == <<cooldown, credFp>>
clientVars == <<client, sleeping, errors>>
queueVars  == <<opens, opening, deferred>>
forcedVars == <<restart, refcount, enabled, forced>>
callerVars == <<wanted, sent>>
vars == <<branch, roomVars, gateVars, retryTimer, clientVars, queueVars,
          forcedVars, callerVars>>

-----------------------------------------------------------------------------
(* The branches of openStreamCallback.                                      *)
(*   awaits:    the open waits for the connection before it counts          *)
(*   timeout:   that wait is raced against a timer                          *)
(*   closes:    a failed open closes the client it built                    *)
(*   paced:     the open sleeps between counting and saving the entry       *)
(*   throws:    something before the branch's try may throw                 *)
(*   limit:     errors after which the handler rebuilds (0: never reached)  *)
(*   stops:     which client that handler closes, its own or the entry's    *)
(*   rejected:  what a credential rejection does to the room                *)
(*   watchdog:  an open socket that never authenticates is rebuilt          *)

BinanceBranch ==
    [awaits |-> TRUE, timeout |-> TRUE, closes |-> TRUE, paced |-> TRUE,
     throws |-> FALSE, limit |-> 2, stops |-> "own", rejected |-> "breaker",
     watchdog |-> FALSE]

KucoinBranch ==
    [awaits |-> TRUE, timeout |-> FALSE, closes |-> FALSE, paced |-> FALSE,
     throws |-> TRUE, limit |-> 10, stops |-> "entry", rejected |-> "none",
     watchdog |-> FALSE]

BybitBranch ==
    [awaits |-> TRUE, timeout |-> TRUE, closes |-> FALSE, paced |-> TRUE,
     throws |-> FALSE, limit |-> 0, stops |-> "own", rejected |-> "forget",
     watchdog |-> FALSE]

OkxBranch ==
    [awaits |-> FALSE, timeout |-> FALSE, closes |-> FALSE, paced |-> TRUE,
     throws |-> FALSE, limit |-> 0, stops |-> "own", rejected |-> "drop",
     watchdog |-> FALSE]

CoinbaseBranch ==
    [awaits |-> FALSE, timeout |-> FALSE, closes |-> FALSE, paced |-> FALSE,
     throws |-> FALSE, limit |-> 0, stops |-> "own", rejected |-> "drop",
     watchdog |-> FALSE]

BitgetBranch ==
    [awaits |-> TRUE, timeout |-> TRUE, closes |-> FALSE, paced |-> TRUE,
     throws |-> FALSE, limit |-> 0, stops |-> "own", rejected |-> "none",
     watchdog |-> FALSE]

KrakenBranch ==
    [awaits |-> FALSE, timeout |-> FALSE, closes |-> FALSE, paced |-> TRUE,
     throws |-> FALSE, limit |-> 0, stops |-> "own", rejected |-> "breaker",
     watchdog |-> TRUE]

-----------------------------------------------------------------------------
(* State predicates and helpers.                                            *)

\* JavaScript truth of a Map lookup.  Mutant: tests for `undefined` only.
Defined(n) == n # Absent
Truthy(n)  == n \notin {0, Absent}
Count(n)  == IF n = Absent THEN 0 ELSE n

Live(k)       == client[k].st = "live"
LiveIn(r)     == {k \in Clients : Live(k) /\ client[k].room = r}
Registered(r) == IF users[r] = NoUser THEN NoClient ELSE users[r].client
Sleeping(r)   == \E k \in sleeping : client[k].room = r

\* The open that holds the mutex is at one of its two awaits.
AtStep(s) == opening # NoOpen /\ opening.step = s

\* A name no open, entry or handler refers to any more.
Unused(k) ==
    /\ ~Live(k) /\ k \notin sleeping
    /\ \A r \in Rooms : Registered(r) # k
    /\ opening # NoOpen => k \notin {opening.client, opening.prev}

\* The gate at the top of openStreamCallback: the cooldown is in force and the
\* request carries the credentials that armed it, if those are known.
GateClosed(r, c) == cooldown[r] = "armed" /\ credFp[r] \in {NoCred, c}

\* close() of the clients in S.
CloseAll(S) ==
    [k \in Clients |-> IF k \in S /\ Live(k)
                       THEN [client[k] EXCEPT !.st = "closed"] ELSE client[k]]

\* An entry that is no longer pending.  Mutant: the flag is not cleared.
StillPending(k) == [pending |-> TRUE, client |-> k]
SavedEntry(k)   == [pending |-> FALSE, client |-> k]

\* subscribersMap.delete.  Mutant: the count stays.
KeepCount(r) == UNCHANGED subscribersMap
Uncount(r)   == subscribersMap' = [subscribersMap EXCEPT ![r] = Absent]

\* Cancel the room's self-heal retry.  Mutant: the timer is left armed.
KeepRetry(r)   == UNCHANGED retryTimer
CancelRetry(r) == retryTimer' = [retryTimer EXCEPT ![r] = NoTimer]

\* n opens of a room, sent by the connector itself.
Copies(r, c, n) == [i \in 1..n |-> [room |-> r, cred |-> c, by |-> "retry"]]

Init ==
    /\ branch \in Branches
    /\ users = [r \in Rooms |-> NoUser]
    /\ subscribersMap = [r \in Rooms |-> Absent]
    /\ subscribeMsgsMap = [r \in Rooms |-> NoCred]
    /\ cooldown = [r \in Rooms |-> "off"]
    /\ credFp = [r \in Rooms |-> NoCred]
    /\ retryTimer = [r \in Rooms |-> NoTimer]
    /\ errors = [r \in Rooms |-> 0]
    /\ client = [k \in Clients |->
                    [room |-> NoUser, cred |-> NoCred, st |-> "free"]]
    /\ sleeping = {}
    /\ opens = <<>>
    /\ opening = NoOpen
    /\ deferred = [r \in Rooms |-> <<>>]
    /\ restart = NoRestart
    /\ refcount = [r \in Rooms |-> Absent]
    /\ enabled = TRUE
    /\ wanted = [r \in Rooms |-> 0]
    /\ sent = 0
    /\ forced = <<>>

-----------------------------------------------------------------------------
(* Requests.                                                                *)

\* RabbitMQ `open stream`: openStreamCallback joins the family's mutex queue.
OpenStream(r, c) ==
    /\ sent < MaxRequests
    /\ opens' = Append(opens, [room |-> r, cred |-> c, by |-> "caller"])
    /\ wanted' = [wanted EXCEPT ![r] = @ + 1]
    /\ sent' = sent + 1
    /\ UNCHANGED <<roomVars, gateVars, retryTimer, clientVars, opening,
                   deferred, forcedVars>>

\* What forgetSubscription leaves of a room's gate and timer.
Forget(r) ==
    /\ CancelRetry(r)
    /\ subscribeMsgsMap' = [subscribeMsgsMap EXCEPT ![r] = NoCred]
    /\ IF cooldown[r] = "armed"
       THEN UNCHANGED gateVars
       ELSE /\ cooldown' = [cooldown EXCEPT ![r] = "off"]
            /\ credFp' = [credFp EXCEPT ![r] = NoCred]

\* closeStreamCallback, run to its end n times for one room.
Leave(r, n) ==
    LET left == Count(subscribersMap[r]) - n IN
    IF ~Truthy(subscribersMap[r])
    THEN /\ Forget(r)
         /\ UNCHANGED <<users, subscribersMap, client>>
    ELSE /\ subscribersMap' = [subscribersMap EXCEPT ![r] = left]
         /\ IF left > 0
            THEN UNCHANGED <<users, client, retryTimer, subscribeMsgsMap, gateVars>>
            ELSE /\ Forget(r)
                 /\ client' = CloseAll({Registered(r)})
                 /\ users' = [users EXCEPT ![r] = NoUser]

\* RabbitMQ `close stream`, sent by a caller that has opened the room.
CloseStream(r) ==
    /\ wanted[r] > 0
    /\ Leave(r, 1)
    /\ wanted' = [wanted EXCEPT ![r] = @ - 1]
    /\ UNCHANGED <<errors, sleeping, queueVars, forcedVars, sent>>

-----------------------------------------------------------------------------
(* openStreamCallback, from the moment the family mutex is granted.          *)

Next0 == Head(opens)
Granted == opening = NoOpen /\ opens # <<>>

\* The open `o` returns and leaves n subscribers: restartStreams goes on with
\* its loop, forceResubscribe restores the count it saved.
Return(o, n) ==
    /\ subscribersMap' = [subscribersMap EXCEPT
                            ![o.room] = IF o.by = "guard"
                                        THEN refcount[o.room] ELSE n]
    /\ refcount' = IF o.by = "guard"
                   THEN [refcount EXCEPT ![o.room] = Absent] ELSE refcount
    /\ restart' = IF o.by # "restart" THEN restart
                  ELSE IF restart.left = 0 THEN NoRestart
                  ELSE [restart EXCEPT !.step = "reopening"]

\* The exchange is disabled, or the room is in its auth-rejection cooldown.
SkipOpen ==
    /\ Granted
    /\ ~enabled \/ GateClosed(Next0.room, Next0.cred)
    /\ opens' = Tail(opens)
    /\ Return(Next0, subscribersMap[Next0.room])
    /\ UNCHANGED <<users, subscribeMsgsMap, gateVars, retryTimer, clientVars,
                   opening, deferred, enabled, forced, callerVars>>

\* Passing the gate drops a breaker armed by other credentials, or a lapsed one.
PassGate(r, c) ==
    /\ enabled /\ ~GateClosed(r, c)
    /\ cooldown' = [cooldown EXCEPT ![r] = "off"]
    /\ credFp' = [credFp EXCEPT ![r] = IF cooldown[r] = "off" THEN @ ELSE NoCred]

Pending(r) == users[r] # NoUser /\ users[r].pending

\* The room's entry is pending: ask again in 500 ms.
DeferOpen ==
    LET o == Next0 IN
    /\ Granted
    /\ PassGate(o.room, o.cred)
    /\ Pending(o.room)
    /\ deferred' = [deferred EXCEPT ![o.room] = Append(@, o.cred)]
    /\ opens' = Tail(opens)
    /\ Return(o, subscribersMap[o.room])
    /\ UNCHANGED <<users, subscribeMsgsMap, retryTimer, clientVars, opening,
                   enabled, forced, callerVars>>

RetryDeferred(r) ==
    /\ deferred[r] # <<>>
    /\ opens' = opens \o Copies(r, Head(deferred[r]), 1)
    /\ deferred' = [deferred EXCEPT ![r] = Tail(@)]
    /\ UNCHANGED <<roomVars, gateVars, retryTimer, clientVars, opening,
                   forcedVars, callerVars>>

\* The room already counts subscribers: one more, and no client is built.
JoinRoom ==
    LET o == Next0 IN
    /\ Granted
    /\ PassGate(o.room, o.cred)
    /\ ~Pending(o.room)
    /\ Truthy(subscribersMap[o.room])
    /\ users' = [users EXCEPT ![o.room] = SavedEntry(Registered(o.room))]
    /\ opens' = Tail(opens)
    /\ Return(o, subscribersMap[o.room] + 1)
    /\ UNCHANGED <<subscribeMsgsMap, retryTimer, clientVars, opening, deferred,
                   enabled, forced, callerVars>>

\* The open goes on to its branch: common part of the three actions below.
EnterBranch(o) ==
    /\ Granted
    /\ o = Next0
    /\ ~Pending(o.room)
    /\ ~Truthy(subscribersMap[o.room])
    /\ opens' = Tail(opens)

\* armAuthCooldown for the credentials fp of the rejected client.
Arm(r, fp) ==
    /\ cooldown' = [cooldown EXCEPT ![r] = "armed"]
    /\ credFp' = [credFp EXCEPT ![r] = fp]

\* scheduleAuthSelfHeal for n subscribers: with none it returns before it
\* touches the pending timer.  A gated timer is due when the cooldown armed
\* with it lapses; an older one has a due time of its own.
Schedule(r, c, n, gated) ==
    retryTimer' = [retryTimer EXCEPT ![r] =
                     IF Truthy(n) THEN [subs |-> n, cred |-> c, gated |-> gated]
                     ELSE IF @ = NoTimer THEN @
                     ELSE [@ EXCEPT !.gated = FALSE]]

\* Binance spot with an HMAC or RSA key: circuit-broken before any client.
RejectLegacy ==
    LET o == Next0 IN
    /\ branch = BinanceBranch
    /\ EnterBranch(o)
    /\ enabled /\ ~GateClosed(o.room, o.cred)
    /\ o.cred \in LegacyCreds
    /\ Arm(o.room, o.cred)
    /\ Schedule(o.room, o.cred, Absent, TRUE)
    /\ users' = [users EXCEPT ![o.room] = SavedEntry(Registered(o.room))]
    /\ Return(o, subscribersMap[o.room])
    /\ UNCHANGED <<subscribeMsgsMap, clientVars, opening, deferred, enabled,
                   forced, callerVars>>

\* this.users once an open that found no entry has saved a pending one.
WithEntry(r) ==
    IF users[r] = NoUser
    THEN [users EXCEPT ![r] = [pending |-> TRUE, client |-> NoClient]]
    ELSE users

\* The branch throws before its try: the mutex is released, the entry stays.
ThrowInBranch ==
    LET o == Next0 IN
    /\ branch.throws
    /\ EnterBranch(o)
    /\ PassGate(o.room, o.cred)
    /\ users' = WithEntry(o.room)
    /\ Return(o, subscribersMap[o.room])
    /\ UNCHANGED <<subscribeMsgsMap, retryTimer, clientVars, opening, deferred,
                   enabled, forced, callerVars>>

\* The open o goes to one of its awaits, leaving n subscribers and the
\* entries us behind.
Await(o, step, n, us) ==
    /\ opening' = [o EXCEPT !.step = step]
    /\ subscribersMap' = [subscribersMap EXCEPT ![o.room] = n]
    /\ users' = us
    /\ UNCHANGED <<subscribeMsgsMap, restart, refcount>>

\* The entry gets its client, the open message is stored and `Subscribed to
\* user` is published.
Save(o, n) ==
    /\ opening' = NoOpen
    /\ users' = [users EXCEPT ![o.room] = SavedEntry(o.client)]
    /\ subscribeMsgsMap' = [subscribeMsgsMap EXCEPT ![o.room] = o.cred]
    /\ Return(o, n)

\* The subscriber is counted; an unpaced branch saves in the same turn.
CountSubscriber(o, us) ==
    LET n == Count(subscribersMap[o.room]) + 1 IN
    IF branch.paced THEN Await(o, "pacing", n, us) ELSE Save(o, n)

\* The branch builds a client; only some branches wait for its connection.
Connect(k) ==
    LET o == Next0
        r == o.room
        held == [room |-> r, cred |-> o.cred, by |-> o.by, client |-> k,
                 prev |-> Registered(r), step |-> "connecting"]
    IN
    /\ EnterBranch(o)
    /\ PassGate(r, o.cred)
    /\ ~(branch = BinanceBranch /\ o.cred \in LegacyCreds)
    /\ Unused(k)
    /\ client' = [client EXCEPT ![k] =
                     [room |-> r, cred |-> o.cred, st |-> "live"]]
    /\ IF branch.awaits
       THEN Await(held, "connecting", subscribersMap[r], WithEntry(r))
       ELSE CountSubscriber(held, WithEntry(r))
    /\ UNCHANGED <<retryTimer, errors, sleeping, deferred, enabled, forced,
                   callerVars>>

\* The awaited connection is up.
Connected ==
    /\ AtStep("connecting")
    /\ Live(opening.client)
    /\ CountSubscriber(opening, users)
    /\ UNCHANGED <<gateVars, retryTimer, clientVars, opens, deferred, enabled,
                   forced, callerVars>>

\* The connection was refused, or the timer won the race: the entry is saved
\* as not pending, with the close() it had before.
FailOpen ==
    LET r == opening.room IN
    /\ AtStep("connecting")
    /\ client' = IF branch.closes THEN CloseAll({opening.client}) ELSE client
    /\ users' = [users EXCEPT ![r] = SavedEntry(opening.prev)]
    /\ opening' = NoOpen
    /\ Return(opening, subscribersMap[r])
    /\ UNCHANGED <<subscribeMsgsMap, gateVars, retryTimer, errors, sleeping,
                   opens, deferred, enabled, forced, callerVars>>

ConnectRefused == FailOpen
ConnectTimeout == branch.timeout /\ FailOpen

\* The pace is over.
FinishOpen ==
    /\ AtStep("pacing")
    /\ Save(opening, subscribersMap[opening.room])
    /\ UNCHANGED <<gateVars, retryTimer, clientVars, opens, deferred, enabled,
                   forced, callerVars>>

-----------------------------------------------------------------------------
(* Events of a client.                                                      *)

\* The common end of the three breakers: the client is closed, the room loses
\* its entry and its count, and one retry is scheduled for that count.
TearDown(k, gated) ==
    LET r == client[k].room IN
    /\ client' = CloseAll({k})
    /\ users' = [users EXCEPT ![r] = NoUser]
    /\ Uncount(r)
    /\ Schedule(r, client[k].cred, subscribersMap[r], gated)
    /\ UNCHANGED <<subscribeMsgsMap, sleeping, queueVars, forcedVars, callerVars>>

\* The venue rejects the credentials.
TripBreaker(k) ==
    LET r == client[k].room IN
    /\ Live(k)
    /\ branch.rejected = "breaker"
    /\ ~(branch = KrakenBranch /\ cooldown[r] = "armed")
    /\ Arm(r, client[k].cred)
    /\ errors' = [errors EXCEPT ![r] = 0]
    /\ TearDown(k, TRUE)

\* Kraken cannot be reached: the same gate, with the fingerprint left alone.
TripTransport(k) ==
    LET r == client[k].room IN
    /\ Live(k)
    /\ branch = KrakenBranch
    /\ cooldown[r] # "armed"
    /\ Arm(r, credFp[r])
    /\ TearDown(k, TRUE)
    /\ UNCHANGED errors

\* A Kraken futures socket opened and never authenticated.
AuthWatchdog(k) ==
    /\ Live(k)
    /\ branch.watchdog
    /\ cooldown[client[k].room] # "armed"
    /\ TearDown(k, FALSE)
    /\ UNCHANGED <<gateVars, errors>>

\* A genuine account event proves the key: the breaker's state is dropped.
AccountEvent(k) ==
    LET r == client[k].room IN
    /\ Live(k)
    /\ cooldown[r] # "off" \/ credFp[r] # NoCred
    /\ cooldown' = [cooldown EXCEPT ![r] = "off"]
    /\ credFp' = [credFp EXCEPT ![r] = NoCred]
    /\ UNCHANGED <<roomVars, retryTimer, clientVars, queueVars, forcedVars,
                   callerVars>>

\* OKX and Coinbase stop errors: the client is closed and the entry dropped;
\* the subscriber count stays.
DropRejected(k) ==
    LET r == client[k].room IN
    /\ branch.rejected = "drop"
    /\ Live(k)
    /\ client' = CloseAll({k})
    /\ users' = [users EXCEPT ![r] = NoUser]
    /\ UNCHANGED <<subscribersMap, subscribeMsgsMap, gateVars, retryTimer,
                   errors, sleeping, queueVars, forcedVars, callerVars>>

\* Too many errors (or, on Bybit, rejected credentials): close, drop the entry
\* and sleep.
BeginRebuild(k) ==
    LET r == client[k].room IN
    /\ client' = IF branch.stops = "own" THEN CloseAll({k})
                 ELSE CloseAll({Registered(r)})
    /\ users' = [users EXCEPT ![r] = NoUser]
    /\ sleeping' = sleeping \cup {k}
    /\ UNCHANGED <<subscribersMap, subscribeMsgsMap, gateVars, retryTimer,
                   queueVars, forcedVars, callerVars>>

ForgetRejected(k) ==
    LET r == client[k].room IN
    /\ branch.rejected = "forget"
    /\ Live(k) /\ k \notin sleeping
    /\ client' = CloseAll({k, Registered(r)})
    /\ users' = [users EXCEPT ![r] = NoUser]
    /\ sleeping' = sleeping \cup {k}
    /\ UNCHANGED <<subscribersMap, subscribeMsgsMap, gateVars, retryTimer,
                   errors, queueVars, forcedVars, callerVars>>

ClientError(k) ==
    LET r == client[k].room IN
    /\ branch.limit > 0
    /\ Live(k) /\ k \notin sleeping
    /\ errors[r] + 1 < branch.limit
    /\ errors' = [errors EXCEPT ![r] = @ + 1]
    /\ UNCHANGED <<roomVars, gateVars, retryTimer, client, sleeping, queueVars,
                   forcedVars, callerVars>>

ErrorLimitReached(k) ==
    LET r == client[k].room IN
    /\ branch.limit > 0
    /\ Live(k) /\ k \notin sleeping
    /\ errors[r] + 1 >= branch.limit
    /\ errors' = [errors EXCEPT ![r] = branch.limit]
    /\ BeginRebuild(k)

\* The handler's sleep is over: the count it finds is dropped, and one open
\* per counted subscriber joins the queue (none on Bybit's rejection).
EndRebuild(k) ==
    LET r == client[k].room IN
    /\ k \in sleeping
    /\ sleeping' = sleeping \ {k}
    /\ Uncount(r)
    /\ errors' = [errors EXCEPT ![r] = 0]
    /\ opens' = IF branch.rejected = "forget" THEN opens
                ELSE opens \o Copies(r, client[k].cred, Count(subscribersMap[r]))
    /\ UNCHANGED <<users, subscribeMsgsMap, gateVars, retryTimer, client,
                   opening, deferred, forcedVars, callerVars>>

-----------------------------------------------------------------------------
(* Timers.                                                                  *)

CooldownLapses(r) ==
    /\ cooldown[r] = "armed"
    /\ cooldown' = [cooldown EXCEPT ![r] = "lapsed"]
    /\ UNCHANGED <<roomVars, credFp, retryTimer, clientVars, queueVars,
                   forcedVars, callerVars>>

\* The self-heal retry: unless a later breaker is in force, one open per
\* subscriber the room had when it was scheduled.
SelfHeal(r) ==
    LET t == retryTimer[r] IN
    /\ t # NoTimer
    /\ t.gated => cooldown[r] # "armed"
    /\ CancelRetry(r)
    /\ IF cooldown[r] = "armed"
       THEN UNCHANGED <<cooldown, opens>>
       ELSE /\ cooldown' = [cooldown EXCEPT ![r] = "off"]
            /\ opens' = opens \o Copies(r, t.cred, t.subs)
    /\ UNCHANGED <<roomVars, credFp, clientVars, opening, deferred, forcedVars,
                   callerVars>>

-----------------------------------------------------------------------------
(* Operator-driven handlers.                                                *)

\* `force restart stream`: close once per subscriber, wait 250 ms, reopen.
ForceRestart(r) ==
    /\ "restart" \in Features /\ Len(forced) < MaxForced
    /\ restart = NoRestart
    /\ users[r] # NoUser
    /\ Truthy(subscribersMap[r]) /\ subscribeMsgsMap[r] # NoCred
    /\ Leave(r, subscribersMap[r])
    /\ restart' = [room |-> r, cred |-> subscribeMsgsMap[r],
                   left |-> subscribersMap[r], step |-> "settling"]
    /\ forced' = Append(forced, "restart")
    /\ UNCHANGED <<errors, sleeping, queueVars, refcount, enabled, callerVars>>

RestartSettled ==
    /\ restart # NoRestart /\ restart.step = "settling"
    /\ restart' = [restart EXCEPT !.step = "reopening"]
    /\ UNCHANGED <<roomVars, gateVars, retryTimer, clientVars, queueVars,
                   refcount, enabled, forced, callerVars>>

\* The loop awaits each open before it asks for the next.
RestartReopens ==
    /\ restart # NoRestart /\ restart.step = "reopening"
    /\ opens' = Append(opens, [room |-> restart.room, cred |-> restart.cred,
                               by |-> "restart"])
    /\ restart' = [restart EXCEPT !.left = @ - 1, !.step = "awaiting"]
    /\ UNCHANGED <<roomVars, gateVars, retryTimer, clientVars, opening, deferred,
                   refcount, enabled, forced, callerVars>>

\* The liveness guard: close the stream, drop its bookkeeping, reopen once.
\* The saved count is restored when that open returns, see Return.
ForceResubscribe(r) ==
    /\ "guard" \in Features /\ Len(forced) < MaxForced
    /\ refcount[r] = Absent
    /\ users[r] # NoUser /\ ~Pending(r)
    /\ subscribeMsgsMap[r] # NoCred
    /\ refcount' = [refcount EXCEPT ![r] = IF subscribersMap[r] = Absent
                                           THEN 1 ELSE subscribersMap[r]]
    /\ client' = CloseAll({Registered(r)})
    /\ users' = [users EXCEPT ![r] = NoUser]
    /\ Uncount(r)
    /\ opens' = Append(opens, [room |-> r, cred |-> subscribeMsgsMap[r],
                               by |-> "guard"])
    /\ forced' = Append(forced, "guard")
    /\ UNCHANGED <<subscribeMsgsMap, gateVars, retryTimer, errors, sleeping,
                   opening, deferred, restart, enabled, callerVars>>

\* The admin config disables the exchange: every entry is closed and dropped.
DisableExchange ==
    /\ "admin" \in Features /\ Len(forced) < MaxForced
    /\ enabled
    /\ enabled' = FALSE
    /\ client' = CloseAll({Registered(r) : r \in Rooms})
    /\ users' = [r \in Rooms |-> NoUser]
    /\ forced' = Append(forced, "admin")
    /\ UNCHANGED <<subscribersMap, subscribeMsgsMap, gateVars, retryTimer, errors,
                   sleeping, queueVars, restart, refcount, callerVars>>

EnableExchange ==
    /\ ~enabled
    /\ enabled' = TRUE
    /\ UNCHANGED <<roomVars, gateVars, retryTimer, clientVars, queueVars, restart,
                   refcount, forced, callerVars>>

-----------------------------------------------------------------------------

Step ==
    \/ \E r \in Rooms :
          \/ \E c \in Creds : OpenStream(r, c)
          \/ CloseStream(r)
          \/ RetryDeferred(r)
          \/ CooldownLapses(r)
          \/ SelfHeal(r)
          \/ ForceRestart(r)
          \/ ForceResubscribe(r)
    \/ \E k \in Clients :
          \/ Connect(k)
          \/ TripBreaker(k) \/ TripTransport(k) \/ AuthWatchdog(k)
          \/ AccountEvent(k)
          \/ DropRejected(k) \/ ForgetRejected(k)
          \/ ClientError(k) \/ ErrorLimitReached(k) \/ EndRebuild(k)
    \/ SkipOpen \/ DeferOpen \/ JoinRoom \/ RejectLegacy \/ ThrowInBranch
    \/ Connected \/ ConnectRefused \/ ConnectTimeout \/ FinishOpen
    \/ RestartSettled \/ RestartReopens
    \/ DisableExchange \/ EnableExchange

\* The family keeps its branch.
Next == Step /\ UNCHANGED branch

Spec == Init /\ [][Next]_vars

-----------------------------------------------------------------------------
(* Properties.                                                              *)

Senders    == {"caller", "retry", "restart", "guard"}
Counts     == Nat \cup {Absent}
Entry      == [pending : BOOLEAN, client : Clients \cup {NoClient}]
Retry      == [subs : Nat, cred : Creds, gated : BOOLEAN]
Client     == [room : Rooms \cup {NoUser}, cred : Creds \cup {NoCred},
               st : {"free", "live", "closed"}]
Open       == [room : Rooms, cred : Creds, by : Senders]
Opening    == [room : Rooms, cred : Creds, by : Senders, client : Clients,
               prev : Clients \cup {NoClient}, step : {"connecting", "pacing"}]
Restarting == [room : Rooms, cred : Creds, left : Nat,
               step : {"settling", "reopening", "awaiting"}]

\* Nothing the program stores is one of the markers for "nothing".
ASSUME MarkersAssumption ==
    NoUser \notin Entry /\ NoTimer \notin Retry /\ NoOpen \notin Opening
    /\ NoRestart \notin Restarting

TypeOK ==
    /\ branch \in Branches
    /\ users \in [Rooms -> Entry \cup {NoUser}]
    /\ subscribersMap \in [Rooms -> Counts]
    /\ subscribeMsgsMap \in [Rooms -> Creds \cup {NoCred}]
    /\ cooldown \in [Rooms -> {"off", "armed", "lapsed"}]
    /\ credFp \in [Rooms -> Creds \cup {NoCred}]
    /\ retryTimer \in [Rooms -> Retry \cup {NoTimer}]
    /\ errors \in [Rooms -> Nat]
    /\ client \in [Clients -> Client]
    /\ \A k \in Clients : Live(k) => client[k].room \in Rooms /\ client[k].cred \in Creds
    /\ sleeping \subseteq {k \in Clients : client[k].room \in Rooms /\ client[k].cred \in Creds}
    /\ opens \in Seq(Open)
    /\ opening \in Opening \cup {NoOpen}
    /\ deferred \in [Rooms -> Seq(Creds)]
    /\ restart \in Restarting \cup {NoRestart}
    /\ refcount \in [Rooms -> Counts]
    /\ enabled \in BOOLEAN
    /\ wanted \in [Rooms -> Nat]
    /\ sent \in Nat /\ forced \in Seq({"restart", "guard", "admin"})

\* A room that counts subscribers serves them: its entry's client is up, or
\* the open that counted them is about to save that client, or an error
\* handler is about to rebuild it.  Otherwise the next request would be
\* answered "already exists" (line 4033) by a room without a stream.
CountedRoomIsServed == \A r \in Rooms : enabled /\ Truthy(subscribersMap[r]) =>
    \/ Registered(r) \in LiveIn(r)
    \/ AtStep("pacing") /\ opening.client \in LiveIn(r)
    \/ Sleeping(r)

\* A pending entry belongs to the open that holds the mutex, so no request is
\* put off (lines 2002-2012) behind an open that is already gone.  Where a
\* branch throws before its try, the entry stays pending.
OwnsPending(r) == Pending(r) => opening # NoOpen /\ opening.room = r
PendingIsOwned == ~branch.throws => \A r \in Rooms : OwnsPending(r)

\* No open of the room is queued, in flight or put off.
Settled(r) ==
    /\ opening # NoOpen => opening.room # r
    /\ \A i \in 1..Len(opens) : opens[i].room # r
    /\ deferred[r] = <<>>

\* Callers that never close a room while an open of it is unanswered.
Patient == \A r \in Rooms : wanted'[r] < wanted[r] => Settled(r)
PatientSpec == Init /\ [][Next /\ Patient]_vars

\* Neither the guard nor a forced restart has run: the first counts a room
\* that had no subscriber once, the second reopens what a close in its settle
\* has given up.
Untouched == \A i \in DOMAIN forced : forced[i] = "admin"

\* A self-heal retry is only ever pending for a room some caller still wants:
\* closing a broken room cancels it (lines 4163-4168).
RetryHasOwner ==
    Untouched => \A r \in Rooms : retryTimer[r] # NoTimer => wanted[r] > 0

\* Subscribers of r that are counted, or that an open, retry or restart on
\* its way is going to count.
Demand(r) ==
    LET queued == {i \in 1..Len(opens) : opens[i].room = r}
        counting == AtStep("connecting") /\ opening.room = r
    IN  Count(subscribersMap[r]) + Cardinality(queued) + Len(deferred[r])
        + (IF counting THEN 1 ELSE 0)
        + (IF retryTimer[r] = NoTimer THEN 0 ELSE retryTimer[r].subs)
        + (IF restart # NoRestart /\ restart.room = r THEN restart.left ELSE 0)

\* Rebuilds, breakers and their retries never multiply subscribers: a room is
\* not kept up by more of them than its callers opened.
NoExtraSubscribers == Untouched => \A r \in Rooms : Demand(r) <= wanted[r]

\* Nothing of the room is in progress.
Quiet(r) ==
    /\ Settled(r) /\ ~Sleeping(r) /\ retryTimer[r] = NoTimer
    /\ restart = NoRestart /\ refcount[r] = Absent

\* A quiet room nobody wants has no client left running: the last close stops
\* the stream (docstring of closeStreamCallback, lines 4149-4158).
NoOrphanStream == \A r \in Rooms : Quiet(r) /\ wanted[r] = 0 => LiveIn(r) = {}

\* An account has one stream: the open looks for the one that exists before
\* it builds another (docstring of openStreamCallback, lines 1866-1868).
OneClientPerRoom == \A r \in Rooms : \A k, m \in LiveIn(r) : k = m
=============================================================================
