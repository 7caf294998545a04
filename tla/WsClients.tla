------------------------------ MODULE WsClients ------------------------------
(***************************************************************************)
(* The exchange WebSocket clients kept in the repository: bybit-custom,    *)
(* okx-custom and bitget-custom.  A client keeps, per connection, a state, *)
(* the registered socket, the topics to resubscribe and its timers; the    *)
(* handlers of a socket know the connection, not the socket, so a late     *)
(* event of an old socket acts on its replacement.                         *)
(*                                                                         *)
(* Where the three differ the handler has one definition per client.  Each *)
(* connection stands for one client; connects (Bybit, OKX) and subscribe   *)
(* requests (OKX) share a module-wide mutex.                               *)
(***************************************************************************)
EXTENDS Naturals, Sequences, FiniteSets, SequencesExt

CONSTANTS
    Conns,      \* connections
    Private,    \* those that log in after opening (Bybit, Bitget UTA)
    Topics,     \* topics a caller may subscribe
    Sockets,    \* names for sockets; bounds those that exist at one time
    Kinds,      \* clients the run explores
    MaxFaults,  \* bound on network failures
    MaxCalls,   \* bound on subscribe and closeAll calls
    None

ASSUME WsAssumption ==
    /\ Private \subseteq Conns /\ IsFiniteSet(Topics)
    /\ Kinds \subseteq {"bybit", "okx", "okxBatch", "bitget"}
    /\ None \notin Sockets
    /\ MaxFaults \in Nat /\ MaxCalls \in Nat

VARIABLES
    kind,      \* the client all connections belong to; never changes
    conn,      \* the wsStore entry of a connection
    topics,    \* topics stored for resubscription
    sock,      \* every socket, the connection it serves, and if it logged in
    sent,      \* topics requested on a socket
    login,     \* sockets on which a login was sent and not yet answered
    mutex,     \* IdMutex of connect (Bybit) or connectToWsUrl (OKX)
    sleeping,  \* connects that hold the mutex and sleep (Bybit)
    waiting,   \* connects that hold the mutex and await the connection (Bybit)
    unset,     \* socket dialled and not registered yet (OKX)
    requests,  \* subscribe batches waiting for their turn (OKX, Bitget)
    opened,    \* wsGeneration: opens of a connection
    closings,  \* closes waiting for the close mutex (Bybit)
    retired,   \* connections the caller has closed (ghost)
    stray,     \* state of a batch connection in the other store (OKX)
    faults, calls

netVars   == <<sock, sent, login>>
lockVars  == <<mutex, sleeping, waiting, unset>>
queueVars == <<requests, opened>>
callVars  == <<closings, retired, stray, calls>>
vars == <<kind, conn, topics, netVars, lockVars, queueVars, callVars, faults>>

States == {"none", "INITIAL", "CONNECTING", "CONNECTED", "CLOSING",
           "RECONNECTING"}

\* beats: ping intervals that run; beating: the store refers to one of them.
Fresh == [state |-> "none", ws |-> None, timer |-> FALSE, beats |-> 0,
          beating |-> FALSE, pong |-> FALSE, promise |-> FALSE,
          authed |-> FALSE, opening |-> FALSE]

Unused == [st |-> "free", conn |-> None, in |-> FALSE]
Dialled(c) == [st |-> "dialing", conn |-> c, in |-> FALSE]

Okx == kind \in {"okx", "okxBatch"}
Logs(c) == c \in Private /\ ~Okx

Init ==
    /\ kind \in Kinds
    /\ conn = [c \in Conns |-> Fresh]
    /\ topics = [c \in Conns |-> {}]
    /\ sock = [s \in Sockets |-> Unused]
    /\ sent = [s \in Sockets |-> {}]
    /\ login = {}
    /\ mutex = [locked |-> FALSE, queue |-> <<>>, granted |-> <<>>]
    /\ sleeping = [c \in Conns |-> 0]
    /\ waiting = [c \in Conns |-> 0]
    /\ unset = None
    /\ requests = <<>>
    /\ opened = [c \in Conns |-> 0]
    /\ closings = <<>>
    /\ retired = {}
    /\ stray = [c \in Conns |-> "none"]
    /\ faults = 0 /\ calls = 0

-----------------------------------------------------------------------------
(* Sockets.                                                                 *)

\* A closed socket keeps its name while something refers to it.
Free == {s \in Sockets : /\ sock[s].st = "free" /\ s # unset
                         /\ \A c \in Conns : conn[c].ws # s}
NewSocket == CHOOSE s \in Free : TRUE
IsOpen(s) == s # None /\ sock[s].st = "open"
IsWsOpen(c) == IsOpen(conn[c].ws)

\* terminate(): a dialing socket reports an error and a close in one go, an
\* open one its close once its handle is gone.
Terminated(s) ==
    IF s = None THEN sock
    ELSE [sock EXCEPT ![s].st = CASE @ = "dialing"          -> "refused"
                                  [] @ \in {"open", "leaving"} -> "ended"
                                  [] OTHER                  -> @]

\* close() alone: an open socket leaves when its peer answers.
Left(s) ==
    IF s # None /\ IsOpen(s) THEN [sock EXCEPT ![s].st = "leaving"]
    ELSE Terminated(s)

\* The order of the event loop: error and close of a refused dial, then the
\* connects that were granted the mutex, then the end of an open socket, and
\* only then timers, calls and the network.
Refused == {s \in Sockets : sock[s].st \in {"refused", "gone"}}
Ending  == {s \in Sockets : sock[s].st \in {"failing", "ended"}}
Prompt  == Refused = {} /\ mutex.granted = <<>>
Quiet   == Prompt /\ Ending = {}

-----------------------------------------------------------------------------
(* IdMutex: lock and release of one id.                                     *)

Lock(m, c) ==
    IF m.locked THEN [m EXCEPT !.queue = Append(@, c)]
    ELSE [m EXCEPT !.locked = TRUE, !.granted = Append(@, c)]

Release(m) ==
    IF m.queue = <<>> THEN [m EXCEPT !.locked = FALSE]
    ELSE [m EXCEPT !.queue = Tail(@), !.granted = Append(@, Head(m.queue))]

\* n releases: each passes the mutex on, and one past the queue frees it.
ReleaseTimes(m, n) ==
    LET len == Len(m.queue)
        k   == IF n <= len THEN n ELSE len
    IN  [locked  |-> m.locked /\ n <= len,
         queue   |-> SubSeq(m.queue, k + 1, len),
         granted |-> m.granted \o SubSeq(m.queue, 1, k)]

-----------------------------------------------------------------------------
(* Timers of a store entry.                                                 *)

\* Variants for the checks of the properties carry the name of the mistake.
PingStops(r) == [r EXCEPT !.beats = @ - 1, !.beating = FALSE]
NoPing(r)  == IF r.beating THEN [r EXCEPT !.beats = @ - 1, !.beating = FALSE]
              ELSE r
NoTimers(r) == [NoPing(r) EXCEPT !.pong = FALSE, !.timer = FALSE]

\* reconnectWithDelay: a connection that is dialing keeps its state.
ReconnectWithDelay(r) ==
    [NoTimers(r) EXCEPT !.timer = TRUE,
        !.state = IF @ = "CONNECTING" \/ (kind = "bybit" /\ @ = "RECONNECTING")
                  THEN @ ELSE "RECONNECTING"]

-----------------------------------------------------------------------------
(* connect().  f and ss are conn and sock as the calling handler leaves     *)
(* them.                                                                     *)

Starts(r) == IF r.state \in {"none", "INITIAL"} THEN "CONNECTING" ELSE r.state

BybitConnect(c, f, ss) ==
    /\ mutex' = Lock(mutex, c)
    /\ conn' = f
    /\ sock' = ss

OkxConnect(c, f, ss) ==
    /\ IF IsWsOpen(c) \/ f[c].state = "CONNECTING"
       THEN conn' = f /\ UNCHANGED mutex
       ELSE /\ conn' = [f EXCEPT ![c].state = Starts(f[c])]
            /\ mutex' = Lock(mutex, c)
    /\ sock' = ss

RefusesReconnect(c, f, ss) ==
    /\ IF IsWsOpen(c) \/ f[c].state \in {"CONNECTING", "RECONNECTING"}
       THEN conn' = f /\ sock' = ss
       ELSE /\ Free # {}
            /\ sock' = [ss EXCEPT ![NewSocket] = Dialled(c)]
            /\ conn' = [f EXCEPT ![c].state = Starts(f[c]), ![c].ws = NewSocket]
    /\ UNCHANGED mutex

BitgetConnect(c, f, ss) ==
    /\ IF IsWsOpen(c) \/ f[c].state = "CONNECTING"
       THEN conn' = f /\ sock' = ss
       ELSE /\ Free # {}
            /\ sock' = [ss EXCEPT ![NewSocket] = Dialled(c)]
            /\ conn' = [f EXCEPT ![c].state = Starts(f[c]), ![c].ws = NewSocket]
    /\ UNCHANGED mutex

Connect(c, f, ss) ==
    CASE kind = "bybit"  -> BybitConnect(c, f, ss)
      [] kind = "bitget" -> BitgetConnect(c, f, ss)
      [] OTHER           -> OkxConnect(c, f, ss)

\* Bybit: the connect that got the mutex refuses, joins or dials.
BybitDials ==
    /\ kind = "bybit" /\ mutex.granted # <<>>
    /\ LET c == Head(mutex.granted)
           m == [mutex EXCEPT !.granted = Tail(@)]
       IN  IF IsWsOpen(c) \/ (conn[c].state = "CONNECTING" /\ ~conn[c].promise)
           THEN /\ mutex' = Release(m)
                /\ UNCHANGED <<conn, sock, sleeping, waiting>>
           ELSE IF conn[c].state = "CONNECTING"
           THEN /\ mutex' = m
                /\ waiting' = [waiting EXCEPT ![c] = @ + 1]
                /\ UNCHANGED <<conn, sock, sleeping>>
           ELSE /\ Free # {}
                /\ mutex' = m
                /\ sock' = [sock EXCEPT ![NewSocket] = Dialled(c)]
                /\ conn' = [conn EXCEPT ![c].state = Starts(conn[c]),
                                        ![c].ws = NewSocket,
                                        ![c].promise = TRUE]
                /\ sleeping' = [sleeping EXCEPT ![c] = @ + 1]
                /\ UNCHANGED waiting
    /\ UNCHANGED <<kind, topics, sent, login, unset, queueVars, callVars,
                   faults>>

\* Bybit: after its sleep a connect awaits the connection, or is done.
BybitWakes(c) ==
    /\ kind = "bybit" /\ sleeping[c] > 0
    /\ sleeping' = [sleeping EXCEPT ![c] = @ - 1]
    /\ IF conn[c].promise
       THEN waiting' = [waiting EXCEPT ![c] = @ + 1] /\ UNCHANGED mutex
       ELSE mutex' = Release(mutex) /\ UNCHANGED waiting
    /\ UNCHANGED <<kind, conn, topics, netVars, unset, queueVars, callVars,
                   faults>>

\* OKX: the dial that got the mutex creates its socket and sleeps.
OkxDials ==
    /\ Okx /\ mutex.granted # <<>> /\ Free # {}
    /\ sock' = [sock EXCEPT ![NewSocket] = Dialled(Head(mutex.granted))]
    /\ unset' = NewSocket
    /\ mutex' = [mutex EXCEPT !.granted = Tail(@)]
    /\ UNCHANGED <<kind, conn, topics, sent, login, sleeping, waiting,
                   queueVars, callVars, faults>>

\* OKX: only after the sleep is the socket registered.
OkxRegisters ==
    /\ unset # None
    /\ conn' = [conn EXCEPT ![sock[unset].conn].ws = unset]
    /\ unset' = None
    /\ mutex' = Release(mutex)
    /\ UNCHANGED <<kind, topics, netVars, sleeping, waiting, queueVars,
                   callVars, faults>>

ReconnectTimer(c) ==
    /\ conn[c].timer
    /\ Connect(c, [conn EXCEPT ![c].timer = FALSE], sock)
    /\ UNCHANGED <<kind, topics, sent, login, sleeping, waiting, unset,
                   queueVars, callVars, faults>>

-----------------------------------------------------------------------------
(* subscribe().                                                             *)

\* requestSubscribeTopics: one message, or one per topic (OKX candles), that
\* waits for its turn and belongs to the n-th open of the connection.
Request(c, n, ts) ==
    LET one(x) == [conn |-> c, generation |-> n, topics |-> x]
    IN  IF ts = {} THEN <<>>
        ELSE IF kind = "okxBatch"
        THEN LET seq == SetToSeq(ts) IN [i \in DOMAIN seq |-> one({seq[i]})]
        ELSE <<one(ts)>>

Enqueue(c, ts) == requests' = requests \o Request(c, opened[c], ts)

\* tryWsSend of a Bybit subscribe: only an open registered socket takes it.
SendNow(c, ts) ==
    sent' = IF IsWsOpen(c) THEN [sent EXCEPT ![conn[c].ws] = @ \cup ts]
            ELSE sent

InProgress(c) == conn[c].state \in {"CONNECTING", "RECONNECTING"}

BybitSubscribe(c, t) ==
    IF conn[c].state = "CONNECTED"
    THEN /\ IF Logs(c) /\ ~conn[c].authed THEN UNCHANGED sent
            ELSE SendNow(c, {t})
         /\ UNCHANGED <<conn, sock, mutex, requests>>
    ELSE /\ IF InProgress(c) THEN UNCHANGED <<conn, sock, mutex>>
            ELSE Connect(c, conn, sock)
         /\ UNCHANGED <<sent, requests>>

OkxSubscribe(c, t) ==
    IF conn[c].state = "CONNECTED"
    THEN Enqueue(c, {t}) /\ UNCHANGED <<conn, sock, sent, mutex>>
    ELSE /\ IF InProgress(c) THEN UNCHANGED <<conn, sock, mutex>>
            ELSE Connect(c, conn, sock)
         /\ UNCHANGED <<sent, requests>>

\* subscribeBatch goes on to connect after the request of a connected store.
OkxSubscribeBatch(c, t) ==
    /\ IF conn[c].state = "CONNECTED" THEN Enqueue(c, {t})
       ELSE UNCHANGED requests
    /\ IF InProgress(c) THEN UNCHANGED <<conn, sock, mutex>>
       ELSE Connect(c, conn, sock)
    /\ UNCHANGED sent

ConnectsAgain(c, t) ==
    /\ IF conn[c].state = "CONNECTED"
       THEN Enqueue(c, {t}) /\ UNCHANGED <<conn, sock, mutex>>
       ELSE Connect(c, conn, sock) /\ UNCHANGED requests
    /\ UNCHANGED sent

BitgetSubscribe(c, t) ==
    IF conn[c].state = "CONNECTED"
    THEN /\ Enqueue(c, IF Logs(c) /\ ~conn[c].authed THEN {} ELSE {t})
         /\ UNCHANGED <<conn, sock, sent, mutex>>
    ELSE /\ IF InProgress(c) THEN UNCHANGED <<conn, sock, mutex>>
            ELSE Connect(c, conn, sock)
         /\ UNCHANGED <<sent, requests>>

Subscribe(c, t) ==
    /\ calls < MaxCalls /\ calls' = calls + 1
    /\ t \notin topics[c] /\ c \notin retired
    /\ topics' = [topics EXCEPT ![c] = @ \cup {t}]
    /\ CASE kind = "bybit"    -> BybitSubscribe(c, t)
         [] kind = "okx"      -> OkxSubscribe(c, t)
         [] kind = "okxBatch" -> OkxSubscribeBatch(c, t)
         [] kind = "bitget"   -> BitgetSubscribe(c, t)
    /\ UNCHANGED <<kind, login, sleeping, waiting, unset, opened, closings,
                   retired, stray, faults>>

\* OKX: requestSubscribeTopics at its turn, on whatever socket is registered.
OkxRequests ==
    /\ Okx /\ requests # <<>>
    /\ SendNow(Head(requests).conn, Head(requests).topics)
    /\ requests' = Tail(requests)
    /\ UNCHANGED <<kind, conn, topics, sock, login, lockVars, opened, callVars,
                   faults>>

\* Bitget: sendSubscribe at its turn; a batch of an older socket is dropped.
BitgetRequests(c) ==
    /\ kind = "bitget"
    /\ \E i \in DOMAIN requests :
         /\ requests[i].conn = c
         /\ \A j \in 1..(i - 1) : requests[j].conn # c
         /\ requests' = RemoveAt(requests, i)
         /\ IF requests[i].generation = opened[c]
            THEN SendNow(c, requests[i].topics) ELSE UNCHANGED sent
    /\ UNCHANGED <<kind, conn, topics, sock, login, lockVars, opened, callVars,
                   faults>>

-----------------------------------------------------------------------------
(* Socket events.                                                           *)

Connected(r) == [r EXCEPT !.state = "CONNECTED", !.beats = @ + 1,
                          !.beating = TRUE, !.promise = FALSE]

\* A send from onWsOpen of s: the registered socket may be another one.
Takes(c, s) == conn[c].ws = s \/ IsWsOpen(c)

BybitOpens(c, s) ==
    /\ conn' = [conn EXCEPT ![c] = Connected(@)]
    /\ mutex' = ReleaseTimes(mutex, waiting[c])
    /\ waiting' = [waiting EXCEPT ![c] = 0]
    /\ IF Logs(c)
       THEN /\ login' = IF Takes(c, s) THEN login \cup {conn[c].ws} ELSE login
            /\ UNCHANGED sent
       ELSE /\ sent' = IF Takes(c, s)
                       THEN [sent EXCEPT ![conn[c].ws] = @ \cup topics[c]]
                       ELSE sent
            /\ UNCHANGED login
    /\ UNCHANGED <<requests, opened>>

OkxOpens(c) ==
    /\ conn' = [conn EXCEPT ![c] = Connected(@)]
    /\ Enqueue(c, topics[c])
    /\ UNCHANGED <<sent, login, mutex, waiting, opened>>

\* Bitget: the private client builds its login first, BitgetLogin goes on.
BitgetOpens(c) ==
    /\ opened' = [opened EXCEPT ![c] = @ + 1]
    /\ IF Logs(c)
       THEN /\ conn' = [conn EXCEPT ![c].state = "CONNECTED",
                                    ![c].opening = TRUE]
            /\ UNCHANGED requests
       ELSE /\ conn' = [conn EXCEPT ![c] = Connected(@)]
            /\ requests' = requests \o Request(c, opened[c] + 1, topics[c])
    /\ UNCHANGED <<sent, login, mutex, waiting>>

OnWsOpen(s) ==
    /\ sock[s].st = "dialing"
    /\ sock' = [sock EXCEPT ![s].st = "open"]
    /\ LET c == sock[s].conn IN
         CASE kind = "bybit"  -> BybitOpens(c, s)
           [] kind = "bitget" -> BitgetOpens(c)
           [] OTHER           -> OkxOpens(c)
    /\ UNCHANGED <<kind, topics, sleeping, unset, callVars, faults>>

\* Bitget: the rest of onWsOpen, after the signature.
BitgetLogin(c) ==
    /\ conn[c].opening
    /\ conn' = [conn EXCEPT ![c].opening = FALSE, ![c].beats = @ + 1,
                            ![c].beating = TRUE]
    /\ login' = IF IsWsOpen(c) THEN login \cup {conn[c].ws} ELSE login
    /\ UNCHANGED <<kind, topics, sock, sent, lockVars, queueVars, callVars,
                   faults>>

AuthenticatedOnly(c, in) ==
    /\ conn' = [conn EXCEPT ![c].authed = TRUE]
    /\ sock' = in
    /\ UNCHANGED <<mutex, sent, requests>>

BybitAuthenticated(c, in) ==
    LET f == [conn EXCEPT ![c].authed = TRUE] IN
    /\ IF conn[c].state = "CONNECTED" \/ InProgress(c) \/ topics[c] = {}
       THEN conn' = f /\ sock' = in /\ UNCHANGED mutex
       ELSE Connect(c, f, in)
    /\ IF conn[c].state = "CONNECTED" THEN SendNow(c, topics[c])
       ELSE UNCHANGED sent
    /\ UNCHANGED requests

BitgetAuthenticated(c, in) ==
    LET f == [conn EXCEPT ![c].authed = TRUE] IN
    /\ IF conn[c].state = "CONNECTED" \/ InProgress(c) \/ topics[c] = {}
       THEN conn' = f /\ sock' = in /\ UNCHANGED mutex
       ELSE Connect(c, f, in)
    /\ IF conn[c].state = "CONNECTED" THEN Enqueue(c, topics[c])
       ELSE UNCHANGED requests
    /\ UNCHANGED sent

\* A socket that was asked to close still delivers what its peer sent.
OnWsAuthenticated(s) ==
    /\ s \in login /\ sock[s].st \in {"open", "leaving"}
    /\ login' = login \ {s}
    /\ LET in == [sock EXCEPT ![s].in = TRUE]
           c  == sock[s].conn
       IN  IF kind = "bybit" THEN BybitAuthenticated(c, in)
           ELSE BitgetAuthenticated(c, in)
    /\ UNCHANGED <<kind, topics, sleeping, waiting, unset, opened, callVars,
                   faults>>

\* Any frame shows that the connection lives.
OnWsMessage(c) ==
    /\ conn[c].pong
    /\ \E s \in Sockets : sock[s].conn = c /\ sock[s].st \in {"open", "leaving"}
    /\ conn' = [conn EXCEPT ![c].pong = FALSE]
    /\ UNCHANGED <<kind, topics, netVars, lockVars, queueVars, callVars,
                   faults>>

Ping(c) ==
    /\ conn[c].beats > 0 /\ ~conn[c].pong
    /\ conn[c].ws # None \/ kind # "bybit"
    /\ conn' = [conn EXCEPT ![c].pong = TRUE]
    /\ UNCHANGED <<kind, topics, netVars, lockVars, queueVars, callVars,
                   faults>>

\* executeReconnectableClose: the closing socket reconnects; if there is no
\* open one, the timer does.
ReconnectableClose(c) ==
    LET r == [NoPing(conn[c]) EXCEPT !.pong = FALSE] IN
    /\ sock' = Terminated(conn[c].ws)
    /\ conn' = [conn EXCEPT ![c] = IF IsWsOpen(c) THEN r
                                   ELSE ReconnectWithDelay(r)]

BitgetPongTimeout(c) ==
    /\ sock' = Terminated(conn[c].ws)
    /\ conn' = [conn EXCEPT ![c].pong = FALSE]

PongTimeout(c) ==
    /\ conn[c].pong /\ faults < MaxFaults /\ faults' = faults + 1
    /\ IF kind = "bitget" THEN BitgetPongTimeout(c) ELSE ReconnectableClose(c)
    /\ UNCHANGED <<kind, topics, sent, login, lockVars, queueVars, callVars>>

\* The network refuses a dial or drops a socket, with or without an error.
SocketFails(s) ==
    /\ faults < MaxFaults /\ faults' = faults + 1
    /\ \/ sock[s].st = "dialing" /\ sock' = [sock EXCEPT ![s].st = "refused"]
       \/ /\ sock[s].st = "open"
          /\ \E st \in {"failing", "ended"} :
               sock' = [sock EXCEPT ![s].st = st]
    /\ UNCHANGED <<kind, conn, topics, sent, login, lockVars, queueVars,
                   callVars>>

AfterError(ss, s) ==
    [ss EXCEPT ![s].st = IF sock[s].st = "refused" THEN "gone" ELSE "ended"]

\* An error without a message or a refused login is only reported; any other
\* one drops the connection unless it is being closed.  Bybit then frees the
\* connect mutex, whoever holds it.
BybitErrors(c, s) ==
    \/ /\ sock' = AfterError(sock, s)
       /\ UNCHANGED <<conn, mutex>>
    \/ /\ conn[c].state # "CLOSING"
       /\ LET r == [NoPing(conn[c]) EXCEPT !.pong = FALSE]
              open == IsWsOpen(c)
          IN  /\ conn' = [conn EXCEPT ![c] = IF open THEN r
                                             ELSE ReconnectWithDelay(r)]
              /\ sock' = AfterError(Terminated(conn[c].ws), s)
       /\ mutex' = Release(mutex)

\* OKX asks the store of the plain client, which makes an entry for a batch one.
ErrorState(c) == IF kind = "okx" THEN conn[c].state ELSE stray[c]
NotesStray(c) ==
    stray' = IF kind = "okxBatch" /\ stray[c] = "none"
             THEN [stray EXCEPT ![c] = "INITIAL"] ELSE stray

OkxErrors(c, s) ==
    /\ IF ErrorState(c) = "CLOSING"
       THEN /\ sock' = AfterError(sock, s)
            /\ UNCHANGED conn
       ELSE LET r == [NoPing(conn[c]) EXCEPT !.pong = FALSE]
                open == IsWsOpen(c)
            IN  /\ conn' = [conn EXCEPT ![c] = IF open THEN r
                                               ELSE ReconnectWithDelay(r)]
                /\ sock' = AfterError(Terminated(conn[c].ws), s)
    /\ UNCHANGED mutex

BitgetErrors(s) ==
    /\ sock' = AfterError(sock, s)
    /\ UNCHANGED <<conn, mutex>>

OnWsError(s) ==
    /\ sock[s].st \in {"refused", "failing"}
    /\ LET c == sock[s].conn IN
         CASE kind = "bybit"  -> BybitErrors(c, s)
           [] kind = "bitget" -> BitgetErrors(s)
           [] OTHER           -> OkxErrors(c, s)
    /\ NotesStray(sock[s].conn)
    /\ UNCHANGED <<kind, topics, sent, login, sleeping, waiting, unset,
                   queueVars, closings, retired, calls, faults>>

\* isAuthenticated survives the close.
StaysAuthenticated(c) ==
    /\ mutex' = ReleaseTimes(mutex, waiting[c])
    /\ waiting' = [waiting EXCEPT ![c] = 0]
    /\ conn' = [conn EXCEPT ![c] =
          IF @.state = "CLOSING" THEN [Fresh EXCEPT !.beats = conn[c].beats]
          ELSE ReconnectWithDelay([@ EXCEPT !.state = "INITIAL",
                                            !.promise = FALSE])]
    /\ topics' = IF conn[c].state = "CLOSING" THEN [topics EXCEPT ![c] = {}]
                 ELSE topics

\* The state of the failed dial survives its close.
StaysConnecting(c) ==
    /\ mutex' = ReleaseTimes(mutex, waiting[c])
    /\ waiting' = [waiting EXCEPT ![c] = 0]
    /\ conn' = [conn EXCEPT ![c] = ReconnectWithDelay([@ EXCEPT
                                        !.promise = FALSE, !.authed = FALSE])]
    /\ UNCHANGED topics

\* Bybit: the deferred promises are rejected; an intended close deletes the
\* store entry, any other one reconnects.
BybitCloses(c) ==
    /\ mutex' = ReleaseTimes(mutex, waiting[c])
    /\ waiting' = [waiting EXCEPT ![c] = 0]
    /\ IF conn[c].state = "CLOSING"
       THEN /\ conn' = [conn EXCEPT ![c] = [Fresh EXCEPT !.beats = conn[c].beats]]
            /\ topics' = [topics EXCEPT ![c] = {}]
       ELSE /\ conn' = [conn EXCEPT
                 ![c] = ReconnectWithDelay([@ EXCEPT !.state = "INITIAL",
                                     !.promise = FALSE, !.authed = FALSE])]
            /\ UNCHANGED topics

ReconnectsAlways(c) ==
    /\ conn' = [conn EXCEPT ![c] = ReconnectWithDelay(@)]
    /\ UNCHANGED <<topics, mutex, waiting>>

OtherCloses(c) ==
    /\ conn' = [conn EXCEPT
         ![c] = IF conn[c].state = "CLOSING" THEN [@ EXCEPT !.state = "INITIAL"]
                ELSE ReconnectWithDelay(@)]
    /\ UNCHANGED <<topics, mutex, waiting>>

OnWsClose(s) ==
    /\ sock[s].st \in {"gone", "ended", "leaving"}
    /\ sock' = [sock EXCEPT ![s] = [Unused EXCEPT !.conn = sock[s].conn]]
    /\ sent' = [sent EXCEPT ![s] = {}]
    /\ login' = login \ {s}
    /\ IF kind = "bybit" THEN BybitCloses(sock[s].conn)
       ELSE OtherCloses(sock[s].conn)
    /\ UNCHANGED <<kind, sleeping, unset, queueVars, callVars, faults>>

-----------------------------------------------------------------------------
(* closeAll().                                                              *)

\* What close() does to a connection that has a store entry.
Closing(c) ==
    /\ conn' = [conn EXCEPT ![c] = [NoTimers(@) EXCEPT !.state = "CLOSING"]]
    /\ sock' \in {Left(conn[c].ws), Terminated(conn[c].ws)}

\* Bybit closes one connection at a time, pausing after each.
BybitCloseAll(c) ==
    /\ closings' = IF conn[c].state # "none" \/ topics[c] # {}
                   THEN Append(closings, c) ELSE closings
    /\ UNCHANGED <<conn, sock, stray>>

\* The batch client keeps its sockets in the other store: closeAll sees only
\* the entries that errors made, marks them and stops timers, and closes no
\* socket.
BatchCloseAll(c) ==
    /\ IF stray[c] = "none" THEN UNCHANGED <<conn, stray>>
       ELSE /\ conn' = [conn EXCEPT ![c] = NoTimers(@)]
            /\ stray' = [stray EXCEPT ![c] = "CLOSING"]
    /\ UNCHANGED sock

CloseAll(c) ==
    /\ calls < MaxCalls /\ calls' = calls + 1
    /\ c \notin retired /\ retired' = retired \cup {c}
    /\ CASE kind = "bybit"    -> BybitCloseAll(c)
         [] kind = "okxBatch" -> BatchCloseAll(c) /\ UNCHANGED closings
         [] OTHER             -> /\ Closing(c)
                                 /\ UNCHANGED <<closings, stray>>
    /\ UNCHANGED <<kind, topics, sent, login, lockVars, queueVars, faults>>

BybitClose ==
    /\ closings # <<>>
    /\ Closing(Head(closings))
    /\ closings' = Tail(closings)
    /\ UNCHANGED <<kind, topics, sent, login, lockVars, queueVars, retired,
                   stray, calls, faults>>

-----------------------------------------------------------------------------
Caller(c) == \/ \E t \in Topics : Subscribe(c, t)
             \/ CloseAll(c)

Timers(c) == \/ ReconnectTimer(c)
             \/ Ping(c)
             \/ PongTimeout(c)

Dials == BybitDials \/ OkxDials

Turns == \/ OkxRegisters
         \/ OkxRequests
         \/ BybitClose
         \/ \E c \in Conns : BybitWakes(c) \/ BitgetRequests(c) \/ BitgetLogin(c)

Network == \/ \E s \in Sockets : \/ OnWsOpen(s)
                                 \/ OnWsAuthenticated(s)
                                 \/ SocketFails(s)
           \/ \E c \in Conns : OnWsMessage(c)

Ends(s) == /\ OnWsError(s) \/ OnWsClose(s)
           /\ s \in Refused \/ Prompt

Next ==
    \/ \E s \in Sockets : Ends(s)
    \/ Refused = {} /\ Dials
    \/ /\ Quiet
       /\ \/ \E c \in Conns : Caller(c) \/ Timers(c)
          \/ Turns
          \/ Network

Spec == Init /\ [][Next]_vars

\* Timers fire, what waits for a turn gets it, and the network answers: with
\* an open, a frame or the end of a socket.
FairSpec ==
    /\ Spec
    /\ WF_vars(Refused = {} /\ Dials)
    /\ WF_vars(Quiet /\ Turns)
    /\ \A s \in Sockets : /\ WF_vars(Ends(s))
                          /\ WF_vars(Quiet /\ OnWsOpen(s))
                          /\ WF_vars(Quiet /\ OnWsAuthenticated(s))
    /\ \A c \in Conns : WF_vars(Quiet /\ ReconnectTimer(c))

-----------------------------------------------------------------------------
(* Properties.                                                              *)

Entry == [state : States, ws : Sockets \cup {None}, timer : BOOLEAN,
          beats : Nat, beating : BOOLEAN, pong : BOOLEAN, promise : BOOLEAN,
          authed : BOOLEAN, opening : BOOLEAN]

\* Every variable has its type; the numbers of running intervals, of connects
\* that hold the mutex and of opens are counts.
TypeOK ==
    /\ kind \in Kinds
    /\ conn \in [Conns -> Entry]
    /\ topics \in [Conns -> SUBSET Topics]
    /\ sock \in [Sockets -> [st : {"free", "dialing", "open", "refused",
                                   "gone", "failing", "ended", "leaving"},
                             conn : Conns \cup {None}, in : BOOLEAN]]
    /\ sent \in [Sockets -> SUBSET Topics]
    /\ login \subseteq Sockets
    /\ mutex \in [locked : BOOLEAN, queue : Seq(Conns), granted : Seq(Conns)]
    /\ sleeping \in [Conns -> Nat] /\ waiting \in [Conns -> Nat]
    /\ unset \in Sockets \cup {None}
    /\ requests \in Seq([conn : Conns, generation : Nat,
                         topics : SUBSET Topics])
    /\ opened \in [Conns -> Nat]
    /\ closings \in Seq(Conns)
    /\ retired \subseteq Conns
    /\ stray \in [Conns -> {"none", "INITIAL", "CLOSING"}]
    /\ faults \in 0..MaxFaults /\ calls \in 0..MaxCalls

InUse == Conns \ retired
Alive(c) == \E s \in Sockets : sock[s].conn = c /\ sock[s].st # "free"
Queued(c) == c \in Range(mutex.queue) \cup Range(mutex.granted)

\* Nothing is left that would connect c: no socket whose close could, no
\* timer, no connect that waits for the mutex.
Stranded(c) == ~Alive(c) /\ ~conn[c].timer /\ ~Queued(c)

\* The OKX and Bitget clients refuse to dial again after a failed first dial.
StillConnecting(c) == kind # "bybit" /\ conn[c].state = "CONNECTING"

\* Nobody strands a connection that has topics, in whatever order errors,
\* closes, timeouts and the mutex come; the refusal above is the exception.
ReconnectsForEver ==
    \A c \in InUse : topics[c] # {} /\ ~StillConnecting(c) => ~Stranded(c)

\* Subscribed topics survive every drop of the connection, as the comment of
\* subscribe() says of all of them: no connection with topics is stranded.
NeverStranded == \A c \in InUse : topics[c] # {} => ~Stranded(c)

\* Somebody still has to request topic t on the connection.
Pending(c, t) ==
    \/ conn[c].opening
    \/ conn[c].ws \in login
    \/ \E i \in DOMAIN requests : /\ requests[i].conn = c
                                  /\ t \in requests[i].topics
                                  /\ requests[i].generation = opened[c]

\* Bybit, Bitget: while the registered socket is open, each stored topic was
\* requested on that very socket, or will be; a drop between store, login and
\* request loses none.
StoredIsRequested ==
    kind \in {"bybit", "bitget"} =>
        \A c \in Conns, t \in Topics :
            t \in topics[c] /\ conn[c].state = "CONNECTED" /\ IsWsOpen(c)
            => t \in sent[conn[c].ws] \/ Pending(c, t)

\* A socket over which topics arrive; of Bitget also one that is being dialled.
Carries(s) == \/ sock[s].st = "open" /\ sent[s] # {}
              \/ kind = "bitget" /\ sock[s].st \in {"dialing", "open"}

\* Bybit, Bitget: one socket carries a connection in use, so that no topic is
\* delivered twice, however timers, connects and closes race; and those of
\* Bitget never dial a second.
OneSocket ==
    kind \in {"bybit", "bitget"} =>
        \A c \in InUse : \A s, r \in Sockets :
            /\ sock[s].conn = c /\ Carries(s)
            /\ sock[r].conn = c /\ Carries(r)
            => s = r

\* Bybit: a connect refuses while an attempt is under way, so a connection in
\* use never dials two sockets.
OneDial ==
    kind = "bybit" =>
        \A c \in InUse : \A s, r \in Sockets :
            /\ sock[s].conn = c /\ sock[s].st \in {"dialing", "open"}
            /\ sock[r].conn = c /\ sock[r].st \in {"dialing", "open"}
            => s = r

\* Bybit: private topics are requested only on a socket that logged in, also
\* when the login of an older socket was what set isAuthenticated.
PrivateAfterLogin ==
    kind = "bybit" =>
        \A s \in Sockets :
            sock[s].conn \in Private \ retired /\ sent[s] # {} => sock[s].in

\* Bitget: a public connection the caller closed is not dialed again, though
\* timers and late events of its sockets were under way.
ClosedStaysClosed ==
    kind = "bitget" =>
        \A c \in retired \ Private :
            /\ ~conn[c].timer
            /\ \A s \in Sockets :
                 sock[s].conn = c => sock[s].st \notin {"dialing", "open"}

\* Bybit, Bitget: after the last fault all stored topics come to be requested
\* on an open socket, save those of a refused first dial.
Served(c) == /\ conn[c].state = "CONNECTED" /\ IsWsOpen(c)
             /\ topics[c] \subseteq sent[conn[c].ws]
Recovers ==
    kind \in {"bybit", "bitget"} =>
        \A c \in Conns : []<>(\/ c \in retired
                              \/ topics[c] = {}
                              \/ StillConnecting(c)
                              \/ Served(c))
=============================================================================
