--------------------------- MODULE UserRooms_proof ---------------------------
(***************************************************************************)
(* Proofs about UserRooms, for every set of rooms, credentials and clients *)
(* and for every branch of openStreamCallback.                             *)
(***************************************************************************)
EXTENDS UserRooms, FiniteSetTheorems, TLAPS

\* restartStreams is waiting for the open it sent.
Awaiting == restart # NoRestart /\ restart.step = "awaiting"

\* The open that restartStreams waits for is the only one it has sent, so a
\* return with by = "restart" goes back to a loop that waits for it.
RestartOwnsItsOpen ==
    /\ restart # NoRestart => restart.step = "awaiting" \/ restart.left > 0
    /\ \A i \in 1..Len(opens) : opens[i].by = "restart" => Awaiting
    /\ \A i, j \in 1..Len(opens) :
          opens[i].by = "restart" /\ opens[j].by = "restart" => i = j
    /\ opening # NoOpen /\ opening.by = "restart" =>
          Awaiting /\ \A i \in 1..Len(opens) : opens[i].by # "restart"

TypeInv == TypeOK /\ RestartOwnsItsOpen

USE RoomsAssumption, BranchAssumption, MarkersAssumption

\* Copies makes a queue of well-formed opens by "retry".
LEMMA CopiesType ==
    ASSUME NEW r \in Rooms, NEW c \in Creds, NEW n \in Nat
    PROVE  /\ Copies(r, c, n) \in Seq(Open)
           /\ Len(Copies(r, c, n)) = n
           /\ \A i \in 1..n : Copies(r, c, n)[i].by = "retry"
  BY DEF Copies, Open, Senders

\* The program starts well typed, with no restart.
LEMMA InitType == Init => TypeInv
  BY DEF Init, TypeInv, TypeOK, RestartOwnsItsOpen, Awaiting, Counts, Client, Live

-----------------------------------------------------------------------------
(* What the steps do to the order of restartStreams and its open.            *)

\* A step that leaves queue and restart alone keeps their bond.
LEMMA OwnsKept ==
    ASSUME RestartOwnsItsOpen, UNCHANGED <<restart, opens, opening>>
    PROVE  RestartOwnsItsOpen'
  BY DEF RestartOwnsItsOpen, Awaiting

\* So does one that queues opens of other senders.
LEMMA OwnsOnConcat ==
    ASSUME RestartOwnsItsOpen, opens \in Seq(Open),
           NEW s \in Seq(Open), \A i \in 1..Len(s) : s[i].by # "restart",
           opens' = opens \o s, UNCHANGED <<restart, opening>>
    PROVE  RestartOwnsItsOpen'
<1>1. /\ Len(opens') = Len(opens) + Len(s)
      /\ \A i \in 1..Len(opens') : opens'[i].by = "restart" =>
            i \in 1..Len(opens) /\ opens[i].by = "restart"
  OBVIOUS
<1> QED BY <1>1 DEF RestartOwnsItsOpen, Awaiting

\* The queue after its head was taken.
LEMMA TailOwns ==
    ASSUME RestartOwnsItsOpen, opens \in Seq(Open), opens # <<>>, opens' = Tail(opens)
    PROVE  /\ Next0 \in Open
           /\ opens' \in Seq(Open)
           /\ \A i \in 1..Len(opens') : opens'[i].by = "restart" =>
                 Awaiting /\ Next0.by # "restart"
           /\ \A i, j \in 1..Len(opens') :
                 opens'[i].by = "restart" /\ opens'[j].by = "restart" => i = j
           /\ Next0.by = "restart" => Awaiting
<1>1. /\ Len(opens') = Len(opens) - 1 /\ Len(opens) \in Nat \ {0}
      /\ \A i \in 1..Len(opens') : opens'[i] = opens[i + 1]
      /\ Next0 = opens[1] /\ Next0 \in Open
      /\ opens' \in Seq(Open)
  BY DEF Next0
<1> QED BY <1>1 DEF RestartOwnsItsOpen

\* Return keeps the types of what it touches.
LEMMA ReturnType ==
    ASSUME TypeInv, NEW o, o.room \in Rooms,
           NEW n \in Counts, Return(o, n), o.by = "restart" => Awaiting
    PROVE  /\ subscribersMap' \in [Rooms -> Counts]
           /\ refcount' \in [Rooms -> Counts]
           /\ restart' \in Restarting \cup {NoRestart}
           /\ restart' # NoRestart => restart'.step = "awaiting" \/ restart'.left > 0
           /\ o.by # "restart" => restart' = restart
<1>0. /\ subscribersMap \in [Rooms -> Counts]
      /\ refcount \in [Rooms -> Counts]
      /\ restart \in Restarting \cup {NoRestart}
  BY DEF TypeInv, TypeOK
<1>1. subscribersMap' \in [Rooms -> Counts]
  BY <1>0 DEF Return
<1>2. refcount' \in [Rooms -> Counts]
  <2>1. CASE o.by = "guard"
    BY <1>0, <2>1 DEF Return, Counts
  <2>2. CASE o.by # "guard"
    BY <1>0, <2>2 DEF Return
  <2> QED BY <2>1, <2>2
<1>3. CASE o.by # "restart"
  BY <1>0, <1>1, <1>2, <1>3 DEF Return, TypeInv, RestartOwnsItsOpen
<1>4. CASE o.by = "restart"
  <2>1. restart \in Restarting
    BY <1>0, <1>4 DEF Awaiting
  <2>2. restart.left = 0 => restart' = NoRestart
    BY <1>4 DEF Return
  <2>3. restart.left # 0 =>
          restart' = [restart EXCEPT !.step = "reopening"]
    BY <1>4 DEF Return
  <2> QED BY <1>1, <1>2, <1>4, <2>1, <2>2, <2>3 DEF Restarting
<1> QED BY <1>3, <1>4

-----------------------------------------------------------------------------
(* One lemma per group of actions.                                           *)

LEMMA StepOpenStream ==
    ASSUME TypeInv, UNCHANGED branch, NEW r \in Rooms, NEW c \in Creds, OpenStream(r, c)
    PROVE  TypeInv'
<1> DEFINE o == [room |-> r, cred |-> c, by |-> "caller"]
<1>1. o \in Open
  BY DEF Open, Senders
<1>2. opens \in Seq(Open) /\ opens' = Append(opens, o)
  BY DEF TypeInv, TypeOK, OpenStream
<1>3. TypeOK'
  BY <1>1, <1>2 DEF TypeInv, TypeOK, Live, OpenStream, roomVars, gateVars, clientVars, forcedVars
<1>4. RestartOwnsItsOpen'
  BY <1>1, <1>2, SMTT(60) DEF TypeInv, RestartOwnsItsOpen, Awaiting, OpenStream, forcedVars
<1> QED BY <1>3, <1>4 DEF TypeInv

\* Closing clients leaves clients.
LEMMA CloseAllType ==
    ASSUME TypeOK, NEW S
    PROVE  /\ CloseAll(S) \in [Clients -> Client]
           /\ \A k \in Clients : /\ CloseAll(S)[k].room = client[k].room
                                 /\ CloseAll(S)[k].cred = client[k].cred
                                 /\ CloseAll(S)[k].st = "live" => Live(k)
<1>1. client \in [Clients -> Client]
  BY DEF TypeOK
<1>2. ASSUME NEW k \in Clients
      PROVE  LET d == IF k \in S /\ Live(k)
                      THEN [client[k] EXCEPT !.st = "closed"] ELSE client[k]
             IN  d \in Client /\ d.room = client[k].room /\ d.cred = client[k].cred
                 /\ (d.st = "live" => Live(k))
  BY <1>1 DEF Client, Live
<1> QED BY <1>2 DEF CloseAll

\* Forgetting a subscription leaves a gate and no timer.
LEMMA ForgetType ==
    ASSUME TypeOK, NEW r \in Rooms, Forget(r)
    PROVE  /\ subscribeMsgsMap' \in [Rooms -> Creds \cup {NoCred}]
           /\ cooldown' \in [Rooms -> {"off", "armed", "lapsed"}]
           /\ credFp' \in [Rooms -> Creds \cup {NoCred}]
           /\ retryTimer' \in [Rooms -> Retry \cup {NoTimer}]
  BY DEF TypeOK, Forget, CancelRetry, gateVars

\* A close leaves a well-formed room.
LEMMA LeaveType ==
    ASSUME TypeOK, NEW r \in Rooms, NEW n \in Nat, n <= Count(subscribersMap[r]) \/ n = 1, Leave(r, n)
    PROVE  /\ users' \in [Rooms -> Entry \cup {NoUser}]
           /\ subscribersMap' \in [Rooms -> Counts]
           /\ subscribeMsgsMap' \in [Rooms -> Creds \cup {NoCred}]
           /\ cooldown' \in [Rooms -> {"off", "armed", "lapsed"}]
           /\ credFp' \in [Rooms -> Creds \cup {NoCred}]
           /\ retryTimer' \in [Rooms -> Retry \cup {NoTimer}]
           /\ client' = client \/ \E S : client' = CloseAll(S)
<1>1. CASE ~Truthy(subscribersMap[r])
  BY <1>1, ForgetType DEF TypeOK, Leave
<1>2. CASE Truthy(subscribersMap[r])
  <2>1. Count(subscribersMap[r]) - n \in Nat
    BY <1>2 DEF TypeOK, Truthy, Count, Counts
  <2>2. subscribersMap' \in [Rooms -> Counts]
    BY <1>2, <2>1, ZenonT(60) DEF TypeOK, Leave, Counts
  <2>3. CASE Count(subscribersMap[r]) - n > 0
    BY <1>2, <2>2, <2>3 DEF TypeOK, Leave, gateVars
  <2>4. CASE ~(Count(subscribersMap[r]) - n > 0)
    BY <1>2, <2>2, <2>4, ForgetType DEF TypeOK, Leave
  <2> QED BY <2>3, <2>4
<1> QED BY <1>1, <1>2

\* Clients that were only closed are still clients.
LEMMA ClientsType ==
    ASSUME TypeOK, client' = client \/ \E S : client' = CloseAll(S),
           sleeping' \subseteq sleeping \cup {k \in Clients : Live(k)}
    PROVE  /\ client' \in [Clients -> Client]
           /\ \A k \in Clients : Live(k)' => client'[k].room \in Rooms /\ client'[k].cred \in Creds
           /\ sleeping' \subseteq {k \in Clients : client'[k].room \in Rooms /\ client'[k].cred \in Creds}
<1>1. /\ client' \in [Clients -> Client]
      /\ \A k \in Clients : /\ client'[k].room = client[k].room
                            /\ client'[k].cred = client[k].cred
                            /\ client'[k].st = "live" => Live(k)
  BY CloseAllType DEF TypeOK, Live
<1> QED BY <1>1 DEF TypeOK, Live

\* `close stream` keeps the invariant.
LEMMA StepCloseStream ==
    ASSUME TypeInv, UNCHANGED branch, NEW r \in Rooms, CloseStream(r)
    PROVE  TypeInv'
<1>1. TypeOK
  BY DEF TypeInv
<1>2. Leave(r, 1)
  BY DEF CloseStream
<1>3. wanted' \in [Rooms -> Nat]
  BY <1>1 DEF TypeOK, CloseStream
<1>4. client' = client \/ \E S : client' = CloseAll(S)
  BY <1>1, <1>2, LeaveType
<1>5. sleeping' \subseteq sleeping \cup {k \in Clients : Live(k)}
  BY DEF CloseStream
<1>6. TypeOK'
  BY <1>1, <1>2, <1>3, <1>4, <1>5, LeaveType, ClientsType
  DEF TypeOK, CloseStream, queueVars, forcedVars
<1>7. RestartOwnsItsOpen'
  BY OwnsKept DEF TypeInv, CloseStream, queueVars, forcedVars
<1> QED BY <1>6, <1>7 DEF TypeInv

\* The 500 ms timer keeps the invariant.
LEMMA StepRetryDeferred ==
    ASSUME TypeInv, UNCHANGED branch, NEW r \in Rooms, RetryDeferred(r)
    PROVE  TypeInv'
<1>1. TypeOK
  BY DEF TypeInv
<1> DEFINE s == Copies(r, Head(deferred[r]), 1)
<1>2. deferred[r] \in Seq(Creds) /\ Head(deferred[r]) \in Creds /\ Tail(deferred[r]) \in Seq(Creds)
  BY <1>1 DEF TypeOK, RetryDeferred
<1>3. s \in Seq(Open) /\ \A i \in 1..Len(s) : s[i].by # "restart"
  BY <1>2, CopiesType
<1>4. opens' = opens \o s /\ opens' \in Seq(Open) /\ opens \in Seq(Open)
  BY <1>1, <1>3 DEF TypeOK, RetryDeferred
<1>5. deferred' \in [Rooms -> Seq(Creds)]
  BY <1>1, <1>2 DEF TypeOK, RetryDeferred
<1>6. TypeOK'
  BY <1>1, <1>4, <1>5 DEF TypeOK, Live, RetryDeferred, roomVars, gateVars,
     clientVars, forcedVars, callerVars
<1>7. UNCHANGED <<restart, opening>>
  BY DEF RetryDeferred, forcedVars
<1>8. RestartOwnsItsOpen'
  BY <1>3, <1>4, <1>7, OwnsOnConcat DEF TypeInv
<1> QED BY <1>6, <1>8 DEF TypeInv

\* The breaker's two timers keep the invariant.
LEMMA StepTimers ==
    ASSUME TypeInv, UNCHANGED branch, NEW r \in Rooms, CooldownLapses(r) \/ SelfHeal(r)
    PROVE  TypeInv'
<1>1. TypeOK
  BY DEF TypeInv
<1>2. CASE CooldownLapses(r)
  <2>1. TypeOK'
    BY <1>1, <1>2 DEF TypeOK, Live, CooldownLapses, roomVars, clientVars,
       queueVars, forcedVars, callerVars
  <2>2. RestartOwnsItsOpen'
    BY <1>2, OwnsKept DEF TypeInv, CooldownLapses, queueVars, forcedVars
  <2> QED BY <2>1, <2>2 DEF TypeInv
<1>3. CASE SelfHeal(r)
  <2> DEFINE t == retryTimer[r]
             s == Copies(r, t.cred, t.subs)
  <2>1. t \in Retry
    BY <1>1, <1>3 DEF TypeOK, SelfHeal
  <2>2. s \in Seq(Open) /\ \A i \in 1..Len(s) : s[i].by # "restart"
    BY <2>1, CopiesType DEF Retry
  <2>3. UNCHANGED opens \/ opens' = opens \o s
    BY <1>3 DEF SelfHeal
  <2>4. opens \in Seq(Open) /\ opens' \in Seq(Open)
    <3>1. opens \in Seq(Open)
      BY <1>1 DEF TypeOK
    <3>2. opens \o s \in Seq(Open)
      <4> HIDE DEF s
      <4> QED BY <2>2, <3>1
    <3> QED BY <2>3, <3>1, <3>2
  <2>5. retryTimer' \in [Rooms -> Retry \cup {NoTimer}]
    BY <1>1, <1>3 DEF TypeOK, SelfHeal, CancelRetry
  <2>6. cooldown' \in [Rooms -> {"off", "armed", "lapsed"}]
    BY <1>1, <1>3 DEF TypeOK, SelfHeal
  <2>7. TypeOK'
    BY <1>1, <1>3, <2>4, <2>5, <2>6 DEF TypeOK, Live, SelfHeal, roomVars,
       clientVars, forcedVars, callerVars
  <2>8. UNCHANGED <<restart, opening>>
    BY <1>3 DEF SelfHeal, forcedVars
  <2>9. RestartOwnsItsOpen'
    BY <2>2, <2>3, <2>4, <2>8, OwnsOnConcat, OwnsKept DEF TypeInv
  <2> QED BY <2>7, <2>9 DEF TypeInv
<1> QED BY <1>2, <1>3

\* A forced restart begins with no open of its own.
LEMMA StepForceRestart ==
    ASSUME TypeInv, UNCHANGED branch, NEW r \in Rooms, ForceRestart(r)
    PROVE  TypeInv'
<1>1. TypeOK
  BY DEF TypeInv
<1> DEFINE n == subscribersMap[r]
<1>2. n \in Nat \ {0} /\ Count(n) = n /\ Leave(r, n)
  BY <1>1 DEF TypeOK, Counts, ForceRestart, Truthy, Count
<1>3. restart' \in Restarting /\ restart'.step = "settling" /\ restart'.left > 0
  BY <1>1, <1>2 DEF TypeOK, ForceRestart, Restarting
<1>4. client' = client \/ \E S : client' = CloseAll(S)
  BY <1>1, <1>2, LeaveType
<1>5. sleeping' \subseteq sleeping \cup {k \in Clients : Live(k)}
  BY DEF ForceRestart
<1>6. forced' \in Seq({"restart", "guard", "admin"})
  <2>1. forced \in Seq({"restart", "guard", "admin"}) /\ forced' = Append(forced, "restart")
    BY <1>1 DEF TypeOK, ForceRestart
  <2> QED BY <2>1
<1>7. TypeOK'
  <2>1. n <= Count(subscribersMap[r])
    BY <1>2
  <2>2. /\ users' \in [Rooms -> Entry \cup {NoUser}]
        /\ subscribersMap' \in [Rooms -> Counts]
        /\ subscribeMsgsMap' \in [Rooms -> Creds \cup {NoCred}]
        /\ cooldown' \in [Rooms -> {"off", "armed", "lapsed"}]
        /\ credFp' \in [Rooms -> Creds \cup {NoCred}]
        /\ retryTimer' \in [Rooms -> Retry \cup {NoTimer}]
    BY <1>1, <1>2, <2>1, LeaveType
  <2> QED BY <1>1, <1>3, <1>4, <1>5, <1>6, <2>2, ClientsType
      DEF TypeOK, ForceRestart, queueVars, callerVars
<1>8. ~Awaiting /\ ~Awaiting' /\ UNCHANGED <<opens, opening>>
  BY <1>3 DEF Awaiting, ForceRestart, queueVars
<1>9. RestartOwnsItsOpen'
  BY <1>3, <1>8 DEF TypeInv, RestartOwnsItsOpen
<1> QED BY <1>7, <1>9 DEF TypeInv

\* The restart loop sends one open and waits for it.
LEMMA StepRestart ==
    ASSUME TypeInv, UNCHANGED branch, RestartSettled \/ RestartReopens
    PROVE  TypeInv'
<1>1. TypeOK /\ RestartOwnsItsOpen
  BY DEF TypeInv
<1>2. restart \in Restarting /\ restart # NoRestart
  BY <1>1 DEF TypeOK, RestartSettled, RestartReopens
<1>3. CASE RestartSettled
  <2>1. restart' \in Restarting /\ restart'.step = "reopening" /\ restart'.left = restart.left
    BY <1>2, <1>3 DEF RestartSettled, Restarting
  <2>2. TypeOK'
    BY <1>1, <1>3, <2>1 DEF TypeOK, Live, RestartSettled, roomVars, gateVars,
       clientVars, queueVars, callerVars
  <2>3. ~Awaiting /\ ~Awaiting' /\ UNCHANGED <<opens, opening>> /\ restart.left > 0
    BY <1>1, <1>3, <2>1 DEF RestartSettled, queueVars, RestartOwnsItsOpen, Awaiting
  <2>4. RestartOwnsItsOpen'
    BY <1>1, <2>1, <2>3 DEF RestartOwnsItsOpen
  <2> QED BY <2>2, <2>4 DEF TypeInv
<1>4. CASE RestartReopens
  <2> DEFINE o == [room |-> restart.room, cred |-> restart.cred, by |-> "restart"]
  <2>1. o \in Open /\ o.by = "restart"
    BY <1>2 DEF Open, Senders, Restarting
  <2>2. restart.step = "reopening" /\ restart.left \in Nat \ {0} /\ ~Awaiting
    BY <1>1, <1>2, <1>4 DEF RestartReopens, RestartOwnsItsOpen, Awaiting, Restarting
  <2>3. restart' \in Restarting /\ restart'.step = "awaiting"
    <3>1. restart' = [restart EXCEPT !.left = restart.left - 1, !.step = "awaiting"]
      BY <1>4 DEF RestartReopens
    <3>2. restart.left - 1 \in Nat
      BY <2>2
    <3> QED BY <1>2, <3>1, <3>2 DEF Restarting
  <2>4. /\ opens \in Seq(Open) /\ opens' = Append(opens, o) /\ opening' = opening
        /\ opens' \in Seq(Open)
    BY <1>1, <1>4, <2>1 DEF TypeOK, RestartReopens
  <2>5. TypeOK'
    <3> HIDE DEF o
    <3> QED BY <1>1, <1>4, <2>3, <2>4 DEF TypeOK, Live, RestartReopens, roomVars,
        gateVars, clientVars, callerVars
  <2>6. \A i \in 1..Len(opens) : opens[i].by # "restart"
    BY <1>1, <2>2 DEF RestartOwnsItsOpen
  <2>7. opening # NoOpen => opening.by # "restart"
    BY <1>1, <2>2 DEF RestartOwnsItsOpen
  <2>8. /\ Len(opens') = Len(opens) + 1
        /\ \A i \in 1..Len(opens') : opens'[i].by = "restart" => i = Len(opens')
    <3> HIDE DEF o
    <3> QED BY <2>1, <2>4, <2>6
  <2>9. restart' # NoRestart
    BY <2>3
  <2>10. RestartOwnsItsOpen'
    BY <2>3, <2>4, <2>7, <2>8, <2>9 DEF RestartOwnsItsOpen, Awaiting
  <2> QED BY <2>5, <2>10 DEF TypeInv
<1> QED BY <1>3, <1>4

\* The admin switch keeps the invariant.
LEMMA StepOperator ==
    ASSUME TypeInv, UNCHANGED branch, DisableExchange \/ EnableExchange
    PROVE  TypeInv'
<1>1. TypeOK
  BY DEF TypeInv
<1>2. CASE DisableExchange
  <2>1. client' = client \/ \E S : client' = CloseAll(S)
    BY <1>2 DEF DisableExchange
  <2>2. sleeping' \subseteq sleeping \cup {k \in Clients : Live(k)}
    BY <1>2 DEF DisableExchange
  <2>3. /\ users' \in [Rooms -> Entry \cup {NoUser}]
        /\ enabled' \in BOOLEAN
        /\ forced' \in Seq({"restart", "guard", "admin"})
    <3>1. users' = [r \in Rooms |-> NoUser] /\ enabled' = FALSE
      BY <1>2, Zenon DEF DisableExchange
    <3>2. forced \in Seq({"restart", "guard", "admin"}) /\ forced' = Append(forced, "admin")
      BY <1>1, <1>2 DEF TypeOK, DisableExchange
    <3>3. users' \in [Rooms -> Entry \cup {NoUser}]
      BY <3>1
    <3>4. enabled' \in BOOLEAN
      BY <3>1
    <3>5. forced' \in Seq({"restart", "guard", "admin"})
      BY <3>2
    <3> QED BY <3>3, <3>4, <3>5
  <2>4. /\ client' \in [Clients -> Client]
        /\ \A k \in Clients : Live(k)' => client'[k].room \in Rooms /\ client'[k].cred \in Creds
        /\ sleeping' \subseteq {k \in Clients : client'[k].room \in Rooms /\ client'[k].cred \in Creds}
    BY <1>1, <2>1, <2>2, ClientsType
  <2>5. TypeOK'
    BY <1>1, <1>2, <2>3, <2>4 DEF TypeOK, DisableExchange,
       gateVars, queueVars, callerVars
  <2> QED BY <1>2, <2>5, OwnsKept DEF TypeInv, DisableExchange, queueVars
<1>3. CASE EnableExchange
  <2>1. TypeOK'
    BY <1>1, <1>3 DEF TypeOK, Live, EnableExchange, roomVars, gateVars,
       clientVars, queueVars, callerVars
  <2> QED BY <1>3, <2>1, OwnsKept DEF TypeInv, EnableExchange, queueVars
<1> QED BY <1>2, <1>3

\* The liveness guard keeps the invariant.
LEMMA StepForceResubscribe ==
    ASSUME TypeInv, UNCHANGED branch, NEW r \in Rooms, ForceResubscribe(r)
    PROVE  TypeInv'
<1>1. TypeOK
  BY DEF TypeInv
<1> DEFINE s == <<[room |-> r, cred |-> subscribeMsgsMap[r], by |-> "guard"]>>
<1>2. s \in Seq(Open) /\ \A i \in 1..Len(s) : s[i].by # "restart"
  BY <1>1 DEF TypeOK, ForceResubscribe, Open, Senders
<1>3. opens \in Seq(Open) /\ opens' = opens \o s
  BY <1>1, <1>2 DEF TypeOK, ForceResubscribe
<1>4. opens' \in Seq(Open)
  <2> HIDE DEF s
  <2> QED BY <1>2, <1>3
<1>5. client' = client \/ \E S : client' = CloseAll(S)
  BY DEF ForceResubscribe
<1>6. sleeping' \subseteq sleeping \cup {k \in Clients : Live(k)}
  BY DEF ForceResubscribe
<1>7. /\ refcount' \in [Rooms -> Counts]
      /\ subscribersMap' \in [Rooms -> Counts]
      /\ users' \in [Rooms -> Entry \cup {NoUser}]
      /\ forced' \in Seq({"restart", "guard", "admin"})
  <2>1. forced \in Seq({"restart", "guard", "admin"}) /\ forced' = Append(forced, "guard")
    BY <1>1 DEF TypeOK, ForceResubscribe
  <2>2. forced' \in Seq({"restart", "guard", "admin"})
    BY <2>1
  <2> QED BY <1>1, <2>2 DEF TypeOK, ForceResubscribe, Uncount, Counts
<1>8. TypeOK'
  BY <1>1, <1>4, <1>5, <1>6, <1>7, ClientsType DEF TypeOK, ForceResubscribe,
     gateVars, callerVars
<1>9. UNCHANGED <<restart, opening>>
  BY DEF ForceResubscribe
<1>10. RestartOwnsItsOpen'
  <2> HIDE DEF s
  <2> QED BY <1>2, <1>3, <1>9, OwnsOnConcat DEF TypeInv
<1> QED BY <1>8, <1>10 DEF TypeInv

\* A client that is live has a room and credentials of a request.
LEMMA LiveClient ==
    ASSUME TypeOK, NEW k \in Clients, Live(k)
    PROVE  client[k].room \in Rooms /\ client[k].cred \in Creds
  BY DEF TypeOK

\* The breaker's tear-down leaves a well-formed room.
LEMMA TearDownType ==
    ASSUME TypeOK, NEW k \in Clients, Live(k), NEW g \in BOOLEAN, TearDown(k, g)
    PROVE  /\ users' \in [Rooms -> Entry \cup {NoUser}]
           /\ subscribersMap' \in [Rooms -> Counts]
           /\ retryTimer' \in [Rooms -> Retry \cup {NoTimer}]
           /\ client' = client \/ \E S : client' = CloseAll(S)
           /\ UNCHANGED <<subscribeMsgsMap, sleeping, opens, opening, deferred,
                          restart, refcount, enabled, forced, wanted, sent>>
<1> DEFINE r == client[k].room
           n == subscribersMap[r]
<1>1. r \in Rooms /\ client[k].cred \in Creds /\ n \in Counts
  BY LiveClient DEF TypeOK
<1>2. /\ users' \in [Rooms -> Entry \cup {NoUser}]
      /\ subscribersMap' \in [Rooms -> Counts]
  BY <1>1 DEF TypeOK, TearDown, Uncount, Counts
<1>3. retryTimer' \in [Rooms -> Retry \cup {NoTimer}]
  <2>1. retryTimer' = [retryTimer EXCEPT ![r] =
                     IF Truthy(n) THEN [subs |-> n, cred |-> client[k].cred, gated |-> g]
                     ELSE IF @ = NoTimer THEN @
                     ELSE [@ EXCEPT !.gated = FALSE]]
    BY DEF TearDown, Schedule
  <2>2. Truthy(n) => [subs |-> n, cred |-> client[k].cred, gated |-> g] \in Retry
    BY <1>1 DEF Truthy, Counts, Retry
  <2>3. ASSUME retryTimer[r] # NoTimer
        PROVE  [retryTimer[r] EXCEPT !.gated = FALSE] \in Retry
    <3>1. retryTimer[r] \in Retry
      BY <1>1, <2>3 DEF TypeOK
    <3> HIDE DEF r
    <3> QED BY <3>1 DEF Retry
  <2> HIDE DEF r, n
  <2> QED BY <1>1, <2>1, <2>2, <2>3 DEF TypeOK
<1> QED BY <1>2, <1>3 DEF TearDown, queueVars, forcedVars, callerVars

\* An armed gate is a gate.
LEMMA ArmType ==
    ASSUME TypeOK, NEW r \in Rooms, NEW c \in Creds \cup {NoCred}, Arm(r, c)
    PROVE  /\ cooldown' \in [Rooms -> {"off", "armed", "lapsed"}]
           /\ credFp' \in [Rooms -> Creds \cup {NoCred}]
  BY DEF TypeOK, Arm

\* The breakers keep the invariant.
LEMMA StepBreakers ==
    ASSUME TypeInv, UNCHANGED branch, NEW k \in Clients,
           TripBreaker(k) \/ TripTransport(k) \/ AuthWatchdog(k)
    PROVE  TypeInv'
<1>1. TypeOK
  BY DEF TypeInv
<1>2. Live(k) /\ \E g \in BOOLEAN : TearDown(k, g)
  BY DEF TripBreaker, TripTransport, AuthWatchdog
<1>3. /\ users' \in [Rooms -> Entry \cup {NoUser}]
      /\ subscribersMap' \in [Rooms -> Counts]
      /\ retryTimer' \in [Rooms -> Retry \cup {NoTimer}]
      /\ client' = client \/ \E S : client' = CloseAll(S)
      /\ UNCHANGED <<subscribeMsgsMap, sleeping, opens, opening, deferred,
                     restart, refcount, enabled, forced, wanted, sent>>
  BY <1>1, <1>2, TearDownType
<1>4. client[k].room \in Rooms /\ client[k].cred \in Creds
  BY <1>1, <1>2, LiveClient
<1>5. /\ cooldown' \in [Rooms -> {"off", "armed", "lapsed"}]
      /\ credFp' \in [Rooms -> Creds \cup {NoCred}]
      /\ errors' \in [Rooms -> Nat]
  <2>1. CASE TripBreaker(k)
    BY <1>1, <1>4, <2>1, ArmType DEF TypeOK, TripBreaker
  <2>2. CASE TripTransport(k)
    <3>1. credFp[client[k].room] \in Creds \cup {NoCred}
      BY <1>1, <1>4 DEF TypeOK
    <3> QED BY <1>1, <1>4, <2>2, <3>1, ArmType DEF TypeOK, TripTransport
  <2>3. CASE AuthWatchdog(k)
    BY <1>1, <2>3 DEF TypeOK, AuthWatchdog, gateVars
  <2> QED BY <2>1, <2>2, <2>3
<1>6. sleeping' \subseteq sleeping \cup {m \in Clients : Live(m)}
  BY <1>3
<1>7. TypeOK'
  BY <1>1, <1>3, <1>5, <1>6, ClientsType DEF TypeOK
<1>8. RestartOwnsItsOpen'
  BY <1>3, OwnsKept DEF TypeInv
<1> QED BY <1>7, <1>8 DEF TypeInv

\* The error handlers keep the invariant.
LEMMA StepErrors ==
    ASSUME TypeInv, UNCHANGED branch, NEW k \in Clients,
           \/ AccountEvent(k) \/ DropRejected(k) \/ ForgetRejected(k)
           \/ ClientError(k) \/ ErrorLimitReached(k)
    PROVE  TypeInv'
<1>1. TypeOK
  BY DEF TypeInv
<1>2. Live(k) /\ client[k].room \in Rooms
  BY <1>1, LiveClient DEF AccountEvent, DropRejected, ForgetRejected,
     ClientError, ErrorLimitReached
<1>3. client' = client \/ \E S : client' = CloseAll(S)
  BY DEF AccountEvent, DropRejected, ForgetRejected, ClientError,
     ErrorLimitReached, BeginRebuild, clientVars
<1>4. sleeping' \subseteq sleeping \cup {m \in Clients : Live(m)}
  BY <1>2 DEF AccountEvent, DropRejected, ForgetRejected, ClientError,
     ErrorLimitReached, BeginRebuild, clientVars
<1>5. /\ users' \in [Rooms -> Entry \cup {NoUser}]
      /\ cooldown' \in [Rooms -> {"off", "armed", "lapsed"}]
      /\ credFp' \in [Rooms -> Creds \cup {NoCred}]
      /\ errors' \in [Rooms -> Nat]
  <2>1. CASE AccountEvent(k)
    BY <1>1, <1>2, <2>1 DEF TypeOK, AccountEvent, clientVars, roomVars
  <2>2. CASE DropRejected(k)
    BY <1>1, <1>2, <2>2 DEF TypeOK, DropRejected, gateVars
  <2>3. CASE ForgetRejected(k)
    BY <1>1, <1>2, <2>3 DEF TypeOK, ForgetRejected, gateVars
  <2>4. CASE ClientError(k)
    BY <1>1, <1>2, <2>4 DEF TypeOK, ClientError, gateVars, roomVars
  <2>5. CASE ErrorLimitReached(k)
    <3>1. branch.limit \in Nat
      BY DEF TypeOK, TypeInv
    <3> QED BY <1>1, <1>2, <2>5, <3>1 DEF TypeOK, ErrorLimitReached, BeginRebuild, gateVars
  <2> QED BY <2>1, <2>2, <2>3, <2>4, <2>5
<1>6. UNCHANGED <<subscribersMap, subscribeMsgsMap, retryTimer, opens, opening,
                  deferred, restart, refcount, enabled, forced, wanted, sent>>
  BY DEF AccountEvent, DropRejected, ForgetRejected, ClientError,
     ErrorLimitReached, BeginRebuild, roomVars, queueVars, forcedVars, callerVars
<1>7. TypeOK'
  BY <1>1, <1>3, <1>4, <1>5, <1>6, ClientsType DEF TypeOK
<1>8. RestartOwnsItsOpen'
  BY <1>6, OwnsKept DEF TypeInv
<1> QED BY <1>7, <1>8 DEF TypeInv

\* The rebuild that ends queues retries only.
LEMMA StepEndRebuild ==
    ASSUME TypeInv, UNCHANGED branch, NEW k \in Clients, EndRebuild(k)
    PROVE  TypeInv'
<1>1. TypeOK
  BY DEF TypeInv
<1> DEFINE r == client[k].room
           n == Count(subscribersMap[r])
           s == Copies(r, client[k].cred, n)
<1>2. r \in Rooms /\ client[k].cred \in Creds /\ n \in Nat
  BY <1>1 DEF TypeOK, EndRebuild, Count, Counts
<1>3. s \in Seq(Open) /\ \A i \in 1..Len(s) : s[i].by # "restart"
  BY <1>2, CopiesType
<1>4. opens \in Seq(Open) /\ (UNCHANGED opens \/ opens' = opens \o s)
  BY <1>1 DEF TypeOK, EndRebuild
<1>5. opens' \in Seq(Open)
  <2>1. opens \o s \in Seq(Open)
    <3> HIDE DEF s
    <3> QED BY <1>3, <1>4
  <2> QED BY <1>4, <2>1
<1>6. client' = client \/ \E S : client' = CloseAll(S)
  BY DEF EndRebuild
<1>7. sleeping' \subseteq sleeping \cup {m \in Clients : Live(m)}
  BY DEF EndRebuild
<1>8. /\ subscribersMap' \in [Rooms -> Counts]
      /\ errors' \in [Rooms -> Nat]
  BY <1>1, <1>2 DEF TypeOK, EndRebuild, Uncount, Counts
<1>9. TypeOK'
  <2> HIDE DEF s, n, r
  <2> QED BY <1>1, <1>5, <1>6, <1>7, <1>8, ClientsType DEF TypeOK, EndRebuild,
      gateVars, forcedVars, callerVars
<1>10. UNCHANGED <<restart, opening>>
  BY DEF EndRebuild, forcedVars
<1>11. RestartOwnsItsOpen'
  <2> HIDE DEF s
  <2> QED BY <1>3, <1>4, <1>10, OwnsOnConcat, OwnsKept DEF TypeInv
<1> QED BY <1>9, <1>11 DEF TypeInv

\* An open that is taken from the queue and returns at once.
LEMMA TakeAndReturn ==
    ASSUME TypeInv, Granted, opens' = Tail(opens), UNCHANGED opening,
           NEW n \in Counts, Return(Next0, n)
    PROVE  /\ Next0 \in Open
           /\ opens' \in Seq(Open)
           /\ subscribersMap' \in [Rooms -> Counts]
           /\ refcount' \in [Rooms -> Counts]
           /\ restart' \in Restarting \cup {NoRestart}
           /\ RestartOwnsItsOpen'
<1>1. opens \in Seq(Open) /\ opens # <<>> /\ opening' = NoOpen
  BY DEF TypeInv, TypeOK, Granted
<1>2. /\ Next0 \in Open /\ Next0.room \in Rooms
      /\ opens' \in Seq(Open)
      /\ \A i \in 1..Len(opens') : opens'[i].by = "restart" =>
            Awaiting /\ Next0.by # "restart"
      /\ \A i, j \in 1..Len(opens') :
            opens'[i].by = "restart" /\ opens'[j].by = "restart" => i = j
      /\ Next0.by = "restart" => Awaiting
  BY <1>1, TailOwns DEF TypeInv, Open
<1>3. /\ subscribersMap' \in [Rooms -> Counts]
      /\ refcount' \in [Rooms -> Counts]
      /\ restart' \in Restarting \cup {NoRestart}
      /\ restart' # NoRestart => restart'.step = "awaiting" \/ restart'.left > 0
      /\ Next0.by # "restart" => restart' = restart
  BY <1>2, ReturnType
<1>4. RestartOwnsItsOpen'
  BY <1>1, <1>2, <1>3 DEF RestartOwnsItsOpen, Awaiting
<1> QED BY <1>2, <1>3, <1>4

\* The room of the head of the queue, and the gate it has passed.
LEMMA HeadType ==
    ASSUME TypeOK, Granted
    PROVE  /\ Next0 \in Open /\ Next0.room \in Rooms /\ Next0.cred \in Creds
           /\ subscribersMap[Next0.room] \in Counts
           /\ Registered(Next0.room) \in Clients \cup {NoClient}
<1>1. opens \in Seq(Open) /\ opens # <<>>
  BY DEF TypeOK, Granted
<1>2. Next0 \in Open
  BY <1>1 DEF Next0
<1>3. Next0.room \in Rooms /\ Next0.cred \in Creds
  BY <1>2 DEF Open
<1> QED BY <1>2, <1>3 DEF TypeOK, Registered, Entry

\* Passing the gate leaves a gate.
LEMMA PassGateType ==
    ASSUME TypeOK, NEW r \in Rooms, NEW c, PassGate(r, c)
    PROVE  /\ cooldown' \in [Rooms -> {"off", "armed", "lapsed"}]
           /\ credFp' \in [Rooms -> Creds \cup {NoCred}]
  BY DEF TypeOK, PassGate

\* A saved entry is an entry.
LEMMA SavedEntryType ==
    ASSUME TypeOK, NEW r \in Rooms, NEW k \in Clients \cup {NoClient}
    PROVE  [users EXCEPT ![r] = SavedEntry(k)] \in [Rooms -> Entry \cup {NoUser}]
<1>1. SavedEntry(k) \in Entry
  BY DEF SavedEntry, Entry
<1> QED BY <1>1 DEF TypeOK

\* So is a new pending one.
LEMMA WithEntryType ==
    ASSUME TypeOK, NEW r \in Rooms
    PROVE  WithEntry(r) \in [Rooms -> Entry \cup {NoUser}]
<1>1. [pending |-> TRUE, client |-> NoClient] \in Entry
  BY DEF Entry
<1> QED BY <1>1 DEF TypeOK, WithEntry

\* Opens that return without a client keep the invariant: one sent by
\* restartStreams hands back to its loop.
LEMMA StepReturns ==
    ASSUME TypeInv, UNCHANGED branch, SkipOpen \/ DeferOpen \/ JoinRoom \/ RejectLegacy \/ ThrowInBranch
    PROVE  TypeInv'
<1>1. TypeOK /\ Granted
  BY DEF TypeInv, SkipOpen, DeferOpen, JoinRoom, RejectLegacy, ThrowInBranch, EnterBranch
<1> DEFINE r == Next0.room
<1>2. /\ r \in Rooms /\ Next0.cred \in Creds
      /\ subscribersMap[r] \in Counts
      /\ Registered(r) \in Clients \cup {NoClient}
  BY <1>1, HeadType
<1>3. opens' = Tail(opens) /\ UNCHANGED opening
  BY DEF SkipOpen, DeferOpen, JoinRoom, RejectLegacy, ThrowInBranch, EnterBranch
<1>4. \E n \in Counts : Return(Next0, n)
  <2>1. CASE JoinRoom
    <3>1. subscribersMap[r] + 1 \in Counts
      BY <1>2, <2>1 DEF JoinRoom, Truthy, Counts
    <3> QED BY <2>1, <3>1 DEF JoinRoom
  <2>2. CASE SkipOpen \/ DeferOpen \/ RejectLegacy \/ ThrowInBranch
    BY <1>2, <2>2 DEF SkipOpen, DeferOpen, RejectLegacy, ThrowInBranch
  <2> QED BY <2>1, <2>2
<1>5. /\ opens' \in Seq(Open)
      /\ subscribersMap' \in [Rooms -> Counts]
      /\ refcount' \in [Rooms -> Counts]
      /\ restart' \in Restarting \cup {NoRestart}
      /\ RestartOwnsItsOpen'
  BY <1>1, <1>3, <1>4, TakeAndReturn
<1>6. UNCHANGED <<subscribeMsgsMap, clientVars, opening, enabled, forced, callerVars>>
  BY DEF SkipOpen, DeferOpen, JoinRoom, RejectLegacy, ThrowInBranch
<1>7. users' \in [Rooms -> Entry \cup {NoUser}]
  <2>1. CASE SkipOpen \/ DeferOpen
    BY <1>1, <2>1 DEF TypeOK, SkipOpen, DeferOpen
  <2>2. CASE JoinRoom \/ RejectLegacy
    <3>1. users' = [users EXCEPT ![r] = SavedEntry(Registered(r))]
      BY <2>2 DEF JoinRoom, RejectLegacy
    <3> HIDE DEF r
    <3> QED BY <1>1, <1>2, <3>1, SavedEntryType
  <2>3. CASE ThrowInBranch
    <3>1. users' = WithEntry(r)
      BY <2>3 DEF ThrowInBranch
    <3>2. WithEntry(r) \in [Rooms -> Entry \cup {NoUser}]
      BY <1>1, <1>2, WithEntryType
    <3> QED BY <3>1, <3>2
  <2> QED BY <2>1, <2>2, <2>3
<1>8. /\ cooldown' \in [Rooms -> {"off", "armed", "lapsed"}]
      /\ credFp' \in [Rooms -> Creds \cup {NoCred}]
  <2>1. CASE SkipOpen
    BY <1>1, <2>1 DEF TypeOK, SkipOpen, gateVars
  <2>2. CASE DeferOpen \/ JoinRoom \/ ThrowInBranch
    BY <1>1, <1>2, <2>2, PassGateType DEF DeferOpen, JoinRoom, ThrowInBranch
  <2>3. CASE RejectLegacy
    BY <1>1, <1>2, <2>3, ArmType DEF RejectLegacy
  <2> QED BY <2>1, <2>2, <2>3
<1>9. retryTimer' \in [Rooms -> Retry \cup {NoTimer}]
  <2>1. CASE SkipOpen \/ DeferOpen \/ JoinRoom \/ ThrowInBranch
    BY <1>1, <2>1 DEF TypeOK, SkipOpen, DeferOpen, JoinRoom, ThrowInBranch
  <2>2. CASE RejectLegacy
    <3>1. retryTimer' = [retryTimer EXCEPT ![r] =
                           IF @ = NoTimer THEN @ ELSE [@ EXCEPT !.gated = FALSE]]
      BY <2>2 DEF RejectLegacy, Schedule, Truthy
    <3>2. ASSUME retryTimer[r] # NoTimer
          PROVE  [retryTimer[r] EXCEPT !.gated = FALSE] \in Retry
      <4>1. retryTimer[r] \in Retry
        BY <1>1, <1>2, <3>2 DEF TypeOK
      <4> HIDE DEF r
      <4> QED BY <4>1 DEF Retry
    <3> HIDE DEF r
    <3> QED BY <1>1, <1>2, <3>1, <3>2 DEF TypeOK
  <2> QED BY <2>1, <2>2
<1>10. deferred' \in [Rooms -> Seq(Creds)]
  <2>1. CASE DeferOpen
    <3>1. Append(deferred[r], Next0.cred) \in Seq(Creds)
      BY <1>1, <1>2 DEF TypeOK
    <3>2. deferred' = [deferred EXCEPT ![r] = Append(deferred[r], Next0.cred)]
      BY <2>1 DEF DeferOpen
    <3> HIDE DEF r
    <3> QED BY <1>1, <1>2, <3>1, <3>2 DEF TypeOK
  <2>2. CASE SkipOpen \/ JoinRoom \/ RejectLegacy \/ ThrowInBranch
    BY <1>1, <2>2 DEF TypeOK, SkipOpen, JoinRoom, RejectLegacy, ThrowInBranch
  <2> QED BY <2>1, <2>2
<1>11. TypeOK'
  BY <1>1, <1>5, <1>6, <1>7, <1>8, <1>9, <1>10 DEF TypeOK, Live, clientVars, callerVars
<1> QED BY <1>5, <1>11 DEF TypeInv

\* An open that is taken from the queue and holds the mutex at an await.
LEMMA TakeAndHold ==
    ASSUME TypeInv, Granted, opens' = Tail(opens), UNCHANGED restart,
           opening' \in Opening, opening'.by = Next0.by
    PROVE  opens' \in Seq(Open) /\ RestartOwnsItsOpen'
<1>1. opens \in Seq(Open) /\ opens # <<>>
  BY DEF TypeInv, TypeOK, Granted
<1>2. /\ Next0 \in Open
      /\ opens' \in Seq(Open)
      /\ \A i \in 1..Len(opens') : opens'[i].by = "restart" =>
            Awaiting /\ Next0.by # "restart"
      /\ \A i, j \in 1..Len(opens') :
            opens'[i].by = "restart" /\ opens'[j].by = "restart" => i = j
      /\ Next0.by = "restart" => Awaiting
  BY <1>1, TailOwns DEF TypeInv
<1> QED BY <1>2 DEF TypeInv, RestartOwnsItsOpen, Awaiting

\* The open at an await lets go of the mutex.
LEMMA LetGo ==
    ASSUME TypeInv, opening # NoOpen, opening' = NoOpen, UNCHANGED opens,
           NEW n \in Counts, Return(opening, n)
    PROVE  /\ subscribersMap' \in [Rooms -> Counts]
           /\ refcount' \in [Rooms -> Counts]
           /\ restart' \in Restarting \cup {NoRestart}
           /\ RestartOwnsItsOpen'
<1>1. opening \in Opening /\ opening.room \in Rooms
  BY DEF TypeInv, TypeOK, Opening
<1>2. opening.by = "restart" =>
        Awaiting /\ \A i \in 1..Len(opens) : opens[i].by # "restart"
  BY DEF TypeInv, RestartOwnsItsOpen
<1>3. /\ subscribersMap' \in [Rooms -> Counts]
      /\ refcount' \in [Rooms -> Counts]
      /\ restart' \in Restarting \cup {NoRestart}
      /\ restart' # NoRestart => restart'.step = "awaiting" \/ restart'.left > 0
      /\ opening.by # "restart" => restart' = restart
  BY <1>1, <1>2, ReturnType
<1>4. RestartOwnsItsOpen'
  BY <1>2, <1>3 DEF TypeInv, RestartOwnsItsOpen, Awaiting
<1> QED BY <1>3, <1>4

\* Save of an open that holds the mutex.
LEMMA SaveType ==
    ASSUME TypeInv, opening # NoOpen, UNCHANGED opens, NEW n \in Counts, Save(opening, n)
    PROVE  /\ users' \in [Rooms -> Entry \cup {NoUser}]
           /\ subscribersMap' \in [Rooms -> Counts]
           /\ subscribeMsgsMap' \in [Rooms -> Creds \cup {NoCred}]
           /\ opening' = NoOpen
           /\ refcount' \in [Rooms -> Counts]
           /\ restart' \in Restarting \cup {NoRestart}
           /\ RestartOwnsItsOpen'
<1>1. TypeOK /\ opening.room \in Rooms /\ opening.cred \in Creds /\ opening.client \in Clients
  BY DEF TypeInv, TypeOK, Opening
<1>2. users' \in [Rooms -> Entry \cup {NoUser}]
  BY <1>1, SavedEntryType DEF Save
<1>3. subscribeMsgsMap' \in [Rooms -> Creds \cup {NoCred}]
  BY <1>1 DEF TypeOK, Save
<1>4. opening' = NoOpen /\ Return(opening, n)
  BY DEF Save
<1> QED BY <1>2, <1>3, <1>4, LetGo

\* The rest of an open keeps the invariant.
LEMMA StepOpening ==
    ASSUME TypeInv, UNCHANGED branch, Connected \/ FailOpen \/ FinishOpen
    PROVE  TypeInv'
<1>1. TypeOK /\ opening # NoOpen /\ UNCHANGED opens
  BY DEF TypeInv, Connected, FailOpen, FinishOpen, AtStep
<1>2. opening \in Opening /\ opening.room \in Rooms /\ opening.prev \in Clients \cup {NoClient}
  BY <1>1 DEF TypeOK, Opening
<1>3. subscribersMap[opening.room] \in Counts
  BY <1>1, <1>2 DEF TypeOK
<1>4. Count(subscribersMap[opening.room]) + 1 \in Counts
  BY <1>3 DEF Count, Counts
<1>5. /\ users' \in [Rooms -> Entry \cup {NoUser}]
      /\ subscribersMap' \in [Rooms -> Counts]
      /\ subscribeMsgsMap' \in [Rooms -> Creds \cup {NoCred}]
      /\ opening' \in Opening \cup {NoOpen}
      /\ refcount' \in [Rooms -> Counts]
      /\ restart' \in Restarting \cup {NoRestart}
      /\ RestartOwnsItsOpen'
  <2>1. CASE FinishOpen
    BY <1>1, <1>3, <2>1, SaveType DEF FinishOpen
  <2>2. CASE FailOpen
    <3>1. opening' = NoOpen /\ Return(opening, subscribersMap[opening.room])
      BY <2>2 DEF FailOpen
    <3>2. users' \in [Rooms -> Entry \cup {NoUser}]
      BY <1>1, <1>2, <2>2, SavedEntryType DEF FailOpen
    <3>3. subscribeMsgsMap' \in [Rooms -> Creds \cup {NoCred}]
      BY <1>1, <2>2 DEF TypeOK, FailOpen
    <3> QED BY <1>1, <1>3, <3>1, <3>2, <3>3, LetGo
  <2>3. CASE Connected
    <3>1. CASE ~branch.paced
      BY <1>1, <1>4, <2>3, <3>1, SaveType DEF Connected, CountSubscriber
    <3>2. CASE branch.paced
      <4>1. Await(opening, "pacing", Count(subscribersMap[opening.room]) + 1, users)
        BY <2>3, <3>2 DEF Connected, CountSubscriber
      <4>2. opening' \in Opening /\ opening'.by = opening.by
        BY <1>2, <4>1 DEF Await, Opening
      <4>3. /\ subscribersMap' \in [Rooms -> Counts]
            /\ UNCHANGED <<users, subscribeMsgsMap, restart, refcount>>
        BY <1>1, <1>4, <4>1 DEF TypeOK, Await
      <4>4. RestartOwnsItsOpen'
        BY <1>1, <4>2, <4>3 DEF TypeInv, RestartOwnsItsOpen, Awaiting
      <4> QED BY <1>1, <4>2, <4>3, <4>4 DEF TypeOK
    <3> QED BY <3>1, <3>2
  <2> QED BY <2>1, <2>2, <2>3
<1>6. UNCHANGED <<gateVars, retryTimer, errors, sleeping, deferred, enabled, forced, callerVars>>
  BY DEF Connected, FailOpen, FinishOpen, clientVars
<1>7. client' = client \/ \E S : client' = CloseAll(S)
  BY DEF Connected, FailOpen, FinishOpen, clientVars
<1>8. sleeping' \subseteq sleeping \cup {m \in Clients : Live(m)}
  BY <1>6
<1>9. TypeOK'
  BY <1>1, <1>5, <1>6, <1>7, <1>8, ClientsType DEF TypeOK, gateVars, callerVars
<1> QED BY <1>5, <1>9 DEF TypeInv

\* An open that builds a client keeps the invariant.
LEMMA StepConnect ==
    ASSUME TypeInv, UNCHANGED branch, NEW k \in Clients, Connect(k)
    PROVE  TypeInv'
<1> DEFINE r == Next0.room
           held == [room |-> r, cred |-> Next0.cred, by |-> Next0.by,
                    client |-> k, prev |-> Registered(r), step |-> "connecting"]
<1>1. TypeOK /\ Granted /\ opens' = Tail(opens)
  BY DEF TypeInv, Connect, EnterBranch
<1>2. /\ Next0 \in Open /\ r \in Rooms /\ Next0.cred \in Creds
      /\ subscribersMap[r] \in Counts
      /\ Registered(r) \in Clients \cup {NoClient}
  BY <1>1, HeadType
<1>3. held \in Opening /\ held.by = Next0.by /\ held.room = r
      /\ held.client = k /\ held.cred = Next0.cred
  BY <1>2 DEF Open, Opening
<1>4. WithEntry(r) \in [Rooms -> Entry \cup {NoUser}]
  BY <1>1, <1>2, WithEntryType
<1>5. Count(subscribersMap[r]) + 1 \in Counts
  BY <1>2 DEF Count, Counts
<1>6. ASSUME NEW step \in {"connecting", "pacing"}, NEW n \in Counts,
             Await(held, step, n, WithEntry(r))
      PROVE  /\ users' \in [Rooms -> Entry \cup {NoUser}]
             /\ subscribersMap' \in [Rooms -> Counts]
             /\ subscribeMsgsMap' \in [Rooms -> Creds \cup {NoCred}]
             /\ opening' \in Opening \cup {NoOpen}
             /\ opens' \in Seq(Open)
             /\ refcount' \in [Rooms -> Counts]
             /\ restart' \in Restarting \cup {NoRestart}
             /\ RestartOwnsItsOpen'
  <2> HIDE DEF held
  <2>1. opening' \in Opening /\ opening'.by = Next0.by
    BY <1>3, <1>6 DEF Await, Opening
  <2>2. UNCHANGED <<restart, refcount, subscribeMsgsMap>> /\ users' = WithEntry(r)
    BY <1>6 DEF Await
  <2>3. opens' \in Seq(Open) /\ RestartOwnsItsOpen'
    BY <1>1, <2>1, <2>2, TakeAndHold
  <2>4. subscribersMap' \in [Rooms -> Counts]
    BY <1>1, <1>2, <1>3, <1>6 DEF TypeOK, Await
  <2> HIDE DEF r
  <2> QED BY <1>1, <1>4, <2>1, <2>2, <2>3, <2>4 DEF TypeOK
<1>7. ASSUME NEW n \in Counts, Save(held, n)
      PROVE  /\ users' \in [Rooms -> Entry \cup {NoUser}]
             /\ subscribersMap' \in [Rooms -> Counts]
             /\ subscribeMsgsMap' \in [Rooms -> Creds \cup {NoCred}]
             /\ opening' \in Opening \cup {NoOpen}
             /\ opens' \in Seq(Open)
             /\ refcount' \in [Rooms -> Counts]
             /\ restart' \in Restarting \cup {NoRestart}
             /\ RestartOwnsItsOpen'
  <2>1. Return(Next0, n)
    BY <1>3, <1>7 DEF Save, Return
  <2> HIDE DEF held
  <2>2. opening' = NoOpen /\ UNCHANGED opening
    BY <1>1, <1>7 DEF Save, Granted
  <2>3. users' \in [Rooms -> Entry \cup {NoUser}]
    BY <1>1, <1>2, <1>3, <1>7, SavedEntryType DEF Save
  <2>4. subscribeMsgsMap' \in [Rooms -> Creds \cup {NoCred}]
    BY <1>1, <1>2, <1>3, <1>7 DEF TypeOK, Save
  <2> QED BY <1>1, <2>1, <2>2, <2>3, <2>4, TakeAndReturn
<1>8. \/ \E step \in {"connecting", "pacing"} : \E n \in Counts :
            Await(held, step, n, WithEntry(r))
      \/ \E n \in Counts : Save(held, n)
  <2>1. CASE branch.awaits
    BY <1>2, <2>1 DEF Connect
  <2>2. CASE ~branch.awaits /\ branch.paced
    <3>1. Await(held, "pacing", Count(subscribersMap[r]) + 1, WithEntry(r))
      BY <2>2 DEF Connect, CountSubscriber
    <3> HIDE DEF held, r
    <3> QED BY <1>5, <3>1
  <2>3. CASE ~branch.awaits /\ ~branch.paced
    <3>1. Save(held, Count(subscribersMap[r]) + 1)
      BY <2>3 DEF Connect, CountSubscriber
    <3> HIDE DEF held, r
    <3> QED BY <1>5, <3>1
  <2> QED BY <2>1, <2>2, <2>3
<1>9. /\ users' \in [Rooms -> Entry \cup {NoUser}]
      /\ subscribersMap' \in [Rooms -> Counts]
      /\ subscribeMsgsMap' \in [Rooms -> Creds \cup {NoCred}]
      /\ opening' \in Opening \cup {NoOpen}
      /\ opens' \in Seq(Open)
      /\ refcount' \in [Rooms -> Counts]
      /\ restart' \in Restarting \cup {NoRestart}
      /\ RestartOwnsItsOpen'
  <2> HIDE DEF held, r
  <2> QED BY <1>6, <1>7, <1>8
<1>10. /\ cooldown' \in [Rooms -> {"off", "armed", "lapsed"}]
       /\ credFp' \in [Rooms -> Creds \cup {NoCred}]
  BY <1>1, <1>2, PassGateType DEF Connect
<1>11. client' = [client EXCEPT ![k] = [room |-> r, cred |-> Next0.cred, st |-> "live"]]
       /\ k \notin sleeping
  BY DEF Connect, Unused
<1>12. UNCHANGED <<retryTimer, errors, sleeping, deferred, enabled, forced, callerVars>>
  BY DEF Connect
<1>13. /\ client' \in [Clients -> Client]
       /\ \A m \in Clients : Live(m)' => client'[m].room \in Rooms /\ client'[m].cred \in Creds
       /\ sleeping' \subseteq {m \in Clients : client'[m].room \in Rooms /\ client'[m].cred \in Creds}
  <2>1. [room |-> r, cred |-> Next0.cred, st |-> "live"] \in Client
    BY <1>2 DEF Client
  <2> HIDE DEF r, held
  <2> QED BY <1>1, <1>2, <1>11, <1>12, <2>1 DEF TypeOK, Live
<1>14. TypeOK'
  BY <1>1, <1>9, <1>10, <1>12, <1>13 DEF TypeOK, callerVars
<1> QED BY <1>9, <1>14 DEF TypeInv

-----------------------------------------------------------------------------
\* TypeInv is preserved by every step.
LEMMA NextType == TypeInv /\ [Next]_vars => TypeInv'
<1> SUFFICES ASSUME TypeInv, [Next]_vars PROVE TypeInv'
  OBVIOUS
<1>0. UNCHANGED branch
  BY DEF Next, vars
<1>1. CASE UNCHANGED vars
  <2>1. TypeOK'
    BY <1>1 DEF TypeInv, TypeOK, Live, vars, roomVars, gateVars, clientVars,
       queueVars, forcedVars, callerVars
  <2>2. RestartOwnsItsOpen'
    BY <1>1, OwnsKept DEF TypeInv, vars, queueVars, forcedVars
  <2> QED BY <2>1, <2>2 DEF TypeInv
<1>2. ASSUME NEW r \in Rooms,
             \/ \E c \in Creds : OpenStream(r, c)
             \/ CloseStream(r) \/ RetryDeferred(r)
             \/ CooldownLapses(r) \/ SelfHeal(r)
             \/ ForceRestart(r) \/ ForceResubscribe(r)
      PROVE  TypeInv'
  BY <1>0, <1>2, StepOpenStream, StepCloseStream, StepRetryDeferred, StepTimers,
     StepForceRestart, StepForceResubscribe
<1>3. ASSUME NEW k \in Clients,
             \/ Connect(k)
             \/ TripBreaker(k) \/ TripTransport(k) \/ AuthWatchdog(k)
             \/ AccountEvent(k) \/ DropRejected(k) \/ ForgetRejected(k)
             \/ ClientError(k) \/ ErrorLimitReached(k) \/ EndRebuild(k)
      PROVE  TypeInv'
  BY <1>0, <1>3, StepConnect, StepBreakers, StepErrors, StepEndRebuild
<1>4. CASE \/ SkipOpen \/ DeferOpen \/ JoinRoom \/ RejectLegacy \/ ThrowInBranch
           \/ Connected \/ ConnectRefused \/ ConnectTimeout \/ FinishOpen
  BY <1>0, <1>4, StepReturns, StepOpening DEF ConnectRefused, ConnectTimeout
<1>5. CASE RestartSettled \/ RestartReopens \/ DisableExchange \/ EnableExchange
  BY <1>0, <1>5, StepRestart, StepOperator
<1> QED BY <1>1, <1>2, <1>3, <1>4, <1>5 DEF Next, Step

\* Every room, count, gate, timer, client and queue keeps its type, and a
\* restart is only ever told of the return of the open it waits for.
THEOREM TypeCorrect == Spec => [](TypeOK /\ RestartOwnsItsOpen)
<1>1. Spec => []TypeInv
  BY InitType, NextType, PTL DEF Spec
<1> QED BY <1>1, PTL DEF TypeInv

-----------------------------------------------------------------------------
(* No pending entry is left behind.                                          *)

AllOwned == \A r \in Rooms : OwnsPending(r)

\* Entries only change to saved ones or disappear, and the mutex stays where
\* it is.
LEMMA PendingKept ==
    ASSUME AllOwned, UNCHANGED opening,
           \A r \in Rooms : \/ users'[r] = users[r]
                           \/ users'[r] = NoUser
                           \/ users'[r].pending = FALSE
    PROVE  AllOwned'
  BY DEF AllOwned, OwnsPending, Pending

\* The entry of the open that lets go of the mutex is saved.
LEMMA PendingSaved ==
    ASSUME TypeOK, AllOwned, opening # NoOpen, opening' = NoOpen,
           NEW k \in Clients \cup {NoClient},
           users' = [users EXCEPT ![opening.room] = SavedEntry(k)]
    PROVE  AllOwned'
<1>1. opening.room \in Rooms
  BY DEF TypeOK, Opening
<1>2. ASSUME NEW r \in Rooms PROVE ~Pending(r)'
  <2>1. CASE r = opening.room
    <3>1. users'[r] = SavedEntry(k)
      BY <1>1, <2>1 DEF TypeOK
    <3> QED BY <3>1 DEF Pending, SavedEntry
  <2>2. CASE r # opening.room
    <3>1. users'[r] = users[r]
      BY <1>1, <2>2 DEF TypeOK
    <3> QED BY <2>2, <3>1 DEF Pending, AllOwned, OwnsPending
  <2> QED BY <2>1, <2>2
<1> QED BY <1>2 DEF AllOwned, OwnsPending

\* Saving an entry leaves nobody pending that was not.
LEMMA SavedKept ==
    ASSUME TypeOK, AllOwned, UNCHANGED opening, NEW q \in Rooms,
           NEW k, users' = [users EXCEPT ![q] = SavedEntry(k)]
    PROVE  AllOwned'
<1>1. ASSUME NEW r \in Rooms
      PROVE  users'[r] = users[r] \/ users'[r].pending = FALSE
  BY DEF TypeOK, SavedEntry
<1> QED BY <1>1, PendingKept

\* Neither does dropping one.
LEMMA DroppedKept ==
    ASSUME TypeOK, AllOwned, UNCHANGED opening, NEW q \in Rooms,
           UNCHANGED users \/ users' = [users EXCEPT ![q] = NoUser]
    PROVE  AllOwned'
<1>1. ASSUME NEW r \in Rooms
      PROVE  users'[r] = users[r] \/ users'[r] = NoUser
  BY DEF TypeOK
<1> QED BY <1>1, PendingKept

\* An open that builds a client owns the pending entry it creates.
LEMMA PendingConnect ==
    ASSUME TypeOK, AllOwned, NEW k \in Clients, Connect(k)
    PROVE  AllOwned'
<1> DEFINE q == Next0.room
           held == [room |-> q, cred |-> Next0.cred, by |-> Next0.by,
                    client |-> k, prev |-> Registered(q), step |-> "connecting"]
<1>1. q \in Rooms /\ opening = NoOpen
  BY HeadType DEF Connect, EnterBranch, Granted
<1>2. \A r \in Rooms : ~Pending(r)
  BY <1>1 DEF AllOwned, OwnsPending
<1>3. \A r \in Rooms \ {q} : WithEntry(q)[r] = users[r]
  BY <1>1 DEF TypeOK, WithEntry
<1>4. ASSUME NEW step \in {"connecting", "pacing"}, NEW n, Await(held, step, n, WithEntry(q))
      PROVE  AllOwned'
  <2>1. opening' = [held EXCEPT !.step = step] /\ users' = WithEntry(q)
    BY <1>4 DEF Await
  <2>2. opening'.room = q /\ opening' # NoOpen
    <3>1. opening' \in Opening
      BY <1>1, <2>1, HeadType DEF Connect, EnterBranch, Open, Opening
    <3> QED BY <2>1, <3>1
  <2>3. ASSUME NEW r \in Rooms, r # q PROVE ~Pending(r)'
    BY <1>2, <1>3, <2>1, <2>3 DEF Pending
  <2> HIDE DEF q
  <2> QED BY <2>2, <2>3 DEF AllOwned, OwnsPending
<1>5. ASSUME NEW n, Save(held, n)
      PROVE  AllOwned'
  <2>1. users' = [users EXCEPT ![q] = SavedEntry(k)] /\ UNCHANGED opening
    BY <1>1, <1>5 DEF Save
  <2> HIDE DEF q
  <2> QED BY <1>1, <2>1, SavedKept
<1>6. \/ \E step \in {"connecting", "pacing"} : \E n : Await(held, step, n, WithEntry(q))
      \/ \E n : Save(held, n)
  BY DEF Connect, CountSubscriber
<1> HIDE DEF held, q
<1> QED BY <1>4, <1>5, <1>6

\* No step leaves a pending entry without its open.
LEMMA PendingNext ==
    ASSUME ~branch.throws, TypeOK, AllOwned, [Next]_vars
    PROVE  AllOwned'
<1>1. CASE UNCHANGED vars
  BY <1>1, PendingKept DEF vars, roomVars, queueVars
<1>2. ASSUME NEW r \in Rooms,
             \/ \E c \in Creds : OpenStream(r, c)
             \/ CloseStream(r) \/ RetryDeferred(r)
             \/ CooldownLapses(r) \/ SelfHeal(r)
             \/ ForceRestart(r) \/ ForceResubscribe(r)
      PROVE  AllOwned'
  <2>1. UNCHANGED opening
    BY <1>2 DEF OpenStream, CloseStream, RetryDeferred, CooldownLapses, SelfHeal,
       ForceRestart, ForceResubscribe, queueVars
  <2>2. UNCHANGED users \/ users' = [users EXCEPT ![r] = NoUser]
    BY <1>2 DEF OpenStream, CloseStream, RetryDeferred, CooldownLapses, SelfHeal,
       ForceRestart, ForceResubscribe, Leave, roomVars
  <2> QED BY <2>1, <2>2, DroppedKept
<1>3. ASSUME NEW k \in Clients,
             \/ TripBreaker(k) \/ TripTransport(k) \/ AuthWatchdog(k)
             \/ AccountEvent(k) \/ DropRejected(k) \/ ForgetRejected(k)
             \/ ClientError(k) \/ ErrorLimitReached(k) \/ EndRebuild(k)
      PROVE  AllOwned'
  <2>1. UNCHANGED opening
    BY <1>3 DEF TripBreaker, TripTransport, AuthWatchdog, TearDown, AccountEvent,
       DropRejected, ForgetRejected, ClientError, ErrorLimitReached, BeginRebuild,
       EndRebuild, queueVars
  <2>2. UNCHANGED users \/ users' = [users EXCEPT ![client[k].room] = NoUser]
    BY <1>3 DEF TripBreaker, TripTransport, AuthWatchdog, TearDown, AccountEvent,
       DropRejected, ForgetRejected, ClientError, ErrorLimitReached, BeginRebuild,
       EndRebuild, roomVars
  <2>3. client[k].room \in Rooms
    BY <1>3, LiveClient DEF TypeOK, TripBreaker, TripTransport, AuthWatchdog,
       AccountEvent, DropRejected, ForgetRejected, ClientError, ErrorLimitReached, EndRebuild
  <2> QED BY <2>1, <2>2, <2>3, DroppedKept
<1>4. CASE SkipOpen \/ DeferOpen
  BY <1>4, PendingKept DEF SkipOpen, DeferOpen
<1>5. CASE JoinRoom \/ RejectLegacy
  <2>1. Next0.room \in Rooms
    BY <1>5, HeadType DEF JoinRoom, RejectLegacy, EnterBranch
  <2>2. UNCHANGED opening /\
        users' = [users EXCEPT ![Next0.room] = SavedEntry(Registered(Next0.room))]
    BY <1>5 DEF JoinRoom, RejectLegacy
  <2> QED BY <2>1, <2>2, SavedKept
<1>6. CASE ThrowInBranch
  BY <1>6 DEF ThrowInBranch
<1>7. CASE \E k \in Clients : Connect(k)
  BY <1>7, PendingConnect
<1>8. CASE FailOpen \/ FinishOpen
  <2>1. opening # NoOpen /\ opening' = NoOpen
    BY <1>8 DEF FailOpen, FinishOpen, AtStep, Save
  <2>2. opening.client \in Clients /\ opening.prev \in Clients \cup {NoClient}
    BY <2>1 DEF TypeOK, Opening
  <2>3. \E k \in Clients \cup {NoClient} :
          users' = [users EXCEPT ![opening.room] = SavedEntry(k)]
    BY <1>8, <2>2 DEF FailOpen, FinishOpen, Save
  <2> QED BY <2>1, <2>3, PendingSaved
<1>9. CASE Connected
  <2>1. opening # NoOpen /\ opening \in Opening
    BY <1>9 DEF TypeOK, Connected, AtStep
  <2>2. CASE ~branch.paced
    <3>1. Save(opening, Count(subscribersMap[opening.room]) + 1)
      BY <1>9, <2>2 DEF Connected, CountSubscriber
    <3>2. opening.client \in Clients
      BY <2>1 DEF Opening
    <3> QED BY <2>1, <3>1, <3>2, PendingSaved DEF Save
  <2>3. CASE branch.paced
    <3>1. Await(opening, "pacing", Count(subscribersMap[opening.room]) + 1, users)
      BY <1>9, <2>3 DEF Connected, CountSubscriber
    <3>2. opening' = [opening EXCEPT !.step = "pacing"] /\ users' = users
      BY <3>1 DEF Await
    <3>3. opening' \in Opening /\ opening'.room = opening.room
      BY <2>1, <3>2 DEF Opening
    <3> QED BY <2>1, <3>2, <3>3 DEF AllOwned, OwnsPending, Pending
  <2> QED BY <2>2, <2>3
<1>10. CASE RestartSettled \/ RestartReopens \/ EnableExchange
  BY <1>10, PendingKept DEF RestartSettled, RestartReopens, EnableExchange, queueVars, roomVars
<1>11. CASE DisableExchange
  BY <1>11, PendingKept DEF DisableExchange, queueVars
<1> QED BY <1>1, <1>2, <1>3, <1>4, <1>5, <1>6, <1>7, <1>8, <1>9, <1>10, <1>11
    DEF Next, Step, ConnectRefused, ConnectTimeout

\* In every branch whose code before its try cannot throw (all but Kucoin), a
\* pending entry belongs to the open that holds the family mutex: no later
\* request is put off behind an open that is already gone.
THEOREM PendingOwned == Spec => []PendingIsOwned
<1> DEFINE Inv == TypeInv /\ (~branch.throws => AllOwned)
<1>1. Init => Inv
  BY InitType DEF Init, AllOwned, OwnsPending, Pending
<1>2. Inv /\ [Next]_vars => Inv'
  <2>1. [Next]_vars => UNCHANGED branch
    BY DEF Next, vars
  <2> QED BY <2>1, NextType, PendingNext DEF TypeInv
<1>3. Inv => PendingIsOwned
  BY DEF AllOwned, PendingIsOwned
<1> QED BY <1>1, <1>2, <1>3, PTL DEF Spec

-----------------------------------------------------------------------------
(* A counted room is served.                                                 *)

\* The liveness guard is off, and none of its opens is under way.
NoGuards ==
    /\ \A i \in 1..Len(opens) : opens[i].by # "guard"
    /\ opening # NoOpen => opening.by # "guard"

\* Entries and the open name clients of their own room, and an open that
\* waits for its connection has found no subscribers.
ClientsMatch ==
    /\ \A r \in Rooms : Registered(r) \in Clients => client[Registered(r)].room = r
    /\ opening # NoOpen =>
          /\ client[opening.client].room = opening.room
          /\ opening.prev \in Clients => client[opening.prev].room = opening.room
    /\ AtStep("connecting") => ~Truthy(subscribersMap[opening.room])

\* Who serves r: while its open paces, the client that open is about to save.
Serving(r) ==
    IF AtStep("pacing") /\ opening.room = r THEN opening.client ELSE Registered(r)

\* A room that counts has a live client that serves it, or a handler that is
\* about to rebuild one.
Served == \A r \in Rooms :
    Truthy(subscribersMap[r]) => Sleeping(r) \/ Serving(r) \in LiveIn(r)

ServeInv == NoGuards /\ ClientsMatch /\ Served

\* Opens that others send leave no guard behind.
LEMMA GuardsOnConcat ==
    ASSUME NoGuards, opens \in Seq(Open), UNCHANGED opening,
           NEW s \in Seq(Open), \A i \in 1..Len(s) : s[i].by # "guard",
           opens' = opens \o s
    PROVE  NoGuards'
<1>1. /\ Len(opens') = Len(opens) + Len(s)
      /\ \A i \in 1..Len(opens') : opens'[i] = IF i <= Len(opens) THEN opens[i] ELSE s[i - Len(opens)]
  OBVIOUS
<1> QED BY <1>1 DEF NoGuards

\* The open that is taken from the queue is nobody's guard.
LEMMA GuardsOnTail ==
    ASSUME NoGuards, opens \in Seq(Open), opens # <<>>, opens' = Tail(opens)
    PROVE  /\ Next0.by # "guard"
           /\ \A i \in 1..Len(opens') : opens'[i].by # "guard"
<1>1. /\ Len(opens') = Len(opens) - 1 /\ Len(opens) \in Nat \ {0}
      /\ \A i \in 1..Len(opens') : opens'[i] = opens[i + 1]
      /\ Next0 = opens[1]
  BY DEF Next0
<1> QED BY <1>1 DEF NoGuards

\* Only the liveness guard sends opens of its own.
LEMMA GuardsNext ==
    ASSUME \A r \in Rooms : ~ForceResubscribe(r), TypeInv, NoGuards, [Next]_vars
    PROVE  NoGuards'
<1>1. TypeOK /\ opens \in Seq(Open)
  BY DEF TypeInv, TypeOK
<1>2. ASSUME UNCHANGED <<opens, opening>> PROVE NoGuards'
  BY <1>2 DEF NoGuards
<1>3. CASE UNCHANGED vars
  BY <1>2, <1>3 DEF vars, queueVars
<1>4. ASSUME NEW r \in Rooms, NEW c \in Creds, OpenStream(r, c)
      PROVE  NoGuards'
  <2> DEFINE s == <<[room |-> r, cred |-> c, by |-> "caller"]>>
  <2>1. s \in Seq(Open) /\ \A i \in 1..Len(s) : s[i].by # "guard"
    BY DEF Open, Senders
  <2>2. opens' = opens \o s /\ UNCHANGED opening
    BY <1>1, <1>4 DEF OpenStream
  <2> HIDE DEF s
  <2> QED BY <1>1, <2>1, <2>2, GuardsOnConcat
<1>5. ASSUME NEW r \in Rooms, RetryDeferred(r)
      PROVE  NoGuards'
  <2> DEFINE s == Copies(r, Head(deferred[r]), 1)
  <2>1. s \in Seq(Open) /\ \A i \in 1..Len(s) : s[i].by # "guard"
    <3>1. Head(deferred[r]) \in Creds
      BY <1>1, <1>5 DEF TypeOK, RetryDeferred
    <3> QED BY <3>1, CopiesType
  <2>2. opens' = opens \o s /\ UNCHANGED opening
    BY <1>5 DEF RetryDeferred
  <2> HIDE DEF s
  <2> QED BY <1>1, <2>1, <2>2, GuardsOnConcat
<1>6. ASSUME NEW r \in Rooms, SelfHeal(r)
      PROVE  NoGuards'
  <2> DEFINE s == Copies(r, retryTimer[r].cred, retryTimer[r].subs)
  <2>1. s \in Seq(Open) /\ \A i \in 1..Len(s) : s[i].by # "guard"
    <3>1. retryTimer[r] \in Retry
      BY <1>1, <1>6 DEF TypeOK, SelfHeal
    <3> QED BY <3>1, CopiesType DEF Retry
  <2>2. UNCHANGED opens \/ opens' = opens \o s
    BY <1>6 DEF SelfHeal
  <2>3. UNCHANGED opening
    BY <1>6 DEF SelfHeal
  <2> HIDE DEF s
  <2> QED BY <1>1, <1>2, <2>1, <2>2, <2>3, GuardsOnConcat
<1>7. ASSUME NEW k \in Clients, EndRebuild(k)
      PROVE  NoGuards'
  <2> DEFINE r == client[k].room
             s == Copies(r, client[k].cred, Count(subscribersMap[r]))
  <2>1. s \in Seq(Open) /\ \A i \in 1..Len(s) : s[i].by # "guard"
    <3>1. r \in Rooms /\ client[k].cred \in Creds /\ Count(subscribersMap[r]) \in Nat
      BY <1>1, <1>7 DEF TypeOK, EndRebuild, Count, Counts
    <3> QED BY <3>1, CopiesType
  <2>2. UNCHANGED opens \/ opens' = opens \o s
    BY <1>7 DEF EndRebuild
  <2>3. UNCHANGED opening
    BY <1>7 DEF EndRebuild
  <2> HIDE DEF s
  <2> QED BY <1>1, <1>2, <2>1, <2>2, <2>3, GuardsOnConcat
<1>8. CASE RestartReopens
  <2> DEFINE s == <<[room |-> restart.room, cred |-> restart.cred, by |-> "restart"]>>
  <2>1. s \in Seq(Open) /\ \A i \in 1..Len(s) : s[i].by # "guard"
    BY <1>1, <1>8 DEF TypeOK, RestartReopens, Restarting, Open, Senders
  <2>2. opens' = opens \o s /\ UNCHANGED opening
    BY <1>1, <1>8 DEF RestartReopens
  <2> HIDE DEF s
  <2> QED BY <1>1, <2>1, <2>2, GuardsOnConcat
<1>9. CASE SkipOpen \/ DeferOpen \/ JoinRoom \/ RejectLegacy \/ ThrowInBranch
  <2>1. Granted /\ opens' = Tail(opens) /\ UNCHANGED opening
    BY <1>9 DEF SkipOpen, DeferOpen, JoinRoom, RejectLegacy, ThrowInBranch, EnterBranch
  <2>2. \A i \in 1..Len(opens') : opens'[i].by # "guard"
    BY <1>1, <2>1, GuardsOnTail DEF Granted
  <2> QED BY <2>1, <2>2 DEF NoGuards, Granted
<1>10. ASSUME NEW k \in Clients, Connect(k)
       PROVE  NoGuards'
  <2> DEFINE held == [room |-> Next0.room, cred |-> Next0.cred, by |-> Next0.by,
                      client |-> k, prev |-> Registered(Next0.room), step |-> "connecting"]
  <2>1. opens' = Tail(opens) /\ opens # <<>>
    BY <1>10 DEF Connect, EnterBranch, Granted
  <2>2. Next0.by # "guard" /\ \A i \in 1..Len(opens') : opens'[i].by # "guard"
    BY <1>1, <2>1, GuardsOnTail
  <2>3. opening' = NoOpen \/ \E step \in {"connecting", "pacing"} : opening' = [held EXCEPT !.step = step]
    BY <1>10 DEF Connect, CountSubscriber, Await, Save
  <2>4. opening' # NoOpen => opening'.by = Next0.by
    BY <2>3
  <2> QED BY <2>2, <2>4 DEF NoGuards
<1>11. CASE Connected
  <2>1. opening \in Opening /\ opening # NoOpen /\ UNCHANGED opens
    BY <1>1, <1>11 DEF TypeOK, Connected, AtStep
  <2>2. opening' = NoOpen \/ opening' = [opening EXCEPT !.step = "pacing"]
    BY <1>11 DEF Connected, CountSubscriber, Await, Save
  <2>3. opening' # NoOpen => opening'.by = opening.by
    BY <2>1, <2>2 DEF Opening
  <2> QED BY <2>1, <2>3 DEF NoGuards
<1>12. CASE FailOpen \/ FinishOpen
  BY <1>12 DEF FailOpen, FinishOpen, Save, NoGuards
<1>13. ASSUME NEW r \in Rooms, CloseStream(r) \/ CooldownLapses(r) \/ ForceRestart(r)
       PROVE  NoGuards'
  BY <1>2, <1>13 DEF CloseStream, CooldownLapses, ForceRestart, queueVars
<1>14. ASSUME NEW k \in Clients,
             \/ TripBreaker(k) \/ TripTransport(k) \/ AuthWatchdog(k)
             \/ AccountEvent(k) \/ DropRejected(k) \/ ForgetRejected(k)
             \/ ClientError(k) \/ ErrorLimitReached(k)
       PROVE  NoGuards'
  BY <1>2, <1>14 DEF TripBreaker, TripTransport, AuthWatchdog, TearDown, AccountEvent,
     DropRejected, ForgetRejected, ClientError, ErrorLimitReached, BeginRebuild, queueVars
<1>15. CASE RestartSettled \/ DisableExchange \/ EnableExchange
  BY <1>2, <1>15 DEF RestartSettled, DisableExchange, EnableExchange, queueVars
<1>16. \A r \in Rooms : ~ForceResubscribe(r)
  BY DEF ForceResubscribe
<1> QED BY <1>3, <1>4, <1>5, <1>6, <1>7, <1>8, <1>9, <1>10, <1>11, <1>12, <1>13,
      <1>14, <1>15, <1>16 DEF Next, Step, ConnectRefused, ConnectTimeout

\* Closing clients moves nobody, and leaves those of other rooms alone.
LEMMA ClosedOnly ==
    ASSUME TypeOK, NEW S, client' = CloseAll(S)
    PROVE  /\ \A k \in Clients : client'[k].room = client[k].room
           /\ \A r \in Rooms : \A k \in LiveIn(r) : k \notin S => k \in LiveIn(r)'
<1>1. \A k \in Clients : client'[k].room = client[k].room
  BY CloseAllType
<1>2. \A k \in Clients : k \notin S => client'[k] = client[k]
  BY DEF CloseAll
<1> QED BY <1>1, <1>2 DEF LiveIn, Live

\* A step that takes no count, name or live client from a counted room.
LEMMA ServeKept ==
    ASSUME TypeOK, ClientsMatch, Served, UNCHANGED opening,
           \A k \in Clients : client'[k].room = client[k].room,
           \A r \in Rooms : Registered(r)' = Registered(r) \/ Registered(r)' = NoClient,
           \A r \in Rooms : Truthy(subscribersMap'[r]) =>
              /\ Truthy(subscribersMap[r])
              /\ \/ Sleeping(r)'
                 \/ /\ ~Sleeping(r)
                    /\ Registered(r)' = Registered(r)
                    /\ LiveIn(r) \subseteq LiveIn(r)'
    PROVE  ClientsMatch' /\ Served'
<1>1. opening # NoOpen => /\ opening.client \in Clients /\ opening.room \in Rooms
                          /\ opening.prev \in Clients \cup {NoClient}
  BY DEF TypeOK, Opening
<1>2. ClientsMatch'
  BY <1>1 DEF ClientsMatch, AtStep
<1>3. ASSUME NEW r \in Rooms, Truthy(subscribersMap'[r]), ~Sleeping(r)'
      PROVE  Serving(r)' \in LiveIn(r)'
  <2>1. Serving(r) \in LiveIn(r) /\ LiveIn(r) \subseteq LiveIn(r)'
    BY <1>3 DEF Served
  <2>2. Serving(r)' = Serving(r)
    BY <1>3 DEF Serving, AtStep
  <2> QED BY <2>1, <2>2
<1> QED BY <1>2, <1>3 DEF Served

\* A close takes its count and the client registered for it.
LEMMA ServeLeave ==
    ASSUME TypeOK, ClientsMatch, Served, UNCHANGED <<opening, sleeping>>,
           NEW r \in Rooms, NEW n \in Nat, n <= Count(subscribersMap[r]) \/ n = 1, Leave(r, n)
    PROVE  ClientsMatch' /\ Served'
<1>1. CASE /\ UNCHANGED <<users, client>>
           /\ \/ UNCHANGED subscribersMap
              \/ /\ Truthy(subscribersMap[r])
                 /\ \E m : subscribersMap' = [subscribersMap EXCEPT ![r] = m]
  <2>1. \A q \in Rooms : Truthy(subscribersMap'[q]) => Truthy(subscribersMap[q])
    BY <1>1 DEF TypeOK
  <2> QED BY <1>1, <2>1, ServeKept DEF Registered, LiveIn, Live, Sleeping
<1>2. CASE /\ client' = CloseAll({Registered(r)})
           /\ users' = [users EXCEPT ![r] = NoUser]
           /\ \E m : ~Truthy(m) /\ subscribersMap' = [subscribersMap EXCEPT ![r] = m]
  <2>1. \A k \in Clients : client'[k].room = client[k].room
    BY <1>2, ClosedOnly
  <2>2. \A q \in Rooms : Registered(q)' = IF q = r THEN NoClient ELSE Registered(q)
    BY <1>2 DEF TypeOK, Registered
  <2>3. \A q \in Rooms : Truthy(subscribersMap'[q]) => q # r /\ Truthy(subscribersMap[q])
    BY <1>2 DEF TypeOK
  <2>4. ASSUME NEW q \in Rooms, q # r PROVE LiveIn(q) \subseteq LiveIn(q)'
    <3>1. \A k \in LiveIn(q) : k \in Clients /\ client[k].room = q
      BY DEF LiveIn
    <3>2. \A k \in LiveIn(q) : k # Registered(r)
      BY <2>4, <3>1 DEF ClientsMatch
    <3> QED BY <1>2, <3>2, ClosedOnly
  <2>5. \A q \in Rooms : Sleeping(q)' <=> Sleeping(q)
    BY <2>1 DEF Sleeping, TypeOK
  <2>6. \A q \in Rooms : Registered(q)' = Registered(q) \/ Registered(q)' = NoClient
    BY <2>2
  <2>7. ASSUME NEW q \in Rooms, Truthy(subscribersMap'[q])
        PROVE  /\ Truthy(subscribersMap[q])
               /\ \/ Sleeping(q)'
                  \/ /\ ~Sleeping(q)
                     /\ Registered(q)' = Registered(q)
                     /\ LiveIn(q) \subseteq LiveIn(q)'
    BY <2>2, <2>3, <2>4, <2>5, <2>7
  <2> QED BY <2>1, <2>6, <2>7, ServeKept
<1>3. CASE ~Truthy(subscribersMap[r])
  <2>1. UNCHANGED <<users, subscribersMap, client>>
    BY <1>3 DEF Leave
  <2>2. \A q \in Rooms : Truthy(subscribersMap'[q]) => Truthy(subscribersMap[q])
    BY <2>1
  <2> QED BY <2>1, <2>2, ServeKept DEF Registered, LiveIn, Live, Sleeping
<1>4. CASE Truthy(subscribersMap[r])
  <2> DEFINE left == Count(subscribersMap[r]) - n
  <2>1. subscribersMap' = [subscribersMap EXCEPT ![r] = left]
    BY <1>4 DEF Leave
  <2>2. CASE left > 0
    BY <1>1, <1>4, <2>1, <2>2 DEF Leave
  <2>3. CASE ~(left > 0)
    <3>1. Count(subscribersMap[r]) \in Nat \ {0}
      BY <1>4 DEF TypeOK, Counts, Count, Truthy
    <3>2. ~Truthy(left)
      BY <2>3, <3>1 DEF Truthy
    <3> QED BY <1>2, <1>4, <2>1, <2>3, <3>2 DEF Leave
  <2> QED BY <2>2, <2>3
<1> QED BY <1>3, <1>4

\* An operation of a client that closes that client, or the one registered for
\* its room, after which the room counts nobody or waits for its handler.
LEMMA ServeClient ==
    ASSUME TypeOK, ClientsMatch, Served, UNCHANGED opening,
           NEW k \in Clients, NEW r \in Rooms, client[k].room = r,
           \/ client' = client
           \/ client' = CloseAll({k})
           \/ client' = CloseAll({Registered(r)})
           \/ client' = CloseAll({k, Registered(r)}),
           UNCHANGED users \/ users' = [users EXCEPT ![r] = NoUser],
           UNCHANGED subscribersMap \/ Uncount(r),
           ~Truthy(subscribersMap'[r]) \/ k \in sleeping',
           sleeping' \subseteq Clients,
           \A m \in Clients : m # k => (m \in sleeping' <=> m \in sleeping)
    PROVE  ClientsMatch' /\ Served'
<1>1. \A m \in Clients : client'[m].room = client[m].room
  BY ClosedOnly
<1>2. \A q \in Rooms : Registered(q)' = IF users' # users /\ q = r THEN NoClient ELSE Registered(q)
  BY DEF TypeOK, Registered
<1>3. \A q \in Rooms : Registered(q)' = Registered(q) \/ Registered(q)' = NoClient
  BY <1>2
<1>4. \A q \in Rooms : Truthy(subscribersMap'[q]) => Truthy(subscribersMap[q])
  BY DEF TypeOK, Uncount, Truthy
<1>5. ASSUME NEW q \in Rooms, q # r PROVE LiveIn(q) \subseteq LiveIn(q)'
  <2>1. \A m \in LiveIn(q) : m \in Clients /\ m # k /\ m # Registered(r)
    BY <1>5 DEF LiveIn, ClientsMatch
  <2>2. CASE client' = client
    BY <2>2 DEF LiveIn, Live
  <2>3. CASE client' = CloseAll({k})
    BY <2>1, <2>3, ClosedOnly
  <2>4. CASE client' = CloseAll({Registered(r)})
    BY <2>1, <2>4, ClosedOnly
  <2>5. CASE client' = CloseAll({k, Registered(r)})
    BY <2>1, <2>5, ClosedOnly
  <2> QED BY <2>2, <2>3, <2>4, <2>5
<1>6. ASSUME NEW q \in Rooms, q # r PROVE Sleeping(q)' <=> Sleeping(q)
  <2>1. sleeping \subseteq Clients
    BY DEF TypeOK
  <2>2. \A m \in sleeping : client[m].room = q => m # k /\ m \in sleeping' /\ client'[m].room = q
    BY <1>1, <1>6, <2>1
  <2>3. \A m \in sleeping' : m \in Clients => (client'[m].room = q => m # k /\ m \in sleeping /\ client[m].room = q)
    BY <1>1, <1>6
  <2>4. Sleeping(q) => Sleeping(q)'
    BY <2>2 DEF Sleeping
  <2>5. \A m \in sleeping' : m \in Clients
    OBVIOUS
  <2> QED BY <2>3, <2>4, <2>5 DEF Sleeping
<1>7. k \in sleeping' => Sleeping(r)'
  BY <1>1 DEF Sleeping
<1>8. ASSUME NEW q \in Rooms, Truthy(subscribersMap'[q])
      PROVE  /\ Truthy(subscribersMap[q])
             /\ \/ Sleeping(q)'
                \/ /\ ~Sleeping(q)
                   /\ Registered(q)' = Registered(q)
                   /\ LiveIn(q) \subseteq LiveIn(q)'
  <2>1. CASE q = r
    <3>1. Truthy(subscribersMap'[r])
      BY <1>8, <2>1
    <3>2. Sleeping(r)'
      BY <1>7, <3>1
    <3>3. Sleeping(q)'
      BY <2>1, <3>2
    <3> QED BY <1>4, <1>8, <3>3
  <2>2. CASE q # r
    BY <1>2, <1>4, <1>5, <1>6, <1>8, <2>2
  <2> QED BY <2>1, <2>2
<1> QED BY <1>1, <1>3, <1>8, ServeKept

\* Opens that return without building a client name and count nobody new.
LEMMA ServeReturns ==
    ASSUME TypeOK, NoGuards, ClientsMatch, Served,
           SkipOpen \/ DeferOpen \/ JoinRoom \/ RejectLegacy \/ ThrowInBranch
    PROVE  ClientsMatch' /\ Served'
<1>1. Granted /\ UNCHANGED <<client, sleeping, opening>>
  BY DEF SkipOpen, DeferOpen, JoinRoom, RejectLegacy, ThrowInBranch, EnterBranch, clientVars
<1>2. Next0.room \in Rooms /\ Next0.by # "guard"
  <2>1. opens \in Seq(Open) /\ opens # <<>> /\ opens' = Tail(opens)
    BY <1>1 DEF TypeOK, Granted, SkipOpen, DeferOpen, JoinRoom, RejectLegacy, ThrowInBranch, EnterBranch
  <2> QED BY <1>1, <2>1, HeadType, GuardsOnTail
<1>3. \A r \in Rooms : Registered(r)' = Registered(r)
  <2>1. CASE SkipOpen \/ DeferOpen
    BY <2>1 DEF SkipOpen, DeferOpen, Registered
  <2>2. CASE JoinRoom \/ RejectLegacy
    <3>1. users' = [users EXCEPT ![Next0.room] = SavedEntry(Registered(Next0.room))]
      BY <2>2 DEF JoinRoom, RejectLegacy
    <3>2. SavedEntry(Registered(Next0.room)).client = Registered(Next0.room)
          /\ SavedEntry(Registered(Next0.room)) # NoUser
      <4>1. SavedEntry(Registered(Next0.room)) \in Entry
        BY <1>1, HeadType DEF SavedEntry, Entry
      <4> QED BY <4>1 DEF SavedEntry
    <3> QED BY <1>2, <3>1, <3>2 DEF TypeOK, Registered
  <2>3. CASE ThrowInBranch
    <3>1. users' = WithEntry(Next0.room)
      BY <2>3 DEF ThrowInBranch
    <3>2. [pending |-> TRUE, client |-> NoClient] \in Entry
      BY DEF Entry
    <3> QED BY <1>2, <3>1, <3>2 DEF TypeOK, Registered, WithEntry
  <2> QED BY <2>1, <2>2, <2>3
<1>4. \A r \in Rooms : Truthy(subscribersMap'[r]) => Truthy(subscribersMap[r])
  <2>1. CASE JoinRoom
    <3>1. subscribersMap' = [subscribersMap EXCEPT ![Next0.room] = subscribersMap[Next0.room] + 1]
          /\ Truthy(subscribersMap[Next0.room])
      BY <1>2, <2>1 DEF JoinRoom, Return
    <3> QED BY <1>2, <3>1 DEF TypeOK
  <2>2. CASE SkipOpen \/ DeferOpen \/ RejectLegacy \/ ThrowInBranch
    <3>1. subscribersMap' = [subscribersMap EXCEPT ![Next0.room] = subscribersMap[Next0.room]]
      BY <1>2, <2>2 DEF SkipOpen, DeferOpen, RejectLegacy, ThrowInBranch, Return
    <3> QED BY <1>2, <3>1 DEF TypeOK
  <2> QED BY <2>1, <2>2
<1>5. \A r \in Rooms : Sleeping(r)' = Sleeping(r) /\ LiveIn(r)' = LiveIn(r)
  BY <1>1 DEF Sleeping, LiveIn, Live
<1> QED BY <1>1, <1>3, <1>4, <1>5, ServeKept

\* An open that builds a client serves its room with it, when it counts.
LEMMA ServeConnect ==
    ASSUME TypeOK, NoGuards, ClientsMatch, Served, NEW k \in Clients, Connect(k)
    PROVE  ClientsMatch' /\ Served'
<1>0. Granted /\ Unused(k) /\ UNCHANGED sleeping
  BY DEF Connect, EnterBranch
<1>1. PICK q \in Rooms : q = Next0.room /\ Next0.by # "guard" /\ ~Truthy(subscribersMap[q])
  BY <1>0, HeadType, GuardsOnTail DEF TypeOK, Granted, Connect, EnterBranch
<1> DEFINE held == [room |-> q, cred |-> Next0.cred, by |-> Next0.by,
                    client |-> k, prev |-> Registered(q), step |-> "connecting"]
<1>2. client' = [client EXCEPT ![k] = [room |-> q, cred |-> Next0.cred, st |-> "live"]]
  BY <1>1 DEF Connect
<1>3. /\ client'[k].room = q /\ client'[k].st = "live"
      /\ \A m \in Clients : m # k => client'[m] = client[m]
  BY <1>2 DEF TypeOK
<1>4. opening = NoOpen /\ ~Live(k) /\ k \notin sleeping /\ \A r \in Rooms : Registered(r) # k
  BY <1>0 DEF Granted, Unused
<1>5. \A r \in Rooms : Served /\ Truthy(subscribersMap[r]) =>
          r # q /\ (Sleeping(r) \/ Registered(r) \in LiveIn(r))
  BY <1>1, <1>4 DEF Served, Serving, AtStep
<1>6. \A r \in Rooms : Sleeping(r) => Sleeping(r)'
  BY <1>0, <1>3, <1>4 DEF Sleeping, TypeOK
<1>7. \A r \in Rooms : LiveIn(r) \subseteq LiveIn(r)'
  BY <1>3, <1>4 DEF LiveIn, Live
<1>8. k \in LiveIn(q)'
  BY <1>3 DEF LiveIn, Live
<1>9. Registered(q) \in Clients \cup {NoClient}
  BY DEF TypeOK, Registered, Entry
<1>10. ASSUME NEW step \in {"connecting", "pacing"}, NEW n,
              step = "connecting" => ~Truthy(n), Await(held, step, n, WithEntry(q))
       PROVE  ClientsMatch' /\ Served'
  <2>1. /\ opening' = [held EXCEPT !.step = step]
        /\ users' = WithEntry(q)
        /\ subscribersMap' = [subscribersMap EXCEPT ![q] = n]
    BY <1>10 DEF Await
  <2>2. /\ opening'.room = q /\ opening'.client = k /\ opening'.prev = Registered(q)
        /\ opening'.step = step
    BY <2>1
  <2>3. \A r \in Rooms : Registered(r)' = Registered(r)
    <3>1. [pending |-> TRUE, client |-> NoClient] \in Entry
      BY DEF Entry
    <3> QED BY <2>1, <3>1 DEF TypeOK, Registered, WithEntry
  <2>4. /\ subscribersMap'[q] = n
        /\ \A r \in Rooms : r # q => subscribersMap'[r] = subscribersMap[r]
    BY <2>1 DEF TypeOK
  <2>5. opening' # NoOpen
    <3>1. opening' \in Opening
      BY <1>0, <1>1, <1>9, <2>1, HeadType DEF Opening, Open
    <3> QED BY <3>1
  <2> HIDE DEF held
  <2>6. ClientsMatch'
    <3>1. \A r \in Rooms : Registered(r)' \in Clients => client'[Registered(r)'].room = r
      BY <1>3, <1>4, <2>3 DEF ClientsMatch
    <3>2. opening'.prev \in Clients => client'[opening'.prev].room = q
      BY <1>3, <1>4, <2>2 DEF ClientsMatch
    <3> QED BY <1>3, <1>10, <2>2, <2>4, <3>1, <3>2 DEF ClientsMatch, AtStep
  <2>7. ASSUME NEW r \in Rooms, Truthy(subscribersMap'[r])
        PROVE  Sleeping(r)' \/ Serving(r)' \in LiveIn(r)'
    <3>1. CASE r = q
      <4>1. AtStep("pacing")'
        BY <1>10, <2>2, <2>4, <2>5, <2>7, <3>1 DEF AtStep
      <4>2. Serving(r)' = k
        BY <2>2, <3>1, <4>1 DEF Serving
      <4> QED BY <1>8, <3>1, <4>2
    <3>2. CASE r # q
      <4>1. Serving(r)' = Registered(r)
        BY <2>2, <2>3, <3>2 DEF Serving
      <4> QED BY <1>5, <1>6, <1>7, <2>4, <2>7, <3>2, <4>1
    <3> QED BY <3>1, <3>2
  <2> QED BY <2>6, <2>7 DEF Served
<1>11. ASSUME NEW n, Save(held, n)
       PROVE  ClientsMatch' /\ Served'
  <2>1. /\ opening' = NoOpen
        /\ users' = [users EXCEPT ![q] = SavedEntry(k)]
        /\ subscribersMap' = [subscribersMap EXCEPT ![q] = n]
    BY <1>1, <1>11 DEF Save, Return
  <2>2. SavedEntry(k) # NoUser /\ SavedEntry(k).client = k
    <3>1. SavedEntry(k) \in Entry
      BY DEF SavedEntry, Entry
    <3> QED BY <3>1 DEF SavedEntry
  <2>3. \A r \in Rooms : Registered(r)' = IF r = q THEN k ELSE Registered(r)
    BY <2>1, <2>2 DEF TypeOK, Registered
  <2>4. \A r \in Rooms : r # q => subscribersMap'[r] = subscribersMap[r]
    BY <2>1 DEF TypeOK
  <2>5. ClientsMatch'
    BY <1>3, <1>4, <2>1, <2>3 DEF ClientsMatch, AtStep
  <2>6. ASSUME NEW r \in Rooms, Truthy(subscribersMap'[r])
        PROVE  Sleeping(r)' \/ Serving(r)' \in LiveIn(r)'
    <3>1. Serving(r)' = IF r = q THEN k ELSE Registered(r)
      BY <2>1, <2>3 DEF Serving, AtStep
    <3>2. CASE r = q
      BY <1>8, <3>1, <3>2
    <3>3. CASE r # q
      BY <1>5, <1>6, <1>7, <2>4, <2>6, <3>1, <3>3
    <3> QED BY <3>2, <3>3
  <2> QED BY <2>5, <2>6 DEF Served
<1>12. CASE branch.awaits
  <2>1. Await(held, "connecting", subscribersMap[q], WithEntry(q))
    BY <1>1, <1>12 DEF Connect
  <2> HIDE DEF held
  <2> QED BY <1>1, <1>10, <2>1
<1>13. CASE ~branch.awaits
  <2>1. \E n : Await(held, "pacing", n, WithEntry(q)) \/ Save(held, n)
    BY <1>1, <1>13 DEF Connect, CountSubscriber
  <2> HIDE DEF held
  <2> QED BY <1>10, <1>11, <2>1
<1> QED BY <1>12, <1>13

\* The open whose connection is up counts, and its client serves the room
\* until and after it is saved; one that failed has counted nobody.
LEMMA ServeOpening ==
    ASSUME TypeOK, NoGuards, ClientsMatch, Served, Connected \/ FailOpen \/ FinishOpen
    PROVE  ClientsMatch' /\ Served'
<1>1. opening # NoOpen /\ opening \in Opening /\ opening.by # "guard"
  BY DEF TypeOK, NoGuards, Connected, FailOpen, FinishOpen, AtStep
<1>2. PICK q \in Rooms, k \in Clients, p \in Clients \cup {NoClient} :
         q = opening.room /\ k = opening.client /\ p = opening.prev
  BY <1>1 DEF Opening
<1>3. client[k].room = q /\ (p \in Clients => client[p].room = q)
  BY <1>1, <1>2 DEF ClientsMatch
<1>4. \A m \in Clients \cup {NoClient} : SavedEntry(m) # NoUser /\ SavedEntry(m).client = m
  <2>1. \A m \in Clients \cup {NoClient} : SavedEntry(m) \in Entry
    BY DEF SavedEntry, Entry
  <2> QED BY <2>1 DEF SavedEntry
<1>5. \A r \in Rooms : r # q /\ Truthy(subscribersMap[r]) => Sleeping(r) \/ Registered(r) \in LiveIn(r)
  BY <1>2 DEF Served, Serving
<1>6. ASSUME NEW m \in {k, p}, NEW n,
             /\ opening' = NoOpen
             /\ users' = [users EXCEPT ![q] = SavedEntry(m)]
             /\ subscribersMap' = [subscribersMap EXCEPT ![q] = n]
             /\ sleeping' = sleeping
             /\ client' = client \/ client' = CloseAll({k}),
             Truthy(n) => client' = client /\ (Sleeping(q) \/ m \in LiveIn(q))
      PROVE  ClientsMatch' /\ Served'
  <2>1. \A r \in Rooms : Registered(r)' = IF r = q THEN m ELSE Registered(r)
    BY <1>2, <1>4, <1>6 DEF TypeOK, Registered
  <2>2. /\ subscribersMap'[q] = n
        /\ \A r \in Rooms : r # q => subscribersMap'[r] = subscribersMap[r]
    BY <1>6 DEF TypeOK
  <2>3. \A j \in Clients : client'[j].room = client[j].room
    BY <1>6, ClosedOnly
  <2>4. ClientsMatch'
    BY <1>2, <1>3, <1>6, <2>1, <2>3 DEF ClientsMatch, AtStep
  <2>5. \A r \in Rooms : Sleeping(r)' <=> Sleeping(r)
    BY <1>6, <2>3 DEF Sleeping, TypeOK
  <2>6. ASSUME NEW r \in Rooms, r # q \/ client' = client PROVE LiveIn(r) \subseteq LiveIn(r)'
    <3>1. CASE client' = client
      BY <3>1 DEF LiveIn, Live
    <3>2. CASE client' = CloseAll({k}) /\ r # q
      <4>1. \A j \in LiveIn(r) : j \in Clients /\ j # k
        BY <1>3, <3>2 DEF LiveIn
      <4> QED BY <3>2, <4>1, ClosedOnly
    <3> QED BY <1>6, <2>6, <3>1, <3>2
  <2>7. ASSUME NEW r \in Rooms, Truthy(subscribersMap'[r])
        PROVE  Sleeping(r)' \/ Serving(r)' \in LiveIn(r)'
    <3>1. Serving(r)' = IF r = q THEN m ELSE Registered(r)
      BY <1>6, <2>1 DEF Serving, AtStep
    <3>2. CASE r = q
      BY <1>6, <2>2, <2>5, <2>6, <2>7, <3>1, <3>2
    <3>3. CASE r # q
      BY <1>5, <2>2, <2>5, <2>6, <2>7, <3>1, <3>3
    <3> QED BY <3>2, <3>3
  <2> QED BY <2>4, <2>7 DEF Served
<1>7. CASE Connected
  <2>1. Live(k) /\ UNCHANGED <<client, sleeping>>
    BY <1>2, <1>7 DEF Connected, clientVars
  <2>2. k \in LiveIn(q)
    BY <1>3, <2>1 DEF LiveIn
  <2>3. CASE ~branch.paced
    <3>1. \E n : Save(opening, n)
      BY <1>7, <2>3 DEF Connected, CountSubscriber
    <3>2. /\ opening' = NoOpen
          /\ users' = [users EXCEPT ![q] = SavedEntry(k)]
          /\ \E n : subscribersMap' = [subscribersMap EXCEPT ![q] = n]
      BY <1>1, <1>2, <3>1 DEF Save, Return
    <3> QED BY <1>6, <2>1, <2>2, <3>2
  <2>4. CASE branch.paced
    <3>1. Await(opening, "pacing", Count(subscribersMap[q]) + 1, users)
      BY <1>2, <1>7, <2>4 DEF Connected, CountSubscriber
    <3>2. opening' = [opening EXCEPT !.step = "pacing"] /\ users' = users
          /\ subscribersMap' = [subscribersMap EXCEPT ![q] = Count(subscribersMap[q]) + 1]
      BY <1>2, <3>1 DEF Await
    <3>3. opening' \in Opening /\ opening'.room = q /\ opening'.client = k /\ opening'.prev = p
          /\ opening'.step = "pacing" /\ opening' # NoOpen
      BY <1>1, <1>2, <3>2 DEF Opening
    <3>4. \A r \in Rooms : r # q => subscribersMap'[r] = subscribersMap[r]
      BY <3>2 DEF TypeOK
    <3>5. ClientsMatch'
      BY <1>3, <2>1, <3>2, <3>3 DEF ClientsMatch, AtStep, Registered
    <3>6. \A r \in Rooms : LiveIn(r)' = LiveIn(r) /\ Sleeping(r)' = Sleeping(r) /\ Registered(r)' = Registered(r)
      BY <2>1, <3>2 DEF LiveIn, Live, Sleeping, Registered
    <3>7. ASSUME NEW r \in Rooms, Truthy(subscribersMap'[r])
          PROVE  Sleeping(r)' \/ Serving(r)' \in LiveIn(r)'
      <4>1. Serving(r)' = IF r = q THEN k ELSE Registered(r)
        BY <3>3, <3>6 DEF Serving, AtStep
      <4>2. CASE r = q
        BY <2>2, <3>6, <4>1, <4>2
      <4>3. CASE r # q
        BY <1>5, <3>4, <3>6, <3>7, <4>1, <4>3
      <4> QED BY <4>2, <4>3
    <3> QED BY <3>5, <3>7 DEF Served
  <2> QED BY <2>3, <2>4
<1>8. CASE FailOpen
  <2>1. ~Truthy(subscribersMap[q])
    BY <1>2, <1>8 DEF FailOpen, ClientsMatch
  <2>2. /\ opening' = NoOpen
        /\ users' = [users EXCEPT ![q] = SavedEntry(p)]
        /\ subscribersMap' = [subscribersMap EXCEPT ![q] = subscribersMap[q]]
        /\ sleeping' = sleeping
        /\ client' = client \/ client' = CloseAll({k})
    BY <1>1, <1>2, <1>8 DEF FailOpen, Return
  <2> QED BY <1>6, <2>1, <2>2
<1>9. CASE FinishOpen
  <2>1. Truthy(subscribersMap[q]) => Sleeping(q) \/ k \in LiveIn(q)
    BY <1>2, <1>9 DEF FinishOpen, Served, Serving
  <2>2. /\ opening' = NoOpen
        /\ users' = [users EXCEPT ![q] = SavedEntry(k)]
        /\ subscribersMap' = [subscribersMap EXCEPT ![q] = subscribersMap[q]]
        /\ sleeping' = sleeping
        /\ client' = client
    BY <1>1, <1>2, <1>9 DEF FinishOpen, Save, Return, clientVars
  <2> QED BY <1>6, <2>1, <2>2
<1> QED BY <1>7, <1>8, <1>9

\* Where nothing drops the client of a counted room and no operator acts on
\* it, every step leaves the counted rooms served.
LEMMA ServeNext ==
    ASSUME "guard" \notin Features, "admin" \notin Features, branch.rejected # "drop",
           TypeInv, ServeInv, [Next]_vars
    PROVE  ServeInv'
<1>1. TypeOK /\ NoGuards /\ ClientsMatch /\ Served /\ NoGuards'
  <2>1. \A r \in Rooms : ~ForceResubscribe(r)
    BY DEF ForceResubscribe
  <2> QED BY <2>1, GuardsNext DEF TypeInv, ServeInv
<1> SUFFICES ClientsMatch' /\ Served'
  BY <1>1 DEF ServeInv
<1>2. ASSUME UNCHANGED <<users, subscribersMap, client, sleeping, opening>>
      PROVE  ClientsMatch' /\ Served'
  BY <1>1, <1>2, ServeKept DEF Registered, LiveIn, Live, Sleeping
<1>3. CASE UNCHANGED vars
  BY <1>2, <1>3 DEF vars, roomVars, clientVars, queueVars
<1>4. ASSUME NEW r \in Rooms,
             \/ \E c \in Creds : OpenStream(r, c)
             \/ RetryDeferred(r) \/ CooldownLapses(r) \/ SelfHeal(r)
      PROVE  ClientsMatch' /\ Served'
  BY <1>2, <1>4 DEF OpenStream, RetryDeferred, CooldownLapses, SelfHeal,
     roomVars, clientVars, queueVars
<1>5. ASSUME NEW r \in Rooms, CloseStream(r)
      PROVE  ClientsMatch' /\ Served'
  <2>1. Leave(r, 1) /\ UNCHANGED <<opening, sleeping>>
    BY <1>5 DEF CloseStream, queueVars
  <2> QED BY <1>1, <2>1, ServeLeave
<1>6. ASSUME NEW r \in Rooms, ForceRestart(r)
      PROVE  ClientsMatch' /\ Served'
  <2>1. PICK n \in Nat : n = subscribersMap[r] /\ n <= Count(subscribersMap[r])
    BY <1>1, <1>6 DEF ForceRestart, Truthy, TypeOK, Counts, Count
  <2>2. Leave(r, n) /\ UNCHANGED <<opening, sleeping>>
    BY <1>6, <2>1 DEF ForceRestart, queueVars
  <2> QED BY <1>1, <2>1, <2>2, ServeLeave
<1>7. ASSUME NEW k \in Clients, TripBreaker(k) \/ TripTransport(k) \/ AuthWatchdog(k)
      PROVE  ClientsMatch' /\ Served'
  <2>1. PICK r \in Rooms : client[k].room = r
    BY <1>1, <1>7, LiveClient DEF TripBreaker, TripTransport, AuthWatchdog
  <2>2. /\ client' = CloseAll({k}) /\ users' = [users EXCEPT ![r] = NoUser]
        /\ Uncount(r) /\ UNCHANGED <<sleeping, opening>>
    BY <1>7, <2>1 DEF TripBreaker, TripTransport, AuthWatchdog, TearDown, queueVars
  <2>3. ~Truthy(subscribersMap'[r]) /\ sleeping' \subseteq Clients
    BY <1>1, <2>2 DEF Uncount, Truthy, TypeOK
  <2> QED BY <1>1, <2>1, <2>2, <2>3, ServeClient
<1>8. ASSUME NEW k \in Clients, AccountEvent(k) \/ ClientError(k)
      PROVE  ClientsMatch' /\ Served'
  BY <1>2, <1>8 DEF AccountEvent, ClientError, roomVars, clientVars, queueVars
<1>9. ASSUME NEW k \in Clients, ForgetRejected(k) \/ ErrorLimitReached(k)
      PROVE  ClientsMatch' /\ Served'
  <2>1. PICK r \in Rooms : client[k].room = r
    BY <1>1, <1>9, LiveClient DEF ForgetRejected, ErrorLimitReached
  <2>2. /\ \/ client' = CloseAll({k}) \/ client' = CloseAll({Registered(r)})
           \/ client' = CloseAll({k, Registered(r)})
        /\ users' = [users EXCEPT ![r] = NoUser]
        /\ UNCHANGED <<subscribersMap, opening>> /\ sleeping' = sleeping \cup {k}
    BY <1>9, <2>1 DEF ForgetRejected, ErrorLimitReached, BeginRebuild, queueVars
  <2>3. sleeping' \subseteq Clients /\ k \in sleeping'
        /\ \A m \in Clients : m # k => (m \in sleeping' <=> m \in sleeping)
    BY <1>1, <2>2 DEF TypeOK
  <2> QED BY <1>1, <2>1, <2>2, <2>3, ServeClient
<1>10. ASSUME NEW k \in Clients, EndRebuild(k)
       PROVE  ClientsMatch' /\ Served'
  <2>1. PICK r \in Rooms : client[k].room = r
    BY <1>1, <1>10 DEF EndRebuild, TypeOK
  <2>2. UNCHANGED <<client, users, opening>> /\ Uncount(r) /\ sleeping' = sleeping \ {k}
    BY <1>10, <2>1 DEF EndRebuild
  <2>3. /\ ~Truthy(subscribersMap'[r]) /\ sleeping' \subseteq Clients
        /\ \A m \in Clients : m # k => (m \in sleeping' <=> m \in sleeping)
    BY <1>1, <2>2 DEF Uncount, Truthy, TypeOK
  <2> QED BY <1>1, <2>1, <2>2, <2>3, ServeClient
<1>11. CASE SkipOpen \/ DeferOpen \/ JoinRoom \/ RejectLegacy \/ ThrowInBranch
  BY <1>1, <1>11, ServeReturns
<1>12. ASSUME NEW k \in Clients, Connect(k)
       PROVE  ClientsMatch' /\ Served'
  BY <1>1, <1>12, ServeConnect
<1>13. CASE Connected \/ FailOpen \/ FinishOpen
  BY <1>1, <1>13, ServeOpening
<1>14. CASE RestartSettled \/ RestartReopens \/ EnableExchange
  BY <1>2, <1>14 DEF RestartSettled, RestartReopens, EnableExchange, roomVars, clientVars, queueVars
<1>15. ~DisableExchange /\ \A r \in Rooms : ~ForceResubscribe(r)
  BY DEF DisableExchange, ForceResubscribe
<1>16. \A k \in Clients : ~DropRejected(k)
  BY DEF DropRejected
<1> QED
  BY <1>3, <1>4, <1>5, <1>6, <1>7, <1>8, <1>9, <1>10, <1>11, <1>12, <1>13, <1>14,
     <1>15, <1>16 DEF Next, Step, ConnectRefused, ConnectTimeout

\* A room that counts subscribers serves them, or is about to: for every
\* branch that does not drop a client and keep its count, with every request,
\* error, breaker, retry and forced restart, as long as neither the liveness
\* guard nor the admin switch acts.
THEOREM CountedIsServed ==
    Spec => ("guard" \notin Features /\ "admin" \notin Features
               /\ branch.rejected # "drop" => []CountedRoomIsServed)
<1> DEFINE Calm == "guard" \notin Features /\ "admin" \notin Features
           Inv  == TypeInv /\ Calm /\ branch.rejected # "drop" /\ ServeInv
<1>1. Init => ServeInv
  BY DEF Init, ServeInv, NoGuards, ClientsMatch, Served, Registered, AtStep, Truthy
<1>2. Init /\ Calm /\ branch.rejected # "drop" => Inv
  BY <1>1, InitType
<1>3. Inv /\ [Next]_vars => Inv'
  <2>1. [Next]_vars => UNCHANGED branch
    BY DEF Next, vars
  <2> QED BY <2>1, NextType, ServeNext
<1>4. Inv => CountedRoomIsServed
  BY DEF ServeInv, Served, Serving, CountedRoomIsServed
<1> QED BY <1>2, <1>3, <1>4, PTL DEF Spec

-----------------------------------------------------------------------------
(* Opens of a room in a queue.                                               *)

Places(s, r) == {i \in 1..Len(s) : s[i].room = r}
Queued(s, r) == Cardinality(Places(s, r))

\* A queue holds finitely many opens of a room.
LEMMA QueuedType ==
    ASSUME NEW s \in Seq(Open), NEW r
    PROVE  IsFiniteSet(Places(s, r)) /\ Queued(s, r) \in Nat
<1>1. IsFiniteSet(1..Len(s)) /\ Places(s, r) \in SUBSET (1..Len(s))
  BY FS_Interval DEF Places
<1>2. IsFiniteSet(Places(s, r))
  BY <1>1, FS_Subset
<1> QED BY <1>2, FS_CardinalityType DEF Queued

\* Queues that are joined hold the opens of both.
LEMMA QueuedConcat ==
    ASSUME NEW s \in Seq(Open), NEW t \in Seq(Open), NEW r
    PROVE  Queued(s \o t, r) = Queued(s, r) + Queued(t, r)
<1> DEFINE A == Places(s, r)
           T == Places(t, r)
           B == {i \in Len(s) + 1..Len(s) + Len(t) : t[i - Len(s)].room = r}
           f == [j \in T |-> Len(s) + j]
<1>1. /\ Len(s) \in Nat /\ Len(t) \in Nat /\ Len(s \o t) = Len(s) + Len(t)
      /\ \A i \in 1..Len(s) + Len(t) :
            (s \o t)[i] = IF i <= Len(s) THEN s[i] ELSE t[i - Len(s)]
  OBVIOUS
<1>2. Places(s \o t, r) = A \cup B /\ A \cap B = {}
  BY <1>1 DEF Places
<1>3. f \in Bijection(T, B)
  <2>1. \A j \in T : j \in 1..Len(t) /\ t[j].room = r
    BY DEF Places
  <2>2. \A j \in T : f[j] = Len(s) + j /\ f[j] \in B
    <3>1. \A j \in T : (Len(s) + j) - Len(s) = j /\ Len(s) + j \in Len(s) + 1..Len(s) + Len(t)
      BY <1>1, <2>1
    <3> QED BY <2>1, <3>1
  <2>3. \A i, j \in T : f[i] = f[j] => i = j
    BY <1>1, <2>1, <2>2
  <2>4. ASSUME NEW i \in B PROVE \E j \in T : f[j] = i
    <3>1. i - Len(s) \in T /\ Len(s) + (i - Len(s)) = i
      BY <1>1, <2>4 DEF Places
    <3> QED BY <2>2, <3>1
  <2>5. f \in [T -> B]
    BY <2>2
  <2> HIDE DEF f, T, B
  <2> QED BY <2>3, <2>4, <2>5 DEF Bijection, Injection, Surjection, IsInjective
<1>4. ExistsBijection(T, B)
  BY <1>3 DEF ExistsBijection
<1>5. IsFiniteSet(A) /\ IsFiniteSet(T)
  BY QueuedType
<1> HIDE DEF A, T, B, f
<1>6. IsFiniteSet(B) /\ Cardinality(B) = Cardinality(T)
  BY <1>4, <1>5, FS_Bijection
<1>7. Cardinality(A \cup B) = Cardinality(A) + Cardinality(B) - Cardinality(A \cap B)
  BY <1>5, <1>6, FS_Union
<1>8. Cardinality(A \cap B) = 0
  BY <1>2, FS_EmptySet
<1>9. Cardinality(A) \in Nat /\ Cardinality(T) \in Nat
  BY <1>5, FS_CardinalityType
<1> QED BY <1>2, <1>6, <1>7, <1>8, <1>9 DEF Queued, A, T

\* One open is one of its room.
LEMMA QueuedOne ==
    ASSUME NEW o \in Open, NEW r
    PROVE  <<o>> \in Seq(Open) /\ Queued(<<o>>, r) = IF o.room = r THEN 1 ELSE 0
<1>1. Places(<<o>>, r) = IF o.room = r THEN {1} ELSE {}
  BY DEF Places
<1>2. Cardinality({1}) = 1 /\ Cardinality({}) = 0
  BY FS_EmptySet, FS_Singleton
<1>3. Queued(<<o>>, r) = IF o.room = r THEN 1 ELSE 0
  BY <1>1, <1>2 DEF Queued
<1> QED BY <1>3

\* The head of a queue counts for its own room.
LEMMA QueuedTail ==
    ASSUME NEW s \in Seq(Open), s # <<>>, NEW r
    PROVE  Queued(s, r) = Queued(Tail(s), r) + IF Head(s).room = r THEN 1 ELSE 0
<1>1. Head(s) \in Open /\ Tail(s) \in Seq(Open) /\ s = <<Head(s)>> \o Tail(s)
  OBVIOUS
<1>2. Queued(s, r) = Queued(<<Head(s)>>, r) + Queued(Tail(s), r)
  <2>1. <<Head(s)>> \in Seq(Open)
    BY <1>1
  <2>2. Queued(<<Head(s)>> \o Tail(s), r) = Queued(<<Head(s)>>, r) + Queued(Tail(s), r)
    BY <1>1, <2>1, QueuedConcat, ZenonT(60)
  <2> QED BY <1>1, <2>2, Zenon
<1>3. Queued(<<Head(s)>>, r) = IF Head(s).room = r THEN 1 ELSE 0
  BY <1>1, QueuedOne
<1>4. Queued(Tail(s), r) \in Nat
  BY <1>1, QueuedType
<1> QED BY <1>2, <1>3, <1>4

\* n copies are n opens of their room.
LEMMA QueuedCopies ==
    ASSUME NEW q \in Rooms, NEW c \in Creds, NEW n \in Nat, NEW r
    PROVE  Queued(Copies(q, c, n), r) = IF q = r THEN n ELSE 0
<1>1. Len(Copies(q, c, n)) = n /\ \A i \in 1..n : Copies(q, c, n)[i].room = q
  BY DEF Copies
<1>2. Places(Copies(q, c, n), r) = IF q = r THEN 1..n ELSE {}
  BY <1>1 DEF Places
<1> QED BY <1>2, FS_EmptySet, FS_Interval DEF Queued

\* A room whose opens have all returned has none in the queue.
LEMMA QueuedNone ==
    ASSUME NEW s \in Seq(Open), NEW r, \A i \in 1..Len(s) : s[i].room # r
    PROVE  Queued(s, r) = 0
<1>1. Places(s, r) = {}
  BY DEF Places
<1> QED BY <1>1, FS_EmptySet DEF Queued

-----------------------------------------------------------------------------
(* No subscriber is multiplied.                                              *)

\* The terms of Demand.
Counting(r) == IF AtStep("connecting") /\ opening.room = r THEN 1 ELSE 0
Kept(r)     == IF retryTimer[r] = NoTimer THEN 0 ELSE retryTimer[r].subs
Asked(r)    == Count(subscribersMap[r]) + Queued(opens, r) + Len(deferred[r])
                 + Counting(r) + Kept(r)

\* A retry is kept for somebody, and nobody is counted or on the way to be
\* counted whom no caller wants.  Without forced restarts Asked is Demand.
ExtraInv ==
    /\ NoGuards
    /\ restart = NoRestart
    /\ \A r \in Rooms : retryTimer[r] # NoTimer => retryTimer[r].subs > 0
    /\ \A r \in Rooms : Asked(r) <= wanted[r]

\* Each term is a number.
LEMMA TermsType ==
    ASSUME TypeOK, NEW r \in Rooms
    PROVE  /\ Count(subscribersMap[r]) \in Nat /\ Queued(opens, r) \in Nat
           /\ Len(deferred[r]) \in Nat /\ Counting(r) \in Nat /\ Kept(r) \in Nat
           /\ Asked(r) \in Nat /\ wanted[r] \in Nat
<1>1. Count(subscribersMap[r]) \in Nat
  BY DEF TypeOK, Counts, Count
<1>2. Queued(opens, r) \in Nat
  BY QueuedType DEF TypeOK
<1>3. Len(deferred[r]) \in Nat
  BY DEF TypeOK
<1>4. Kept(r) \in Nat
  <2>1. retryTimer[r] = NoTimer \/ retryTimer[r] \in Retry
    BY DEF TypeOK
  <2> QED BY <2>1 DEF Kept, Retry
<1>5. Counting(r) \in Nat /\ wanted[r] \in Nat
  BY DEF Counting, TypeOK
<1> QED BY <1>1, <1>2, <1>3, <1>4, <1>5 DEF Asked

\* Demand is what is asked for, when no restart is in progress.
LEMMA DemandIsAsked ==
    ASSUME TypeOK, restart = NoRestart, NEW r \in Rooms
    PROVE  Demand(r) = Asked(r)
<1>1. Cardinality({i \in 1..Len(opens) : opens[i].room = r}) = Queued(opens, r)
  BY DEF Queued, Places
<1> QED BY <1>1, TermsType DEF Demand, Asked, Counting, Kept

\* The same of the terms after a step.
LEMMA TermsNext ==
    ASSUME TypeOK', NEW r \in Rooms
    PROVE  /\ Count(subscribersMap'[r]) \in Nat /\ Queued(opens', r) \in Nat
           /\ Len(deferred'[r]) \in Nat /\ Counting(r)' \in Nat /\ Kept(r)' \in Nat
           /\ Asked(r)' \in Nat
<1>1. Count(subscribersMap'[r]) \in Nat
  BY DEF TypeOK, Counts, Count
<1>2. Queued(opens', r) \in Nat
  BY QueuedType DEF TypeOK
<1>3. Len(deferred'[r]) \in Nat
  BY DEF TypeOK
<1>4. Kept(r)' \in Nat
  <2>1. retryTimer'[r] = NoTimer \/ retryTimer'[r] \in Retry
    BY DEF TypeOK
  <2> QED BY <2>1 DEF Kept, Retry
<1>5. Counting(r)' \in Nat
  BY DEF Counting
<1> QED BY <1>1, <1>2, <1>3, <1>4, <1>5 DEF Asked

\* A queue that n opens of q have joined.
LEMMA QueuedJoined ==
    ASSUME TypeOK, NEW q \in Rooms, NEW n \in Nat, NEW s \in Seq(Open),
           \A r \in Rooms : Queued(s, r) = IF q = r THEN n ELSE 0, opens' = opens \o s
    PROVE  /\ Queued(opens', q) = Queued(opens, q) + n
           /\ \A r \in Rooms : r # q => Queued(opens', r) = Queued(opens, r)
<1>1. opens \in Seq(Open)
  BY DEF TypeOK
<1>2. \A r \in Rooms : Queued(opens', r) = Queued(opens, r) + Queued(s, r)
  <2>1. \A r \in Rooms : Queued(opens \o s, r) = Queued(opens, r) + Queued(s, r)
    BY <1>1, QueuedConcat
  <2> QED BY <2>1
<1>3. Queued(s, q) = n /\ \A r \in Rooms : r # q => Queued(s, r) = 0
  OBVIOUS
<1>4. \A r \in Rooms : Queued(opens, r) \in Nat
  BY <1>1, QueuedType
<1> HIDE DEF Queued
<1> QED BY <1>2, <1>3, <1>4

\* A queue whose head was taken.
LEMMA QueuedTaken ==
    ASSUME TypeOK, opens # <<>>, opens' = Tail(opens), NEW q \in Rooms, Next0.room = q
    PROVE  /\ Queued(opens', q) = Queued(opens, q) - 1
           /\ \A r \in Rooms : r # q => Queued(opens', r) = Queued(opens, r)
<1>1. opens \in Seq(Open) /\ Tail(opens) \in Seq(Open)
  BY DEF TypeOK
<1>2. Queued(opens, q) = Queued(Tail(opens), q) + 1
  BY <1>1, QueuedTail DEF Next0
<1>3. \A r \in Rooms : r # q => Queued(opens, r) = Queued(Tail(opens), r) + 0
  BY <1>1, QueuedTail DEF Next0
<1>4. \A r \in Rooms : Queued(Tail(opens), r) \in Nat
  BY <1>1, QueuedType
<1> QED BY <1>2, <1>3, <1>4

\* The rest of a step that leaves what a room asks for alone.
LEMMA AskedSame ==
    ASSUME UNCHANGED <<subscribersMap, opens, deferred, opening, retryTimer>>
    PROVE  \A r \in Rooms : Asked(r)' = Asked(r)
  BY DEF Asked, Counting, Kept, AtStep

\* Scheduling a retry replaces the one before it, or leaves it alone.
LEMMA Scheduled ==
    ASSUME TypeOK, NEW q \in Rooms, NEW c \in Creds, NEW n \in Counts, NEW g \in BOOLEAN,
           Schedule(q, c, n, g),
           \A r \in Rooms : retryTimer[r] # NoTimer => retryTimer[r].subs > 0
    PROVE  \A r \in Rooms :
              /\ Kept(r)' = IF r = q /\ Truthy(n) THEN n ELSE Kept(r)
              /\ retryTimer'[r] # NoTimer => retryTimer'[r].subs > 0
<1> DEFINE new == [subs |-> n, cred |-> c, gated |-> g]
           old == [retryTimer[q] EXCEPT !.gated = FALSE]
<1>1. CASE Truthy(n)
  <2>1. new \in Retry /\ new.subs = n /\ n > 0
    BY <1>1 DEF Truthy, Counts, Retry
  <2>2. retryTimer' = [retryTimer EXCEPT ![q] = new]
    BY <1>1 DEF Schedule
  <2> HIDE DEF new
  <2> QED BY <1>1, <2>1, <2>2 DEF TypeOK, Kept
<1>2. CASE ~Truthy(n) /\ retryTimer[q] = NoTimer
  <2>1. retryTimer' = retryTimer
    BY <1>2 DEF Schedule, TypeOK
  <2> QED BY <1>2, <2>1 DEF Kept
<1>3. CASE ~Truthy(n) /\ retryTimer[q] # NoTimer
  <2>1. retryTimer[q] \in Retry
    BY <1>3 DEF TypeOK
  <2>2. old \in Retry /\ old.subs = retryTimer[q].subs
    BY <2>1 DEF Retry
  <2>3. retryTimer' = [retryTimer EXCEPT ![q] = old]
    BY <1>3 DEF Schedule
  <2> HIDE DEF old
  <2> QED BY <1>3, <2>2, <2>3 DEF TypeOK, Kept
<1> QED BY <1>1, <1>2, <1>3

\* A cancelled retry asks for nobody.
LEMMA Cancelled ==
    ASSUME TypeOK, NEW q \in Rooms, CancelRetry(q)
    PROVE  \A r \in Rooms : /\ Kept(r)' = IF r = q THEN 0 ELSE Kept(r)
                            /\ retryTimer'[r] = NoTimer \/ retryTimer'[r] = retryTimer[r]
  BY DEF TypeOK, CancelRetry, Kept

\* What a step that only lets rooms ask for less keeps.
LEMMA ExtraKept ==
    ASSUME TypeOK, TypeOK', ExtraInv, NoGuards', restart' = NoRestart, wanted' = wanted,
           \A r \in Rooms : /\ Asked(r)' <= Asked(r)
                            /\ retryTimer'[r] # NoTimer => retryTimer'[r].subs > 0
    PROVE  ExtraInv'
<1>1. ASSUME NEW r \in Rooms PROVE Asked(r)' <= wanted'[r]
  BY TermsType, TermsNext DEF ExtraInv
<1> QED BY <1>1 DEF ExtraInv

\* Requests: an open asks for one more subscriber and wants it.
LEMMA ExtraOpenStream ==
    ASSUME TypeOK, TypeOK', ExtraInv, NoGuards', NEW q \in Rooms, NEW c \in Creds, OpenStream(q, c)
    PROVE  ExtraInv'
<1> DEFINE o == [room |-> q, cred |-> c, by |-> "caller"]
           s == <<o>>
<1>1. o \in Open /\ o.room = q /\ opens' = opens \o s
  BY DEF Open, Senders, TypeOK, OpenStream
<1>2. /\ Queued(opens', q) = Queued(opens, q) + 1
      /\ \A r \in Rooms : r # q => Queued(opens', r) = Queued(opens, r)
  <2> HIDE DEF o
  <2>1. s \in Seq(Open) /\ \A r \in Rooms : Queued(s, r) = IF q = r THEN 1 ELSE 0
    BY <1>1, QueuedOne
  <2> HIDE DEF s
  <2> QED BY <1>1, <2>1, QueuedJoined
<1>3. UNCHANGED <<subscribersMap, deferred, opening, retryTimer, restart>>
  BY DEF OpenStream, roomVars, forcedVars
<1>4. wanted'[q] = wanted[q] + 1 /\ \A r \in Rooms : r # q => wanted'[r] = wanted[r]
  BY DEF OpenStream, TypeOK
<1>5. ASSUME NEW r \in Rooms PROVE Asked(r)' <= wanted'[r]
  <2>1. Asked(r)' = Count(subscribersMap[r]) + Queued(opens', r) + Len(deferred[r]) + Counting(r) + Kept(r)
    BY <1>3 DEF Asked, Counting, Kept, AtStep
  <2>2. Asked(r) <= wanted[r]
    BY DEF ExtraInv
  <2>3. CASE q = r
    <3>1. Asked(q)' = Count(subscribersMap[q]) + (Queued(opens, q) + 1) + Len(deferred[q]) + Counting(q) + Kept(q)
      BY <1>2, <2>1, <2>3
    <3>2. Asked(q) = Count(subscribersMap[q]) + Queued(opens, q) + Len(deferred[q]) + Counting(q) + Kept(q)
      BY DEF Asked
    <3>3. Asked(q) <= wanted[q]
      BY DEF ExtraInv
    <3>4. Asked(q)' <= wanted'[q]
      <4>1. PICK a, b, d, e, f \in Nat :
               /\ a = Count(subscribersMap[q]) /\ b = Queued(opens, q) /\ d = Len(deferred[q])
               /\ e = Counting(q) /\ f = Kept(q)
        BY TermsType, Zenon
      <4>2. PICK w \in Nat : w = wanted[q] /\ wanted'[q] = w + 1
        BY <1>4 DEF TypeOK
      <4>3. Asked(q)' = a + (b + 1) + d + e + f
        BY <3>1, <4>1, Zenon
      <4>4. a + b + d + e + f <= w
        BY <3>2, <3>3, <4>1, <4>2, Zenon
      <4> QED BY <4>2, <4>3, <4>4
    <3> QED BY <2>3, <3>4
  <2>4. CASE q # r
    BY <1>2, <1>4, <2>1, <2>2, <2>4, TermsType DEF Asked
  <2> QED BY <2>3, <2>4
<1> QED BY <1>3, <1>5 DEF ExtraInv

\* A close of a room no open of which is unanswered takes one subscriber.
LEMMA ExtraCloseStream ==
    ASSUME TypeOK, TypeOK', ExtraInv, NoGuards', NEW q \in Rooms, CloseStream(q), Patient
    PROVE  ExtraInv'
<1>1. UNCHANGED <<opens, deferred, opening, restart>> /\ Leave(q, 1) /\ wanted[q] > 0
  BY DEF CloseStream, queueVars, forcedVars
<1>2. wanted'[q] = wanted[q] - 1 /\ \A r \in Rooms : r # q => wanted'[r] = wanted[r]
  BY DEF CloseStream, TypeOK
<1>3. Settled(q)
  BY <1>2 DEF Patient, TypeOK
<1>4. Queued(opens, q) = 0 /\ Len(deferred[q]) = 0 /\ Counting(q) = 0
  BY <1>3, QueuedNone DEF Settled, Counting, AtStep, TypeOK
<1>5. \A r \in Rooms : Counting(r)' = Counting(r)
  BY <1>1 DEF Counting, AtStep
<1>6. ASSUME NEW n, CancelRetry(q), Count(n) = 0,
             subscribersMap' = [subscribersMap EXCEPT ![q] = n]
      PROVE  ExtraInv'
  <2>1. \A r \in Rooms : subscribersMap'[r] = IF r = q THEN n ELSE subscribersMap[r]
    BY <1>6 DEF TypeOK
  <2>2. \A r \in Rooms : Kept(r)' = IF r = q THEN 0 ELSE Kept(r)
    BY <1>6, Cancelled
  <2>3. Asked(q)' = 0
    BY <1>1, <1>4, <1>5, <1>6, <2>1, <2>2 DEF Asked
  <2>4. \A r \in Rooms : r # q => Asked(r)' = Asked(r)
    BY <1>1, <1>5, <2>1, <2>2 DEF Asked
  <2>5. ASSUME NEW r \in Rooms PROVE Asked(r)' <= wanted'[r]
    <3>1. CASE r = q
      <4>1. wanted[q] \in Nat
        BY DEF TypeOK
      <4> QED BY <1>1, <1>2, <2>3, <3>1, <4>1
    <3>2. CASE r # q
      BY <1>2, <2>4, <3>2 DEF ExtraInv
    <3> QED BY <3>1, <3>2
  <2>6. \A r \in Rooms : retryTimer'[r] # NoTimer => retryTimer'[r].subs > 0
    BY <1>6, Cancelled DEF ExtraInv
  <2> QED BY <1>1, <2>5, <2>6 DEF ExtraInv
<1>7. CASE ~Truthy(subscribersMap[q])
  <2>1. CancelRetry(q) /\ UNCHANGED subscribersMap
    BY <1>1, <1>7 DEF Leave, Forget
  <2>2. Count(subscribersMap[q]) = 0
    BY <1>7 DEF Truthy, Count
  <2>3. subscribersMap' = [subscribersMap EXCEPT ![q] = subscribersMap[q]]
    BY <2>1 DEF TypeOK
  <2> QED BY <1>6, <2>1, <2>2, <2>3
<1>8. CASE Truthy(subscribersMap[q])
  <2> DEFINE left == Count(subscribersMap[q]) - 1
  <2>1. /\ subscribersMap' = [subscribersMap EXCEPT ![q] = left]
        /\ left > 0 => UNCHANGED retryTimer
        /\ ~(left > 0) => CancelRetry(q)
    BY <1>1, <1>8 DEF Leave, Forget
  <2>2. left \in Nat /\ Count(left) = left
    BY <1>8 DEF TypeOK, Counts, Count, Truthy
  <2>3. CASE ~(left > 0)
    <3>1. Count(left) = 0
      BY <2>2, <2>3
    <3> HIDE DEF left
    <3> QED BY <1>6, <2>1, <2>3, <3>1
  <2>4. CASE left > 0
    <3>1. \A r \in Rooms : Kept(r)' = Kept(r)
      BY <2>1, <2>4 DEF Kept
    <3>2. Count(subscribersMap'[q]) = Count(subscribersMap[q]) - 1
      BY <2>1, <2>2 DEF TypeOK
    <3>3. \A r \in Rooms : r # q => subscribersMap'[r] = subscribersMap[r]
      BY <2>1 DEF TypeOK
    <3>4. Asked(q)' = Asked(q) - 1
      BY <1>1, <1>5, <3>1, <3>2, TermsType, SMTT(60) DEF Asked
    <3>5. \A r \in Rooms : r # q => Asked(r)' = Asked(r)
      BY <1>1, <1>5, <3>1, <3>3 DEF Asked
    <3>6. \A r \in Rooms : Asked(r)' <= wanted'[r]
      BY <1>2, <3>4, <3>5, TermsType, SMTT(60) DEF ExtraInv
    <3> QED BY <1>1, <2>1, <2>4, <3>6 DEF ExtraInv
  <2> QED BY <2>3, <2>4
<1> QED BY <1>7, <1>8

\* A timer that sends deferred opens or retries asks for as many as it kept.
LEMMA ExtraTimers ==
    ASSUME TypeOK, TypeOK', ExtraInv, NoGuards', NEW q \in Rooms, RetryDeferred(q) \/ SelfHeal(q)
    PROVE  ExtraInv'
<1>0. \A r \in Rooms : retryTimer[r] # NoTimer => retryTimer[r].subs > 0
  BY DEF ExtraInv
<1>1. opens \in Seq(Open) /\ restart' = NoRestart /\ wanted' = wanted
      /\ UNCHANGED <<subscribersMap, opening>>
  BY DEF TypeOK, ExtraInv, RetryDeferred, SelfHeal, roomVars, forcedVars, callerVars
<1>2. \A r \in Rooms : Counting(r)' = Counting(r)
  BY <1>1 DEF Counting, AtStep
<1>3. CASE RetryDeferred(q)
  <2> DEFINE s == Copies(q, Head(deferred[q]), 1)
  <2>1. /\ deferred[q] \in Seq(Creds) /\ deferred[q] # <<>>
        /\ deferred' = [deferred EXCEPT ![q] = Tail(deferred[q])]
        /\ Head(deferred[q]) \in Creds /\ UNCHANGED retryTimer /\ opens' = opens \o s
    BY <1>3 DEF TypeOK, RetryDeferred
  <2>2. s \in Seq(Open) /\ \A r \in Rooms : Queued(s, r) = IF q = r THEN 1 ELSE 0
    <3>1. s \in Seq(Open)
      BY <2>1, CopiesType
    <3>2. ASSUME NEW r \in Rooms PROVE Queued(s, r) = IF q = r THEN 1 ELSE 0
      BY <2>1, QueuedCopies
    <3> HIDE DEF s
    <3> QED BY <3>1, <3>2
  <2> HIDE DEF s
  <2>3. /\ Queued(opens', q) = Queued(opens, q) + 1
        /\ \A r \in Rooms : r # q => Queued(opens', r) = Queued(opens, r)
    BY <2>1, <2>2, QueuedJoined
  <2>4. /\ Len(deferred'[q]) = Len(deferred[q]) - 1
        /\ \A r \in Rooms : r # q => deferred'[r] = deferred[r]
    <3>1. Len(Tail(deferred[q])) = Len(deferred[q]) - 1
      BY <2>1
    <3> QED BY <2>1, <3>1 DEF TypeOK
  <2>5. \A r \in Rooms : Kept(r)' = Kept(r)
    BY <2>1 DEF Kept
  <2>6. ASSUME NEW r \in Rooms PROVE Asked(r)' <= Asked(r)
    <3>1. CASE q = r
      <4>1. Asked(q)' = Count(subscribersMap[q]) + (Queued(opens, q) + 1)
                          + (Len(deferred[q]) - 1) + Counting(q) + Kept(q)
        BY <1>1, <1>2, <2>3, <2>4, <2>5 DEF Asked
      <4> QED BY <3>1, <4>1, TermsType DEF Asked
    <3>2. CASE q # r
      <4>1. Asked(r)' = Asked(r)
        BY <1>1, <1>2, <2>3, <2>4, <2>5, <3>2 DEF Asked
      <4> QED BY <4>1, TermsType
    <3> QED BY <3>1, <3>2
  <2> QED BY <1>0, <1>1, <2>1, <2>6, ExtraKept
<1>4. CASE SelfHeal(q)
  <2> DEFINE s == Copies(q, retryTimer[q].cred, retryTimer[q].subs)
  <2>1. retryTimer[q] \in Retry /\ Kept(q) = retryTimer[q].subs
        /\ CancelRetry(q) /\ UNCHANGED deferred /\ (UNCHANGED opens \/ opens' = opens \o s)
    BY <1>4 DEF TypeOK, SelfHeal, Kept
  <2>2. s \in Seq(Open) /\ \A r \in Rooms : Queued(s, r) = IF q = r THEN Kept(q) ELSE 0
    <3>1. s \in Seq(Open)
      BY <2>1, CopiesType DEF Retry
    <3>2. ASSUME NEW r \in Rooms PROVE Queued(s, r) = IF q = r THEN Kept(q) ELSE 0
      BY <2>1, QueuedCopies DEF Retry
    <3> HIDE DEF s
    <3> QED BY <3>1, <3>2
  <2> HIDE DEF s
  <2>3. /\ Queued(opens', q) <= Queued(opens, q) + Kept(q)
        /\ \A r \in Rooms : r # q => Queued(opens', r) = Queued(opens, r)
    <3>1. Kept(q) \in Nat /\ Queued(opens, q) \in Nat
      BY TermsType
    <3>2. CASE UNCHANGED opens
      BY <3>1, <3>2
    <3>3. CASE opens' = opens \o s
      <4>1. /\ Queued(opens', q) = Queued(opens, q) + Kept(q)
            /\ \A r \in Rooms : r # q => Queued(opens', r) = Queued(opens, r)
        BY <2>2, <3>1, <3>3, QueuedJoined
      <4> QED BY <3>1, <4>1
    <3> QED BY <2>1, <3>2, <3>3
  <2>4. \A r \in Rooms : Kept(r)' = IF r = q THEN 0 ELSE Kept(r)
    BY <2>1, Cancelled
  <2>5. ASSUME NEW r \in Rooms PROVE Asked(r)' <= Asked(r)
    <3>1. CASE q = r
      <4>1. Asked(q)' = Count(subscribersMap[q]) + Queued(opens', q)
                          + Len(deferred[q]) + Counting(q) + 0
        BY <1>1, <1>2, <2>1, <2>4 DEF Asked
      <4>2. Asked(q) = Count(subscribersMap[q]) + Queued(opens, q)
                         + Len(deferred[q]) + Counting(q) + Kept(q)
        BY DEF Asked
      <4>3. Queued(opens', q) \in Nat
        BY TermsNext
      <4> QED BY <2>3, <3>1, <4>1, <4>2, <4>3, TermsType, SMTT(60)
    <3>2. CASE q # r
      <4>1. Asked(r)' = Asked(r)
        BY <1>1, <1>2, <2>1, <2>3, <2>4, <3>2 DEF Asked
      <4> QED BY <4>1, TermsType
    <3> QED BY <3>1, <3>2
  <2>6. \A r \in Rooms : retryTimer'[r] # NoTimer => retryTimer'[r].subs > 0
    BY <1>0, <2>1, Cancelled
  <2> QED BY <1>1, <2>5, <2>6, ExtraKept
<1> QED BY <1>3, <1>4

\* A breaker turns the count of a room into one retry for as many, and a
\* rebuild turns it into as many opens.
LEMMA ExtraClients ==
    ASSUME TypeOK, TypeOK', ExtraInv, NoGuards', NEW k \in Clients,
           TripBreaker(k) \/ TripTransport(k) \/ AuthWatchdog(k) \/ EndRebuild(k)
    PROVE  ExtraInv'
<1>0. \A r \in Rooms : retryTimer[r] # NoTimer => retryTimer[r].subs > 0
  BY DEF ExtraInv
<1>1. PICK q \in Rooms, c \in Creds : q = client[k].room /\ c = client[k].cred
  BY LiveClient DEF TypeOK, TripBreaker, TripTransport, AuthWatchdog, EndRebuild
<1>2. Uncount(q) /\ UNCHANGED <<deferred, opening, restart, wanted>>
  BY <1>1 DEF TripBreaker, TripTransport, AuthWatchdog, EndRebuild, TearDown,
     queueVars, forcedVars, callerVars
<1>3. /\ Count(subscribersMap'[q]) = 0
      /\ \A r \in Rooms : r # q => subscribersMap'[r] = subscribersMap[r]
  BY <1>2 DEF Uncount, TypeOK, Count
<1>4. \A r \in Rooms : Counting(r)' = Counting(r)
  BY <1>2 DEF Counting, AtStep
<1>5. restart' = NoRestart
  BY <1>2 DEF ExtraInv
<1>6. PICK n \in Counts : n = subscribersMap[q]
  BY DEF TypeOK
<1>7. CASE TripBreaker(k) \/ TripTransport(k) \/ AuthWatchdog(k)
  <2>1. UNCHANGED opens /\ \E g \in BOOLEAN : Schedule(q, c, n, g)
    BY <1>1, <1>6, <1>7 DEF TripBreaker, TripTransport, AuthWatchdog, TearDown, queueVars
  <2>2. \A r \in Rooms : /\ Kept(r)' = IF r = q /\ Truthy(n) THEN n ELSE Kept(r)
                         /\ retryTimer'[r] # NoTimer => retryTimer'[r].subs > 0
    BY <1>0, <2>1, Scheduled
  <2>3. ASSUME NEW r \in Rooms PROVE Asked(r)' <= Asked(r)
    <3>1. CASE r = q
      <4>1. Kept(q)' <= Count(n) + Kept(q)
        <5>1. CASE Truthy(n)
          BY <2>2, <5>1, TermsType DEF Truthy, Count, Counts
        <5>2. CASE ~Truthy(n)
          BY <2>2, <5>2, TermsType DEF Truthy, Count
        <5> QED BY <5>1, <5>2
      <4>2. Asked(q)' = 0 + Queued(opens, q) + Len(deferred[q]) + Counting(q) + Kept(q)'
        BY <1>2, <1>3, <1>4, <2>1 DEF Asked
      <4>3. Asked(q) = Count(n) + Queued(opens, q) + Len(deferred[q]) + Counting(q) + Kept(q)
        BY <1>6 DEF Asked
      <4>4. Kept(q)' \in Nat /\ Count(n) \in Nat
        BY <1>6, TermsType, TermsNext
      <4> QED BY <3>1, <4>1, <4>2, <4>3, <4>4, TermsType, SMTT(60)
    <3>2. CASE r # q
      <4>1. Asked(r)' = Asked(r)
        BY <1>2, <1>3, <1>4, <2>1, <2>2, <3>2 DEF Asked
      <4> QED BY <4>1, TermsType
    <3> QED BY <3>1, <3>2
  <2> QED BY <1>2, <1>5, <2>2, <2>3, ExtraKept
<1>8. CASE EndRebuild(k)
  <2> DEFINE s == Copies(q, c, Count(n))
  <2>1. UNCHANGED retryTimer /\ (UNCHANGED opens \/ opens' = opens \o s)
    BY <1>1, <1>6, <1>8 DEF EndRebuild
  <2>2. Count(n) \in Nat
    BY <1>6, TermsType
  <2>3. s \in Seq(Open) /\ \A r \in Rooms : Queued(s, r) = IF q = r THEN Count(n) ELSE 0
    <3>1. s \in Seq(Open)
      BY <2>2, CopiesType
    <3>2. ASSUME NEW r \in Rooms PROVE Queued(s, r) = IF q = r THEN Count(n) ELSE 0
      BY <2>2, QueuedCopies
    <3> HIDE DEF s
    <3> QED BY <3>1, <3>2
  <2> HIDE DEF s
  <2>4. /\ Queued(opens', q) <= Queued(opens, q) + Count(n)
        /\ \A r \in Rooms : r # q => Queued(opens', r) = Queued(opens, r)
    <3>1. Queued(opens, q) \in Nat
      BY TermsType
    <3>2. CASE UNCHANGED opens
      BY <2>2, <3>1, <3>2
    <3>3. CASE opens' = opens \o s
      <4>1. /\ Queued(opens', q) = Queued(opens, q) + Count(n)
            /\ \A r \in Rooms : r # q => Queued(opens', r) = Queued(opens, r)
        <5> DEFINE m == Count(n)
        <5>1. m \in Nat /\ \A r \in Rooms : Queued(s, r) = IF q = r THEN m ELSE 0
          BY <2>2, <2>3
        <5> HIDE DEF m
        <5>2. /\ Queued(opens', q) = Queued(opens, q) + m
              /\ \A r \in Rooms : r # q => Queued(opens', r) = Queued(opens, r)
          BY <2>3, <3>3, <5>1, QueuedJoined
        <5> QED BY <5>2 DEF m
      <4> QED BY <2>2, <3>1, <4>1
    <3> QED BY <2>1, <3>2, <3>3
  <2>5. \A r \in Rooms : Kept(r)' = Kept(r)
    BY <2>1 DEF Kept
  <2>6. ASSUME NEW r \in Rooms PROVE Asked(r)' <= Asked(r)
    <3>1. CASE r = q
      <4>1. Asked(q)' = 0 + Queued(opens', q) + Len(deferred[q]) + Counting(q) + Kept(q)
        BY <1>2, <1>3, <1>4, <2>5 DEF Asked
      <4>2. Asked(q) = Count(n) + Queued(opens, q) + Len(deferred[q]) + Counting(q) + Kept(q)
        BY <1>6 DEF Asked
      <4>3. Queued(opens', q) \in Nat
        BY TermsNext
      <4> QED BY <2>2, <2>4, <3>1, <4>1, <4>2, <4>3, TermsType, SMTT(60)
    <3>2. CASE r # q
      <4>1. Asked(r)' = Asked(r)
        BY <1>2, <1>3, <1>4, <2>4, <2>5, <3>2 DEF Asked
      <4> QED BY <4>1, TermsType
    <3> QED BY <3>1, <3>2
  <2> QED BY <1>0, <1>2, <1>5, <2>1, <2>6, ExtraKept
<1> QED BY <1>7, <1>8

\* An open that leaves the queue is counted, put off, waits to be counted, or
\* is dropped; a retry that is kept for its room stays.
LEMMA ExtraTaken ==
    ASSUME TypeOK, TypeOK', ExtraInv, NoGuards',
           opening = NoOpen, opens # <<>>, opens' = Tail(opens), wanted' = wanted, restart' = NoRestart,
           NEW q \in Rooms, Next0.room = q,
           \A r \in Rooms : /\ Kept(r)' = Kept(r)
                            /\ retryTimer'[r] # NoTimer => retryTimer'[r].subs > 0,
           \A r \in Rooms : r # q => /\ subscribersMap'[r] = subscribersMap[r]
                                     /\ deferred'[r] = deferred[r]
                                     /\ Counting(r)' = 0,
           Count(subscribersMap'[q]) + Len(deferred'[q]) + Counting(q)'
              <= Count(subscribersMap[q]) + Len(deferred[q]) + 1
    PROVE  ExtraInv'
<1>1. /\ Queued(opens', q) = Queued(opens, q) - 1
      /\ \A r \in Rooms : r # q => Queued(opens', r) = Queued(opens, r)
  BY QueuedTaken
<1>2. \A r \in Rooms : Counting(r) = 0
  BY DEF Counting, AtStep
<1>3. ASSUME NEW r \in Rooms PROVE Asked(r)' <= Asked(r)
  <2>1. CASE r = q
    <3>1. Asked(q)' = Count(subscribersMap'[q]) + (Queued(opens, q) - 1) + Len(deferred'[q]) + Counting(q)' + Kept(q)
      BY <1>1 DEF Asked
    <3>2. Asked(q) = Count(subscribersMap[q]) + Queued(opens, q) + Len(deferred[q]) + 0 + Kept(q)
      BY <1>2 DEF Asked
    <3>3. /\ Count(subscribersMap'[q]) \in Nat /\ Len(deferred'[q]) \in Nat /\ Counting(q)' \in Nat
          /\ Count(subscribersMap[q]) \in Nat /\ Len(deferred[q]) \in Nat /\ Queued(opens, q) \in Nat
          /\ Kept(q) \in Nat
      BY TermsType, TermsNext
    <3>4. Asked(q)' <= Asked(q)
      <4>1. PICK a, b, d, f, x, y, z \in Nat :
               /\ a = Count(subscribersMap[q]) /\ b = Queued(opens, q)
               /\ d = Len(deferred[q]) /\ f = Kept(q)
               /\ x = Count(subscribersMap'[q]) /\ y = Len(deferred'[q]) /\ z = Counting(q)'
        BY <3>3, Zenon
      <4>2. Asked(q)' = x + (b - 1) + y + z + f
        BY <3>1, <4>1, Zenon
      <4>3. Asked(q) = a + b + d + 0 + f
        BY <3>2, <4>1, Zenon
      <4>4. x + y + z <= a + d + 1
        BY <4>1, Zenon
      <4> QED BY <4>2, <4>3, <4>4
    <3> QED BY <2>1, <3>4
  <2>2. CASE r # q
    <3>1. Asked(r)' = Asked(r)
      BY <1>1, <1>2, <2>2 DEF Asked
    <3> QED BY <3>1, TermsType
  <2> QED BY <2>1, <2>2
<1> QED BY <1>3, ExtraKept

\* Until an operator forces a restart, none is in progress.
LEMMA RestartsNext ==
    ASSUME \A r \in Rooms : ~ForceRestart(r), TypeInv, restart = NoRestart, [Next]_vars
    PROVE  restart' = NoRestart
<1>1. CASE UNCHANGED restart
  BY <1>1
<1>2. CASE SkipOpen \/ DeferOpen \/ JoinRoom \/ RejectLegacy \/ ThrowInBranch
  <2>1. opens \in Seq(Open) /\ opens # <<>> /\ opens' = Tail(opens) /\ \E n : Return(Next0, n)
    BY <1>2 DEF SkipOpen, DeferOpen, JoinRoom, RejectLegacy, ThrowInBranch,
       EnterBranch, Granted, TypeInv, TypeOK
  <2>2. Next0.by # "restart"
    BY <2>1, TailOwns DEF TypeInv, Awaiting
  <2> QED BY <2>1, <2>2 DEF Return
<1>3. ASSUME NEW k \in Clients, Connect(k) PROVE restart' = NoRestart
  <2> DEFINE held == [room |-> Next0.room, cred |-> Next0.cred, by |-> Next0.by,
                      client |-> k, prev |-> Registered(Next0.room), step |-> "connecting"]
  <2>1. opens \in Seq(Open) /\ opens # <<>> /\ opens' = Tail(opens)
    BY <1>3 DEF Connect, EnterBranch, Granted, TypeInv, TypeOK
  <2>2. held.by # "restart"
    BY <2>1, TailOwns DEF TypeInv, Awaiting
  <2>3. UNCHANGED restart \/ \E n : Return(held, n)
    BY <1>3 DEF Connect, CountSubscriber, Await, Save
  <2> HIDE DEF held
  <2> QED BY <2>2, <2>3 DEF Return
<1>4. CASE Connected \/ FailOpen \/ FinishOpen
  <2>1. UNCHANGED restart \/ \E n : Return(opening, n)
    BY <1>4 DEF Connected, CountSubscriber, Await, Save, FailOpen, FinishOpen
  <2>2. opening.by # "restart"
    BY <1>4 DEF Connected, FailOpen, FinishOpen, AtStep, TypeInv, RestartOwnsItsOpen, Awaiting
  <2> QED BY <2>1, <2>2 DEF Return
<1>5. ASSUME NEW r \in Rooms,
             \/ \E c \in Creds : OpenStream(r, c)
             \/ CloseStream(r) \/ RetryDeferred(r)
             \/ CooldownLapses(r) \/ SelfHeal(r)
             \/ ForceRestart(r) \/ ForceResubscribe(r)
      PROVE  UNCHANGED restart
  BY <1>5 DEF OpenStream, CloseStream, RetryDeferred, CooldownLapses, SelfHeal,
     ForceRestart, ForceResubscribe, forcedVars
<1>6. ASSUME NEW k \in Clients,
             \/ TripBreaker(k) \/ TripTransport(k) \/ AuthWatchdog(k)
             \/ AccountEvent(k) \/ DropRejected(k) \/ ForgetRejected(k)
             \/ ClientError(k) \/ ErrorLimitReached(k) \/ EndRebuild(k)
      PROVE  UNCHANGED restart
  BY <1>6 DEF TripBreaker, TripTransport, AuthWatchdog, TearDown, AccountEvent,
     DropRejected, ForgetRejected, ClientError, ErrorLimitReached, BeginRebuild,
     EndRebuild, forcedVars
<1>7. CASE DisableExchange \/ EnableExchange
  BY <1>7 DEF DisableExchange, EnableExchange
<1>8. ~RestartSettled /\ ~RestartReopens
  BY DEF RestartSettled, RestartReopens
<1>9. CASE UNCHANGED vars
  BY <1>9 DEF vars, forcedVars
<1> QED BY <1>1, <1>2, <1>3, <1>4, <1>5, <1>6, <1>7, <1>8, <1>9
    DEF Next, Step, ConnectRefused, ConnectTimeout

\* Opens that return without a client leave the queue: one that joins is
\* counted, one that meets a pending entry is put off.
LEMMA ExtraReturns ==
    ASSUME TypeOK, TypeOK', ExtraInv, NoGuards', restart' = NoRestart,
           SkipOpen \/ DeferOpen \/ JoinRoom \/ RejectLegacy \/ ThrowInBranch
    PROVE  ExtraInv'
<1>1. /\ Granted /\ opening = NoOpen /\ opens # <<>> /\ opens' = Tail(opens)
      /\ UNCHANGED <<opening, wanted>> /\ opens \in Seq(Open)
  BY DEF SkipOpen, DeferOpen, JoinRoom, RejectLegacy, ThrowInBranch, EnterBranch,
     Granted, callerVars, TypeOK
<1>2. PICK q \in Rooms : Next0.room = q /\ Next0.by # "guard" /\ Next0.cred \in Creds
  BY <1>1, HeadType, GuardsOnTail DEF ExtraInv
<1>3. \A r \in Rooms : Counting(r)' = 0
  BY <1>1 DEF Counting, AtStep
<1>4. \A r \in Rooms : /\ Kept(r)' = Kept(r)
                       /\ retryTimer'[r] # NoTimer => retryTimer'[r].subs > 0
  <2>1. CASE RejectLegacy
    <3>1. PICK c \in Creds : c = Next0.cred
      BY <1>2
    <3>2. Schedule(q, c, Absent, TRUE)
      BY <1>2, <2>1, <3>1 DEF RejectLegacy
    <3>3. Absent \in Counts /\ ~Truthy(Absent)
      BY DEF Counts, Truthy
    <3> QED BY <3>2, <3>3, Scheduled DEF ExtraInv
  <2>2. CASE SkipOpen \/ DeferOpen \/ JoinRoom \/ ThrowInBranch
    BY <2>2 DEF SkipOpen, DeferOpen, JoinRoom, ThrowInBranch, Kept, ExtraInv
  <2> QED BY <2>1, <2>2
<1>5. ASSUME NEW n, subscribersMap' = [subscribersMap EXCEPT ![q] = n]
      PROVE  subscribersMap'[q] = n /\ \A r \in Rooms : r # q => subscribersMap'[r] = subscribersMap[r]
  BY <1>5 DEF TypeOK
<1>6. CASE SkipOpen \/ RejectLegacy \/ ThrowInBranch
  <2>1. UNCHANGED deferred /\ subscribersMap' = [subscribersMap EXCEPT ![q] = subscribersMap[q]]
    BY <1>2, <1>6 DEF SkipOpen, RejectLegacy, ThrowInBranch, Return
  <2>2. Count(subscribersMap'[q]) + Len(deferred'[q]) + Counting(q)'
           <= Count(subscribersMap[q]) + Len(deferred[q]) + 1
    BY <1>3, <1>5, <2>1, TermsType
  <2> QED BY <1>1, <1>2, <1>3, <1>4, <1>5, <2>1, <2>2, ExtraTaken
<1>7. CASE DeferOpen
  <2>1. /\ deferred' = [deferred EXCEPT ![q] = Append(deferred[q], Next0.cred)]
        /\ subscribersMap' = [subscribersMap EXCEPT ![q] = subscribersMap[q]]
    BY <1>2, <1>7 DEF DeferOpen, Return
  <2>2. Len(deferred'[q]) = Len(deferred[q]) + 1 /\ \A r \in Rooms : r # q => deferred'[r] = deferred[r]
    <3>1. deferred[q] \in Seq(Creds)
      BY DEF TypeOK
    <3>2. Len(Append(deferred[q], Next0.cred)) = Len(deferred[q]) + 1
      BY <1>2, <3>1
    <3> QED BY <2>1, <3>2 DEF TypeOK
  <2>3. Count(subscribersMap'[q]) + Len(deferred'[q]) + Counting(q)'
           <= Count(subscribersMap[q]) + Len(deferred[q]) + 1
    BY <1>3, <1>5, <2>1, <2>2, TermsType
  <2> QED BY <1>1, <1>2, <1>3, <1>4, <1>5, <2>1, <2>2, <2>3, ExtraTaken
<1>8. CASE JoinRoom
  <2>1. /\ UNCHANGED deferred /\ Truthy(subscribersMap[q])
        /\ subscribersMap' = [subscribersMap EXCEPT ![q] = subscribersMap[q] + 1]
    BY <1>2, <1>8 DEF JoinRoom, Return
  <2>2. Count(subscribersMap'[q]) = Count(subscribersMap[q]) + 1
    <3>1. subscribersMap[q] \in Nat /\ subscribersMap'[q] = subscribersMap[q] + 1
      BY <1>5, <2>1 DEF TypeOK, Truthy, Counts
    <3> QED BY <3>1 DEF Count
  <2>3. Count(subscribersMap'[q]) + Len(deferred'[q]) + Counting(q)'
           <= Count(subscribersMap[q]) + Len(deferred[q]) + 1
    BY <1>3, <2>1, <2>2, TermsType
  <2> QED BY <1>1, <1>2, <1>3, <1>4, <1>5, <2>1, <2>3, ExtraTaken
<1> QED BY <1>6, <1>7, <1>8

\* An open that builds a client is about to be counted, or is counted.
LEMMA ExtraConnect ==
    ASSUME TypeOK, TypeOK', ExtraInv, NoGuards', restart' = NoRestart,
           NEW k \in Clients, Connect(k)
    PROVE  ExtraInv'
<1>1. /\ Granted /\ opening = NoOpen /\ opens # <<>> /\ opens' = Tail(opens)
      /\ wanted' = wanted /\ opens \in Seq(Open) /\ UNCHANGED <<retryTimer, deferred>>
  BY DEF Connect, EnterBranch, Granted, callerVars, TypeOK
<1>2. PICK q \in Rooms : Next0.room = q /\ Next0.by # "guard"
  BY <1>1, HeadType, GuardsOnTail DEF ExtraInv
<1>3. \A r \in Rooms : /\ Kept(r)' = Kept(r)
                       /\ retryTimer'[r] # NoTimer => retryTimer'[r].subs > 0
  BY <1>1 DEF Kept, ExtraInv
<1> DEFINE held == [room |-> q, cred |-> Next0.cred, by |-> Next0.by,
                    client |-> k, prev |-> Registered(q), step |-> "connecting"]
<1>4. ASSUME NEW n, subscribersMap' = [subscribersMap EXCEPT ![q] = n]
      PROVE  subscribersMap'[q] = n /\ \A r \in Rooms : r # q => subscribersMap'[r] = subscribersMap[r]
  BY <1>4 DEF TypeOK
<1>5. CASE branch.awaits
  <2>1. /\ opening' = [held EXCEPT !.step = "connecting"]
        /\ subscribersMap' = [subscribersMap EXCEPT ![q] = subscribersMap[q]]
    BY <1>2, <1>5 DEF Connect, Await
  <2>2. opening'.room = q
    BY <2>1
  <2> HIDE DEF held
  <2>3. \A r \in Rooms : Counting(r)' \in {0, 1} /\ (r # q => Counting(r)' = 0)
    BY <2>2 DEF Counting
  <2>4. Count(subscribersMap'[q]) + Len(deferred'[q]) + Counting(q)'
           <= Count(subscribersMap[q]) + Len(deferred[q]) + 1
    BY <1>1, <1>4, <2>1, <2>3, TermsType
  <2> QED BY <1>1, <1>2, <1>3, <1>4, <2>1, <2>3, <2>4, ExtraTaken
<1>6. CASE ~branch.awaits
  <2> DEFINE n == Count(subscribersMap[q]) + 1
  <2>1. /\ opening' = NoOpen \/ opening' = [held EXCEPT !.step = "pacing"]
        /\ subscribersMap' = [subscribersMap EXCEPT ![q] = n]
    BY <1>2, <1>6 DEF Connect, CountSubscriber, Await, Save, Return
  <2>2. opening' = NoOpen \/ opening'.step = "pacing"
    BY <2>1
  <2>3. \A r \in Rooms : Counting(r)' = 0
    BY <2>2 DEF Counting, AtStep
  <2>4. Count(subscribersMap'[q]) = Count(subscribersMap[q]) + 1
    <3>1. n \in Nat
      BY TermsType
    <3> HIDE DEF n
    <3>2. Count(subscribersMap'[q]) = n
      BY <1>4, <2>1, <3>1 DEF Count
    <3> QED BY <3>2 DEF n
  <2> HIDE DEF held, n
  <2>5. Count(subscribersMap'[q]) + Len(deferred'[q]) + Counting(q)'
           <= Count(subscribersMap[q]) + Len(deferred[q]) + 1
    BY <1>1, <2>3, <2>4, TermsType
  <2> QED BY <1>1, <1>2, <1>3, <1>4, <2>1, <2>3, <2>5, ExtraTaken
<1> QED BY <1>5, <1>6

\* The open at its awaits is counted once, when its connection is up.
LEMMA ExtraOpening ==
    ASSUME TypeOK, TypeOK', ExtraInv, NoGuards', restart' = NoRestart,
           Connected \/ FailOpen \/ FinishOpen
    PROVE  ExtraInv'
<1>1. /\ opening # NoOpen /\ opening \in Opening /\ opening.by # "guard"
      /\ wanted' = wanted /\ UNCHANGED <<opens, deferred, retryTimer>>
  BY DEF TypeOK, ExtraInv, NoGuards, Connected, FailOpen, FinishOpen, AtStep, callerVars
<1>2. PICK q \in Rooms : q = opening.room
  BY <1>1 DEF Opening
<1>3. \A r \in Rooms : /\ Kept(r)' = Kept(r)
                       /\ retryTimer'[r] # NoTimer => retryTimer'[r].subs > 0
  BY <1>1 DEF Kept, ExtraInv
<1>4. \A r \in Rooms : r # q => Counting(r) = 0
  BY <1>2 DEF Counting
<1>5. \A r \in Rooms : Counting(r)' = 0
  <2>1. opening' = NoOpen \/ opening' = [opening EXCEPT !.step = "pacing"]
    BY DEF Connected, CountSubscriber, Await, FailOpen, FinishOpen, Save
  <2>2. opening' = NoOpen \/ opening'.step = "pacing"
    BY <1>1, <2>1 DEF Opening
  <2> QED BY <2>2 DEF Counting, AtStep
<1>6. /\ Count(subscribersMap'[q]) <= Count(subscribersMap[q]) + Counting(q)
      /\ \A r \in Rooms : r # q => subscribersMap'[r] = subscribersMap[r]
  <2>1. CASE Connected
    <3>1. Counting(q) = 1
      BY <1>2, <2>1 DEF Connected, Counting
    <3>2. subscribersMap' = [subscribersMap EXCEPT ![q] = Count(subscribersMap[q]) + 1]
      BY <1>1, <1>2, <2>1 DEF Connected, CountSubscriber, Await, Save, Return
    <3>3. Count(subscribersMap[q]) \in Nat
      BY TermsType
    <3>4. Count(Count(subscribersMap[q]) + 1) = Count(subscribersMap[q]) + 1
      <4> DEFINE m == Count(subscribersMap[q]) + 1
      <4>1. m \in Nat
        BY <3>3
      <4> HIDE DEF m
      <4>2. Count(m) = m
        BY <4>1 DEF Count
      <4> QED BY <4>2 DEF m
    <3>5. subscribersMap'[q] = Count(subscribersMap[q]) + 1
          /\ \A r \in Rooms : r # q => subscribersMap'[r] = subscribersMap[r]
      BY <3>2 DEF TypeOK
    <3> QED BY <3>1, <3>3, <3>4, <3>5
  <2>2. CASE FailOpen \/ FinishOpen
    <3>1. subscribersMap' = [subscribersMap EXCEPT ![q] = subscribersMap[q]]
      BY <1>1, <1>2, <2>2 DEF FailOpen, FinishOpen, Save, Return
    <3>2. subscribersMap' = subscribersMap
      BY <3>1 DEF TypeOK
    <3> QED BY <3>2, TermsType
  <2> QED BY <2>1, <2>2
<1>7. ASSUME NEW r \in Rooms PROVE Asked(r)' <= Asked(r)
  <2>1. CASE r = q
    <3>1. PICK a, b, d, e, f, x \in Nat :
             /\ a = Count(subscribersMap[q]) /\ b = Queued(opens, q) /\ d = Len(deferred[q])
             /\ e = Counting(q) /\ f = Kept(q) /\ x = Count(subscribersMap'[q])
      BY TermsType, TermsNext, Zenon
    <3>2. Asked(q) = a + b + d + e + f
      BY <3>1 DEF Asked
    <3>3. Asked(q)' = x + b + d + 0 + f
      BY <1>1, <1>3, <1>5, <3>1 DEF Asked
    <3>4. x <= a + e
      BY <1>6, <3>1
    <3> QED BY <2>1, <3>2, <3>3, <3>4
  <2>2. CASE r # q
    <3>1. Asked(r)' = Asked(r)
      BY <1>1, <1>3, <1>4, <1>5, <1>6, <2>2 DEF Asked
    <3> QED BY <3>1, TermsType
  <2> QED BY <2>1, <2>2
<1> QED BY <1>1, <1>3, <1>7, ExtraKept

\* A history without guard and forced restart was one before its last step,
\* and that step was neither.
LEMMA UntouchedBefore ==
    ASSUME TypeOK, [Next]_vars, Untouched'
    PROVE  /\ Untouched
           /\ \A r \in Rooms : ~ForceRestart(r) /\ ~ForceResubscribe(r)
<1>1. forced \in Seq({"restart", "guard", "admin"})
  BY DEF TypeOK
<1>2. ASSUME NEW x \in {"restart", "guard", "admin"}, forced' = Append(forced, x)
      PROVE  Untouched /\ x = "admin"
  <2>1. /\ Len(forced') = Len(forced) + 1 /\ DOMAIN forced = 1..Len(forced)
        /\ DOMAIN forced' = 1..Len(forced') /\ Len(forced) \in Nat
        /\ forced'[Len(forced) + 1] = x
        /\ \A i \in 1..Len(forced) : forced'[i] = forced[i]
    BY <1>1, <1>2
  <2> QED BY <2>1 DEF Untouched
<1>3. \A r \in Rooms : ~ForceRestart(r)
  BY <1>2 DEF ForceRestart
<1>4. \A r \in Rooms : ~ForceResubscribe(r)
  BY <1>2 DEF ForceResubscribe
<1>5. CASE UNCHANGED forced
  BY <1>3, <1>4, <1>5 DEF Untouched
<1>6. CASE DisableExchange
  BY <1>2, <1>3, <1>4, <1>6 DEF DisableExchange
<1>7. ASSUME NEW r \in Rooms,
             \/ \E c \in Creds : OpenStream(r, c)
             \/ CloseStream(r) \/ RetryDeferred(r)
             \/ CooldownLapses(r) \/ SelfHeal(r)
      PROVE  UNCHANGED forced
  BY <1>7 DEF OpenStream, CloseStream, RetryDeferred, CooldownLapses, SelfHeal,
     forcedVars
<1>8. ASSUME NEW k \in Clients,
             \/ TripBreaker(k) \/ TripTransport(k) \/ AuthWatchdog(k)
             \/ AccountEvent(k) \/ DropRejected(k) \/ ForgetRejected(k)
             \/ ClientError(k) \/ ErrorLimitReached(k) \/ EndRebuild(k)
             \/ Connect(k)
      PROVE  UNCHANGED forced
  BY <1>8 DEF TripBreaker, TripTransport, AuthWatchdog, TearDown, AccountEvent,
     DropRejected, ForgetRejected, ClientError, ErrorLimitReached, BeginRebuild,
     EndRebuild, Connect, forcedVars
<1>9. ASSUME \/ SkipOpen \/ DeferOpen \/ JoinRoom \/ RejectLegacy \/ ThrowInBranch
             \/ Connected \/ FailOpen \/ FinishOpen
             \/ RestartSettled \/ RestartReopens \/ EnableExchange
      PROVE  UNCHANGED forced
  BY <1>9 DEF SkipOpen, DeferOpen, JoinRoom, RejectLegacy, ThrowInBranch,
     Connected, FailOpen, FinishOpen, RestartSettled, RestartReopens,
     EnableExchange, forcedVars
<1>10. CASE UNCHANGED vars
  BY <1>5, <1>10 DEF vars, forcedVars
<1> QED BY <1>3, <1>4, <1>5, <1>6, <1>7, <1>8, <1>9, <1>10
      DEF Next, Step, ConnectRefused, ConnectTimeout

\* Among patient callers, no step but the guard's and the forced restart's
\* makes a room ask for more than its callers want.
LEMMA ExtraNext ==
    ASSUME \A r \in Rooms : ~ForceRestart(r) /\ ~ForceResubscribe(r),
           TypeInv, TypeOK', ExtraInv, [Next /\ Patient]_vars
    PROVE  ExtraInv'
<1>1. [Next]_vars /\ TypeOK
  BY DEF TypeInv
<1>2. NoGuards' /\ restart' = NoRestart
  BY <1>1, GuardsNext, RestartsNext DEF ExtraInv
<1>3. ASSUME UNCHANGED <<subscribersMap, opens, deferred, opening, retryTimer, wanted>>
      PROVE  ExtraInv'
  <2>1. \A r \in Rooms : Asked(r)' <= Asked(r)
    BY <1>1, <1>3, AskedSame, TermsType
  <2> QED BY <1>1, <1>2, <1>3, <2>1, ExtraKept DEF ExtraInv
<1>4. CASE UNCHANGED vars
  BY <1>3, <1>4 DEF vars, roomVars, queueVars, callerVars
<1>5. ASSUME NEW r \in Rooms, NEW c \in Creds, OpenStream(r, c) PROVE ExtraInv'
  BY <1>1, <1>2, <1>5, ExtraOpenStream
<1>6. ASSUME NEW r \in Rooms, CloseStream(r), Patient PROVE ExtraInv'
  BY <1>1, <1>2, <1>6, ExtraCloseStream
<1>7. ASSUME NEW r \in Rooms, RetryDeferred(r) \/ SelfHeal(r) PROVE ExtraInv'
  BY <1>1, <1>2, <1>7, ExtraTimers
<1>8. ASSUME NEW r \in Rooms, CooldownLapses(r) PROVE ExtraInv'
  BY <1>3, <1>8 DEF CooldownLapses, roomVars, queueVars, callerVars
<1>9. ASSUME NEW k \in Clients,
             TripBreaker(k) \/ TripTransport(k) \/ AuthWatchdog(k) \/ EndRebuild(k)
      PROVE  ExtraInv'
  BY <1>1, <1>2, <1>9, ExtraClients
<1>10. ASSUME NEW k \in Clients,
              \/ AccountEvent(k) \/ DropRejected(k) \/ ForgetRejected(k)
              \/ ClientError(k) \/ ErrorLimitReached(k)
       PROVE  ExtraInv'
  BY <1>3, <1>10 DEF AccountEvent, DropRejected, ForgetRejected, ClientError,
     ErrorLimitReached, BeginRebuild, roomVars, queueVars, callerVars
<1>11. CASE SkipOpen \/ DeferOpen \/ JoinRoom \/ RejectLegacy \/ ThrowInBranch
  BY <1>1, <1>2, <1>11, ExtraReturns
<1>12. ASSUME NEW k \in Clients, Connect(k) PROVE ExtraInv'
  BY <1>1, <1>2, <1>12, ExtraConnect
<1>13. CASE Connected \/ FailOpen \/ FinishOpen
  BY <1>1, <1>2, <1>13, ExtraOpening
<1>14. CASE DisableExchange \/ EnableExchange
  BY <1>3, <1>14 DEF DisableExchange, EnableExchange, roomVars, queueVars, callerVars
<1>15. /\ ~RestartSettled /\ ~RestartReopens
       /\ \A r \in Rooms : ~ForceRestart(r) /\ ~ForceResubscribe(r)
  BY DEF RestartSettled, RestartReopens, ExtraInv
<1>16. UNCHANGED vars \/ (Next /\ Patient)
  OBVIOUS
<1> QED BY <1>4, <1>5, <1>6, <1>7, <1>8, <1>9, <1>10, <1>11, <1>12, <1>13,
      <1>14, <1>15, <1>16 DEF Next, Step, ConnectRefused, ConnectTimeout

\* Nobody is asked for at the start.
LEMMA ExtraInit == Init => ExtraInv
<1> SUFFICES ASSUME Init PROVE ExtraInv
  OBVIOUS
<1>1. NoGuards /\ restart = NoRestart
  BY DEF Init, NoGuards
<1>2. ASSUME NEW r \in Rooms PROVE Asked(r) <= wanted[r] /\ retryTimer[r] = NoTimer
  <2>1. Queued(opens, r) = 0
    <3>1. Places(opens, r) = {}
      BY DEF Init, Places
    <3> QED BY <3>1, FS_EmptySet DEF Queued
  <2>2. /\ subscribersMap[r] = Absent /\ deferred[r] = <<>> /\ retryTimer[r] = NoTimer
        /\ wanted[r] = 0 /\ opening = NoOpen
    BY DEF Init
  <2>3. Asked(r) = 0
    BY <2>1, <2>2 DEF Asked, Count, Counting, Kept, AtStep
  <2> QED BY <2>2, <2>3
<1> QED BY <1>1, <1>2 DEF ExtraInv

\* What the two theorems below share.
LEMMA ExtraAlways ==
    PatientSpec => [](TypeOK /\ (Untouched => ExtraInv))
<1> DEFINE Inv == TypeInv /\ (Untouched => ExtraInv)
<1>1. Init => Inv
  BY InitType, ExtraInit
<1>2. Inv /\ [Next /\ Patient]_vars => Inv'
  <2> SUFFICES ASSUME Inv, [Next /\ Patient]_vars PROVE Inv'
    OBVIOUS
  <2>1. TypeInv'
    BY NextType
  <2>2. TypeOK'
    BY <2>1 DEF TypeInv
  <2>3. ASSUME Untouched' PROVE ExtraInv'
    <3>1. [Next]_vars /\ TypeOK
      BY DEF TypeInv
    <3>2. Untouched /\ \A r \in Rooms : ~ForceRestart(r) /\ ~ForceResubscribe(r)
      BY <2>3, <3>1, UntouchedBefore
    <3> QED BY <2>2, <3>2, ExtraNext
  <2> QED BY <2>1, <2>3
<1>3. Inv => TypeOK /\ (Untouched => ExtraInv)
  BY DEF TypeInv
<1> QED BY <1>1, <1>2, <1>3, PTL DEF PatientSpec

\* Rebuilds, breakers and their retries never multiply subscribers: callers
\* that wait for their opens before they close find a room kept up by no more
\* subscribers than they opened, in every branch, also while the exchange is
\* switched off and on, as long as neither the guard nor a forced restart has
\* run: the first counts a room that had no subscriber once, the second
\* reopens what a close in its settle has given up.
THEOREM SubscribersNeverMultiply ==
    PatientSpec => []NoExtraSubscribers
<1>1. TypeOK /\ (Untouched => ExtraInv) => NoExtraSubscribers
  BY DemandIsAsked DEF ExtraInv, NoExtraSubscribers
<1> QED BY <1>1, ExtraAlways, PTL

\* A self-heal retry is only pending for a room that somebody wants, as long
\* as neither the guard nor a forced restart has run.
THEOREM RetriesHaveOwners ==
    PatientSpec => []RetryHasOwner
<1>1. TypeOK /\ (Untouched => ExtraInv) => RetryHasOwner
  <2> SUFFICES ASSUME TypeOK, ExtraInv, NEW r \in Rooms, retryTimer[r] # NoTimer
               PROVE  wanted[r] > 0
    BY DEF RetryHasOwner
  <2>1. PICK a, b, d, e, f \in Nat :
           /\ a = Count(subscribersMap[r]) /\ b = Queued(opens, r) /\ d = Len(deferred[r])
           /\ e = Counting(r) /\ f = Kept(r)
    BY TermsType, Zenon
  <2>2. f > 0
    BY <2>1 DEF ExtraInv, Kept
  <2>3. a + b + d + e + f <= wanted[r] /\ wanted[r] \in Nat
    BY <2>1 DEF ExtraInv, Asked, TypeOK
  <2> QED BY <2>2, <2>3
<1> QED BY <1>1, ExtraAlways, PTL
=============================================================================
