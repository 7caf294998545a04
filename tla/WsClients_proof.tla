--------------------------- MODULE WsClients_proof ---------------------------
(***************************************************************************)
(* Proofs about WsClients: its types, that no connection with topics is    *)
(* stranded, that stored topics are requested, that one socket carries a   *)
(* connection, that private topics wait for the login of their socket and  *)
(* that a closed connection stays closed.                                  *)
(*                                                                         *)
(* Inv (types and Shape) is inductive; on top of it so is Reachable (nobody*)
(* in use is stranded), AllCovered (what is stored is requested) and, given*)
(* Reachable, AllSingle (Bitget: one socket, none after the close) and     *)
(* AllGuarded (Bybit: what is asked is asked on the registered socket).    *)
(***************************************************************************)
EXTENDS WsClients, SequenceTheorems, FiniteSetTheorems, TLAPS

Mutexes == [locked : BOOLEAN, queue : Seq(Conns), granted : Seq(Conns)]
Batches == [conn : Conns, generation : Nat, topics : SUBSET Topics]
SocketRecords == [st : {"free", "dialing", "open", "refused", "gone",
                        "failing", "ended", "leaving"},
                  conn : Conns \cup {None}, in : BOOLEAN]
Strays == [Conns -> {"none", "INITIAL", "CLOSING"}]

-----------------------------------------------------------------------------
(* The mutex.                                                               *)

\* Who waits for the mutex, or was granted it and has not run yet.
Waiters(m) == Range(m.queue) \cup Range(m.granted)

LEMMA RangeOf ==
    ASSUME NEW S, NEW s \in Seq(S)
    PROVE  Range(s) \subseteq S /\ Range(s) = {s[i] : i \in 1..Len(s)}
<1>1. DOMAIN s = 1..Len(s) /\ s \in [1..Len(s) -> S]
  BY LenProperties
<1> QED
  BY <1>1 DEF Range

LEMMA RangeOfConcat ==
    ASSUME NEW S, NEW s \in Seq(S), NEW t \in Seq(S)
    PROVE  s \o t \in Seq(S) /\ Range(s \o t) = Range(s) \cup Range(t)
<1>1. Len(s) \in Nat /\ Len(t) \in Nat
  BY LenProperties
<1>2. /\ s \o t \in Seq(S) /\ Len(s \o t) = Len(s) + Len(t)
      /\ \A i \in 1..(Len(s) + Len(t)) :
           (s \o t)[i] = IF i <= Len(s) THEN s[i] ELSE t[i - Len(s)]
  BY ConcatProperties
<1>3. Range(s \o t) = {(s \o t)[i] : i \in 1..(Len(s) + Len(t))}
  BY <1>2, RangeOf
<1>4. \A x \in Range(s) \cup Range(t) : x \in Range(s \o t)
  <2>1. \A i \in 1..Len(s) : i \in 1..(Len(s) + Len(t)) /\ (s \o t)[i] = s[i]
    BY <1>1, <1>2
  <2>2. \A i \in 1..Len(t) : /\ Len(s) + i \in 1..(Len(s) + Len(t))
                             /\ (s \o t)[Len(s) + i] = t[i]
    <3> TAKE i \in 1..Len(t)
    <3>1. Len(s) + i \in 1..(Len(s) + Len(t)) /\ ~(Len(s) + i <= Len(s))
          /\ Len(s) + i - Len(s) = i
      BY <1>1
    <3> QED
      BY <1>2, <3>1
  <2> QED
    BY <2>1, <2>2, <1>3, RangeOf
<1>5. \A x \in Range(s \o t) : x \in Range(s) \cup Range(t)
  <2> TAKE x \in Range(s \o t)
  <2>1. PICK i \in 1..(Len(s) + Len(t)) : x = (s \o t)[i]
    BY <1>3
  <2>2. CASE i <= Len(s)
    <3>1. i \in 1..Len(s) /\ x = s[i]
      BY <1>1, <1>2, <2>1, <2>2
    <3> QED
      BY <3>1, RangeOf
  <2>3. CASE ~(i <= Len(s))
    <3>1. i - Len(s) \in 1..Len(t) /\ x = t[i - Len(s)]
      BY <1>1, <1>2, <2>1, <2>3
    <3> QED
      BY <3>1, RangeOf
  <2> QED
    BY <2>2, <2>3
<1> QED
  BY <1>2, <1>4, <1>5

LEMMA RangeOfOne ==
    ASSUME NEW x
    PROVE  Range(<<x>>) = {x}
<1>1. \A i \in DOMAIN <<x>> : <<x>>[i] = x
  OBVIOUS
<1>2. 1 \in DOMAIN <<x>>
  OBVIOUS
<1> QED
  BY <1>1, <1>2, Zenon DEF Range

LEMMA RangeOfAppend ==
    ASSUME NEW S, NEW s \in Seq(S), NEW x \in S
    PROVE  Append(s, x) \in Seq(S) /\ Range(Append(s, x)) = Range(s) \cup {x}
<1>1. <<x>> \in Seq(S) /\ Append(s, x) = s \o <<x>>
  OBVIOUS
<1>2. Range(<<x>>) = {x}
  BY RangeOfOne
<1>3. s \o <<x>> \in Seq(S) /\ Range(s \o <<x>>) = Range(s) \cup Range(<<x>>)
  BY <1>1, RangeOfConcat
<1> QED
  BY <1>1, <1>2, <1>3, Zenon

LEMMA RangeOfHead ==
    ASSUME NEW S, NEW s \in Seq(S), s # <<>>
    PROVE  /\ Head(s) \in S /\ Tail(s) \in Seq(S)
           /\ Range(s) = {Head(s)} \cup Range(Tail(s))
<1>1. Tail(s) \in Seq(S) /\ Head(s) \in S /\ s = <<Head(s)>> \o Tail(s)
  OBVIOUS
<1>2. <<Head(s)>> \in Seq(S)
  BY <1>1
<1>3. Range(<<Head(s)>>) = {Head(s)}
  BY RangeOfOne
<1>4. Range(<<Head(s)>> \o Tail(s)) = Range(<<Head(s)>>) \cup Range(Tail(s))
  BY <1>1, <1>2, RangeOfConcat, ZenonT(60)
<1>5. Range(s) = Range(<<Head(s)>> \o Tail(s))
  BY <1>1, Zenon
<1> QED
  BY <1>1, <1>3, <1>4, <1>5, Zenon

\* A lock adds its caller, a release only moves who waits.
LEMMA LockAdds ==
    ASSUME NEW m \in Mutexes, NEW c \in Conns
    PROVE  /\ Lock(m, c) \in Mutexes
           /\ Waiters(Lock(m, c)) = Waiters(m) \cup {c}
<1>1. m.queue \in Seq(Conns) /\ m.granted \in Seq(Conns) /\ m.locked \in BOOLEAN
  BY DEF Mutexes
<1>2. /\ Append(m.queue, c) \in Seq(Conns)
      /\ Range(Append(m.queue, c)) = Range(m.queue) \cup {c}
      /\ Append(m.granted, c) \in Seq(Conns)
      /\ Range(Append(m.granted, c)) = Range(m.granted) \cup {c}
  BY <1>1, RangeOfAppend
<1>3. CASE m.locked
  <2>1. Lock(m, c) = [m EXCEPT !.queue = Append(m.queue, c)]
    BY <1>3 DEF Lock
  <2>2. /\ Lock(m, c).queue = Append(m.queue, c)
        /\ Lock(m, c).granted = m.granted /\ Lock(m, c) \in Mutexes
    BY <2>1, <1>2 DEF Mutexes
  <2> QED
    BY <1>2, <2>2 DEF Waiters
<1>4. CASE ~m.locked
  <2>1. Lock(m, c) = [m EXCEPT !.locked = TRUE, !.granted = Append(m.granted, c)]
    BY <1>4 DEF Lock
  <2>2. /\ Lock(m, c).queue = m.queue
        /\ Lock(m, c).granted = Append(m.granted, c) /\ Lock(m, c) \in Mutexes
    BY <2>1, <1>2 DEF Mutexes
  <2> QED
    BY <1>2, <2>2 DEF Waiters
<1> QED
  BY <1>3, <1>4

LEMMA ReleaseMoves ==
    ASSUME NEW m \in Mutexes
    PROVE  Release(m) \in Mutexes /\ Waiters(Release(m)) = Waiters(m)
<1>1. m.queue \in Seq(Conns) /\ m.granted \in Seq(Conns) /\ m.locked \in BOOLEAN
  BY DEF Mutexes
<1>2. CASE m.queue = <<>>
  <2>1. Release(m) = [m EXCEPT !.locked = FALSE]
    BY <1>2 DEF Release
  <2>2. /\ Release(m).queue = m.queue /\ Release(m).granted = m.granted
        /\ Release(m) \in Mutexes
    BY <2>1 DEF Mutexes
  <2> QED
    BY <2>2 DEF Waiters
<1>3. CASE m.queue # <<>>
  <2>1. Release(m) = [m EXCEPT !.queue = Tail(m.queue),
                               !.granted = Append(m.granted, Head(m.queue))]
    BY <1>3 DEF Release
  <2>2. /\ Head(m.queue) \in Conns /\ Tail(m.queue) \in Seq(Conns)
        /\ Range(m.queue) = {Head(m.queue)} \cup Range(Tail(m.queue))
    BY <1>1, <1>3, RangeOfHead
  <2>3. /\ Append(m.granted, Head(m.queue)) \in Seq(Conns)
        /\ Range(Append(m.granted, Head(m.queue)))
             = Range(m.granted) \cup {Head(m.queue)}
    BY <1>1, <2>2, RangeOfAppend
  <2>4. /\ Release(m).queue = Tail(m.queue)
        /\ Release(m).granted = Append(m.granted, Head(m.queue))
        /\ Release(m) \in Mutexes
    BY <2>1, <2>2, <2>3 DEF Mutexes
  <2> QED
    BY <2>2, <2>3, <2>4 DEF Waiters
<1> QED
  BY <1>2, <1>3

LEMMA ReleaseTimesMoves ==
    ASSUME NEW m \in Mutexes, NEW n \in Nat
    PROVE  /\ ReleaseTimes(m, n) \in Mutexes
           /\ Waiters(ReleaseTimes(m, n)) = Waiters(m)
<1>1. m.queue \in Seq(Conns) /\ m.granted \in Seq(Conns) /\ m.locked \in BOOLEAN
  BY DEF Mutexes
<1> DEFINE len == Len(m.queue)
           k == IF n <= len THEN n ELSE len
           l == m.locked /\ n <= len
<1>2. len \in Nat /\ k \in 0..len
  BY <1>1, LenProperties
<1> DEFINE passed == SubSeq(m.queue, 1, k)
           left == SubSeq(m.queue, k + 1, len)
           g == m.granted \o passed
<1>3. ReleaseTimes(m, n) = [locked |-> l, queue |-> left, granted |-> g]
  BY DEF ReleaseTimes
<1>4. passed \in Seq(Conns) /\ left \in Seq(Conns)
  <2>1. \A i \in 1..len : m.queue[i] \in Conns
    BY <1>1, ElementOfSeq
  <2>2. (\A i \in 1..k : m.queue[i] \in Conns)
        /\ (\A i \in (k + 1)..len : m.queue[i] \in Conns)
    BY <1>2, <2>1
  <2>3. 1 \in Int /\ k \in Int /\ k + 1 \in Int /\ len \in Int
    BY <1>2
  <2> HIDE DEF len, k
  <2> QED
    BY <2>2, <2>3, SubSeqProperties
<1>5. m.queue = passed \o left
  <2>1. 1 \in 1..(len + 1) /\ k \in (1 - 1)..len /\ len \in k..len
    BY <1>2
  <2>2. passed \o left = SubSeq(m.queue, 1, len)
    <3> HIDE DEF k
    <3> QED
      BY <1>1, <2>1, ConcatAdjacentSubSeq, Zenon
  <2> QED
    BY <1>1, <2>2, SubSeqFull, Zenon
<1>8. l \in BOOLEAN
  OBVIOUS
<1> HIDE DEF passed, left, l, k
<1>6. Range(m.queue) = Range(passed) \cup Range(left)
  <2>1. Range(passed \o left) = Range(passed) \cup Range(left)
    BY <1>4, RangeOfConcat
  <2> QED
    BY <1>5, <2>1, Zenon
<1>7. g \in Seq(Conns) /\ Range(g) = Range(m.granted) \cup Range(passed)
  BY <1>1, <1>4, RangeOfConcat
<1> HIDE DEF g
<1>9. ReleaseTimes(m, n) \in Mutexes
  BY <1>3, <1>4, <1>7, <1>8 DEF Mutexes
<1>10. ReleaseTimes(m, n).queue = left /\ ReleaseTimes(m, n).granted = g
  BY <1>3
<1>11. /\ Waiters(ReleaseTimes(m, n)) = Range(left) \cup Range(g)
       /\ Waiters(m) = Range(m.queue) \cup Range(m.granted)
  BY <1>10, Zenon DEF Waiters
<1> QED
  BY <1>6, <1>7, <1>9, <1>11, Zenon

-----------------------------------------------------------------------------
(* Store entries.                                                           *)

\* An entry that refers to a ping interval has one.
Sound(r) == r \in Entry /\ (r.beating => r.beats > 0)

LEMMA NoPingKeeps ==
    ASSUME NEW r, Sound(r)
    PROVE  /\ Sound(NoPing(r))
           /\ NoPing(r).state = r.state /\ NoPing(r).ws = r.ws
           /\ NoPing(r).timer = r.timer /\ NoPing(r).authed = r.authed
           /\ NoPing(r).opening = r.opening /\ NoPing(r).promise = r.promise
<1>1. CASE r.beating
  <2>1. NoPing(r) = [r EXCEPT !.beats = r.beats - 1, !.beating = FALSE]
    BY <1>1 DEF NoPing
  <2>2. r.beats - 1 \in Nat
    BY <1>1 DEF Sound, Entry
  <2> DEFINE n == r.beats - 1
  <2> HIDE DEF n
  <2> QED
    BY <2>1, <2>2 DEF Sound, Entry
<1>2. CASE ~r.beating
  BY <1>2 DEF NoPing
<1> QED
  BY <1>1, <1>2

\* reconnectWithDelay sets the timer; the state becomes RECONNECTING, or stays
\* CONNECTING.
LEMMA ReconnectSets ==
    ASSUME NEW r, Sound(r)
    PROVE  /\ Sound(ReconnectWithDelay(r))
           /\ ReconnectWithDelay(r).timer = TRUE
           /\ r.state = "CONNECTING" => ReconnectWithDelay(r).state = "CONNECTING"
           /\ r.state # "CONNECTING" => ReconnectWithDelay(r).state = "RECONNECTING"
           /\ ReconnectWithDelay(r).ws = r.ws
           /\ ReconnectWithDelay(r).authed = r.authed
           /\ ReconnectWithDelay(r).opening = r.opening
<1> DEFINE q == NoPing(r)
<1>1. /\ Sound(q) /\ q.state = r.state /\ q.ws = r.ws
      /\ q.authed = r.authed /\ q.opening = r.opening
  BY NoPingKeeps
<1> DEFINE t == [q EXCEPT !.pong = FALSE, !.timer = FALSE]
<1>2. t = NoTimers(r)
  BY DEF NoTimers
<1> HIDE DEF q
<1>3. /\ Sound(t) /\ t.state = r.state /\ t.ws = r.ws
      /\ t.authed = r.authed /\ t.opening = r.opening
  BY <1>1 DEF Sound, Entry
<1> HIDE DEF t
<1>4. CASE r.state = "CONNECTING"
  <2>1. ReconnectWithDelay(r) = [t EXCEPT !.timer = TRUE,
                                          !.state = "CONNECTING"]
    BY <1>2, <1>3, <1>4 DEF ReconnectWithDelay
  <2> QED
    BY <1>3, <1>4, <2>1 DEF Sound, Entry, States
<1>5. CASE r.state # "CONNECTING"
  <2>1. ReconnectWithDelay(r) = [t EXCEPT !.timer = TRUE,
                                          !.state = "RECONNECTING"]
    BY <1>2, <1>3, <1>5 DEF ReconnectWithDelay
  <2> QED
    BY <1>3, <1>5, <2>1 DEF Sound, Entry, States
<1> QED
  BY <1>4, <1>5

LEMMA NoTimersKeeps ==
    ASSUME NEW r, Sound(r)
    PROVE  /\ Sound([NoTimers(r) EXCEPT !.state = "CLOSING"])
           /\ [NoTimers(r) EXCEPT !.state = "CLOSING"].state = "CLOSING"
           /\ [NoTimers(r) EXCEPT !.state = "CLOSING"].timer = FALSE
           /\ [NoTimers(r) EXCEPT !.state = "CLOSING"].ws = r.ws
           /\ [NoTimers(r) EXCEPT !.state = "CLOSING"].authed = r.authed
           /\ [NoTimers(r) EXCEPT !.state = "CLOSING"].opening = r.opening
           /\ Sound(NoTimers(r)) /\ NoTimers(r).ws = r.ws
           /\ NoTimers(r).opening = r.opening
<1> DEFINE q == NoPing(r)
<1>1. /\ Sound(q) /\ q.state = r.state /\ q.ws = r.ws
      /\ q.authed = r.authed /\ q.opening = r.opening
  BY NoPingKeeps
<1>2. NoTimers(r) = [q EXCEPT !.pong = FALSE, !.timer = FALSE]
  BY DEF NoTimers
<1> HIDE DEF q
<1> QED
  BY <1>1, <1>2 DEF Sound, Entry, States

LEMMA ConnectedKeeps ==
    ASSUME NEW r, Sound(r)
    PROVE  /\ Sound(Connected(r)) /\ Connected(r).state = "CONNECTED"
           /\ Connected(r).ws = r.ws /\ Connected(r).authed = r.authed
           /\ Connected(r).opening = r.opening /\ Connected(r).timer = r.timer
<1> DEFINE n == r.beats + 1
<1>1. n \in Nat /\ n > 0
  BY DEF Sound, Entry
<1>2. Connected(r) = [r EXCEPT !.state = "CONNECTED", !.beats = n,
                               !.beating = TRUE, !.promise = FALSE]
  BY DEF Connected
<1> HIDE DEF n
<1> QED
  BY <1>1, <1>2, ZenonT(60) DEF Sound, Entry, States

\* What an error or a missing pong does to the entry.
Dropped(r) == [NoPing(r) EXCEPT !.pong = FALSE]

LEMMA DroppedKeeps ==
    ASSUME NEW r, Sound(r)
    PROVE  /\ Sound(Dropped(r))
           /\ Dropped(r).state = r.state /\ Dropped(r).ws = r.ws
           /\ Dropped(r).timer = r.timer /\ Dropped(r).authed = r.authed
           /\ Dropped(r).opening = r.opening
<1> DEFINE q == NoPing(r)
<1>1. /\ Sound(q) /\ q.state = r.state /\ q.ws = r.ws
      /\ q.timer = r.timer /\ q.authed = r.authed /\ q.opening = r.opening
  BY NoPingKeeps
<1> HIDE DEF q
<1>2. Dropped(r) = [q EXCEPT !.pong = FALSE]
  BY DEF Dropped, q
<1> QED
  BY <1>1, <1>2 DEF Sound, Entry

-----------------------------------------------------------------------------
(* Types                                                                    *)

\* Sockets belong to the connection that dialled them; what is kept of a
\* socket goes with it; each client keeps to its own queues.
Shape ==
    /\ \A c \in Conns :
         /\ Sound(conn[c])
         /\ conn[c].ws # None => sock[conn[c].ws].conn = c
         /\ conn[c].opening => kind = "bitget" /\ c \in Private
    /\ \A s \in Sockets :
         /\ sock[s].st # "free" => sock[s].conn \in Conns
         /\ sock[s].st = "free" => sent[s] = {} /\ s \notin login /\ ~sock[s].in
         /\ s \in login => sock[s].conn \in Private
         /\ sock[s].st = "leaving" => sock[s].conn \in retired
    /\ unset # None => Okx /\ sock[unset].conn \in Conns
    /\ kind = "bybit" => requests = <<>>
    /\ kind = "bitget" => mutex.queue = <<>> /\ mutex.granted = <<>>
    /\ Range(closings) \subseteq retired

Inv == TypeOK /\ Shape

\* The parts of the typing.
LEMMA Parts ==
    ASSUME TypeOK
    PROVE  /\ kind \in {"bybit", "okx", "okxBatch", "bitget"}
           /\ conn \in [Conns -> Entry] /\ sock \in [Sockets -> SocketRecords]
           /\ mutex \in Mutexes /\ requests \in Seq(Batches)
           /\ \A c \in Conns :
                /\ conn[c] \in Entry /\ conn[c].state \in States
                /\ conn[c].ws \in Sockets \cup {None}
                /\ conn[c].beats \in Nat
                /\ topics[c] \subseteq Topics /\ waiting[c] \in Nat
           /\ \A s \in Sockets : sock[s] \in SocketRecords
                                 /\ sock[s].conn \in Conns \cup {None}
                                 /\ sent[s] \subseteq Topics
           /\ None \notin Sockets /\ Private \subseteq Conns
<1>1. /\ conn \in [Conns -> Entry] /\ sock \in [Sockets -> SocketRecords]
      /\ mutex \in Mutexes /\ requests \in Seq(Batches)
  BY DEF TypeOK, SocketRecords, Mutexes, Batches
<1>2. kind \in {"bybit", "okx", "okxBatch", "bitget"}
  BY WsAssumption DEF TypeOK
<1>3. \A c \in Conns : /\ conn[c] \in Entry /\ conn[c].state \in States
                       /\ conn[c].ws \in Sockets \cup {None}
                       /\ conn[c].beats \in Nat
  BY <1>1 DEF Entry
<1>4. \A s \in Sockets : sock[s] \in SocketRecords
                         /\ sock[s].conn \in Conns \cup {None}
  BY <1>1 DEF SocketRecords
<1>5. /\ \A c \in Conns : topics[c] \subseteq Topics /\ waiting[c] \in Nat
      /\ \A s \in Sockets : sent[s] \subseteq Topics
  BY DEF TypeOK
<1> QED
  BY <1>1, <1>2, <1>3, <1>4, <1>5, WsAssumption

-----------------------------------------------------------------------------
(* Sockets                                                                  *)

\* Sockets only come nearer to their end.
Fades(ss) ==
    /\ ss \in [Sockets -> SocketRecords]
    /\ \A r \in Sockets :
         /\ ss[r].conn = sock[r].conn /\ ss[r].in = sock[r].in
         /\ ss[r].st = "free" <=> sock[r].st = "free"
         /\ ss[r].st \in {"open", "dialing", "leaving"} => ss[r].st = sock[r].st
         /\ sock[r].st \in {"open", "failing", "ended"}
            => ss[r].st \in {"open", "failing", "ended"}

LEMMA TerminatedFades ==
    ASSUME TypeOK, NEW s \in Sockets \cup {None}
    PROVE  /\ Fades(Terminated(s))
           /\ s # None => Terminated(s)[s].st \notin {"open", "dialing", "leaving"}
<1>1. sock \in [Sockets -> SocketRecords] /\ None \notin Sockets
  BY Parts
<1>2. CASE s = None
  BY <1>1, <1>2 DEF Terminated, Fades
<1>3. CASE s # None
  <2> DEFINE st == CASE sock[s].st = "dialing" -> "refused"
                     [] sock[s].st \in {"open", "leaving"} -> "ended"
                     [] OTHER -> sock[s].st
  <2>1. Terminated(s) = [sock EXCEPT ![s].st = st]
    BY <1>3 DEF Terminated
  <2>2. /\ st \in {"free", "refused", "gone", "failing", "ended"}
        /\ st = "free" <=> sock[s].st = "free"
        /\ sock[s].st \in {"open", "failing", "ended"}
           => st \in {"failing", "ended"}
    <3>1. sock[s].st \in {"free", "dialing", "open", "refused", "gone",
                          "failing", "ended", "leaving"}
      BY <1>1, <1>3 DEF SocketRecords
    <3> QED
      BY <3>1
  <2> HIDE DEF st
  <2> QED
    BY <1>1, <1>3, <2>1, <2>2 DEF Fades, SocketRecords
<1> QED
  BY <1>2, <1>3

LEMMA AfterErrorFades ==
    ASSUME TypeOK, NEW ss, Fades(ss), NEW s \in Sockets,
           sock[s].st \in {"refused", "failing"}
    PROVE  /\ Fades(AfterError(ss, s))
           /\ \A r \in Sockets :
                AfterError(ss, s)[r].st \in {"open", "dialing", "leaving"}
                => AfterError(ss, s)[r].st = ss[r].st
<1>1. sock \in [Sockets -> SocketRecords]
  BY Parts
<1>2. CASE sock[s].st = "refused"
  <2>1. AfterError(ss, s) = [ss EXCEPT ![s].st = "gone"]
    BY <1>2 DEF AfterError
  <2> QED
    BY <1>1, <1>2, <2>1 DEF Fades, SocketRecords
<1>3. CASE sock[s].st = "failing"
  <2>1. AfterError(ss, s) = [ss EXCEPT ![s].st = "ended"]
    BY <1>3 DEF AfterError
  <2> QED
    BY <1>1, <1>3, <2>1 DEF Fades, SocketRecords
<1> QED
  BY <1>2, <1>3

LEMMA SockFades ==
    ASSUME TypeOK
    PROVE  Fades(sock)
BY Parts DEF Fades

\* A socket to dial on is nobody's.
LEMMA NewSocketIsFree ==
    ASSUME Free # {}
    PROVE  /\ NewSocket \in Sockets /\ sock[NewSocket].st = "free"
           /\ NewSocket # unset /\ \A c \in Conns : conn[c].ws # NewSocket
<1>1. NewSocket \in Free
  BY Zenon DEF NewSocket
<1> QED
  BY <1>1 DEF Free

-----------------------------------------------------------------------------
(* Batches                                                                  *)

LEMMA RequestType ==
    ASSUME TypeOK, NEW c \in Conns, NEW n \in Nat, NEW ts \in SUBSET Topics
    PROVE  Request(c, n, ts) \in Seq(Batches)
<1> DEFINE one(x) == [conn |-> c, generation |-> n, topics |-> x]
<1>1. \A x \in SUBSET Topics : one(x) \in Batches
  BY DEF Batches
<1>2. CASE ts = {}
  BY <1>2 DEF Request
<1>3. CASE ts # {} /\ kind = "okxBatch"
  <2> DEFINE seq == SetToSeq(ts)
  <2>1. IsFiniteSet(ts)
    BY WsAssumption, FS_Subset
  <2>2. Cardinality(ts) \in Nat /\ seq \in [1..Cardinality(ts) -> ts]
    <3>1. ExistsBijection(1..Cardinality(ts), ts) /\ Cardinality(ts) \in Nat
      BY <2>1, FS_CardinalityType
    <3>2. \E f \in [1..Cardinality(ts) -> ts] : IsInjective(f)
      <4>1. PICK f \in Bijection(1..Cardinality(ts), ts) : TRUE
        BY <3>1 DEF ExistsBijection
      <4>2. f \in [1..Cardinality(ts) -> ts] /\ IsInjective(f)
        BY <4>1 DEF Bijection, Injection, IsInjective
      <4> QED
        BY <4>2
    <3> QED
      BY <3>1, <3>2, Zenon DEF SetToSeq
  <2> HIDE DEF seq
  <2>3. Request(c, n, ts) = [i \in DOMAIN seq |-> one({seq[i]})]
    BY <1>3 DEF Request, seq
  <2>4. DOMAIN seq = 1..Cardinality(ts) /\ \A i \in DOMAIN seq : seq[i] \in ts
    BY <2>2
  <2> DEFINE g == [i \in 1..Cardinality(ts) |-> one({seq[i]})]
  <2>5. g \in [1..Cardinality(ts) -> Batches]
    BY <1>1, <2>4
  <2>6. g \in Seq(Batches)
    <3> HIDE DEF g
    <3> QED
      BY <2>2, <2>5
  <2> QED
    BY <2>3, <2>4, <2>6
<1>4. CASE ts # {} /\ kind # "okxBatch"
  <2>1. Request(c, n, ts) = <<one(ts)>>
    BY <1>4 DEF Request
  <2> QED
    BY <1>1, <2>1
<1> QED
  BY <1>2, <1>3, <1>4

\* A queued request goes behind the others.
LEMMA EnqueueAdds ==
    ASSUME TypeOK, NEW c \in Conns, NEW ts \in SUBSET Topics, Enqueue(c, ts)
    PROVE  /\ requests' \in Seq(Batches)
           /\ Range(requests') = Range(requests)
                                   \cup Range(Request(c, opened[c], ts))
<1>1. opened[c] \in Nat /\ requests \in Seq(Batches)
  BY Parts DEF TypeOK
<1>2. Request(c, opened[c], ts) \in Seq(Batches)
  BY <1>1, RequestType
<1> QED
  BY <1>1, <1>2, RangeOfConcat DEF Enqueue

-----------------------------------------------------------------------------
(* Inv is inductive.                                                        *)

LEMMA InitInv == Init => Inv
<1> SUFFICES ASSUME Init PROVE Inv
  OBVIOUS
<1>1. Fresh \in Entry /\ Sound(Fresh) /\ Fresh.ws = None /\ ~Fresh.opening
  BY DEF Fresh, Entry, Sound, States
<1>2. Unused \in SocketRecords /\ Unused.st = "free" /\ ~Unused.in
  BY DEF Unused, SocketRecords
<1>3. TypeOK
  BY <1>1, <1>2, WsAssumption DEF Init, TypeOK, SocketRecords
<1>4. Shape
  <2>1. \A c \in Conns : conn[c] = Fresh
    BY DEF Init
  <2>2. \A s \in Sockets : sock[s] = Unused /\ sent[s] = {} /\ s \notin login
    BY DEF Init
  <2>3. Range(closings) = {}
    <3>1. closings = <<>>
      BY DEF Init
    <3> QED
      BY <3>1 DEF Range
  <2>4. /\ unset = None /\ requests = <<>>
        /\ mutex = [locked |-> FALSE, queue |-> <<>>, granted |-> <<>>]
    BY DEF Init
  <2> QED
    BY <1>1, <1>2, <2>1, <2>2, <2>3, <2>4 DEF Shape, Unused
<1> QED
  BY <1>3, <1>4 DEF Inv

LEMMA ConnectKeeps ==
    ASSUME Inv, NEW c \in Conns, NEW f \in [Conns -> Entry],
           \A d \in Conns : Sound(f[d]) /\ f[d].ws = conn[d].ws,
           NEW ss \in [Sockets -> SocketRecords],
           \A s \in Sockets : ss[s].conn = sock[s].conn,
           Connect(c, f, ss)
    PROVE  /\ mutex' \in Mutexes /\ (kind = "bitget" => mutex' = mutex)
           /\ conn' \in [Conns -> Entry] /\ sock' \in [Sockets -> SocketRecords]
           /\ \A d \in Conns :
                /\ Sound(conn'[d]) /\ conn'[d].opening = f[d].opening
                /\ conn'[d].ws # None => sock'[conn'[d].ws].conn = d
           /\ \A s \in Sockets :
                \/ sock'[s] = ss[s]
                \/ sock[s].st = "free" /\ s # unset /\ sock'[s] = Dialled(c)
<1> USE DEF Inv
<1>1. /\ mutex \in Mutexes /\ None \notin Sockets
      /\ \A d \in Conns : conn[d].ws \in Sockets \cup {None}
      /\ kind \in {"bybit", "okx", "okxBatch", "bitget"}
  BY Parts
<1>2. \A d \in Conns : f[d].ws # None => f[d].ws \in Sockets /\ ss[f[d].ws].conn = d
  BY <1>1 DEF Shape
<1>3. CASE kind = "bybit"
  <2>1. conn' = f /\ sock' = ss /\ mutex' = Lock(mutex, c)
    BY <1>3 DEF Connect, BybitConnect
  <2> QED
    BY <1>1, <1>2, <1>3, <2>1, LockAdds
<1> DEFINE g == [f[c] EXCEPT !.state = Starts(f[c])]
<1>4. Sound(g) /\ g.ws = f[c].ws /\ g.opening = f[c].opening
  BY DEF Starts, Sound, Entry, States
<1>5. CASE kind \in {"okx", "okxBatch"}
  <2>1. OkxConnect(c, f, ss)
    BY <1>5, Zenon DEF Connect
  <2>2. sock' = ss
    BY <2>1 DEF OkxConnect
  <2>3. CASE conn' = f /\ mutex' = mutex
    BY <1>1, <1>2, <1>5, <2>2, <2>3
  <2>4. CASE conn' = [f EXCEPT ![c] = g] /\ mutex' = Lock(mutex, c)
    <3> HIDE DEF g
    <3>1. conn' \in [Conns -> Entry] /\ \A d \in Conns : Sound(conn'[d])
      BY <1>4, <2>4 DEF Sound
    <3>2. \A d \in Conns : conn'[d].ws = f[d].ws /\ conn'[d].opening = f[d].opening
      BY <1>4, <2>4
    <3> QED
      BY <1>1, <1>2, <1>5, <2>2, <2>4, <3>1, <3>2, LockAdds
  <2> QED
    BY <2>1, <2>3, <2>4 DEF OkxConnect
<1>6. CASE kind = "bitget"
  <2>1. BitgetConnect(c, f, ss)
    BY <1>6, Zenon DEF Connect
  <2>2. mutex' = mutex
    BY <2>1 DEF BitgetConnect
  <2>3. CASE conn' = f /\ sock' = ss
    BY <1>1, <1>2, <2>2, <2>3
  <2> DEFINE h == [g EXCEPT !.ws = NewSocket]
  <2>4. CASE /\ Free # {} /\ sock' = [ss EXCEPT ![NewSocket] = Dialled(c)]
             /\ conn' = [f EXCEPT ![c] = h]
    <3>1. /\ NewSocket \in Sockets /\ sock[NewSocket].st = "free"
          /\ NewSocket # unset /\ \A d \in Conns : f[d].ws # NewSocket
      BY <2>4, NewSocketIsFree
    <3>2. Sound(h) /\ h.ws = NewSocket /\ h.opening = f[c].opening
      <4> HIDE DEF g
      <4> QED
        BY <1>4, <3>1 DEF Sound, Entry
    <3>3. Dialled(c) \in SocketRecords /\ Dialled(c).conn = c
      BY DEF Dialled, SocketRecords
    <3> HIDE DEF h
    <3>4. conn' \in [Conns -> Entry] /\ \A d \in Conns : Sound(conn'[d])
      BY <2>4, <3>2 DEF Sound
    <3>5. /\ conn'[c].ws = NewSocket /\ conn'[c].opening = f[c].opening
          /\ \A d \in Conns \ {c} : conn'[d] = f[d]
      BY <2>4, <3>2
    <3>6. /\ sock' \in [Sockets -> SocketRecords]
          /\ sock'[NewSocket] = Dialled(c)
          /\ \A s \in Sockets \ {NewSocket} : sock'[s] = ss[s]
      BY <2>4, <3>1, <3>3
    <3> QED
      BY <1>1, <1>2, <2>2, <3>1, <3>3, <3>4, <3>5, <3>6
  <2>5. [f EXCEPT ![c].state = Starts(f[c]), ![c].ws = NewSocket]
          = [f EXCEPT ![c] = h]
    OBVIOUS
  <2> QED
    BY <2>1, <2>3, <2>4, <2>5 DEF BitgetConnect
<1> QED
  BY <1>1, <1>3, <1>5, <1>6

LEMMA StoreUpdate ==
    ASSUME Inv, NEW c \in Conns, NEW g, Sound(g),
           g.ws \in {conn[c].ws, None},
           g.opening => kind = "bitget" /\ c \in Private
    PROVE  /\ [conn EXCEPT ![c] = g] \in [Conns -> Entry]
           /\ [conn EXCEPT ![c] = g][c] = g
           /\ \A d \in Conns :
                /\ Sound([conn EXCEPT ![c] = g][d])
                /\ [conn EXCEPT ![c] = g][d].opening
                     => kind = "bitget" /\ d \in Private
                /\ [conn EXCEPT ![c] = g][d].ws \in {conn[d].ws, None}
                /\ d # c => [conn EXCEPT ![c] = g][d] = conn[d]
<1>1. conn \in [Conns -> Entry]
  BY Parts DEF Inv
<1>2. /\ [conn EXCEPT ![c] = g] \in [Conns -> Entry]
      /\ [conn EXCEPT ![c] = g][c] = g
      /\ \A d \in Conns : d # c => [conn EXCEPT ![c] = g][d] = conn[d]
  BY <1>1 DEF Sound
<1> QED
  BY <1>2 DEF Inv, Shape

\* A step that writes one entry and lets sockets fade.
LEMMA EntryInv ==
    ASSUME Inv, NEW c \in Conns, NEW g, Sound(g),
           g.ws \in {conn[c].ws, None},
           g.opening => kind = "bitget" /\ c \in Private,
           conn' = [conn EXCEPT ![c] = g],
           Fades(sock'), UNCHANGED <<kind, sent, unset, requests, closings, retired>>,
           stray' \in Strays,
           login' \subseteq login, mutex' \in Mutexes,
           kind = "bitget" => mutex' = mutex,
           topics' \in [Conns -> SUBSET Topics],
           UNCHANGED <<sleeping, opened>>, waiting' \in [Conns -> Nat],
           faults' \in 0..MaxFaults, UNCHANGED calls
    PROVE  Inv'
<1>1. /\ conn' \in [Conns -> Entry]
      /\ \A d \in Conns :
           /\ Sound(conn'[d])
           /\ conn'[d].opening => kind = "bitget" /\ d \in Private
           /\ conn'[d].ws \in {conn[d].ws, None}
  BY StoreUpdate
<1>2. /\ sock' \in [Sockets -> SocketRecords]
      /\ \A r \in Sockets :
           /\ sock'[r].conn = sock[r].conn /\ sock'[r].in = sock[r].in
           /\ sock'[r].st = "free" <=> sock[r].st = "free"
           /\ sock'[r].st = "leaving" => sock[r].st = "leaving"
  BY DEF Fades
<1>3. TypeOK'
  BY <1>1, <1>2 DEF Inv, TypeOK, SocketRecords, Mutexes, Strays
<1>4. \A d \in Conns : conn[d].ws \in Sockets \cup {None}
  BY Parts DEF Inv
<1>5. unset \in Sockets \cup {None}
  BY DEF Inv, TypeOK
<1>6. \A d \in Conns : conn'[d].ws # None => sock'[conn'[d].ws].conn = d
  BY <1>1, <1>2, <1>4 DEF Inv, Shape
<1>7. \A s \in Sockets :
         /\ sock'[s].st # "free" => sock'[s].conn \in Conns
         /\ sock'[s].st = "free" => sent'[s] = {} /\ s \notin login'
                                    /\ ~sock'[s].in
         /\ s \in login' => sock'[s].conn \in Private
         /\ sock'[s].st = "leaving" => sock'[s].conn \in retired'
  BY <1>2 DEF Inv, Shape
<1>8. unset' # None => Okx' /\ sock'[unset'].conn \in Conns
  BY <1>2, <1>5 DEF Inv, Shape, Okx
<1>9. /\ kind' = "bybit" => requests' = <<>>
      /\ kind' = "bitget" => mutex'.queue = <<>> /\ mutex'.granted = <<>>
      /\ Range(closings') \subseteq retired'
  BY DEF Inv, Shape
<1>10. Shape'
  BY <1>1, <1>6, <1>7, <1>8, <1>9 DEF Shape
<1> QED
  BY <1>3, <1>10 DEF Inv

LEMMA PongInv ==
    ASSUME Inv, NEW c \in Conns, OnWsMessage(c) \/ Ping(c)
    PROVE  Inv'
<1>1. PICK b \in BOOLEAN : conn' = [conn EXCEPT ![c].pong = b]
  BY DEF OnWsMessage, Ping
<1> DEFINE g == [conn[c] EXCEPT !.pong = b]
<1>2. conn' = [conn EXCEPT ![c] = g]
  BY <1>1
<1>3. Sound(conn[c]) /\ (conn[c].opening => kind = "bitget" /\ c \in Private)
  BY DEF Inv, Shape
<1>4. Sound(g) /\ g.ws = conn[c].ws /\ g.opening = conn[c].opening
  BY <1>3 DEF Sound, Entry
<1>5. /\ UNCHANGED <<kind, topics, netVars, lockVars, queueVars, callVars,
                     faults>>
  BY DEF OnWsMessage, Ping
<1>6. Fades(sock')
  BY <1>5, SockFades DEF netVars, Inv
<1> HIDE DEF g
<1>7. mutex \in Mutexes /\ TypeOK
  BY Parts DEF Inv
<1> QED
  BY <1>2, <1>3, <1>4, <1>5, <1>6, <1>7, EntryInv
     DEF netVars, lockVars, queueVars, callVars, TypeOK, Strays

LEMMA PongTimeoutInv ==
    ASSUME Inv, NEW c \in Conns, PongTimeout(c)
    PROVE  Inv'
<1>1. /\ Sound(conn[c]) /\ (conn[c].opening => kind = "bitget" /\ c \in Private)
      /\ conn[c].ws \in Sockets \cup {None} /\ mutex \in Mutexes /\ TypeOK
  BY Parts DEF Inv, Shape
<1>2. Fades(Terminated(conn[c].ws))
  BY <1>1, TerminatedFades
<1>3. /\ faults' \in 0..MaxFaults
      /\ UNCHANGED <<kind, topics, sent, login, lockVars, queueVars, callVars>>
  BY WsAssumption DEF PongTimeout, Inv, TypeOK
<1>4. sock' = Terminated(conn[c].ws)
  BY DEF PongTimeout, BitgetPongTimeout, ReconnectableClose
<1>5. \E g : /\ conn' = [conn EXCEPT ![c] = g]
             /\ Sound(g) /\ g.ws = conn[c].ws /\ g.opening = conn[c].opening
  <2>1. CASE kind = "bitget"
    <3> DEFINE g == [conn[c] EXCEPT !.pong = FALSE]
    <3>1. conn' = [conn EXCEPT ![c] = g]
      BY <2>1 DEF PongTimeout, BitgetPongTimeout
    <3>2. Sound(g) /\ g.ws = conn[c].ws /\ g.opening = conn[c].opening
      BY <1>1 DEF Sound, Entry
    <3> QED
      BY <3>1, <3>2
  <2>2. CASE kind # "bitget"
    <3>1. \/ conn' = [conn EXCEPT ![c] = Dropped(conn[c])]
          \/ conn' = [conn EXCEPT ![c] = ReconnectWithDelay(Dropped(conn[c]))]
      BY <2>2 DEF PongTimeout, ReconnectableClose, Dropped
    <3>2. /\ Sound(Dropped(conn[c])) /\ Dropped(conn[c]).ws = conn[c].ws
          /\ Dropped(conn[c]).opening = conn[c].opening
      BY <1>1, DroppedKeeps
    <3>3. LET g == ReconnectWithDelay(Dropped(conn[c]))
          IN  Sound(g) /\ g.ws = conn[c].ws /\ g.opening = conn[c].opening
      BY <3>2, ReconnectSets
    <3> QED
      BY <3>1, <3>2, <3>3
  <2> QED
    BY <2>1, <2>2
<1> QED
  BY <1>1, <1>2, <1>3, <1>4, <1>5, EntryInv
     DEF lockVars, queueVars, callVars, TypeOK, Strays

LEMMA SocketFailsInv ==
    ASSUME Inv, NEW s \in Sockets, SocketFails(s)
    PROVE  Inv'
<1>1. sock \in [Sockets -> SocketRecords] /\ mutex \in Mutexes /\ TypeOK
  BY Parts DEF Inv
<1>2. /\ faults' \in 0..MaxFaults
      /\ UNCHANGED <<kind, conn, topics, sent, login, lockVars, queueVars,
                     callVars>>
  BY WsAssumption DEF SocketFails, Inv, TypeOK
<1>3. PICK st \in {"refused", "failing", "ended"} :
         /\ sock' = [sock EXCEPT ![s].st = st]
         /\ sock[s].st \in {"dialing", "open"}
         /\ sock[s].st = "open" => st \in {"failing", "ended"}
  BY DEF SocketFails
<1>4. Fades(sock')
  BY <1>1, <1>3 DEF Fades, SocketRecords
<1>5. TypeOK'
  BY <1>1, <1>2, <1>4
     DEF TypeOK, Fades, SocketRecords, lockVars, queueVars, callVars
<1>6. \A d \in Conns : conn[d].ws \in Sockets \cup {None}
  BY Parts DEF Inv
<1>7. unset \in Sockets \cup {None}
  BY DEF Inv, TypeOK
<1>8. Shape'
  BY <1>2, <1>4, <1>6, <1>7
     DEF Inv, Shape, Okx, Fades, lockVars, queueVars, callVars
<1> QED
  BY <1>5, <1>8 DEF Inv

\* A step that connects c, or may: sockets keep their state, a free one may
\* start to dial, and only sockets that exist are asked for topics.
LEMMA JoinInv ==
    ASSUME Inv, NEW c \in Conns, NEW ss \in [Sockets -> SocketRecords],
           \A s \in Sockets : /\ ss[s].conn = sock[s].conn
                              /\ ss[s].st = sock[s].st
                              /\ ss[s].in => sock[s].in \/ sock[s].st # "free",
           conn' \in [Conns -> Entry], sock' \in [Sockets -> SocketRecords],
           \A d \in Conns :
                /\ Sound(conn'[d]) /\ conn'[d].opening = conn[d].opening
                /\ conn'[d].ws # None => sock'[conn'[d].ws].conn = d,
           \A s \in Sockets :
                \/ sock'[s] = ss[s]
                \/ sock[s].st = "free" /\ s # unset /\ sock'[s] = Dialled(c),
           UNCHANGED <<kind, unset, opened, closings, retired, stray, faults>>,
           topics' \in [Conns -> SUBSET Topics],
           sent' \in [Sockets -> SUBSET Topics],
           \A s \in Sockets : sock[s].st = "free" => sent'[s] = sent[s],
           login' \subseteq login, mutex' \in Mutexes,
           kind = "bitget" => mutex' = mutex,
           requests' \in Seq(Batches), kind = "bybit" => requests' = requests,
           sleeping' \in [Conns -> Nat], waiting' \in [Conns -> Nat],
           calls' \in 0..MaxCalls
    PROVE  Inv'
<1>1. TypeOK'
  BY DEF Inv, TypeOK, SocketRecords, Mutexes, Batches
<1>2. \A d \in Conns : /\ Sound(conn'[d])
                       /\ conn'[d].opening => kind' = "bitget" /\ d \in Private
                       /\ conn'[d].ws # None => sock'[conn'[d].ws].conn = d
  BY DEF Inv, Shape
<1>3. ASSUME NEW s \in Sockets
      PROVE  /\ sock'[s].st # "free" => sock'[s].conn \in Conns
             /\ sock'[s].st = "free" => sent'[s] = {} /\ s \notin login'
                                        /\ ~sock'[s].in
             /\ s \in login' => sock'[s].conn \in Private
             /\ sock'[s].st = "leaving" => sock'[s].conn \in retired'
  <2> DEFINE was == sock[s]
  <2>0. /\ was.st # "free" => was.conn \in Conns
        /\ was.st = "free" => sent[s] = {} /\ s \notin login /\ ~was.in
        /\ s \in login => was.conn \in Private
        /\ was.st = "leaving" => was.conn \in retired
    BY DEF Inv, Shape
  <2>1. CASE sock'[s] = ss[s]
    <3>1. sock'[s].conn = was.conn /\ sock'[s].st = was.st
      BY <2>1
    <3>2. was.st = "free" => ~sock'[s].in /\ sent'[s] = {}
      BY <2>0, <2>1
    <3> HIDE DEF was
    <3> QED
      BY <2>0, <3>1, <3>2
  <2>2. CASE sock[s].st = "free" /\ sock'[s] = Dialled(c)
    <3>1. sock'[s].st = "dialing" /\ sock'[s].conn = c
      BY <2>2 DEF Dialled
    <3> QED
      BY <2>2, <3>1 DEF Inv, Shape
  <2> QED
    BY <2>1, <2>2
<1>4. unset' # None => Okx' /\ sock'[unset'].conn \in Conns
  <2>1. unset \in Sockets \cup {None}
    BY DEF Inv, TypeOK
  <2> QED
    BY <2>1 DEF Inv, Shape, Okx
<1>5. /\ kind' = "bybit" => requests' = <<>>
      /\ kind' = "bitget" => mutex'.queue = <<>> /\ mutex'.granted = <<>>
      /\ Range(closings') \subseteq retired'
  BY DEF Inv, Shape
<1>6. Shape'
  BY <1>2, <1>3, <1>4, <1>5 DEF Shape
<1> QED
  BY <1>1, <1>6 DEF Inv

LEMMA BybitDialsInv ==
    ASSUME Inv, BybitDials
    PROVE  Inv'
<1> USE DEF Inv
<1> DEFINE c == Head(mutex.granted)
           m == [mutex EXCEPT !.granted = Tail(mutex.granted)]
<1>1. /\ mutex \in Mutexes /\ mutex.granted \in Seq(Conns) /\ kind = "bybit"
      /\ conn \in [Conns -> Entry] /\ sock \in [Sockets -> SocketRecords]
      /\ mutex.granted # <<>>
  BY Parts DEF Mutexes, BybitDials
<1>2. c \in Conns /\ m \in Mutexes
  BY <1>1, RangeOfHead DEF Mutexes
<1>3. /\ UNCHANGED <<kind, topics, sent, login, unset, queueVars, callVars,
                     faults>>
  BY DEF BybitDials
<1>4. \A d \in Conns : /\ Sound(conn[d]) /\ conn[d].ws \in Sockets \cup {None}
                       /\ conn[d].ws # None => sock[conn[d].ws].conn = d
  BY Parts DEF Shape
<1>5. sleeping \in [Conns -> Nat] /\ waiting \in [Conns -> Nat]
  BY DEF TypeOK
<1>6. CASE /\ mutex' \in {m, Release(m)} /\ UNCHANGED <<conn, sock, sleeping>>
           /\ waiting' \in {waiting, [waiting EXCEPT ![c] = waiting[c] + 1]}
  <2>1. mutex' \in Mutexes
    BY <1>2, <1>6, ReleaseMoves
  <2>2. waiting' \in [Conns -> Nat]
    <3> HIDE DEF c
    <3>1. CASE waiting' = waiting
      BY <1>5, <3>1
    <3>2. CASE waiting' = [waiting EXCEPT ![c] = waiting[c] + 1]
      BY <1>2, <1>5, <3>2
    <3> QED
      BY <1>6, <3>1, <3>2
  <2> HIDE DEF c, m
  <2> QED
    BY <1>1, <1>2, <1>3, <1>4, <1>5, <1>6, <2>1, <2>2, JoinInv
       DEF TypeOK, Batches, queueVars, callVars
<1> DEFINE g == [conn[c] EXCEPT !.state = Starts(conn[c]), !.ws = NewSocket,
                                !.promise = TRUE]
<1>7. CASE /\ Free # {} /\ mutex' = m /\ UNCHANGED waiting
           /\ sock' = [sock EXCEPT ![NewSocket] = Dialled(c)]
           /\ conn' = [conn EXCEPT ![c] = g]
           /\ sleeping' = [sleeping EXCEPT ![c] = sleeping[c] + 1]
  <2>1. /\ NewSocket \in Sockets /\ sock[NewSocket].st = "free"
        /\ NewSocket # unset /\ \A d \in Conns : conn[d].ws # NewSocket
    BY <1>7, NewSocketIsFree
  <2>2. Sound(g) /\ g.ws = NewSocket /\ g.opening = conn[c].opening
    <3>1. Starts(conn[c]) \in States /\ conn[c] \in Entry
      BY <1>2, <1>4 DEF Starts, States, Sound, Entry
    <3> QED
      BY <1>2, <1>4, <2>1, <3>1 DEF Sound, Entry
  <2>3. Dialled(c) \in SocketRecords /\ Dialled(c).conn = c
    BY <1>2 DEF Dialled, SocketRecords
  <2>4. sleeping' \in [Conns -> Nat]
    BY <1>2, <1>5, <1>7
  <2> HIDE DEF c, m, g
  <2>5. conn' \in [Conns -> Entry] /\ \A d \in Conns : Sound(conn'[d])
    BY <1>1, <1>4, <1>7, <2>2 DEF Sound
  <2>6. /\ sock' \in [Sockets -> SocketRecords]
        /\ sock'[NewSocket] = Dialled(c)
        /\ \A s \in Sockets \ {NewSocket} : sock'[s] = sock[s]
    BY <1>1, <1>7, <2>1, <2>3
  <2>7. /\ conn'[c].ws = NewSocket /\ conn'[c].opening = conn[c].opening
        /\ \A d \in Conns \ {c} : conn'[d] = conn[d]
    BY <1>1, <1>2, <1>7, <2>2
  <2>8. \A d \in Conns : /\ conn'[d].opening = conn[d].opening
                         /\ conn'[d].ws # None => sock'[conn'[d].ws].conn = d
    BY <1>4, <2>1, <2>3, <2>6, <2>7
  <2>9. \A s \in Sockets :
          \/ sock'[s] = sock[s]
          \/ sock[s].st = "free" /\ s # unset /\ sock'[s] = Dialled(c)
    BY <2>1, <2>6
  <2> QED
    BY <1>1, <1>2, <1>3, <1>5, <1>7, <2>4, <2>5, <2>6, <2>8, <2>9, JoinInv
       DEF TypeOK, Batches, queueVars, callVars
<1>8. \/ /\ mutex' \in {m, Release(m)} /\ UNCHANGED <<conn, sock, sleeping>>
         /\ waiting' \in {waiting, [waiting EXCEPT ![c] = waiting[c] + 1]}
      \/ /\ Free # {} /\ mutex' = m /\ UNCHANGED waiting
         /\ sock' = [sock EXCEPT ![NewSocket] = Dialled(c)]
         /\ conn' = [conn EXCEPT ![c] = g]
         /\ sleeping' = [sleeping EXCEPT ![c] = sleeping[c] + 1]
  <2>1. [conn EXCEPT ![c].state = Starts(conn[c]), ![c].ws = NewSocket,
                     ![c].promise = TRUE] = [conn EXCEPT ![c] = g]
    OBVIOUS
  <2> HIDE DEF g
  <2> QED
    BY <2>1 DEF BybitDials
<1> QED
  BY <1>6, <1>7, <1>8

LEMMA BybitWakesInv ==
    ASSUME Inv, NEW c \in Conns, BybitWakes(c)
    PROVE  Inv'
<1>1. /\ mutex \in Mutexes /\ kind = "bybit" /\ TypeOK
      /\ conn \in [Conns -> Entry] /\ sock \in [Sockets -> SocketRecords]
      /\ \A d \in Conns : /\ Sound(conn[d])
                          /\ conn[d].ws # None => sock[conn[d].ws].conn = d
  BY Parts DEF BybitWakes, Inv, Shape
<1>2. /\ sleeping' = [sleeping EXCEPT ![c] = sleeping[c] - 1] /\ sleeping[c] > 0
      /\ \/ waiting' = [waiting EXCEPT ![c] = waiting[c] + 1] /\ UNCHANGED mutex
         \/ mutex' = Release(mutex) /\ UNCHANGED waiting
      /\ UNCHANGED <<kind, conn, topics, netVars, unset, queueVars, callVars,
                     faults>>
  BY DEF BybitWakes
<1>3. sleeping' \in [Conns -> Nat] /\ waiting' \in [Conns -> Nat]
  <2>0. /\ sleeping \in [Conns -> Nat] /\ waiting \in [Conns -> Nat]
    BY DEF Inv, TypeOK
  <2>1. /\ sleeping[c] - 1 \in Nat /\ waiting[c] + 1 \in Nat
    BY <1>2, <2>0
  <2>2. sleeping' \in [Conns -> Nat]
    BY <1>2, <2>0, <2>1
  <2>3. CASE waiting' = [waiting EXCEPT ![c] = waiting[c] + 1]
    BY <2>0, <2>1, <2>2, <2>3
  <2>4. CASE UNCHANGED waiting
    BY <2>0, <2>1, <2>2, <2>4
  <2> QED
    BY <1>2, <2>3, <2>4
<1>4. mutex' \in Mutexes
  BY <1>1, <1>2, ReleaseMoves
<1>5. /\ UNCHANGED <<kind, conn, sock, sent, login, topics, requests, unset, opened>>
      /\ UNCHANGED <<closings, retired, stray, faults, calls>>
      /\ topics \in [Conns -> SUBSET Topics] /\ sent \in [Sockets -> SUBSET Topics]
      /\ requests \in Seq(Batches) /\ calls \in 0..MaxCalls
  BY <1>1, <1>2 DEF TypeOK, Batches, netVars, queueVars, callVars
<1> QED
  BY <1>1, <1>3, <1>4, <1>5, JoinInv

LEMMA ReconnectTimerInv ==
    ASSUME Inv, NEW c \in Conns, ReconnectTimer(c)
    PROVE  Inv'
<1>1. /\ conn \in [Conns -> Entry] /\ sock \in [Sockets -> SocketRecords] /\ TypeOK
      /\ \A d \in Conns : Sound(conn[d])
  BY Parts DEF Inv, Shape
<1> DEFINE g == [conn[c] EXCEPT !.timer = FALSE]
           f == [conn EXCEPT ![c] = g]
<1>2. Sound(g) /\ g.ws = conn[c].ws /\ g.opening = conn[c].opening
  BY <1>1 DEF Sound, Entry
<1>3. /\ Connect(c, f, sock)
      /\ UNCHANGED <<kind, topics, sent, login, sleeping, waiting, unset,
                     queueVars, callVars, faults>>
  BY DEF ReconnectTimer
<1> HIDE DEF g
<1>4. /\ f \in [Conns -> Entry]
      /\ \A d \in Conns : Sound(f[d]) /\ f[d].ws = conn[d].ws
                          /\ f[d].opening = conn[d].opening
  BY <1>1, <1>2 DEF Sound
<1> HIDE DEF f
<1>5. /\ mutex' \in Mutexes /\ (kind = "bitget" => mutex' = mutex)
      /\ conn' \in [Conns -> Entry] /\ sock' \in [Sockets -> SocketRecords]
      /\ \A d \in Conns :
           /\ Sound(conn'[d]) /\ conn'[d].opening = conn[d].opening
           /\ conn'[d].ws # None => sock'[conn'[d].ws].conn = d
      /\ \A s \in Sockets :
           \/ sock'[s] = sock[s]
           \/ sock[s].st = "free" /\ s # unset /\ sock'[s] = Dialled(c)
  BY <1>1, <1>3, <1>4, ConnectKeeps
<1> QED
  BY <1>1, <1>3, <1>5, JoinInv DEF TypeOK, Batches, queueVars, callVars

LEMMA OkxDialsInv ==
    ASSUME Inv, OkxDials
    PROVE  Inv'
<1> DEFINE c == Head(mutex.granted)
           m == [mutex EXCEPT !.granted = Tail(mutex.granted)]
<1>1. /\ mutex \in Mutexes /\ mutex.granted \in Seq(Conns)
      /\ sock \in [Sockets -> SocketRecords] /\ None \notin Sockets
      /\ mutex.granted # <<>> /\ Okx /\ TypeOK /\ Shape
  BY Parts DEF Mutexes, OkxDials, Inv
<1>2. c \in Conns /\ m \in Mutexes
  BY <1>1, RangeOfHead DEF Mutexes
<1>3. /\ sock' = [sock EXCEPT ![NewSocket] = Dialled(c)]
      /\ unset' = NewSocket /\ mutex' = m
      /\ UNCHANGED <<kind, conn, topics, sent, login, sleeping, waiting,
                     queueVars, callVars, faults>>
  BY DEF OkxDials
<1>4. /\ NewSocket \in Sockets /\ sock[NewSocket].st = "free"
      /\ NewSocket # unset /\ \A d \in Conns : conn[d].ws # NewSocket
  BY NewSocketIsFree DEF OkxDials
<1>5. /\ Dialled(c) \in SocketRecords /\ Dialled(c).conn = c
      /\ Dialled(c).st = "dialing"
  BY <1>2 DEF Dialled, SocketRecords
<1> HIDE DEF c, m
<1>6. /\ sock' \in [Sockets -> SocketRecords] /\ sock'[NewSocket] = Dialled(c)
      /\ \A s \in Sockets \ {NewSocket} : sock'[s] = sock[s]
  BY <1>1, <1>3, <1>4, <1>5
<1>7. TypeOK'
  BY <1>1, <1>2, <1>3, <1>4, <1>6
     DEF TypeOK, SocketRecords, Mutexes, queueVars, callVars
<1>8. \A d \in Conns : /\ Sound(conn'[d])
                       /\ conn'[d].opening => kind' = "bitget" /\ d \in Private
                       /\ conn'[d].ws # None => sock'[conn'[d].ws].conn = d
  <2>1. \A d \in Conns : conn[d].ws \in Sockets \cup {None}
    BY <1>1, Parts
  <2> QED
    BY <1>1, <1>3, <1>4, <1>6, <2>1 DEF Shape
<1>9. \A s \in Sockets :
         /\ sock'[s].st # "free" => sock'[s].conn \in Conns
         /\ sock'[s].st = "free" => sent'[s] = {} /\ s \notin login'
                                    /\ ~sock'[s].in
         /\ s \in login' => sock'[s].conn \in Private
         /\ sock'[s].st = "leaving" => sock'[s].conn \in retired'
  BY <1>1, <1>2, <1>3, <1>4, <1>5, <1>6 DEF Shape, callVars
<1>10. unset' # None => Okx' /\ sock'[unset'].conn \in Conns
  BY <1>1, <1>2, <1>3, <1>5, <1>6 DEF Okx
<1>11. /\ kind' = "bybit" => requests' = <<>>
       /\ kind' = "bitget" => mutex'.queue = <<>> /\ mutex'.granted = <<>>
       /\ Range(closings') \subseteq retired'
  BY <1>1, <1>3 DEF Shape, Okx, queueVars, callVars
<1>12. Shape'
  BY <1>8, <1>9, <1>10, <1>11 DEF Shape
<1> QED
  BY <1>7, <1>12 DEF Inv

LEMMA OkxRegistersInv ==
    ASSUME Inv, OkxRegisters
    PROVE  Inv'
<1> DEFINE c == sock[unset].conn
           g == [conn[c] EXCEPT !.ws = unset]
<1>1. /\ TypeOK /\ Shape /\ mutex \in Mutexes
      /\ conn \in [Conns -> Entry] /\ sock \in [Sockets -> SocketRecords]
      /\ unset \in Sockets /\ c \in Conns /\ Okx
  BY Parts DEF OkxRegisters, Inv, Shape, TypeOK
<1>2. conn' = [conn EXCEPT ![c] = g]
  BY DEF OkxRegisters
<1>3. /\ unset' = None /\ mutex' = Release(mutex)
      /\ UNCHANGED <<kind, topics, netVars, sleeping, waiting, queueVars,
                     callVars, faults>>
  BY DEF OkxRegisters
<1>4. Sound(g) /\ g.ws = unset /\ g.opening = conn[c].opening
  BY <1>1 DEF Shape, Sound, Entry
<1>5. mutex' \in Mutexes
  BY <1>1, <1>3, ReleaseMoves
<1> HIDE DEF g
<1>6. /\ conn' \in [Conns -> Entry] /\ conn'[c] = g
      /\ \A d \in Conns : Sound(conn'[d]) /\ (d # c => conn'[d] = conn[d])
  BY <1>1, <1>2, <1>4 DEF Sound, Shape
<1>7. TypeOK'
  BY <1>1, <1>3, <1>5, <1>6
     DEF TypeOK, SocketRecords, Mutexes, netVars, queueVars, callVars
<1>8. \A d \in Conns : /\ Sound(conn'[d])
                       /\ conn'[d].opening => kind' = "bitget" /\ d \in Private
                       /\ conn'[d].ws # None => sock'[conn'[d].ws].conn = d
  BY <1>1, <1>3, <1>4, <1>6 DEF Shape, netVars
<1>9. \A s \in Sockets :
         /\ sock'[s].st # "free" => sock'[s].conn \in Conns
         /\ sock'[s].st = "free" => sent'[s] = {} /\ s \notin login'
                                    /\ ~sock'[s].in
         /\ s \in login' => sock'[s].conn \in Private
         /\ sock'[s].st = "leaving" => sock'[s].conn \in retired'
  BY <1>1, <1>3 DEF Shape, netVars, callVars
<1>10. /\ kind' = "bybit" => requests' = <<>>
       /\ kind' = "bitget" => mutex'.queue = <<>> /\ mutex'.granted = <<>>
       /\ Range(closings') \subseteq retired'
  BY <1>1, <1>3 DEF Shape, Okx, queueVars, callVars
<1>11. Shape'
  BY <1>3, <1>8, <1>9, <1>10 DEF Shape
<1> QED
  BY <1>7, <1>11 DEF Inv

\* A send reaches the registered socket of c, and only an open one.
LEMMA SendNowAdds ==
    ASSUME TypeOK, NEW c \in Conns, NEW ts \in SUBSET Topics, SendNow(c, ts)
    PROVE  /\ sent' \in [Sockets -> SUBSET Topics]
           /\ \A s \in Sockets :
                /\ sent[s] \subseteq sent'[s]
                /\ sent'[s] # sent[s] => s = conn[c].ws /\ sock[s].st = "open"
           /\ IsWsOpen(c) => ts \subseteq sent'[conn[c].ws]
<1>1. /\ sent \in [Sockets -> SUBSET Topics]
      /\ conn[c].ws \in Sockets \cup {None} /\ None \notin Sockets
  BY Parts DEF TypeOK
<1>2. CASE IsWsOpen(c)
  <2> DEFINE w == conn[c].ws
  <2>1. w \in Sockets /\ sock[w].st = "open"
    BY <1>1, <1>2 DEF IsWsOpen, IsOpen
  <2>2. sent' = [sent EXCEPT ![w] = sent[w] \cup ts]
    BY <1>2 DEF SendNow
  <2> HIDE DEF w
  <2>3. sent' \in [Sockets -> SUBSET Topics]
    BY <1>1, <2>1, <2>2
  <2>4. sent'[w] = sent[w] \cup ts /\ \A s \in Sockets \ {w} : sent'[s] = sent[s]
    BY <1>1, <2>1, <2>2
  <2> QED
    BY <2>1, <2>3, <2>4 DEF w
<1>3. CASE ~IsWsOpen(c)
  BY <1>1, <1>3 DEF SendNow
<1> QED
  BY <1>2, <1>3

LEMMA OkxRequestsInv ==
    ASSUME Inv, OkxRequests
    PROVE  Inv'
<1>1. /\ TypeOK /\ mutex \in Mutexes /\ requests \in Seq(Batches)
      /\ conn \in [Conns -> Entry] /\ sock \in [Sockets -> SocketRecords]
      /\ requests # <<>> /\ Okx
      /\ \A d \in Conns : /\ Sound(conn[d])
                          /\ conn[d].ws # None => sock[conn[d].ws].conn = d
  BY Parts DEF OkxRequests, Inv, Shape
<1>2. /\ SendNow(Head(requests).conn, Head(requests).topics)
      /\ requests' = Tail(requests)
      /\ UNCHANGED <<kind, conn, topics, sock, login, lockVars, opened,
                     callVars, faults>>
  BY DEF OkxRequests
<1>3. Head(requests) \in Batches /\ Tail(requests) \in Seq(Batches)
  BY <1>1, RangeOfHead
<1>4. Head(requests).conn \in Conns /\ Head(requests).topics \in SUBSET Topics
  BY <1>3 DEF Batches
<1>5. /\ sent' \in [Sockets -> SUBSET Topics]
      /\ \A s \in Sockets : sock[s].st = "free" => sent'[s] = sent[s]
  BY <1>1, <1>2, <1>4, SendNowAdds
<1>6. kind # "bybit"
  BY <1>1 DEF Okx
<1> QED
  BY <1>1, <1>2, <1>3, <1>4, <1>5, <1>6, JoinInv DEF TypeOK, lockVars, callVars

\* Taking a batch out of the queue leaves the others in it.
LEMMA RemoveAtLeaves ==
    ASSUME NEW S, NEW q \in Seq(S), NEW i \in DOMAIN q
    PROVE  /\ RemoveAt(q, i) \in Seq(S)
           /\ \A x \in Range(q) : x = q[i] \/ x \in Range(RemoveAt(q, i))
<1>1. Len(q) \in Nat /\ DOMAIN q = 1..Len(q) /\ \A j \in 1..Len(q) : q[j] \in S
  BY LenProperties, ElementOfSeq
<1> DEFINE len == Len(q)
           a == SubSeq(q, 1, i - 1)
           b == SubSeq(q, i + 1, len)
<1>2. i \in 1..len /\ i - 1 \in Int /\ i + 1 \in Int /\ len \in Int /\ 1 \in Int
  BY <1>1
<1>3. (\A j \in 1..(i - 1) : q[j] \in S) /\ (\A j \in (i + 1)..len : q[j] \in S)
  BY <1>1, <1>2
<1>4. /\ a \in Seq(S) /\ Len(a) = (IF 1 <= i - 1 THEN (i - 1) - 1 + 1 ELSE 0)
      /\ \A j \in 1..((i - 1) - 1 + 1) : a[j] = q[1 + j - 1]
  <2> HIDE DEF len
  <2> QED
    BY <1>2, <1>3, SubSeqProperties
<1>5. /\ b \in Seq(S) /\ Len(b) = (IF i + 1 <= len THEN len - (i + 1) + 1 ELSE 0)
      /\ \A j \in 1..(len - (i + 1) + 1) : b[j] = q[(i + 1) + j - 1]
  <2> HIDE DEF len
  <2> QED
    BY <1>2, <1>3, SubSeqProperties
<1>6. RemoveAt(q, i) = a \o b
  BY DEF RemoveAt
<1> HIDE DEF a, b
<1>7. RemoveAt(q, i) \in Seq(S) /\ Range(RemoveAt(q, i)) = Range(a) \cup Range(b)
  <2>1. a \o b \in Seq(S) /\ Range(a \o b) = Range(a) \cup Range(b)
    BY <1>4, <1>5, RangeOfConcat
  <2> QED
    BY <1>6, <2>1, Zenon
<1>8. ASSUME NEW j \in 1..len, j # i
      PROVE  q[j] \in Range(a) \cup Range(b)
  <2>1. CASE j < i
    <3>1. j \in 1..Len(a) /\ a[j] = q[j]
      BY <1>2, <1>4, <2>1
    <3> QED
      BY <1>4, <3>1, RangeOf
  <2>2. CASE j > i
    <3> DEFINE k == j - i
    <3>1. k \in 1..(len - (i + 1) + 1) /\ (i + 1) + k - 1 = j
      BY <1>1, <1>2, <1>8, <2>2
    <3>2. Len(b) = len - (i + 1) + 1
      BY <1>1, <1>2, <1>5, <1>8, <2>2
    <3> HIDE DEF k
    <3>3. b[k] = q[j]
      BY <1>5, <3>1
    <3> QED
      BY <1>5, <3>1, <3>2, <3>3, RangeOf
  <2> QED
    BY <1>2, <1>8, <2>1, <2>2
<1>9. \A x \in Range(q) : x = q[i] \/ x \in Range(RemoveAt(q, i))
  <2> TAKE x \in Range(q)
  <2>1. PICK j \in 1..len : x = q[j]
    BY RangeOf
  <2> QED
    BY <2>1, <1>7, <1>8
<1> QED
  BY <1>7, <1>9

LEMMA BitgetRequestsInv ==
    ASSUME Inv, NEW c \in Conns, BitgetRequests(c)
    PROVE  Inv'
<1>1. /\ TypeOK /\ mutex \in Mutexes /\ requests \in Seq(Batches)
      /\ conn \in [Conns -> Entry] /\ sock \in [Sockets -> SocketRecords]
      /\ \A d \in Conns : /\ Sound(conn[d])
                          /\ conn[d].ws # None => sock[conn[d].ws].conn = d
  BY Parts DEF Inv, Shape
<1>2. PICK i \in DOMAIN requests :
         /\ requests' = RemoveAt(requests, i)
         /\ SendNow(c, requests[i].topics) \/ UNCHANGED sent
  BY DEF BitgetRequests
<1>3. /\ kind = "bitget"
      /\ UNCHANGED <<kind, conn, topics, sock, login, lockVars, opened,
                     callVars, faults>>
  BY DEF BitgetRequests
<1>4. requests' \in Seq(Batches)
  BY <1>1, <1>2, RemoveAtLeaves
<1>5. requests[i].topics \in SUBSET Topics
  <2>1. requests[i] \in Batches
    BY <1>1, <1>2, LenProperties, ElementOfSeq
  <2> QED
    BY <2>1 DEF Batches
<1>6. /\ sent' \in [Sockets -> SUBSET Topics]
      /\ \A s \in Sockets : sock[s].st = "free" => sent'[s] = sent[s]
  <2>1. CASE SendNow(c, requests[i].topics)
    BY <1>1, <1>5, <2>1, SendNowAdds
  <2>2. CASE UNCHANGED sent
    BY <1>1, <2>2 DEF TypeOK
  <2> QED
    BY <1>2, <2>1, <2>2
<1> QED
  BY <1>1, <1>3, <1>4, <1>6, JoinInv DEF TypeOK, lockVars, callVars

\* What a subscribe comes to: it may send or queue, and it may connect.
LEMMA SubscribeParts ==
    ASSUME TypeOK, NEW c \in Conns, NEW t \in Topics, Subscribe(c, t)
    PROVE  /\ UNCHANGED <<conn, sock, mutex>> \/ Connect(c, conn, sock)
           /\ UNCHANGED sent \/ SendNow(c, {t})
           /\ \/ UNCHANGED requests
              \/ /\ kind # "bybit"
                 /\ \E ts \in {{}, {t}} : Enqueue(c, ts)
           /\ topics' = [topics EXCEPT ![c] = topics[c] \cup {t}]
           /\ calls < MaxCalls /\ calls' = calls + 1
           /\ UNCHANGED <<kind, login, sleeping, waiting, unset, opened,
                          closings, retired, stray, faults>>
<1>1. kind \in {"bybit", "okx", "okxBatch", "bitget"}
  BY Parts
<1>2. /\ topics' = [topics EXCEPT ![c] = topics[c] \cup {t}]
      /\ calls < MaxCalls /\ calls' = calls + 1
      /\ UNCHANGED <<kind, login, sleeping, waiting, unset, opened,
                     closings, retired, stray, faults>>
  BY DEF Subscribe
<1>3. CASE kind = "bybit"
  <2>1. BybitSubscribe(c, t)
    BY <1>3, Zenon DEF Subscribe
  <2> QED
    BY <1>2, <2>1 DEF BybitSubscribe
<1>4. CASE kind = "okx"
  <2>1. OkxSubscribe(c, t)
    BY <1>4, Zenon DEF Subscribe
  <2> QED
    BY <1>2, <1>4, <2>1 DEF OkxSubscribe
<1>5. CASE kind = "okxBatch"
  <2>1. OkxSubscribeBatch(c, t)
    BY <1>5, Zenon DEF Subscribe
  <2> QED
    BY <1>2, <1>5, <2>1 DEF OkxSubscribeBatch
<1>6. CASE kind = "bitget"
  <2>1. BitgetSubscribe(c, t)
    BY <1>6, Zenon DEF Subscribe
  <2> QED
    BY <1>2, <1>6, <2>1 DEF BitgetSubscribe
<1> QED
  BY <1>1, <1>3, <1>4, <1>5, <1>6

LEMMA SubscribeInv ==
    ASSUME Inv, NEW c \in Conns, NEW t \in Topics, Subscribe(c, t)
    PROVE  Inv'
<1>1. /\ TypeOK /\ mutex \in Mutexes /\ requests \in Seq(Batches)
      /\ conn \in [Conns -> Entry] /\ sock \in [Sockets -> SocketRecords]
      /\ \A d \in Conns : /\ Sound(conn[d])
                          /\ conn[d].ws # None => sock[conn[d].ws].conn = d
  BY Parts DEF Inv, Shape
<1>2. /\ UNCHANGED <<conn, sock, mutex>> \/ Connect(c, conn, sock)
      /\ UNCHANGED sent \/ SendNow(c, {t})
      /\ \/ UNCHANGED requests
         \/ kind # "bybit" /\ \E ts \in {{}, {t}} : Enqueue(c, ts)
      /\ topics' = [topics EXCEPT ![c] = topics[c] \cup {t}]
      /\ calls < MaxCalls /\ calls' = calls + 1
      /\ UNCHANGED <<kind, login, sleeping, waiting, unset, opened,
                     closings, retired, stray, faults>>
  BY <1>1, SubscribeParts
<1>3. /\ mutex' \in Mutexes /\ (kind = "bitget" => mutex' = mutex)
      /\ conn' \in [Conns -> Entry] /\ sock' \in [Sockets -> SocketRecords]
      /\ \A d \in Conns :
           /\ Sound(conn'[d]) /\ conn'[d].opening = conn[d].opening
           /\ conn'[d].ws # None => sock'[conn'[d].ws].conn = d
      /\ \A s \in Sockets :
           \/ sock'[s] = sock[s]
           \/ sock[s].st = "free" /\ s # unset /\ sock'[s] = Dialled(c)
  <2>1. CASE UNCHANGED <<conn, sock, mutex>>
    BY <1>1, <2>1
  <2>2. CASE Connect(c, conn, sock)
    BY <1>1, <2>2, ConnectKeeps
  <2> QED
    BY <1>2, <2>1, <2>2
<1>4. /\ sent' \in [Sockets -> SUBSET Topics]
      /\ \A s \in Sockets : sock[s].st = "free" => sent'[s] = sent[s]
  <2>1. CASE SendNow(c, {t})
    BY <1>1, <2>1, SendNowAdds
  <2>2. CASE UNCHANGED sent
    BY <1>1, <2>2 DEF TypeOK
  <2> QED
    BY <1>2, <2>1, <2>2
<1>5. requests' \in Seq(Batches) /\ (kind = "bybit" => requests' = requests)
  <2>1. \A ts \in {{}, {t}} : ts \in SUBSET Topics
    OBVIOUS
  <2> QED
    BY <1>1, <1>2, <2>1, EnqueueAdds
<1>6. topics' \in [Conns -> SUBSET Topics] /\ calls' \in 0..MaxCalls
  <2>1. topics \in [Conns -> SUBSET Topics] /\ calls \in 0..MaxCalls
    BY <1>1 DEF TypeOK
  <2>2. topics' \in [Conns -> SUBSET Topics]
    BY <1>2, <2>1
  <2> QED
    BY <1>2, <2>1, <2>2, WsAssumption
<1>7. /\ UNCHANGED <<kind, unset, opened, closings, retired, stray, faults>>
      /\ login' \subseteq login
      /\ sleeping' \in [Conns -> Nat] /\ waiting' \in [Conns -> Nat]
      /\ sock \in [Sockets -> SocketRecords]
  BY <1>1, <1>2 DEF TypeOK
<1> QED
  BY <1>3, <1>4, <1>5, <1>6, <1>7, JoinInv

LEMMA BitgetLoginInv ==
    ASSUME Inv, NEW c \in Conns, BitgetLogin(c)
    PROVE  Inv'
<1> DEFINE n == conn[c].beats + 1
           g == [conn[c] EXCEPT !.opening = FALSE, !.beats = n, !.beating = TRUE]
<1>1. /\ TypeOK /\ Shape /\ conn \in [Conns -> Entry] /\ Sound(conn[c])
      /\ n \in Nat /\ n > 0
      /\ conn[c].opening /\ c \in Private
      /\ \A d \in Conns : conn[d].ws \in Sockets \cup {None}
  BY Parts DEF Inv, Shape, BitgetLogin
<1>2. /\ conn' = [conn EXCEPT ![c] = g]
      /\ login' = IF IsWsOpen(c) THEN login \cup {conn[c].ws} ELSE login
      /\ UNCHANGED <<kind, topics, sock, sent, lockVars, queueVars, callVars,
                     faults>>
  BY DEF BitgetLogin
<1> HIDE DEF n
<1>3. Sound(g) /\ g.ws = conn[c].ws /\ g.opening = FALSE
  BY <1>1 DEF Sound, Entry
<1> HIDE DEF g
<1>4. /\ conn' \in [Conns -> Entry] /\ conn'[c] = g
      /\ \A d \in Conns : /\ Sound(conn'[d]) /\ conn'[d].ws = conn[d].ws
                          /\ conn'[d].opening => conn[d].opening
  BY <1>1, <1>2, <1>3 DEF Shape, Sound
<1>5. \A s \in login' : s \in login \/ (s = conn[c].ws /\ s \in Sockets
                                          /\ sock[s].st = "open")
  BY <1>1, <1>2 DEF IsWsOpen, IsOpen
<1>6. TypeOK'
  <2>1. login' \subseteq Sockets
    BY <1>1, <1>5 DEF TypeOK
  <2> QED
    BY <1>1, <1>2, <1>4, <2>1 DEF TypeOK, lockVars, queueVars, callVars
<1>7. \A d \in Conns : /\ Sound(conn'[d])
                       /\ conn'[d].opening => kind' = "bitget" /\ d \in Private
                       /\ conn'[d].ws # None => sock'[conn'[d].ws].conn = d
  BY <1>1, <1>2, <1>4 DEF Shape
<1>8. conn[c].ws # None => sock[conn[c].ws].conn = c
  BY <1>1 DEF Shape
<1>9. \A s \in Sockets :
         /\ sock'[s].st # "free" => sock'[s].conn \in Conns
         /\ sock'[s].st = "free" => sent'[s] = {} /\ s \notin login'
                                    /\ ~sock'[s].in
         /\ s \in login' => sock'[s].conn \in Private
         /\ sock'[s].st = "leaving" => sock'[s].conn \in retired'
  <2> TAKE s \in Sockets
  <2>1. s # None
    BY WsAssumption
  <2> QED
    BY <1>1, <1>2, <1>5, <1>8, <2>1 DEF Shape, callVars
<1>10. /\ unset' # None => Okx' /\ sock'[unset'].conn \in Conns
       /\ kind' = "bybit" => requests' = <<>>
       /\ kind' = "bitget" => mutex'.queue = <<>> /\ mutex'.granted = <<>>
       /\ Range(closings') \subseteq retired'
  BY <1>1, <1>2 DEF Shape, Okx, lockVars, queueVars, callVars
<1>11. Shape'
  BY <1>7, <1>9, <1>10 DEF Shape
<1> QED
  BY <1>6, <1>11 DEF Inv

\* What an open does: its connection is CONNECTED, and only the registered
\* socket, now open, is asked for topics or for a login.
LEMMA OpensParts ==
    ASSUME Inv, NEW s \in Sockets, OnWsOpen(s), NEW c, c = sock[s].conn
    PROVE  /\ c \in Conns /\ sock[s].st = "dialing"
           /\ sock' = [sock EXCEPT ![s].st = "open"]
           /\ \E g : /\ conn' = [conn EXCEPT ![c] = g] /\ Sound(g)
                     /\ g.state = "CONNECTED" /\ g.ws = conn[c].ws
                     /\ g.authed = conn[c].authed /\ g.timer = conn[c].timer
                     /\ g.opening => kind = "bitget" /\ c \in Private
           /\ sent' \in [Sockets -> SUBSET Topics]
           /\ \A r \in Sockets :
                /\ sent[r] \subseteq sent'[r]
                /\ sent'[r] # sent[r] => r = conn[c].ws /\ (r = s \/ sock[r].st = "open")
                                         /\ ~Logs(c)
                /\ r \in login' => \/ r \in login
                                   \/ /\ r = conn[c].ws /\ Logs(c)
                                      /\ r = s \/ sock[r].st = "open"
           /\ login \subseteq login' /\ login' \subseteq Sockets
           /\ mutex' \in Mutexes /\ Waiters(mutex') = Waiters(mutex)
           /\ kind = "bitget" => mutex' = mutex
           /\ requests' \in Seq(Batches) /\ (kind = "bybit" => requests' = requests)
           /\ waiting' \in [Conns -> Nat] /\ opened' \in [Conns -> Nat]
           /\ UNCHANGED <<kind, topics, sleeping, unset, callVars, faults>>
<1>1. /\ TypeOK /\ kind \in {"bybit", "okx", "okxBatch", "bitget"}
      /\ mutex \in Mutexes /\ requests \in Seq(Batches)
      /\ sock[s].st = "dialing" /\ c \in Conns /\ sock' = [sock EXCEPT ![s].st = "open"]
      /\ UNCHANGED <<kind, topics, sleeping, unset, callVars, faults>>
      /\ Sound(conn[c]) /\ (conn[c].opening => kind = "bitget" /\ c \in Private)
      /\ conn[c].ws \in Sockets \cup {None} /\ None \notin Sockets
  BY Parts DEF Inv, Shape, OnWsOpen
<1>2. /\ sent \in [Sockets -> SUBSET Topics] /\ login \subseteq Sockets
      /\ topics[c] \in SUBSET Topics /\ waiting \in [Conns -> Nat]
      /\ opened \in [Conns -> Nat]
  BY <1>1 DEF TypeOK
<1>3. LET g == Connected(conn[c])
      IN  /\ Sound(g) /\ g.state = "CONNECTED" /\ g.ws = conn[c].ws
          /\ g.authed = conn[c].authed /\ g.timer = conn[c].timer
          /\ g.opening = conn[c].opening
  BY <1>1, ConnectedKeeps
<1>4. CASE kind = "bybit"
  <2>1. BybitOpens(c, s)
    BY <1>4, Zenon DEF OnWsOpen
  <2>2. /\ conn' = [conn EXCEPT ![c] = Connected(conn[c])]
        /\ mutex' = ReleaseTimes(mutex, waiting[c])
        /\ waiting' = [waiting EXCEPT ![c] = 0]
        /\ UNCHANGED <<requests, opened>>
    BY <2>1 DEF BybitOpens
  <2>3. mutex' \in Mutexes /\ Waiters(mutex') = Waiters(mutex)
    BY <1>1, <1>2, <2>2, ReleaseTimesMoves
  <2>4. Takes(c, s) => /\ conn[c].ws \in Sockets
                       /\ conn[c].ws = s \/ sock[conn[c].ws].st = "open"
    BY <1>1 DEF Takes, IsWsOpen, IsOpen
  <2> DEFINE w == conn[c].ws
  <2>5. /\ sent' \in [Sockets -> SUBSET Topics]
        /\ \A r \in Sockets :
             /\ sent[r] \subseteq sent'[r]
             /\ sent'[r] # sent[r] => r = w /\ (r = s \/ sock[r].st = "open")
                                      /\ ~Logs(c)
             /\ r \in login' => \/ r \in login
                                \/ /\ r = w /\ Logs(c)
                                   /\ r = s \/ sock[r].st = "open"
        /\ login \subseteq login' /\ login' \subseteq Sockets
    <3>1. CASE Logs(c)
      <4>1. /\ login' = IF Takes(c, s) THEN login \cup {w} ELSE login
            /\ UNCHANGED sent
        BY <2>1, <3>1 DEF BybitOpens
      <4> HIDE DEF w
      <4> QED
        BY <1>2, <2>4, <3>1, <4>1 DEF w
    <3>2. CASE ~Logs(c) /\ Takes(c, s)
      <4>1. /\ sent' = [sent EXCEPT ![w] = sent[w] \cup topics[c]]
            /\ UNCHANGED login
        BY <2>1, <3>2 DEF BybitOpens
      <4>2. w \in Sockets /\ (w = s \/ sock[w].st = "open")
        BY <2>4, <3>2
      <4> HIDE DEF w
      <4> QED
        BY <1>2, <3>2, <4>1, <4>2
    <3>3. CASE ~Logs(c) /\ ~Takes(c, s)
      BY <1>2, <2>1, <3>3 DEF BybitOpens
    <3> QED
      BY <3>1, <3>2, <3>3
  <2>6. waiting' \in [Conns -> Nat]
    BY <1>2, <2>2
  <2> QED
    BY <1>1, <1>2, <1>3, <1>4, <2>2, <2>3, <2>5, <2>6
<1>5. CASE kind = "bitget"
  <2>1. BitgetOpens(c)
    BY <1>5, Zenon DEF OnWsOpen
  <2>2. /\ opened' = [opened EXCEPT ![c] = opened[c] + 1]
        /\ UNCHANGED <<sent, login, mutex, waiting>>
    BY <2>1 DEF BitgetOpens
  <2>3. opened[c] + 1 \in Nat
    BY <1>1, <1>2
  <2>4. opened' \in [Conns -> Nat]
    BY <1>2, <2>2, <2>3
  <2>5. requests' \in Seq(Batches)
    <3>1. Request(c, opened[c] + 1, topics[c]) \in Seq(Batches)
      BY <1>1, <1>2, <2>3, RequestType
    <3>2. CASE UNCHANGED requests
      BY <1>1, <3>2
    <3>3. CASE requests' = requests \o Request(c, opened[c] + 1, topics[c])
      BY <1>1, <3>1, <3>3, RangeOfConcat
    <3> QED
      BY <2>1, <3>2, <3>3 DEF BitgetOpens
  <2>6. \E g : /\ conn' = [conn EXCEPT ![c] = g] /\ Sound(g)
               /\ g.state = "CONNECTED" /\ g.ws = conn[c].ws
               /\ g.authed = conn[c].authed /\ g.timer = conn[c].timer
               /\ g.opening => kind = "bitget" /\ c \in Private
    <3>1. CASE Logs(c)
      <4> DEFINE g == [conn[c] EXCEPT !.state = "CONNECTED", !.opening = TRUE]
      <4>1. conn' = [conn EXCEPT ![c] = g]
        BY <2>1, <3>1 DEF BitgetOpens
      <4>2. /\ Sound(g) /\ g.state = "CONNECTED" /\ g.ws = conn[c].ws
            /\ g.authed = conn[c].authed /\ g.timer = conn[c].timer
        BY <1>1 DEF Sound, Entry, States
      <4>3. c \in Private
        BY <3>1 DEF Logs
      <4> HIDE DEF g
      <4> QED
        BY <1>5, <4>1, <4>2, <4>3
    <3>2. CASE ~Logs(c)
      <4>1. conn' = [conn EXCEPT ![c] = Connected(conn[c])]
        BY <2>1, <3>2 DEF BitgetOpens
      <4> QED
        BY <1>1, <1>3, <4>1
    <3> QED
      BY <3>1, <3>2
  <2> QED
    BY <1>1, <1>2, <1>5, <2>2, <2>4, <2>5, <2>6
<1>6. CASE kind \in {"okx", "okxBatch"}
  <2>1. OkxOpens(c)
    BY <1>6, Zenon DEF OnWsOpen
  <2>2. /\ conn' = [conn EXCEPT ![c] = Connected(conn[c])]
        /\ Enqueue(c, topics[c])
        /\ UNCHANGED <<sent, login, mutex, waiting, opened>>
    BY <2>1 DEF OkxOpens
  <2>3. requests' \in Seq(Batches)
    BY <1>1, <1>2, <2>2, EnqueueAdds
  <2> QED
    BY <1>1, <1>2, <1>3, <1>6, <2>2, <2>3
<1> QED
  BY <1>1, <1>4, <1>5, <1>6

LEMMA OnWsOpenInv ==
    ASSUME Inv, NEW s \in Sockets, OnWsOpen(s)
    PROVE  Inv'
<1> DEFINE c == sock[s].conn
<1> HIDE DEF c
<1>1. /\ c \in Conns /\ sock[s].st = "dialing"
      /\ sock' = [sock EXCEPT ![s].st = "open"]
      /\ \E g : /\ conn' = [conn EXCEPT ![c] = g] /\ Sound(g)
                /\ g.ws = conn[c].ws
                /\ g.opening => kind = "bitget" /\ c \in Private
      /\ sent' \in [Sockets -> SUBSET Topics]
      /\ \A r \in Sockets :
           /\ sent'[r] # sent[r] => r = s \/ sock[r].st = "open"
           /\ r \in login' => \/ r \in login
                              \/ /\ r = conn[c].ws /\ Logs(c)
                                 /\ r = s \/ sock[r].st = "open"
      /\ login' \subseteq Sockets
      /\ mutex' \in Mutexes /\ (kind = "bitget" => mutex' = mutex)
      /\ requests' \in Seq(Batches) /\ (kind = "bybit" => requests' = requests)
      /\ waiting' \in [Conns -> Nat] /\ opened' \in [Conns -> Nat]
      /\ UNCHANGED <<kind, topics, sleeping, unset, callVars, faults>>
  BY OpensParts DEF c
<1>2. /\ TypeOK /\ Shape /\ sock \in [Sockets -> SocketRecords]
      /\ \A d \in Conns : conn[d].ws \in Sockets \cup {None}
      /\ None \notin Sockets /\ unset \in Sockets \cup {None}
  BY Parts DEF Inv, TypeOK
<1>3. PICK g : /\ conn' = [conn EXCEPT ![c] = g] /\ Sound(g)
               /\ g.ws = conn[c].ws
               /\ g.opening => kind = "bitget" /\ c \in Private
  BY <1>1
<1>4. /\ conn' \in [Conns -> Entry]
      /\ \A d \in Conns : /\ Sound(conn'[d])
                          /\ conn'[d].opening => kind = "bitget" /\ d \in Private
                          /\ conn'[d].ws \in {conn[d].ws, None}
  BY <1>1, <1>3, StoreUpdate
<1>5. /\ sock' \in [Sockets -> SocketRecords]
      /\ \A r \in Sockets : /\ sock'[r].conn = sock[r].conn
                            /\ sock'[r].in = sock[r].in
                            /\ sock'[r].st = IF r = s THEN "open" ELSE sock[r].st
  BY <1>1, <1>2, SMTT(60) DEF SocketRecords
<1>6. TypeOK'
  BY <1>1, <1>2, <1>4, <1>5
     DEF TypeOK, SocketRecords, Mutexes, Batches, callVars
<1>7. \A d \in Conns : /\ Sound(conn'[d])
                       /\ conn'[d].opening => kind' = "bitget" /\ d \in Private
                       /\ conn'[d].ws # None => sock'[conn'[d].ws].conn = d
  BY <1>1, <1>2, <1>4, <1>5 DEF Shape
<1>8. Logs(c) => c \in Private
  BY DEF Logs
<1>9. \A r \in Sockets :
         /\ sock'[r].st # "free" => sock'[r].conn \in Conns
         /\ sock'[r].st = "free" => sent'[r] = {} /\ r \notin login'
                                    /\ ~sock'[r].in
         /\ r \in login' => sock'[r].conn \in Private
         /\ sock'[r].st = "leaving" => sock'[r].conn \in retired'
  <2> TAKE r \in Sockets
  <2>1. CASE r \in login' /\ r \notin login
    <3>1. r = conn[c].ws /\ c \in Private /\ (r = s \/ sock[r].st = "open")
      BY <1>1, <1>8, <2>1
    <3>2. sock[r].conn = c
      BY <1>1, <1>2, <3>1 DEF Shape
    <3> QED
      BY <1>1, <1>2, <1>5, <3>1, <3>2 DEF Shape, callVars
  <2>2. CASE r \in login' => r \in login
    BY <1>1, <1>2, <1>5, <2>2 DEF Shape, callVars
  <2> QED
    BY <2>1, <2>2
<1>10. /\ unset' # None => Okx' /\ sock'[unset'].conn \in Conns
       /\ kind' = "bybit" => requests' = <<>>
       /\ kind' = "bitget" => mutex'.queue = <<>> /\ mutex'.granted = <<>>
       /\ Range(closings') \subseteq retired'
  BY <1>1, <1>2, <1>5 DEF Shape, Okx, callVars
<1>11. Shape'
  BY <1>7, <1>9, <1>10 DEF Shape
<1> QED
  BY <1>6, <1>11 DEF Inv

\* What an answered login does: it marks socket and connection, may connect,
\* and asks for the stored topics of a connected one.
LEMMA AuthenticatedParts ==
    ASSUME TypeOK, NEW s \in Sockets, OnWsAuthenticated(s),
           NEW c, c = sock[s].conn,
           NEW f, f = [conn EXCEPT ![c] = [conn[c] EXCEPT !.authed = TRUE]],
           NEW in, in = [sock EXCEPT ![s] = [sock[s] EXCEPT !.in = TRUE]]
    PROVE  /\ s \in login /\ login' = login \ {s}
           /\ sock[s].st \in {"open", "leaving"}
           /\ IF conn[c].state = "CONNECTED" \/ InProgress(c) \/ topics[c] = {}
              THEN conn' = f /\ sock' = in /\ UNCHANGED mutex
              ELSE Connect(c, f, in)
           /\ IF kind = "bybit" /\ conn[c].state = "CONNECTED"
              THEN SendNow(c, topics[c]) ELSE UNCHANGED sent
           /\ IF kind # "bybit" /\ conn[c].state = "CONNECTED"
              THEN Enqueue(c, topics[c]) ELSE UNCHANGED requests
           /\ UNCHANGED <<kind, topics, sleeping, waiting, unset, opened,
                          callVars, faults>>
<1>1. /\ s \in login /\ login' = login \ {s}
      /\ sock[s].st \in {"open", "leaving"}
      /\ UNCHANGED <<kind, topics, sleeping, waiting, unset, opened,
                     callVars, faults>>
      /\ IF kind = "bybit" THEN BybitAuthenticated(c, [sock EXCEPT ![s].in = TRUE])
         ELSE BitgetAuthenticated(c, [sock EXCEPT ![s].in = TRUE])
  BY DEF OnWsAuthenticated
<1>2. /\ [conn EXCEPT ![c].authed = TRUE] = f
      /\ [sock EXCEPT ![s].in = TRUE] = in
  OBVIOUS
<1>3. IF kind = "bybit" THEN BybitAuthenticated(c, in)
      ELSE BitgetAuthenticated(c, in)
  BY <1>1, <1>2, Zenon
<1>4. CASE kind = "bybit"
  <2>1. BybitAuthenticated(c, in)
    BY <1>3, <1>4
  <2>2. /\ IF conn[c].state = "CONNECTED" \/ InProgress(c) \/ topics[c] = {}
           THEN conn' = f /\ sock' = in /\ UNCHANGED mutex
           ELSE Connect(c, f, in)
        /\ IF conn[c].state = "CONNECTED" THEN SendNow(c, topics[c])
           ELSE UNCHANGED sent
        /\ UNCHANGED requests
    BY <1>2, <2>1, Zenon DEF BybitAuthenticated
  <2> QED
    BY <1>1, <1>4, <2>2
<1>5. CASE kind # "bybit"
  <2>1. BitgetAuthenticated(c, in)
    BY <1>3, <1>5
  <2>2. /\ IF conn[c].state = "CONNECTED" \/ InProgress(c) \/ topics[c] = {}
           THEN conn' = f /\ sock' = in /\ UNCHANGED mutex
           ELSE Connect(c, f, in)
        /\ IF conn[c].state = "CONNECTED" THEN Enqueue(c, topics[c])
           ELSE UNCHANGED requests
        /\ UNCHANGED sent
    BY <1>2, <2>1, Zenon DEF BitgetAuthenticated
  <2> QED
    BY <1>1, <1>5, <2>2
<1> QED
  BY <1>4, <1>5

LEMMA OnWsAuthenticatedInv ==
    ASSUME Inv, NEW s \in Sockets, OnWsAuthenticated(s)
    PROVE  Inv'
<1> DEFINE c == sock[s].conn
           g == [conn[c] EXCEPT !.authed = TRUE]
           f == [conn EXCEPT ![c] = g]
           in == [sock EXCEPT ![s] = [sock[s] EXCEPT !.in = TRUE]]
<1>1. /\ TypeOK /\ mutex \in Mutexes /\ requests \in Seq(Batches)
      /\ conn \in [Conns -> Entry] /\ sock \in [Sockets -> SocketRecords]
      /\ topics \in [Conns -> SUBSET Topics]
      /\ \A d \in Conns : /\ Sound(conn[d]) /\ conn[d].ws \in Sockets \cup {None}
                          /\ conn[d].ws # None => sock[conn[d].ws].conn = d
  BY Parts DEF Inv, Shape, TypeOK
<1>2. /\ s \in login /\ login' = login \ {s}
      /\ sock[s].st \in {"open", "leaving"}
      /\ \/ conn' = f /\ sock' = in /\ UNCHANGED mutex
         \/ Connect(c, f, in)
      /\ SendNow(c, topics[c]) \/ UNCHANGED sent
      /\ (kind # "bybit" /\ Enqueue(c, topics[c])) \/ UNCHANGED requests
      /\ UNCHANGED <<kind, topics, sleeping, waiting, unset, opened, callVars,
                     faults>>
  <2>1. f = [conn EXCEPT ![c] = [conn[c] EXCEPT !.authed = TRUE]]
    OBVIOUS
  <2> HIDE DEF f, g
  <2> QED
    BY <1>1, <2>1, AuthenticatedParts
<1>3. c \in Conns /\ topics[c] \in SUBSET Topics
  BY <1>1, <1>2 DEF Inv, Shape
<1>4. Sound(g) /\ g.ws = conn[c].ws /\ g.opening = conn[c].opening
  BY <1>1, <1>3, ZenonT(60) DEF Sound, Entry
<1> HIDE DEF g
<1>5. /\ f \in [Conns -> Entry]
      /\ \A d \in Conns : Sound(f[d]) /\ f[d].ws = conn[d].ws
                          /\ f[d].opening = conn[d].opening
  BY <1>1, <1>3, <1>4 DEF Sound
<1>6. /\ in \in [Sockets -> SocketRecords]
      /\ \A r \in Sockets : /\ in[r].conn = sock[r].conn
                            /\ in[r].st = sock[r].st
                            /\ in[r].in => sock[r].in \/ sock[r].st # "free"
  BY <1>1, <1>2 DEF SocketRecords
<1> HIDE DEF c, f, in
<1>7. /\ mutex' \in Mutexes /\ (kind = "bitget" => mutex' = mutex)
      /\ conn' \in [Conns -> Entry] /\ sock' \in [Sockets -> SocketRecords]
      /\ \A d \in Conns :
           /\ Sound(conn'[d]) /\ conn'[d].opening = conn[d].opening
           /\ conn'[d].ws # None => sock'[conn'[d].ws].conn = d
      /\ \A r \in Sockets :
           \/ sock'[r] = in[r]
           \/ sock[r].st = "free" /\ r # unset /\ sock'[r] = Dialled(c)
  <2>1. CASE conn' = f /\ sock' = in /\ UNCHANGED mutex
    BY <1>1, <1>5, <1>6, <2>1
  <2>2. CASE Connect(c, f, in)
    BY <1>3, <1>5, <1>6, <2>2, ConnectKeeps
  <2> QED
    BY <1>2, <2>1, <2>2
<1>8. /\ sent' \in [Sockets -> SUBSET Topics]
      /\ \A r \in Sockets : sock[r].st = "free" => sent'[r] = sent[r]
  <2>1. CASE SendNow(c, topics[c])
    BY <1>1, <1>3, <2>1, SendNowAdds
  <2>2. CASE UNCHANGED sent
    BY <1>1, <2>2 DEF TypeOK
  <2> QED
    BY <1>2, <2>1, <2>2
<1>9. requests' \in Seq(Batches) /\ (kind = "bybit" => requests' = requests)
  BY <1>1, <1>2, <1>3, EnqueueAdds
<1>10. /\ UNCHANGED <<kind, unset, opened, closings, retired, stray, faults>>
       /\ login' \subseteq login /\ topics' \in [Conns -> SUBSET Topics]
       /\ sleeping' \in [Conns -> Nat] /\ waiting' \in [Conns -> Nat]
       /\ calls' \in 0..MaxCalls
  BY <1>1, <1>2 DEF TypeOK, callVars
<1> QED
  BY <1>3, <1>6, <1>7, <1>8, <1>9, <1>10, JoinInv

\* What an error does: nothing but to its socket, or the connection drops.
LEMMA ErrorParts ==
    ASSUME Inv, NEW s \in Sockets, OnWsError(s), NEW c, c = sock[s].conn
    PROVE  /\ c \in Conns /\ sock[s].st \in {"refused", "failing"}
           /\ \/ sock' = AfterError(sock, s) /\ UNCHANGED conn
              \/ /\ sock' = AfterError(Terminated(conn[c].ws), s)
                 /\ \/ /\ IsWsOpen(c)
                       /\ conn' = [conn EXCEPT ![c] = Dropped(conn[c])]
                    \/ /\ ~IsWsOpen(c)
                       /\ conn' = [conn EXCEPT
                                     ![c] = ReconnectWithDelay(Dropped(conn[c]))]
                 /\ kind # "bitget"
           /\ \/ UNCHANGED mutex
              \/ mutex' = Release(mutex) /\ kind = "bybit"
           /\ stray' \in Strays
           /\ UNCHANGED <<kind, topics, sent, login, sleeping, waiting, unset,
                          queueVars, closings, retired, calls, faults>>
<1>1. /\ c \in Conns /\ sock[s].st \in {"refused", "failing"}
      /\ kind \in {"bybit", "okx", "okxBatch", "bitget"}
      /\ UNCHANGED <<kind, topics, sent, login, sleeping, waiting, unset,
                     queueVars, closings, retired, calls, faults>>
  BY Parts DEF Inv, Shape, OnWsError
<1>5. stray' \in Strays
  <2>1. stray \in Strays /\ NotesStray(c)
    BY DEF Inv, TypeOK, Strays, OnWsError
  <2> QED
    BY <2>1 DEF NotesStray, Strays
<1>2. CASE kind = "bybit"
  <2>1. BybitErrors(c, s)
    BY <1>2, Zenon DEF OnWsError
  <2> QED
    BY <1>1, <1>2, <1>5, <2>1 DEF BybitErrors, Dropped
<1>3. CASE kind = "bitget"
  <2>1. BitgetErrors(s)
    BY <1>3, Zenon DEF OnWsError
  <2> QED
    BY <1>1, <1>5, <2>1 DEF BitgetErrors
<1>4. CASE kind \in {"okx", "okxBatch"}
  <2>1. OkxErrors(c, s)
    BY <1>4, Zenon DEF OnWsError
  <2> QED
    BY <1>1, <1>4, <1>5, <2>1 DEF OkxErrors, Dropped
<1> QED
  BY <1>1, <1>2, <1>3, <1>4

LEMMA OnWsErrorInv ==
    ASSUME Inv, NEW s \in Sockets, OnWsError(s)
    PROVE  Inv'
<1> DEFINE c == sock[s].conn
<1> HIDE DEF c
<1>1. /\ c \in Conns /\ sock[s].st \in {"refused", "failing"}
      /\ \/ sock' = AfterError(sock, s) /\ UNCHANGED conn
         \/ /\ sock' = AfterError(Terminated(conn[c].ws), s)
            /\ \/ conn' = [conn EXCEPT ![c] = Dropped(conn[c])]
               \/ conn' = [conn EXCEPT
                             ![c] = ReconnectWithDelay(Dropped(conn[c]))]
      /\ \/ UNCHANGED mutex
         \/ mutex' = Release(mutex) /\ kind = "bybit"
      /\ stray' \in Strays
      /\ UNCHANGED <<kind, topics, sent, login, sleeping, waiting, unset,
                     queueVars, closings, retired, calls, faults>>
  BY ErrorParts DEF c
<1>2. /\ Sound(conn[c]) /\ (conn[c].opening => kind = "bitget" /\ c \in Private)
      /\ conn[c].ws \in Sockets \cup {None} /\ mutex \in Mutexes /\ TypeOK
      /\ conn \in [Conns -> Entry]
  BY <1>1, Parts DEF Inv, Shape
<1>3. Fades(sock')
  <2>1. Fades(sock) /\ Fades(Terminated(conn[c].ws))
    BY <1>2, SockFades, TerminatedFades
  <2> QED
    BY <1>1, <1>2, <2>1, AfterErrorFades
<1>4. \E g : /\ conn' = [conn EXCEPT ![c] = g]
             /\ Sound(g) /\ g.ws = conn[c].ws /\ g.opening = conn[c].opening
  <2>1. /\ Sound(Dropped(conn[c])) /\ Dropped(conn[c]).ws = conn[c].ws
        /\ Dropped(conn[c]).opening = conn[c].opening
    BY <1>2, DroppedKeeps
  <2>2. LET g == ReconnectWithDelay(Dropped(conn[c]))
        IN  Sound(g) /\ g.ws = conn[c].ws /\ g.opening = conn[c].opening
    BY <2>1, ReconnectSets
  <2>3. UNCHANGED conn => conn' = [conn EXCEPT ![c] = conn[c]]
    BY <1>2
  <2> QED
    BY <1>1, <1>2, <2>1, <2>2, <2>3
<1>5. mutex' \in Mutexes /\ (kind = "bitget" => mutex' = mutex)
  BY <1>1, <1>2, ReleaseMoves
<1> QED
  BY <1>1, <1>2, <1>3, <1>4, <1>5, EntryInv
     DEF queueVars, TypeOK, Strays

\* What a close does: the socket is free; a connection that was being closed
\* stays down, any other one gets a reconnect timer.
LEMMA ClosesParts ==
    ASSUME Inv, NEW s \in Sockets, OnWsClose(s), NEW c, c = sock[s].conn
    PROVE  /\ c \in Conns /\ sock[s].st \in {"gone", "ended", "leaving"}
           /\ sock' = [sock EXCEPT ![s] = [Unused EXCEPT !.conn = c]]
           /\ sent' = [sent EXCEPT ![s] = {}] /\ login' = login \ {s}
           /\ \E g :
                /\ conn' = [conn EXCEPT ![c] = g] /\ Sound(g)
                /\ g.ws \in {conn[c].ws, None}
                /\ g.opening => kind = "bitget" /\ c \in Private
                /\ g.state # "CONNECTED"
                /\ kind = "bybit" => ~g.authed
                /\ kind # "bybit" => g.ws = conn[c].ws
                /\ conn[c].state # "CLOSING" =>
                     /\ g.timer /\ g.ws = conn[c].ws
                     /\ g.state \in {"RECONNECTING", "CONNECTING"}
                     /\ kind = "bybit" => g.state = "RECONNECTING"
                     /\ kind # "bybit" /\ g.state = "CONNECTING"
                        => conn[c].state = "CONNECTING"
                /\ conn[c].state = "CLOSING" /\ kind # "bybit" =>
                     g.state = "INITIAL" /\ g.timer = conn[c].timer
           /\ topics' \in [Conns -> SUBSET Topics]
           /\ \A d \in Conns : /\ topics'[d] \subseteq topics[d]
                               /\ topics'[d] # topics[d]
                                  => d = c /\ conn[c].state = "CLOSING"
           /\ mutex' \in Mutexes /\ Waiters(mutex') = Waiters(mutex)
           /\ kind = "bitget" => mutex' = mutex
           /\ waiting' \in [Conns -> Nat]
           /\ UNCHANGED <<kind, sleeping, unset, queueVars, callVars, faults>>
<1>1. /\ TypeOK /\ kind \in {"bybit", "okx", "okxBatch", "bitget"}
      /\ mutex \in Mutexes /\ topics \in [Conns -> SUBSET Topics]
      /\ waiting \in [Conns -> Nat]
      /\ c \in Conns /\ sock[s].st \in {"gone", "ended", "leaving"}
      /\ sock' = [sock EXCEPT ![s] = [Unused EXCEPT !.conn = c]]
      /\ sent' = [sent EXCEPT ![s] = {}] /\ login' = login \ {s}
      /\ UNCHANGED <<kind, sleeping, unset, queueVars, callVars, faults>>
      /\ Sound(conn[c]) /\ conn[c] \in Entry
      /\ conn[c].opening => kind = "bitget" /\ c \in Private
      /\ IF kind = "bybit" THEN BybitCloses(c) ELSE OtherCloses(c)
  BY Parts DEF Inv, Shape, OnWsClose, TypeOK
<1>2. CASE kind = "bybit"
  <2>1. /\ mutex' = ReleaseTimes(mutex, waiting[c])
        /\ waiting' = [waiting EXCEPT ![c] = 0]
    BY <1>1, <1>2 DEF BybitCloses
  <2>2. /\ mutex' \in Mutexes /\ Waiters(mutex') = Waiters(mutex)
        /\ waiting' \in [Conns -> Nat]
    <3>1. waiting[c] \in Nat
      BY <1>1
    <3> QED
      BY <1>1, <2>1, <3>1, ReleaseTimesMoves
  <2>3. ~conn[c].opening
    BY <1>1, <1>2
  <2>4. CASE conn[c].state = "CLOSING"
    <3> DEFINE g == [Fresh EXCEPT !.beats = conn[c].beats]
    <3>1. /\ conn' = [conn EXCEPT ![c] = g]
          /\ topics' = [topics EXCEPT ![c] = {}]
      BY <1>1, <1>2, <2>4 DEF BybitCloses
    <3>2. /\ Sound(g) /\ g.ws = None /\ g.opening = FALSE /\ g.state = "none"
          /\ g.authed = FALSE
      <4>1. conn[c].beats \in Nat
        BY <1>1 DEF Entry
      <4> QED
        BY <4>1 DEF Fresh, Sound, Entry, States
    <3> HIDE DEF g
    <3>3. /\ topics' \in [Conns -> SUBSET Topics]
          /\ \A d \in Conns : topics'[d] \subseteq topics[d]
                              /\ (topics'[d] # topics[d] => d = c)
      BY <1>1, <3>1
    <3> QED
      BY <1>1, <1>2, <2>2, <2>4, <3>1, <3>2, <3>3
  <2>5. CASE conn[c].state # "CLOSING"
    <3> DEFINE q == [conn[c] EXCEPT !.state = "INITIAL", !.promise = FALSE,
                                    !.authed = FALSE]
               g == ReconnectWithDelay(q)
    <3>1. conn' = [conn EXCEPT ![c] = g] /\ UNCHANGED topics
      BY <1>1, <1>2, <2>5 DEF BybitCloses
    <3>2. /\ Sound(q) /\ q.ws = conn[c].ws /\ q.state = "INITIAL"
          /\ q.authed = FALSE /\ q.opening = conn[c].opening
      BY <1>1 DEF Sound, Entry, States
    <3> HIDE DEF q
    <3>3. /\ Sound(g) /\ g.ws = conn[c].ws /\ g.state = "RECONNECTING"
          /\ g.timer = TRUE /\ g.authed = FALSE /\ g.opening = conn[c].opening
      BY <3>2, ReconnectSets
    <3> HIDE DEF g
    <3> QED
      BY <1>1, <1>2, <2>2, <2>3, <2>5, <3>1, <3>3
  <2> QED
    BY <2>4, <2>5
<1>3. CASE kind # "bybit"
  <2>1. /\ conn' = [conn EXCEPT ![c] =
             IF conn[c].state = "CLOSING"
             THEN [conn[c] EXCEPT !.state = "INITIAL"]
             ELSE ReconnectWithDelay(conn[c])]
        /\ UNCHANGED <<topics, mutex, waiting>>
    BY <1>1, <1>3 DEF OtherCloses
  <2>2. CASE conn[c].state = "CLOSING"
    <3> DEFINE g == [conn[c] EXCEPT !.state = "INITIAL"]
    <3>1. conn' = [conn EXCEPT ![c] = g]
      BY <2>1, <2>2
    <3>2. /\ Sound(g) /\ g.ws = conn[c].ws /\ g.state = "INITIAL"
          /\ g.timer = conn[c].timer /\ g.opening = conn[c].opening
      BY <1>1 DEF Sound, Entry, States
    <3> HIDE DEF g
    <3> QED
      BY <1>1, <1>3, <2>1, <2>2, <3>1, <3>2
  <2>3. CASE conn[c].state # "CLOSING"
    <3> DEFINE g == ReconnectWithDelay(conn[c])
    <3>1. conn' = [conn EXCEPT ![c] = g]
      BY <2>1, <2>3
    <3>2. /\ Sound(g) /\ g.ws = conn[c].ws /\ g.timer = TRUE
          /\ conn[c].state = "CONNECTING" => g.state = "CONNECTING"
          /\ conn[c].state # "CONNECTING" => g.state = "RECONNECTING"
          /\ g.opening = conn[c].opening
      BY <1>1, ReconnectSets
    <3> HIDE DEF g
    <3> QED
      BY <1>1, <1>3, <2>1, <2>3, <3>1, <3>2
  <2> QED
    BY <2>2, <2>3
<1> QED
  BY <1>2, <1>3

LEMMA OnWsCloseInv ==
    ASSUME Inv, NEW s \in Sockets, OnWsClose(s)
    PROVE  Inv'
<1> DEFINE c == sock[s].conn
           u == [Unused EXCEPT !.conn = c]
<1> HIDE DEF c
<1>1. /\ c \in Conns
      /\ sock' = [sock EXCEPT ![s] = u]
      /\ sent' = [sent EXCEPT ![s] = {}] /\ login' = login \ {s}
      /\ \E g : /\ conn' = [conn EXCEPT ![c] = g] /\ Sound(g)
                /\ g.ws \in {conn[c].ws, None}
                /\ g.opening => kind = "bitget" /\ c \in Private
      /\ topics' \in [Conns -> SUBSET Topics]
      /\ mutex' \in Mutexes /\ (kind = "bitget" => mutex' = mutex)
      /\ waiting' \in [Conns -> Nat]
      /\ UNCHANGED <<kind, sleeping, unset, queueVars, callVars, faults>>
  BY ClosesParts DEF c
<1>2. /\ TypeOK /\ Shape /\ sock \in [Sockets -> SocketRecords]
      /\ \A d \in Conns : conn[d].ws \in Sockets \cup {None}
      /\ None \notin Sockets /\ unset \in Sockets \cup {None}
      /\ sent \in [Sockets -> SUBSET Topics] /\ login \subseteq Sockets
  BY Parts DEF Inv, TypeOK
<1>3. PICK g : /\ conn' = [conn EXCEPT ![c] = g] /\ Sound(g)
               /\ g.ws \in {conn[c].ws, None}
               /\ g.opening => kind = "bitget" /\ c \in Private
  BY <1>1
<1>4. /\ conn' \in [Conns -> Entry]
      /\ \A d \in Conns : /\ Sound(conn'[d])
                          /\ conn'[d].opening => kind = "bitget" /\ d \in Private
                          /\ conn'[d].ws \in {conn[d].ws, None}
  BY <1>1, <1>3, StoreUpdate
<1>5. u \in SocketRecords /\ u.conn = c /\ u.st = "free" /\ ~u.in
  BY <1>1 DEF Unused, SocketRecords
<1> HIDE DEF u
<1>6. /\ sock' \in [Sockets -> SocketRecords] /\ sock'[s] = u
      /\ \A r \in Sockets : r # s => sock'[r] = sock[r]
      /\ \A r \in Sockets : sock'[r].conn = sock[r].conn
  BY <1>1, <1>2, <1>5 DEF c
<1>7. /\ sent' \in [Sockets -> SUBSET Topics] /\ sent'[s] = {}
      /\ \A r \in Sockets : r # s => sent'[r] = sent[r]
  BY <1>1, <1>2
<1>8. TypeOK'
  BY <1>1, <1>2, <1>4, <1>6, <1>7
     DEF TypeOK, SocketRecords, Mutexes, queueVars, callVars
<1>9. \A d \in Conns : /\ Sound(conn'[d])
                       /\ conn'[d].opening => kind' = "bitget" /\ d \in Private
                       /\ conn'[d].ws # None => sock'[conn'[d].ws].conn = d
  BY <1>1, <1>2, <1>4, <1>6 DEF Shape
<1>10. \A r \in Sockets :
         /\ sock'[r].st # "free" => sock'[r].conn \in Conns
         /\ sock'[r].st = "free" => sent'[r] = {} /\ r \notin login'
                                    /\ ~sock'[r].in
         /\ r \in login' => sock'[r].conn \in Private
         /\ sock'[r].st = "leaving" => sock'[r].conn \in retired'
  BY <1>1, <1>2, <1>5, <1>6, <1>7 DEF Shape, callVars
<1>11. /\ unset' # None => Okx' /\ sock'[unset'].conn \in Conns
       /\ kind' = "bybit" => requests' = <<>>
       /\ kind' = "bitget" => mutex'.queue = <<>> /\ mutex'.granted = <<>>
       /\ Range(closings') \subseteq retired'
  BY <1>1, <1>2, <1>6 DEF Shape, Okx, queueVars, callVars
<1>12. Shape'
  BY <1>9, <1>10, <1>11 DEF Shape
<1> QED
  BY <1>8, <1>12 DEF Inv

\* What close() does to the sockets: the registered one is open no more.
LEMMA ClosingParts ==
    ASSUME Inv, NEW c \in Conns, Closing(c)
    PROVE  /\ \E g : /\ conn' = [conn EXCEPT ![c] = g] /\ Sound(g)
                     /\ g.state = "CLOSING" /\ ~g.timer /\ g.ws = conn[c].ws
                     /\ g.authed = conn[c].authed /\ g.opening = conn[c].opening
           /\ sock' \in [Sockets -> SocketRecords]
           /\ \A r \in Sockets :
                /\ sock'[r].conn = sock[r].conn /\ sock'[r].in = sock[r].in
                /\ sock'[r].st = "free" <=> sock[r].st = "free"
                /\ sock'[r].st \in {"open", "dialing"}
                   => sock'[r].st = sock[r].st /\ r # conn[c].ws
                /\ sock'[r].st = "leaving"
                   => sock[r].st = "leaving" \/ sock[r].conn = c
                /\ r # conn[c].ws => sock'[r] = sock[r]
<1> DEFINE w == conn[c].ws
<1>1. /\ TypeOK /\ Sound(conn[c]) /\ sock \in [Sockets -> SocketRecords]
      /\ w \in Sockets \cup {None} /\ None \notin Sockets
      /\ w # None => sock[w].conn = c
  BY Parts DEF Inv, Shape
<1>2. \E g : /\ conn' = [conn EXCEPT ![c] = g] /\ Sound(g)
             /\ g.state = "CLOSING" /\ ~g.timer /\ g.ws = conn[c].ws
             /\ g.authed = conn[c].authed /\ g.opening = conn[c].opening
  <2> DEFINE g == [NoTimers(conn[c]) EXCEPT !.state = "CLOSING"]
  <2>1. conn' = [conn EXCEPT ![c] = g]
    BY DEF Closing
  <2>2. /\ Sound(g) /\ g.state = "CLOSING" /\ g.timer = FALSE
        /\ g.ws = conn[c].ws /\ g.authed = conn[c].authed
        /\ g.opening = conn[c].opening
    BY <1>1, NoTimersKeeps
  <2> HIDE DEF g
  <2> QED
    BY <2>1, <2>2
<1>3. \/ sock' = Terminated(w)
      \/ w # None /\ IsOpen(w) /\ sock' = [sock EXCEPT ![w].st = "leaving"]
  BY DEF Closing, Left
<1>4. CASE sock' = Terminated(w)
  <2>1. Fades(sock') /\ (w # None => sock'[w].st \notin {"open", "dialing", "leaving"})
    BY <1>1, <1>4, TerminatedFades
  <2>2. \A r \in Sockets : r # w => sock'[r] = sock[r]
    BY <1>1, <1>4 DEF Terminated
  <2> HIDE DEF w
  <2>3. \A r \in Sockets : sock'[r].st \in {"open", "dialing"} => r # w
    BY <1>1, <2>1
  <2> QED
    BY <1>1, <1>2, <2>1, <2>2, <2>3 DEF Fades, w
<1>5. CASE w # None /\ IsOpen(w) /\ sock' = [sock EXCEPT ![w].st = "leaving"]
  <2>1. sock[w].st = "open" /\ w \in Sockets
    BY <1>1, <1>5 DEF IsOpen
  <2> HIDE DEF w
  <2>2. /\ sock' \in [Sockets -> SocketRecords]
        /\ \A r \in Sockets : r # w => sock'[r] = sock[r]
        /\ sock'[w].st = "leaving" /\ sock'[w].conn = c
        /\ sock'[w].in = sock[w].in
    BY <1>1, <1>5, <2>1 DEF SocketRecords
  <2> QED
    BY <1>1, <1>2, <2>1, <2>2 DEF w
<1> QED
  BY <1>3, <1>4, <1>5

\* All closeAll() does to a connection of the batch client: its timers stop.
Halting(c) ==
    /\ kind = "okxBatch" /\ conn' = [conn EXCEPT ![c] = NoTimers(conn[c])]
    /\ UNCHANGED sock

\* A step that closes c, which is retired by then, or only queues that.
LEMMA RetireInv ==
    ASSUME Inv, NEW c \in Conns,
           Closing(c) \/ Halting(c) \/ UNCHANGED <<conn, sock>>,
           stray' \in Strays,
           c \in retired', retired \subseteq retired', retired' \subseteq Conns,
           closings' \in Seq(Conns), Range(closings') \subseteq retired',
           calls' \in 0..MaxCalls,
           UNCHANGED <<kind, topics, sent, login, lockVars, queueVars, faults>>
    PROVE  Inv'
<1>1. /\ TypeOK /\ Shape /\ sock \in [Sockets -> SocketRecords]
      /\ conn \in [Conns -> Entry] /\ None \notin Sockets
      /\ \A d \in Conns : conn[d].ws \in Sockets \cup {None}
      /\ unset \in Sockets \cup {None}
  BY Parts DEF Inv, TypeOK
<1>2. /\ conn' \in [Conns -> Entry]
      /\ \A d \in Conns : /\ Sound(conn'[d])
                          /\ conn'[d].opening => kind = "bitget" /\ d \in Private
                          /\ conn'[d].ws \in {conn[d].ws, None}
  <2>1. CASE Closing(c)
    <3>1. PICK g : /\ conn' = [conn EXCEPT ![c] = g] /\ Sound(g)
                   /\ g.ws = conn[c].ws /\ g.opening = conn[c].opening
      BY <2>1, ClosingParts
    <3>2. conn[c].opening => kind = "bitget" /\ c \in Private
      BY <1>1 DEF Shape
    <3> QED
      BY <3>1, <3>2, StoreUpdate
  <2>2. CASE UNCHANGED conn
    BY <1>1, <2>2 DEF Shape
  <2>3. CASE Halting(c)
    <3> DEFINE g == NoTimers(conn[c])
    <3>1. /\ Sound(conn[c])
          /\ conn[c].opening => kind = "bitget" /\ c \in Private
      BY <1>1 DEF Shape
    <3>2. Sound(g) /\ g.ws = conn[c].ws /\ g.opening = conn[c].opening
      BY <3>1, NoTimersKeeps
    <3>3. conn' = [conn EXCEPT ![c] = g]
      BY <2>3 DEF Halting
    <3> HIDE DEF g
    <3> QED
      BY <3>1, <3>2, <3>3, StoreUpdate
  <2> QED
    BY <2>1, <2>2, <2>3
<1>3. /\ sock' \in [Sockets -> SocketRecords]
      /\ \A r \in Sockets :
           /\ sock'[r].conn = sock[r].conn /\ sock'[r].in = sock[r].in
           /\ sock'[r].st = "free" <=> sock[r].st = "free"
           /\ sock'[r].st = "leaving" => sock[r].st = "leaving" \/ sock[r].conn = c
  <2>1. CASE Closing(c)
    BY <2>1, ClosingParts
  <2>2. CASE UNCHANGED sock
    BY <1>1, <2>2
  <2> QED
    BY <2>1, <2>2 DEF Halting
<1>4. TypeOK'
  BY <1>1, <1>2, <1>3 DEF TypeOK, SocketRecords, Strays, lockVars, queueVars
<1>5. \A d \in Conns : /\ Sound(conn'[d])
                       /\ conn'[d].opening => kind' = "bitget" /\ d \in Private
                       /\ conn'[d].ws # None => sock'[conn'[d].ws].conn = d
  BY <1>1, <1>2, <1>3 DEF Shape
<1>6. \A r \in Sockets :
         /\ sock'[r].st # "free" => sock'[r].conn \in Conns
         /\ sock'[r].st = "free" => sent'[r] = {} /\ r \notin login'
                                    /\ ~sock'[r].in
         /\ r \in login' => sock'[r].conn \in Private
         /\ sock'[r].st = "leaving" => sock'[r].conn \in retired'
  BY <1>1, <1>3 DEF Shape
<1>7. /\ unset' # None => Okx' /\ sock'[unset'].conn \in Conns
      /\ kind' = "bybit" => requests' = <<>>
      /\ kind' = "bitget" => mutex'.queue = <<>> /\ mutex'.granted = <<>>
  BY <1>1, <1>3 DEF Shape, Okx, lockVars, queueVars
<1>8. Shape'
  BY <1>5, <1>6, <1>7 DEF Shape
<1> QED
  BY <1>4, <1>8 DEF Inv

LEMMA CloseAllParts ==
    ASSUME Inv, NEW c \in Conns, CloseAll(c)
    PROVE  /\ Closing(c) \/ Halting(c) \/ UNCHANGED <<conn, sock>>
           /\ stray' \in Strays
           /\ kind = "bitget" => Closing(c)
           /\ retired' = retired \cup {c} /\ c \notin retired
           /\ closings' \in Seq(Conns) /\ Range(closings') \subseteq retired'
           /\ calls' \in 0..MaxCalls
           /\ UNCHANGED <<kind, topics, sent, login, lockVars, queueVars, faults>>
<1>1. /\ kind \in {"bybit", "okx", "okxBatch", "bitget"}
      /\ closings \in Seq(Conns) /\ Range(closings) \subseteq retired
      /\ calls \in 0..MaxCalls /\ stray \in Strays
  BY Parts DEF Inv, Shape, TypeOK, Strays
<1>2. /\ calls < MaxCalls /\ calls' = calls + 1
      /\ retired' = retired \cup {c} /\ c \notin retired
      /\ UNCHANGED <<kind, topics, sent, login, lockVars, queueVars, faults>>
  BY DEF CloseAll
<1>3. calls' \in 0..MaxCalls
  BY <1>1, <1>2, WsAssumption
<1>4. /\ Append(closings, c) \in Seq(Conns)
      /\ Range(Append(closings, c)) = Range(closings) \cup {c}
  BY <1>1, RangeOfAppend
<1>5. CASE kind = "bybit"
  <2>1. BybitCloseAll(c)
    BY <1>5, Zenon DEF CloseAll
  <2>2. /\ UNCHANGED <<conn, sock, stray>>
        /\ closings' \in {closings, Append(closings, c)}
    BY <2>1 DEF BybitCloseAll
  <2>3. closings' \in Seq(Conns) /\ Range(closings') \subseteq retired'
    <3>1. CASE closings' = closings
      BY <1>1, <1>2, <3>1
    <3>2. CASE closings' = Append(closings, c)
      BY <1>1, <1>2, <1>4, <3>2
    <3> QED
      BY <2>2, <3>1, <3>2
  <2> QED
    BY <1>1, <1>2, <1>3, <1>5, <2>2, <2>3
<1>6. CASE kind \in {"okx", "bitget"}
  <2>1. Closing(c) /\ UNCHANGED <<closings, stray>>
    BY <1>6, Zenon DEF CloseAll
  <2> QED
    BY <1>1, <1>2, <1>3, <2>1
<1>7. CASE kind = "okxBatch"
  <2>1. BatchCloseAll(c) /\ UNCHANGED closings
    BY <1>7, Zenon DEF CloseAll
  <2>2. /\ Halting(c) \/ UNCHANGED <<conn, sock>>
        /\ stray' \in Strays
    BY <1>1, <1>7, <2>1 DEF BatchCloseAll, Halting, Strays
  <2> QED
    BY <1>1, <1>2, <1>3, <1>7, <2>1, <2>2
<1> QED
  BY <1>1, <1>5, <1>6, <1>7

LEMMA CloseAllInv ==
    ASSUME Inv, NEW c \in Conns, CloseAll(c)
    PROVE  Inv'
<1>1. retired \subseteq Conns
  BY DEF Inv, TypeOK
<1>2. /\ Closing(c) \/ Halting(c) \/ UNCHANGED <<conn, sock>>
      /\ stray' \in Strays
      /\ retired' = retired \cup {c}
      /\ closings' \in Seq(Conns) /\ Range(closings') \subseteq retired'
      /\ calls' \in 0..MaxCalls
      /\ UNCHANGED <<kind, topics, sent, login, lockVars, queueVars, faults>>
  BY CloseAllParts
<1> QED
  BY <1>1, <1>2, RetireInv

LEMMA BybitCloseInv ==
    ASSUME Inv, BybitClose
    PROVE  Inv'
<1>1. /\ closings \in Seq(Conns) /\ closings # <<>>
      /\ Range(closings) \subseteq retired /\ retired \subseteq Conns
      /\ calls \in 0..MaxCalls /\ stray \in Strays
  BY DEF Inv, Shape, TypeOK, Strays, BybitClose
<1>2. /\ Head(closings) \in Conns /\ Tail(closings) \in Seq(Conns)
      /\ Range(closings) = {Head(closings)} \cup Range(Tail(closings))
  BY <1>1, RangeOfHead
<1>3. /\ Closing(Head(closings)) /\ closings' = Tail(closings)
      /\ UNCHANGED <<kind, topics, sent, login, lockVars, queueVars, retired,
                     stray, calls, faults>>
  BY DEF BybitClose
<1> QED
  BY <1>1, <1>2, <1>3, RetireInv

LEMMA NextInv == Inv /\ [Next]_vars => Inv'
<1> SUFFICES ASSUME Inv, [Next]_vars PROVE Inv'
  OBVIOUS
<1>1. CASE UNCHANGED vars
  BY <1>1 DEF vars, netVars, lockVars, queueVars, callVars, Inv, TypeOK, Shape,
              Okx
<1>2. ASSUME NEW s \in Sockets, Ends(s) PROVE Inv'
  BY <1>2, OnWsErrorInv, OnWsCloseInv DEF Ends
<1>3. CASE Dials
  BY <1>3, BybitDialsInv, OkxDialsInv DEF Dials
<1>4. ASSUME NEW c \in Conns, Caller(c) PROVE Inv'
  BY <1>4, SubscribeInv, CloseAllInv DEF Caller
<1>5. ASSUME NEW c \in Conns, Timers(c) PROVE Inv'
  BY <1>5, ReconnectTimerInv, PongInv, PongTimeoutInv DEF Timers
<1>6. CASE Turns
  BY <1>6, OkxRegistersInv, OkxRequestsInv, BybitCloseInv, BybitWakesInv,
     BitgetRequestsInv, BitgetLoginInv DEF Turns
<1>7. CASE Network
  BY <1>7, OnWsOpenInv, OnWsAuthenticatedInv, SocketFailsInv, PongInv
     DEF Network
<1> QED
  BY <1>1, <1>2, <1>3, <1>4, <1>5, <1>6, <1>7 DEF Next

\* Every state of the clients has its types: also the counts that the ping
\* intervals and the connects at the mutex add to and take from.
THEOREM WsTypeCorrect == Spec => []TypeOK
<1>1. Inv => TypeOK
  BY DEF Inv
<1> QED
  BY InitInv, NextInv, <1>1, PTL DEF Spec

-----------------------------------------------------------------------------
(* Nobody strands a connection that has topics.                             *)

\* A connection in use is idle, dials, or has something that will connect it.
Reach(c) ==
    /\ conn[c].state \in {"none", "CONNECTING", "CONNECTED", "RECONNECTING"}
    /\ conn[c].state \in {"CONNECTED", "RECONNECTING"} => ~Stranded(c)
    /\ kind = "bybit" /\ conn[c].state = "CONNECTING" => Alive(c)
    /\ kind = "bybit" /\ topics[c] # {} => ~Stranded(c)
    /\ kind # "bybit" /\ conn[c].state = "none" => topics[c] = {} /\ Stranded(c)

Reachable == \A c \in InUse : Reach(c)

\* A step that does not concern d.
Untouched(d) ==
    /\ kind' = kind /\ topics'[d] \subseteq topics[d]
    /\ conn'[d].state = conn[d].state /\ conn'[d].timer = conn[d].timer
    /\ d \in Waiters(mutex') <=> d \in Waiters(mutex)
    /\ \A s \in Sockets :
         sock'[s].conn = d /\ sock'[s].st # "free"
         <=> sock[s].conn = d /\ sock[s].st # "free"

LEMMA UntouchedReach ==
    ASSUME NEW d \in Conns, Reach(d), Untouched(d)
    PROVE  Reach(d)'
<1>1. Alive(d)' <=> Alive(d)
  BY DEF Untouched, Alive
<1>2. Queued(d)' <=> Queued(d)
  BY DEF Untouched, Queued, Waiters
<1>3. Stranded(d)' <=> Stranded(d)
  BY <1>1, <1>2 DEF Stranded, Untouched
<1>4. topics'[d] # {} => topics[d] # {}
  BY DEF Untouched
<1>5. kind' = kind /\ conn'[d].state = conn[d].state
  BY DEF Untouched
<1>6. conn'[d].state \in {"none", "CONNECTING", "CONNECTED", "RECONNECTING"}
  BY <1>5 DEF Reach
<1>7. conn'[d].state \in {"CONNECTED", "RECONNECTING"} => ~Stranded(d)'
  BY <1>3, <1>5 DEF Reach
<1>8. kind' = "bybit" /\ conn'[d].state = "CONNECTING" => Alive(d)'
  BY <1>1, <1>5 DEF Reach
<1>9. kind' = "bybit" /\ topics'[d] # {} => ~Stranded(d)'
  BY <1>3, <1>4, <1>5 DEF Reach
<1>10. kind' # "bybit" /\ conn'[d].state = "none"
         => topics'[d] = {} /\ Stranded(d)'
  BY <1>3, <1>4, <1>5 DEF Reach
<1> QED
  BY <1>6, <1>7, <1>8, <1>9, <1>10 DEF Reach

\* A step after which something will connect c, or dials it for ever.
LEMMA ReachedAnew ==
    ASSUME NEW c \in Conns,
           conn'[c].state \in {"none", "CONNECTING", "CONNECTED", "RECONNECTING"},
           kind' = "bybit" \/ conn'[c].state # "CONNECTING" => ~Stranded(c)',
           kind' = "bybit" /\ conn'[c].state = "CONNECTING" => Alive(c)',
           kind' # "bybit" => conn'[c].state # "none"
    PROVE  Reach(c)'
BY DEF Reach

\* What a connect leaves alone.
LEMMA ConnectSpares ==
    ASSUME Inv, NEW c \in Conns, NEW f \in [Conns -> Entry],
           NEW ss, Connect(c, f, ss)
    PROVE  /\ \A d \in Conns : d # c => conn'[d] = f[d]
           /\ \A d : d # c => (d \in Waiters(mutex') <=> d \in Waiters(mutex))
           /\ Waiters(mutex) \subseteq Waiters(mutex')
           /\ conn'[c].timer = f[c].timer /\ conn'[c].authed = f[c].authed
           /\ conn'[c].state \in {f[c].state, Starts(f[c])}
<1>1. mutex \in Mutexes /\ kind \in {"bybit", "okx", "okxBatch", "bitget"}
  BY Parts DEF Inv
<1>2. Waiters(Lock(mutex, c)) = Waiters(mutex) \cup {c}
  BY <1>1, LockAdds
<1>3. CASE kind = "bybit"
  <2>1. conn' = f /\ mutex' = Lock(mutex, c)
    BY <1>3 DEF Connect, BybitConnect
  <2> QED
    BY <1>2, <2>1
<1> DEFINE st == Starts(f[c])
<1>4. f[c] \in Entry
  OBVIOUS
<1>5. CASE kind \in {"okx", "okxBatch"}
  <2>1. OkxConnect(c, f, ss)
    BY <1>5, Zenon DEF Connect
  <2>2. CASE conn' = f /\ UNCHANGED mutex
    BY <2>2
  <2>3. CASE conn' = [f EXCEPT ![c].state = st] /\ mutex' = Lock(mutex, c)
    <3> HIDE DEF st
    <3>1. \A d \in Conns : d # c => conn'[d] = f[d]
      BY <2>3
    <3>2. /\ conn'[c].timer = f[c].timer /\ conn'[c].authed = f[c].authed
          /\ conn'[c].state = st
      BY <1>4, <2>3 DEF Entry
    <3> QED
      BY <1>2, <2>3, <3>1, <3>2 DEF st
  <2> QED
    BY <2>1, <2>2, <2>3 DEF OkxConnect
<1>6. CASE kind = "bitget"
  <2>1. BitgetConnect(c, f, ss)
    BY <1>6, Zenon DEF Connect
  <2>2. UNCHANGED mutex
    BY <2>1 DEF BitgetConnect
  <2>3. CASE conn' = f
    BY <2>2, <2>3
  <2>4. CASE conn' = [f EXCEPT ![c].state = st, ![c].ws = NewSocket]
    <3> DEFINE n == NewSocket
    <3> HIDE DEF st, n
    <3>1. \A d \in Conns : d # c => conn'[d] = f[d]
      BY <2>4
    <3>2. /\ conn'[c].timer = f[c].timer /\ conn'[c].authed = f[c].authed
          /\ conn'[c].state = st
      BY <1>4, <2>4 DEF Entry, n
    <3> QED
      BY <2>2, <3>1, <3>2 DEF st
  <2> QED
    BY <2>1, <2>3, <2>4 DEF BitgetConnect
<1> QED
  BY <1>1, <1>3, <1>5, <1>6

\* An open registered socket is a live one.
LEMMA OpenIsAlive ==
    ASSUME Inv, NEW c \in Conns, IsWsOpen(c)
    PROVE  Alive(c) /\ conn[c].ws \in Sockets /\ sock[conn[c].ws].conn = c
<1>1. conn[c].ws \in Sockets \cup {None}
  BY Parts DEF Inv
<1> QED
  BY <1>1 DEF IsWsOpen, IsOpen, Alive, Inv, Shape

LEMMA ConnectReaches ==
    ASSUME Inv, NEW c \in Conns, Reach(c), NEW f \in [Conns -> Entry],
           \A d \in Conns : Sound(f[d]) /\ f[d].ws = conn[d].ws,
           f[c].state = conn[c].state,
           NEW ss \in [Sockets -> SocketRecords],
           \A s \in Sockets : ss[s].conn = sock[s].conn
                              /\ (ss[s].st = "free" <=> sock[s].st = "free"),
           Connect(c, f, ss), kind' = kind
    PROVE  Reach(c)'
<1>1. /\ mutex \in Mutexes /\ kind \in {"bybit", "okx", "okxBatch", "bitget"}
      /\ conn[c].ws \in Sockets \cup {None}
  BY Parts DEF Inv
<1>2. Waiters(Lock(mutex, c)) = Waiters(mutex) \cup {c}
  BY <1>1, LockAdds
<1>3. conn'[c].state \in {f[c].state, Starts(f[c])}
  BY ConnectSpares
<1>4. conn'[c].state \in {"none", "CONNECTING", "CONNECTED", "RECONNECTING"}
  BY <1>3 DEF Reach, Starts
<1>5. CASE kind = "bybit"
  <2>1. conn' = f /\ sock' = ss /\ mutex' = Lock(mutex, c)
    BY <1>5 DEF Connect, BybitConnect
  <2>2. ~Stranded(c)'
    BY <1>2, <2>1 DEF Stranded, Queued, Waiters
  <2>3. conn'[c].state = "CONNECTING" => Alive(c)'
    BY <1>5, <2>1 DEF Reach, Alive
  <2> QED
    BY <1>4, <1>5, <2>2, <2>3, ReachedAnew
<1>6. ASSUME kind # "bybit", IsWsOpen(c), conn' = f, sock' = ss
      PROVE  Reach(c)'
  <2>1. Alive(c)
    BY <1>6, OpenIsAlive
  <2>2. Alive(c)'
    BY <1>6, <2>1 DEF Alive
  <2>3. conn[c].state # "none"
    BY <1>6, <2>1 DEF Reach, Stranded
  <2> QED
    BY <1>4, <1>6, <2>2, <2>3, ReachedAnew DEF Stranded
<1>7. ASSUME kind # "bybit", conn' = f, f[c].state = "CONNECTING"
      PROVE  Reach(c)'
  BY <1>7, ReachedAnew
<1>8. CASE kind \in {"okx", "okxBatch"}
  <2>1. OkxConnect(c, f, ss)
    BY <1>8, Zenon DEF Connect
  <2>2. CASE IsWsOpen(c)
    BY <1>6, <1>8, <2>1, <2>2 DEF OkxConnect
  <2>3. CASE f[c].state = "CONNECTING"
    BY <1>7, <1>8, <2>1, <2>3 DEF OkxConnect
  <2>4. CASE ~IsWsOpen(c) /\ f[c].state # "CONNECTING"
    <3> DEFINE st == Starts(f[c])
    <3>1. conn' = [f EXCEPT ![c].state = st] /\ mutex' = Lock(mutex, c)
      BY <2>1, <2>4 DEF OkxConnect
    <3>2. st # "none"
      BY DEF Starts
    <3>3. f[c] \in Entry
      OBVIOUS
    <3> HIDE DEF st
    <3>4. conn'[c].state = st
      BY <3>1, <3>3 DEF Entry
    <3>5. ~Stranded(c)'
      BY <1>2, <3>1 DEF Stranded, Queued, Waiters
    <3> QED
      BY <1>4, <1>8, <3>2, <3>4, <3>5, ReachedAnew
  <2> QED
    BY <2>2, <2>3, <2>4
<1>9. CASE kind = "bitget"
  <2>1. BitgetConnect(c, f, ss)
    BY <1>9, Zenon DEF Connect
  <2>2. CASE IsWsOpen(c)
    BY <1>6, <1>9, <2>1, <2>2 DEF BitgetConnect
  <2>3. CASE f[c].state = "CONNECTING"
    BY <1>7, <1>9, <2>1, <2>3 DEF BitgetConnect
  <2>4. CASE ~IsWsOpen(c) /\ f[c].state # "CONNECTING"
    <3> DEFINE st == Starts(f[c])
               n == NewSocket
    <3>1. /\ Free # {} /\ conn' = [f EXCEPT ![c].state = st, ![c].ws = n]
          /\ sock' = [ss EXCEPT ![n] = Dialled(c)]
      BY <2>1, <2>4 DEF BitgetConnect
    <3>2. st # "none" /\ n \in Sockets
      BY <3>1, NewSocketIsFree DEF Starts
    <3>3. f[c] \in Entry
      OBVIOUS
    <3> HIDE DEF st, n
    <3>4. conn'[c].state = st
      BY <3>1, <3>3 DEF Entry
    <3>5. sock'[n].conn = c /\ sock'[n].st # "free"
      BY <3>1, <3>2 DEF Dialled
    <3>6. ~Stranded(c)'
      BY <3>2, <3>5 DEF Stranded, Alive
    <3> QED
      BY <1>4, <1>9, <3>2, <3>4, <3>6, ReachedAnew
  <2> QED
    BY <2>2, <2>3, <2>4
<1> QED
  BY <1>1, <1>5, <1>8, <1>9

\* A connect spares the sockets of the others.
LEMMA DialsSpare ==
    ASSUME NEW c \in Conns, NEW d \in Conns, d # c, NEW ss,
           \A s \in Sockets : ss[s].conn = sock[s].conn
                              /\ (ss[s].st = "free" <=> sock[s].st = "free"),
           \A s \in Sockets :
                \/ sock'[s] = ss[s]
                \/ sock[s].st = "free" /\ s # unset /\ sock'[s] = Dialled(c)
    PROVE  \A s \in Sockets :
             sock'[s].conn = d /\ sock'[s].st # "free"
             <=> sock[s].conn = d /\ sock[s].st # "free"
<1> TAKE s \in Sockets
<1>1. CASE sock'[s] = ss[s]
  BY <1>1
<1>2. CASE sock[s].st = "free" /\ sock'[s] = Dialled(c)
  BY <1>2 DEF Dialled
<1> QED
  BY <1>1, <1>2

LEMMA BybitDialsReach ==
    ASSUME Inv, Reachable, BybitDials
    PROVE  Reachable'
<1> DEFINE c == Head(mutex.granted)
           m == [mutex EXCEPT !.granted = Tail(mutex.granted)]
<1>1. /\ mutex \in Mutexes /\ mutex.granted \in Seq(Conns) /\ kind = "bybit"
      /\ conn \in [Conns -> Entry] /\ sock \in [Sockets -> SocketRecords]
      /\ mutex.granted # <<>>
      /\ \A d \in Conns : conn[d] \in Entry
  BY Parts DEF Mutexes, BybitDials, Inv
<1>2. /\ c \in Conns /\ m \in Mutexes
      /\ \A d : d # c => (d \in Waiters(m) <=> d \in Waiters(mutex))
  <2>1. /\ c \in Conns /\ Tail(mutex.granted) \in Seq(Conns)
        /\ Range(mutex.granted) = {c} \cup Range(Tail(mutex.granted))
    BY <1>1, RangeOfHead
  <2> HIDE DEF c
  <2>2. /\ m \in Mutexes /\ m.queue = mutex.queue
        /\ m.granted = Tail(mutex.granted)
    BY <1>1, <2>1 DEF Mutexes
  <2> HIDE DEF m
  <2> QED
    BY <2>1, <2>2 DEF Waiters
<1>3. Waiters(Release(m)) = Waiters(m)
  BY <1>2, ReleaseMoves
<1>4. UNCHANGED <<kind, topics, retired>>
  BY DEF BybitDials, callVars
<1> DEFINE st == Starts(conn[c])
           n == NewSocket
<1>5. \/ /\ mutex' \in {m, Release(m)} /\ UNCHANGED <<conn, sock>>
         /\ IsWsOpen(c) \/ conn[c].state = "CONNECTING"
      \/ /\ Free # {} /\ mutex' = m
         /\ sock' = [sock EXCEPT ![n] = Dialled(c)]
         /\ conn' = [conn EXCEPT ![c].state = st, ![c].ws = n,
                                 ![c].promise = TRUE]
  BY DEF BybitDials
<1> HIDE DEF c, m, st, n
<1>6. \A d : d # c => (d \in Waiters(mutex') <=> d \in Waiters(mutex))
  BY <1>2, <1>3, <1>5
<1>7. ASSUME UNCHANGED <<conn, sock>>, IsWsOpen(c) \/ conn[c].state = "CONNECTING",
             NEW d \in InUse'
      PROVE  Reach(d)'
  <2>1. d \in Conns /\ Reach(d)
    BY <1>4 DEF InUse, Reachable
  <2>2. CASE d # c
    BY <1>4, <1>6, <1>7, <2>1, <2>2, UntouchedReach DEF Untouched
  <2>3. CASE d = c
    <3>1. Alive(d)
      BY <1>1, <1>2, <1>7, <2>1, <2>3, OpenIsAlive DEF Reach
    <3>2. Alive(d)'
      BY <1>7, <3>1 DEF Alive
    <3>3. ~Stranded(d)'
      BY <3>2 DEF Stranded
    <3>4. conn'[d].state = conn[d].state
      BY <1>7
    <3>5. conn[d].state \in {"none", "CONNECTING", "CONNECTED", "RECONNECTING"}
      BY <2>1 DEF Reach
    <3> QED
      BY <1>1, <1>4, <2>1, <3>2, <3>3, <3>4, <3>5, ReachedAnew
  <2> QED
    BY <2>2, <2>3
<1>8. ASSUME Free # {}, sock' = [sock EXCEPT ![n] = Dialled(c)],
             conn' = [conn EXCEPT ![c].state = st, ![c].ws = n,
                                  ![c].promise = TRUE],
             NEW d \in InUse'
      PROVE  Reach(d)'
  <2>1. d \in Conns /\ Reach(d)
    BY <1>4 DEF InUse, Reachable
  <2>2. n \in Sockets /\ sock[n].st = "free" /\ n # unset
    BY <1>8, NewSocketIsFree DEF n
  <2>3. \A s \in Sockets :
          \/ sock'[s] = sock[s]
          \/ sock[s].st = "free" /\ s # unset /\ sock'[s] = Dialled(c)
    BY <1>1, <1>8, <2>2
  <2>4. CASE d # c
    <3>1. conn'[d] = conn[d]
      BY <1>1, <1>8, <2>1, <2>4
    <3>2. \A s \in Sockets :
             sock'[s].conn = d /\ sock'[s].st # "free"
             <=> sock[s].conn = d /\ sock[s].st # "free"
      BY <1>2, <2>1, <2>3, <2>4, DialsSpare
    <3> QED
      BY <1>4, <1>6, <2>1, <2>4, <3>1, <3>2, UntouchedReach DEF Untouched
  <2>5. CASE d = c
    <3>1. conn'[d].state = st
      BY <1>1, <1>2, <1>8, <2>5 DEF Entry
    <3>2. st \in {"CONNECTING", "CONNECTED", "RECONNECTING"}
      BY <2>1, <2>5 DEF st, Starts, Reach
    <3>3. \E s \in Sockets : sock'[s].conn = d /\ sock'[s].st # "free"
      BY <1>1, <1>8, <2>2, <2>5 DEF Dialled
    <3>4. Alive(d)'
      BY <3>3 DEF Alive
    <3>5. ~Stranded(d)'
      BY <3>4 DEF Stranded
    <3> QED
      BY <1>1, <1>4, <2>1, <3>1, <3>2, <3>4, <3>5, ReachedAnew
  <2> QED
    BY <2>4, <2>5
<1> QED
  BY <1>5, <1>7, <1>8 DEF Reachable

LEMMA OkxDialsReach ==
    ASSUME Inv, Reachable, OkxDials
    PROVE  Reachable'
<1> DEFINE c == Head(mutex.granted)
           m == [mutex EXCEPT !.granted = Tail(mutex.granted)]
           n == NewSocket
<1>1. /\ mutex \in Mutexes /\ mutex.granted \in Seq(Conns) /\ kind # "bybit"
      /\ conn \in [Conns -> Entry] /\ sock \in [Sockets -> SocketRecords]
      /\ mutex.granted # <<>>
  BY Parts DEF Mutexes, OkxDials, Okx, Inv
<1>2. /\ c \in Conns /\ c \in Waiters(mutex)
      /\ \A d : d # c => (d \in Waiters(m) <=> d \in Waiters(mutex))
  <2>1. /\ c \in Conns /\ Tail(mutex.granted) \in Seq(Conns)
        /\ Range(mutex.granted) = {c} \cup Range(Tail(mutex.granted))
    BY <1>1, RangeOfHead
  <2> HIDE DEF c
  <2>2. m.queue = mutex.queue /\ m.granted = Tail(mutex.granted)
    BY <1>1, <2>1 DEF Mutexes
  <2> HIDE DEF m
  <2> QED
    BY <2>1, <2>2 DEF Waiters
<1>3. /\ sock' = [sock EXCEPT ![n] = Dialled(c)] /\ mutex' = m
      /\ UNCHANGED <<kind, conn, topics, retired>> /\ Free # {}
  BY DEF OkxDials, callVars
<1>4. n \in Sockets /\ sock[n].st = "free" /\ n # unset
  BY <1>3, NewSocketIsFree
<1> HIDE DEF c, m, n
<1>5. \A s \in Sockets :
        \/ sock'[s] = sock[s]
        \/ sock[s].st = "free" /\ s # unset /\ sock'[s] = Dialled(c)
  BY <1>1, <1>3, <1>4
<1>6. ASSUME NEW d \in InUse' PROVE Reach(d)'
  <2>1. d \in Conns /\ Reach(d)
    BY <1>3 DEF InUse, Reachable
  <2>2. CASE d # c
    <3>1. \A s \in Sockets :
             sock'[s].conn = d /\ sock'[s].st # "free"
             <=> sock[s].conn = d /\ sock[s].st # "free"
      BY <1>2, <1>5, <2>1, <2>2, DialsSpare
    <3> QED
      BY <1>2, <1>3, <2>1, <2>2, <3>1, UntouchedReach DEF Untouched
  <2>3. CASE d = c
    <3>1. \E s \in Sockets : sock'[s].conn = d /\ sock'[s].st # "free"
      BY <1>1, <1>3, <1>4, <2>3 DEF Dialled
    <3>2. ~Stranded(d)'
      BY <3>1 DEF Stranded, Alive
    <3>3. conn[d].state # "none"
      BY <1>1, <1>2, <2>1, <2>3 DEF Reach, Stranded, Queued, Waiters
    <3> QED
      BY <1>1, <1>3, <2>1, <3>2, <3>3, ReachedAnew DEF Reach
  <2> QED
    BY <2>2, <2>3
<1> QED
  BY <1>6 DEF Reachable

\* A connect, by a timer, a subscribe or a login.
LEMMA ConnectReachable ==
    ASSUME Inv, Reachable, NEW c \in Conns, NEW f \in [Conns -> Entry],
           \A d \in Conns : Sound(f[d]) /\ f[d].ws = conn[d].ws
                            /\ f[d].state = conn[d].state
                            /\ (d # c => f[d].timer = conn[d].timer),
           NEW ss \in [Sockets -> SocketRecords],
           \A s \in Sockets : ss[s].conn = sock[s].conn
                              /\ (ss[s].st = "free" <=> sock[s].st = "free"),
           Connect(c, f, ss), kind' = kind, retired' = retired,
           \A d \in Conns : d # c => topics'[d] \subseteq topics[d]
    PROVE  Reachable'
<1>1. /\ \A d \in Conns : d # c => conn'[d] = f[d]
      /\ \A d : d # c => (d \in Waiters(mutex') <=> d \in Waiters(mutex))
  BY ConnectSpares
<1>2. \A s \in Sockets :
        \/ sock'[s] = ss[s]
        \/ sock[s].st = "free" /\ s # unset /\ sock'[s] = Dialled(c)
  BY ConnectKeeps
<1>3. ASSUME NEW d \in InUse' PROVE Reach(d)'
  <2>1. d \in Conns /\ Reach(d)
    BY DEF InUse, Reachable
  <2>2. CASE d # c
    <3>1. \A s \in Sockets :
             sock'[s].conn = d /\ sock'[s].st # "free"
             <=> sock[s].conn = d /\ sock[s].st # "free"
      BY <1>2, <2>1, <2>2, DialsSpare
    <3> QED
      BY <1>1, <2>1, <2>2, <3>1, UntouchedReach DEF Untouched
  <2>3. CASE d = c
    BY <2>1, <2>3, ConnectReaches
  <2> QED
    BY <2>2, <2>3
<1> QED
  BY <1>3 DEF Reachable

LEMMA ReconnectTimerReach ==
    ASSUME Inv, Reachable, NEW c \in Conns, ReconnectTimer(c)
    PROVE  Reachable'
<1>1. /\ conn \in [Conns -> Entry] /\ sock \in [Sockets -> SocketRecords]
      /\ \A d \in Conns : Sound(conn[d])
  BY Parts DEF Inv, Shape
<1> DEFINE f == [conn EXCEPT ![c].timer = FALSE]
<1>2. Connect(c, f, sock) /\ UNCHANGED <<kind, topics, retired>>
  BY DEF ReconnectTimer, callVars
<1>3. /\ f \in [Conns -> Entry]
      /\ \A d \in Conns : /\ Sound(f[d]) /\ f[d].ws = conn[d].ws
                          /\ f[d].state = conn[d].state
                          /\ (d # c => f[d].timer = conn[d].timer)
  BY <1>1 DEF Sound, Entry
<1> HIDE DEF f
<1> QED
  BY <1>1, <1>2, <1>3, ConnectReachable

\* A step of one connection, in use afterwards or not.
LEMMA ReachableFrom ==
    ASSUME Reachable, retired \subseteq retired', NEW c,
           \A d \in Conns : d # c => Untouched(d),
           c \in InUse' => Reach(c)'
    PROVE  Reachable'
<1>1. ASSUME NEW d \in InUse' PROVE Reach(d)'
  <2>1. d \in Conns /\ Reach(d)
    BY DEF InUse, Reachable
  <2> QED
    BY <1>1, <2>1, UntouchedReach
<1> QED
  BY <1>1 DEF Reachable

\* A step that leaves c its state and what may connect it.
LEMMA KeepsReach ==
    ASSUME NEW c \in Conns, Reach(c), kind' = kind,
           conn'[c].state = conn[c].state, conn[c].state # "none",
           Stranded(c)' => Stranded(c), Alive(c) => Alive(c)'
    PROVE  Reach(c)'
<1>1. conn[c].state \in {"CONNECTING", "CONNECTED", "RECONNECTING"}
  BY DEF Reach
<1>2. kind = "bybit" => ~Stranded(c)
  BY <1>1 DEF Reach, Stranded
<1>3. kind = "bybit" /\ conn[c].state = "CONNECTING" => Alive(c)
  BY DEF Reach
<1>4. conn[c].state # "CONNECTING" => ~Stranded(c)
  BY <1>1 DEF Reach
<1> QED
  BY <1>1, <1>2, <1>3, <1>4, ReachedAnew

\* A subscribe connects, unless the connection is up or on its way.
LEMMA SubscribeConnects ==
    ASSUME TypeOK, NEW c \in Conns, NEW t \in Topics, Subscribe(c, t)
    PROVE  \/ Connect(c, conn, sock)
           \/ /\ UNCHANGED <<conn, sock, mutex>>
              /\ conn[c].state \in {"CONNECTED", "CONNECTING", "RECONNECTING"}
<1>1. kind \in {"bybit", "okx", "okxBatch", "bitget"}
  BY Parts
<1>2. CASE kind = "bybit"
  <2>1. BybitSubscribe(c, t)
    BY <1>2, Zenon DEF Subscribe
  <2> QED
    BY <2>1 DEF BybitSubscribe, InProgress
<1>3. CASE kind = "okx"
  <2>1. OkxSubscribe(c, t)
    BY <1>3, Zenon DEF Subscribe
  <2> QED
    BY <2>1 DEF OkxSubscribe, InProgress
<1>4. CASE kind = "okxBatch"
  <2>1. OkxSubscribeBatch(c, t)
    BY <1>4, Zenon DEF Subscribe
  <2> QED
    BY <2>1 DEF OkxSubscribeBatch, InProgress
<1>5. CASE kind = "bitget"
  <2>1. BitgetSubscribe(c, t)
    BY <1>5, Zenon DEF Subscribe
  <2> QED
    BY <2>1 DEF BitgetSubscribe, InProgress
<1> QED
  BY <1>1, <1>2, <1>3, <1>4, <1>5

LEMMA SubscribeReach ==
    ASSUME Inv, Reachable, NEW c \in Conns, NEW t \in Topics, Subscribe(c, t)
    PROVE  Reachable'
<1>1. /\ conn \in [Conns -> Entry] /\ sock \in [Sockets -> SocketRecords]
      /\ \A d \in Conns : Sound(conn[d])
      /\ topics \in [Conns -> SUBSET Topics] /\ TypeOK
  BY Parts DEF Inv, Shape, TypeOK
<1>2. UNCHANGED <<kind, retired>> /\ c \notin retired
      /\ topics' = [topics EXCEPT ![c] = topics[c] \cup {t}]
  BY DEF Subscribe
<1>3. \A d \in Conns : d # c => topics'[d] \subseteq topics[d]
  BY <1>1, <1>2
<1>4. CASE Connect(c, conn, sock)
  BY <1>1, <1>2, <1>3, <1>4, ConnectReachable
<1>5. CASE /\ UNCHANGED <<conn, sock, mutex>>
           /\ conn[c].state \in {"CONNECTED", "CONNECTING", "RECONNECTING"}
  <2>1. \A d \in Conns : d # c => Untouched(d)
    BY <1>2, <1>3, <1>5 DEF Untouched
  <2>2. Reach(c)
    BY <1>2 DEF InUse, Reachable
  <2>3. Stranded(c)' = Stranded(c) /\ Alive(c)' = Alive(c)
    BY <1>5 DEF Stranded, Alive, Queued
  <2>4. Reach(c)'
    BY <1>2, <1>5, <2>2, <2>3, KeepsReach
  <2> QED
    BY <1>2, <2>1, <2>4, ReachableFrom
<1> QED
  BY <1>1, <1>4, <1>5, SubscribeConnects

LEMMA OnWsAuthenticatedReach ==
    ASSUME Inv, Reachable, NEW s \in Sockets, OnWsAuthenticated(s)
    PROVE  Reachable'
<1> DEFINE c == sock[s].conn
           g == [conn[c] EXCEPT !.authed = TRUE]
           f == [conn EXCEPT ![c] = g]
           in == [sock EXCEPT ![s] = [sock[s] EXCEPT !.in = TRUE]]
<1>1. /\ TypeOK /\ conn \in [Conns -> Entry] /\ sock \in [Sockets -> SocketRecords]
      /\ \A d \in Conns : Sound(conn[d])
  BY Parts DEF Inv, Shape
<1>2. /\ sock[s].st \in {"open", "leaving"}
      /\ \/ conn' = f /\ sock' = in /\ UNCHANGED mutex
         \/ Connect(c, f, in)
      /\ UNCHANGED <<kind, topics, retired>>
  <2>1. f = [conn EXCEPT ![c] = [conn[c] EXCEPT !.authed = TRUE]]
    OBVIOUS
  <2> HIDE DEF f, g
  <2> QED
    BY <1>1, <2>1, AuthenticatedParts DEF callVars
<1>3. c \in Conns
  BY <1>1, <1>2 DEF Inv, Shape
<1>4. /\ Sound(g) /\ g.ws = conn[c].ws /\ g.state = conn[c].state
      /\ g.timer = conn[c].timer
  BY <1>1, <1>3 DEF Sound, Entry
<1> HIDE DEF g
<1>5. /\ f \in [Conns -> Entry]
      /\ \A d \in Conns : Sound(f[d]) /\ f[d].ws = conn[d].ws
                          /\ f[d].state = conn[d].state
                          /\ f[d].timer = conn[d].timer
  BY <1>1, <1>3, <1>4 DEF Sound
<1>6. /\ in \in [Sockets -> SocketRecords]
      /\ \A r \in Sockets : in[r].conn = sock[r].conn /\ in[r].st = sock[r].st
  BY <1>1, <1>2 DEF SocketRecords
<1> HIDE DEF c, f, in
<1>7. CASE Connect(c, f, in)
  BY <1>2, <1>3, <1>5, <1>6, <1>7, ConnectReachable
<1>8. CASE conn' = f /\ sock' = in /\ UNCHANGED mutex
  <2>1. \A d \in Conns : Untouched(d)
    BY <1>2, <1>5, <1>6, <1>8 DEF Untouched
  <2>2. ASSUME NEW d \in InUse' PROVE Reach(d)'
    BY <1>2, <2>1, UntouchedReach DEF InUse, Reachable
  <2> QED
    BY <2>2 DEF Reachable
<1> QED
  BY <1>2, <1>7, <1>8

\* Steps that concern the state, the timer and the sockets of nobody.
LEMMA UntouchedReachable ==
    ASSUME Reachable, UNCHANGED retired, \A d \in Conns : Untouched(d)
    PROVE  Reachable'
<1>1. ASSUME NEW d \in InUse' PROVE Reach(d)'
  BY UntouchedReach DEF InUse, Reachable
<1> QED
  BY <1>1 DEF Reachable

LEMMA OnWsOpenReach ==
    ASSUME Inv, Reachable, NEW s \in Sockets, OnWsOpen(s)
    PROVE  Reachable'
<1> DEFINE c == sock[s].conn
<1> HIDE DEF c
<1>1. /\ c \in Conns /\ sock[s].st = "dialing"
      /\ sock' = [sock EXCEPT ![s].st = "open"]
      /\ \E g : /\ conn' = [conn EXCEPT ![c] = g] /\ g.state = "CONNECTED"
                /\ g.timer = conn[c].timer
      /\ Waiters(mutex') = Waiters(mutex)
      /\ UNCHANGED <<kind, topics, retired>>
  BY OpensParts DEF c, callVars
<1>2. conn \in [Conns -> Entry] /\ sock \in [Sockets -> SocketRecords]
  BY Parts DEF Inv
<1>3. /\ \A d \in Conns : d # c => conn'[d] = conn[d]
      /\ conn'[c].state = "CONNECTED"
  BY <1>1, <1>2
<1>4. /\ \A r \in Sockets : /\ sock'[r].conn = sock[r].conn
                            /\ sock'[r].st # "free" <=> sock[r].st # "free"
      /\ sock'[s].st = "open"
  BY <1>1, <1>2 DEF SocketRecords
<1>5. \A d \in Conns : d # c => Untouched(d)
  BY <1>1, <1>3, <1>4 DEF Untouched
<1>6. \E r \in Sockets : sock'[r].conn = sock[s].conn /\ sock'[r].st # "free"
  BY <1>4
<1>7. ASSUME NEW d, d = c PROVE Reach(d)'
  <2>1. Alive(d)'
    BY <1>6, <1>7 DEF Alive, c
  <2> QED
    BY <1>1, <1>3, <1>7, <2>1, ReachedAnew DEF Stranded
<1> QED
  BY <1>1, <1>5, <1>7, ReachableFrom

\* What an error or a missing pong does to a connection reaches it again.
LEMMA DropReaches ==
    ASSUME Inv, NEW c \in Conns, Reach(c), Fades(sock'), kind' = kind,
           conn' = [conn EXCEPT ![c] = ReconnectWithDelay(Dropped(conn[c]))]
    PROVE  Reach(c)'
<1>1. conn \in [Conns -> Entry] /\ Sound(conn[c])
  BY Parts DEF Inv, Shape
<1>2. Sound(Dropped(conn[c])) /\ Dropped(conn[c]).state = conn[c].state
  BY <1>1, DroppedKeeps
<1> DEFINE g == ReconnectWithDelay(Dropped(conn[c]))
<1>3. /\ g.timer = TRUE /\ g.state \in {"CONNECTING", "RECONNECTING"}
      /\ g.state = "CONNECTING" => conn[c].state = "CONNECTING"
  BY <1>2, ReconnectSets
<1>4. conn'[c] = g
  BY <1>1
<1> HIDE DEF g
<1>5. ~Stranded(c)'
  BY <1>3, <1>4 DEF Stranded
<1>6. Alive(c) => Alive(c)'
  BY DEF Alive, Fades
<1> QED
  BY <1>3, <1>4, <1>5, <1>6, ReachedAnew DEF Reach

LEMMA DroppedReachable ==
    ASSUME Inv, Reachable, NEW c \in Conns, Fades(sock'),
           UNCHANGED <<kind, topics, retired>>,
           Waiters(mutex') = Waiters(mutex),
           \/ UNCHANGED conn
           \/ \E b \in BOOLEAN : conn' = [conn EXCEPT ![c].pong = b]
           \/ conn' = [conn EXCEPT ![c] = Dropped(conn[c])]
           \/ conn' = [conn EXCEPT ![c] = ReconnectWithDelay(Dropped(conn[c]))]
    PROVE  Reachable'
<1>1. conn \in [Conns -> Entry] /\ Sound(conn[c])
  BY Parts DEF Inv, Shape
<1>2. \A d \in Conns : d # c => conn'[d] = conn[d]
  BY <1>1
<1>3. \A d \in Conns : \A s \in Sockets :
         sock'[s].conn = d /\ sock'[s].st # "free"
         <=> sock[s].conn = d /\ sock[s].st # "free"
  BY DEF Fades
<1>4. \A d \in Conns : d # c => Untouched(d)
  BY <1>2, <1>3 DEF Untouched
<1>5. CASE conn' = [conn EXCEPT ![c] = ReconnectWithDelay(Dropped(conn[c]))]
  <2>1. c \in InUse' => Reach(c)'
    BY <1>5, DropReaches DEF InUse, Reachable
  <2> QED
    BY <1>4, <2>1, ReachableFrom
<1>6. ASSUME NEW g, conn' = [conn EXCEPT ![c] = g], g.state = conn[c].state,
             g.timer = conn[c].timer
      PROVE  Reachable'
  <2>1. conn'[c].state = conn[c].state /\ conn'[c].timer = conn[c].timer
    BY <1>1, <1>6
  <2>2. Untouched(c)
    BY <1>3, <2>1 DEF Untouched
  <2> QED
    BY <1>4, <2>2, UntouchedReachable
<1>7. CASE conn' = [conn EXCEPT ![c] = Dropped(conn[c])]
  BY <1>1, <1>6, <1>7, DroppedKeeps
<1>8. CASE UNCHANGED conn
  BY <1>1, <1>6, <1>8
<1>9. ASSUME NEW b \in BOOLEAN, conn' = [conn EXCEPT ![c].pong = b]
      PROVE  Reachable'
  <2> DEFINE g == [conn[c] EXCEPT !.pong = b]
  <2>1. conn' = [conn EXCEPT ![c] = g]
    BY <1>9
  <2>2. g.state = conn[c].state /\ g.timer = conn[c].timer
    BY <1>1 DEF Sound, Entry
  <2> HIDE DEF g
  <2> QED
    BY <1>6, <2>1, <2>2
<1> QED
  BY <1>5, <1>7, <1>8, <1>9

LEMMA PongReach ==
    ASSUME Inv, Reachable, NEW c \in Conns,
           OnWsMessage(c) \/ Ping(c) \/ PongTimeout(c)
    PROVE  Reachable'
<1>1. /\ TypeOK /\ conn[c].ws \in Sockets \cup {None}
      /\ UNCHANGED <<kind, topics, retired, mutex>>
  BY Parts DEF Inv, OnWsMessage, Ping, PongTimeout, callVars, lockVars
<1>2. Fades(sock) /\ Fades(Terminated(conn[c].ws))
  BY <1>1, SockFades, TerminatedFades
<1>3. CASE OnWsMessage(c) \/ Ping(c)
  <2>1. /\ \E b \in BOOLEAN : conn' = [conn EXCEPT ![c].pong = b]
        /\ UNCHANGED sock
    BY <1>3 DEF OnWsMessage, Ping, netVars
  <2> QED
    BY <1>1, <1>2, <2>1, DroppedReachable
<1>4. CASE PongTimeout(c)
  <2>1. /\ sock' = Terminated(conn[c].ws)
        /\ \/ conn' = [conn EXCEPT ![c].pong = FALSE]
           \/ conn' = [conn EXCEPT ![c] = Dropped(conn[c])]
           \/ conn' = [conn EXCEPT ![c] = ReconnectWithDelay(Dropped(conn[c]))]
    BY <1>4 DEF PongTimeout, BitgetPongTimeout, ReconnectableClose, Dropped
  <2> QED
    BY <1>1, <1>2, <2>1, DroppedReachable
<1> QED
  BY <1>3, <1>4

LEMMA OnWsErrorReach ==
    ASSUME Inv, Reachable, NEW s \in Sockets, OnWsError(s)
    PROVE  Reachable'
<1> DEFINE c == sock[s].conn
<1> HIDE DEF c
<1>1. /\ c \in Conns /\ sock[s].st \in {"refused", "failing"}
      /\ \/ sock' = AfterError(sock, s) /\ UNCHANGED conn
         \/ /\ sock' = AfterError(Terminated(conn[c].ws), s)
            /\ \/ conn' = [conn EXCEPT ![c] = Dropped(conn[c])]
               \/ conn' = [conn EXCEPT
                             ![c] = ReconnectWithDelay(Dropped(conn[c]))]
      /\ UNCHANGED mutex \/ mutex' = Release(mutex)
      /\ UNCHANGED <<kind, topics, retired>>
  BY ErrorParts DEF c
<1>2. conn[c].ws \in Sockets \cup {None} /\ mutex \in Mutexes /\ TypeOK
  BY <1>1, Parts DEF Inv
<1>3. Fades(sock')
  <2>1. Fades(sock) /\ Fades(Terminated(conn[c].ws))
    BY <1>2, SockFades, TerminatedFades
  <2> QED
    BY <1>1, <1>2, <2>1, AfterErrorFades
<1>4. Waiters(mutex') = Waiters(mutex)
  BY <1>1, <1>2, ReleaseMoves
<1> QED
  BY <1>1, <1>3, <1>4, DroppedReachable

\* The close of a connection that nobody is closing sets its timer.
LEMMA OnWsCloseReach ==
    ASSUME Inv, Reachable, NEW s \in Sockets, OnWsClose(s)
    PROVE  Reachable'
<1> DEFINE c == sock[s].conn
<1> HIDE DEF c
<1>1. /\ c \in Conns
      /\ sock' = [sock EXCEPT ![s] = [Unused EXCEPT !.conn = c]]
      /\ \E g : /\ conn' = [conn EXCEPT ![c] = g]
                /\ conn[c].state # "CLOSING" =>
                     /\ g.timer /\ g.state \in {"RECONNECTING", "CONNECTING"}
                     /\ kind = "bybit" => g.state = "RECONNECTING"
      /\ \A d \in Conns : topics'[d] \subseteq topics[d]
      /\ Waiters(mutex') = Waiters(mutex) /\ UNCHANGED <<kind, retired>>
  BY ClosesParts DEF c, callVars
<1>2. conn \in [Conns -> Entry] /\ sock \in [Sockets -> SocketRecords]
  BY Parts DEF Inv
<1>3. \A d \in Conns : d # c => conn'[d] = conn[d]
  BY <1>1, <1>2
<1>4. ASSUME NEW d \in Conns, d # c PROVE Untouched(d)
  <2>1. \A r \in Sockets :
          sock'[r].conn = d /\ sock'[r].st # "free"
          <=> sock[r].conn = d /\ sock[r].st # "free"
    BY <1>1, <1>2, <1>4 DEF c, Unused
  <2> QED
    BY <1>1, <1>3, <1>4, <2>1 DEF Untouched
<1>5. ASSUME NEW d, d = c, d \in InUse' PROVE Reach(d)'
  <2>1. conn[d].state # "CLOSING"
    BY <1>1, <1>5 DEF InUse, Reachable, Reach
  <2>2. /\ conn'[d].timer /\ conn'[d].state \in {"RECONNECTING", "CONNECTING"}
        /\ kind = "bybit" => conn'[d].state = "RECONNECTING"
    BY <1>1, <1>2, <1>5, <2>1
  <2> QED
    BY <1>1, <1>5, <2>2, ReachedAnew DEF Stranded
<1> QED
  BY <1>1, <1>4, <1>5, ReachableFrom

LEMMA RetireReach ==
    ASSUME Inv, Reachable, NEW c \in Conns,
           Closing(c) \/ Halting(c) \/ UNCHANGED <<conn, sock>>,
           c \in retired', retired \subseteq retired',
           UNCHANGED <<kind, topics, mutex>>
    PROVE  Reachable'
<1>1. conn \in [Conns -> Entry]
  BY Parts DEF Inv
<1>2. \A d \in Conns : d # c => Untouched(d)
  <2>1. CASE Closing(c)
    <3>1. /\ \A d \in Conns : d # c => conn'[d] = conn[d]
          /\ \A r \in Sockets :
               /\ sock'[r].conn = sock[r].conn
               /\ sock'[r].st = "free" <=> sock[r].st = "free"
      BY <1>1, <2>1, ClosingParts
    <3> QED
      BY <3>1 DEF Untouched
  <2>2. CASE UNCHANGED <<conn, sock>>
    BY <2>2 DEF Untouched
  <2>3. CASE Halting(c)
    <3>1. UNCHANGED sock /\ \A d \in Conns : d # c => conn'[d] = conn[d]
      BY <1>1, <2>3 DEF Halting
    <3> QED
      BY <3>1 DEF Untouched
  <2> QED
    BY <2>1, <2>2, <2>3
<1>3. c \notin InUse'
  BY DEF InUse
<1> QED
  BY <1>2, <1>3, ReachableFrom

LEMMA ClosesReach ==
    ASSUME Inv, Reachable, BybitClose \/ \E c \in Conns : CloseAll(c)
    PROVE  Reachable'
<1>1. CASE BybitClose
  <2>1. /\ closings \in Seq(Conns) /\ closings # <<>>
        /\ Range(closings) \subseteq retired
    BY <1>1 DEF Inv, Shape, TypeOK, BybitClose
  <2>2. Head(closings) \in Conns /\ Head(closings) \in Range(closings)
    BY <2>1, RangeOfHead
  <2>3. Closing(Head(closings)) /\ UNCHANGED <<kind, topics, mutex, retired>>
    BY <1>1 DEF BybitClose, lockVars
  <2> QED
    BY <2>1, <2>2, <2>3, RetireReach
<1>2. ASSUME NEW c \in Conns, CloseAll(c) PROVE Reachable'
  BY <1>2, CloseAllParts, RetireReach DEF lockVars
<1> QED
  BY <1>1, <1>2

\* Turns that write neither state nor timers nor sockets.
LEMMA TurnsReach ==
    ASSUME Inv, Reachable,
           \/ OkxRegisters \/ OkxRequests
           \/ \E c \in Conns : BybitWakes(c) \/ BitgetRequests(c) \/ BitgetLogin(c)
    PROVE  Reachable'
<1>1. mutex \in Mutexes /\ conn \in [Conns -> Entry]
      /\ sock \in [Sockets -> SocketRecords]
  BY Parts DEF Inv
<1>2. /\ UNCHANGED <<kind, topics, sock, retired>>
      /\ UNCHANGED mutex \/ mutex' = Release(mutex)
  BY DEF OkxRegisters, OkxRequests, BybitWakes, BitgetRequests, BitgetLogin,
         callVars, lockVars, netVars
<1>3. Waiters(mutex') = Waiters(mutex)
  BY <1>1, <1>2, ReleaseMoves
<1>4. \A d \in Conns : conn'[d].state = conn[d].state
                       /\ conn'[d].timer = conn[d].timer
  <2>1. CASE UNCHANGED conn
    BY <2>1
  <2>2. CASE OkxRegisters
    <3> DEFINE c == sock[unset].conn
               g == [conn[c] EXCEPT !.ws = unset]
    <3>1. c \in Conns /\ conn' = [conn EXCEPT ![c] = g]
      BY <2>2 DEF OkxRegisters, Inv, Shape
    <3>2. g.state = conn[c].state /\ g.timer = conn[c].timer
      BY <1>1, <3>1 DEF Entry
    <3> HIDE DEF c, g
    <3> QED
      BY <1>1, <3>1, <3>2
  <2>3. ASSUME NEW c \in Conns, BitgetLogin(c)
        PROVE  \A d \in Conns : conn'[d].state = conn[d].state
                                /\ conn'[d].timer = conn[d].timer
    <3> DEFINE n == conn[c].beats + 1
               g == [conn[c] EXCEPT !.opening = FALSE, !.beats = n,
                                    !.beating = TRUE]
    <3>1. conn' = [conn EXCEPT ![c] = g]
      BY <2>3 DEF BitgetLogin
    <3> HIDE DEF n
    <3>2. g.state = conn[c].state /\ g.timer = conn[c].timer
      BY <1>1 DEF Entry
    <3> HIDE DEF g
    <3> QED
      BY <1>1, <3>1, <3>2
  <2> QED
    BY <2>1, <2>2, <2>3 DEF OkxRequests, BybitWakes, BitgetRequests
<1> QED
  BY <1>2, <1>3, <1>4, UntouchedReachable DEF Untouched

LEMMA SocketFailsReach ==
    ASSUME Inv, Reachable, NEW s \in Sockets, SocketFails(s)
    PROVE  Reachable'
<1>1. UNCHANGED <<kind, conn, topics, mutex, retired>>
  BY DEF SocketFails, lockVars, callVars
<1>2. PICK st \in {"refused", "failing", "ended"} :
         /\ sock' = [sock EXCEPT ![s].st = st]
         /\ sock[s].st \in {"dialing", "open"}
  BY DEF SocketFails
<1>3. sock \in [Sockets -> SocketRecords]
  BY Parts DEF Inv
<1>4. \A r \in Sockets : /\ sock'[r].conn = sock[r].conn
                         /\ sock'[r].st # "free" <=> sock[r].st # "free"
  BY <1>2, <1>3 DEF SocketRecords
<1> QED
  BY <1>1, <1>4, UntouchedReachable DEF Untouched

LEMMA NextReach == Inv /\ Reachable /\ [Next]_vars => Reachable'
<1> SUFFICES ASSUME Inv, Reachable, [Next]_vars PROVE Reachable'
  OBVIOUS
<1>1. CASE UNCHANGED vars
  BY <1>1 DEF vars, netVars, lockVars, callVars, Reachable, Reach, InUse,
              Stranded, Alive, Queued
<1>2. ASSUME NEW s \in Sockets, Ends(s) PROVE Reachable'
  BY <1>2, OnWsErrorReach, OnWsCloseReach DEF Ends
<1>3. CASE Dials
  BY <1>3, BybitDialsReach, OkxDialsReach DEF Dials
<1>4. ASSUME NEW c \in Conns, Caller(c) PROVE Reachable'
  BY <1>4, SubscribeReach, ClosesReach DEF Caller
<1>5. ASSUME NEW c \in Conns, Timers(c) PROVE Reachable'
  BY <1>5, ReconnectTimerReach, PongReach DEF Timers
<1>6. CASE Turns
  BY <1>6, TurnsReach, ClosesReach DEF Turns
<1>7. CASE Network
  BY <1>7, OnWsOpenReach, OnWsAuthenticatedReach, SocketFailsReach, PongReach
     DEF Network
<1> QED
  BY <1>1, <1>2, <1>3, <1>4, <1>5, <1>6, <1>7 DEF Next

LEMMA InitReach == Init => Reachable
<1> SUFFICES ASSUME Init, NEW c \in InUse PROVE Reach(c)
  BY DEF Reachable
<1>1. /\ c \in Conns /\ conn[c].state = "none" /\ conn[c].timer = FALSE
      /\ topics[c] = {}
  BY DEF Init, Fresh, InUse
<1>2. ~Alive(c)
  BY DEF Init, Alive, Unused
<1>3. ~Queued(c)
  BY DEF Init, Queued, Range
<1> QED
  BY <1>1, <1>2, <1>3 DEF Reach, Stranded

\* A connection with topics keeps a socket, a timer or a place at the mutex,
\* whatever errors, closes, timeouts and connects do to it: nobody strands it
\* but the clients that refuse to dial again after a failed first dial.
THEOREM NobodyStrands == Spec => []ReconnectsForEver
<1>1. Inv /\ Reachable => ReconnectsForEver
  <2> SUFFICES ASSUME Inv, Reachable, NEW c \in InUse, topics[c] # {},
                      ~StillConnecting(c)
               PROVE  ~Stranded(c)
    BY DEF ReconnectsForEver
  <2> QED
    BY DEF Reachable, Reach, StillConnecting
<1> QED
  BY InitInv, NextInv, InitReach, NextReach, <1>1, PTL DEF Spec

-----------------------------------------------------------------------------
(* Every stored topic is requested.                                         *)

\* On the open registered socket of c: a private one is logged in or about to
\* be, and each stored topic was requested or will be.
Covered(c) ==
    conn[c].state = "CONNECTED" /\ IsWsOpen(c) =>
        /\ c \in Private => \/ conn[c].authed \/ conn[c].opening
                            \/ conn[c].ws \in login
        /\ \A t \in topics[c] : t \in sent[conn[c].ws] \/ Pending(c, t)

AllCovered == kind \in {"bybit", "bitget"} => \A c \in Conns : Covered(c)

\* A batch with topic t waits for its turn and will not be dropped.
InBatch(c, t) ==
    \E b \in Range(requests) : /\ b.conn = c /\ t \in b.topics
                               /\ b.generation = opened[c]

LEMMA PendingInBatch ==
    ASSUME NEW c, NEW t
    PROVE  Pending(c, t) <=> \/ conn[c].opening \/ conn[c].ws \in login
                             \/ InBatch(c, t)
<1>1. InBatch(c, t) <=> \E i \in DOMAIN requests :
                           /\ requests[i].conn = c /\ t \in requests[i].topics
                           /\ requests[i].generation = opened[c]
  BY DEF InBatch, Range
<1> QED
  BY <1>1 DEF Pending

\* A step after which d has no open registered socket but the one it had, and
\* what was asked of that one stands.
Kept(d) ==
    /\ kind' = kind /\ topics'[d] \subseteq topics[d]
    /\ conn'[d].state = "CONNECTED" /\ IsWsOpen(d)' =>
         /\ conn[d].state = "CONNECTED" /\ IsWsOpen(d)
         /\ conn'[d].ws = conn[d].ws
         /\ conn[d].authed => conn'[d].authed
         /\ conn[d].opening => conn'[d].opening
         /\ conn[d].ws \in login => conn[d].ws \in login'
         /\ sent[conn[d].ws] \subseteq sent'[conn[d].ws]
    /\ opened'[d] = opened[d]
    /\ \A b \in Range(requests) : b.conn = d => b \in Range(requests')

LEMMA KeptCovered ==
    ASSUME NEW d \in Conns, Covered(d), Kept(d)
    PROVE  Covered(d)'
<1> SUFFICES ASSUME conn'[d].state = "CONNECTED", IsWsOpen(d)'
             PROVE  /\ d \in Private => \/ conn'[d].authed \/ conn'[d].opening
                                        \/ conn'[d].ws \in login'
                    /\ \A t \in topics'[d] :
                          t \in sent'[conn'[d].ws] \/ Pending(d, t)'
  BY DEF Covered
<1>1. /\ conn'[d].ws = conn[d].ws
      /\ conn[d].authed => conn'[d].authed
      /\ conn[d].opening => conn'[d].opening
      /\ conn[d].ws \in login => conn[d].ws \in login'
      /\ sent[conn[d].ws] \subseteq sent'[conn[d].ws]
      /\ topics'[d] \subseteq topics[d]
  BY DEF Kept
<1>2. /\ d \in Private => \/ conn[d].authed \/ conn[d].opening
                          \/ conn[d].ws \in login
      /\ \A t \in topics[d] : t \in sent[conn[d].ws] \/ Pending(d, t)
  BY DEF Covered, Kept
<1>3. ASSUME NEW t \in topics'[d] PROVE t \in sent'[conn'[d].ws] \/ Pending(d, t)'
  <2>1. CASE t \in sent[conn[d].ws]
    BY <1>1, <2>1
  <2>2. CASE Pending(d, t)
    <3>1. InBatch(d, t) => InBatch(d, t)'
      BY DEF InBatch, Kept
    <3>2. Pending(d, t) => conn[d].opening \/ conn[d].ws \in login \/ InBatch(d, t)
      BY PendingInBatch
    <3>3. conn'[d].opening \/ conn'[d].ws \in login' \/ InBatch(d, t)'
      BY <1>1, <2>2, <3>1, <3>2
    <3>4. Pending(d, t)' <=> conn'[d].opening \/ conn'[d].ws \in login'
                             \/ InBatch(d, t)'
      <4>1. InBatch(d, t)' <=>
              \E i \in DOMAIN requests' :
                 /\ requests'[i].conn = d /\ t \in requests'[i].topics
                 /\ requests'[i].generation = opened'[d]
        BY DEF InBatch, Range
      <4> QED
        BY <4>1 DEF Pending
    <3> QED
      BY <3>3, <3>4
  <2> QED
    BY <1>1, <1>2, <1>3, <2>1, <2>2
<1> QED
  BY <1>1, <1>2, <1>3

\* A step of one connection.
LEMMA CoveredFrom ==
    ASSUME AllCovered, kind' = kind, NEW c,
           kind \in {"bybit", "bitget"} =>
             \A d \in Conns : /\ d # c => Kept(d)
                              /\ d = c => Covered(d)'
    PROVE  AllCovered'
<1>1. ASSUME kind \in {"bybit", "bitget"}, NEW d \in Conns PROVE Covered(d)'
  BY <1>1, KeptCovered DEF AllCovered
<1> QED
  BY <1>1 DEF AllCovered

LEMMA KeptAllCovered ==
    ASSUME AllCovered, kind' = kind,
           kind \in {"bybit", "bitget"} => \A d \in Conns : Kept(d)
    PROVE  AllCovered'
<1>1. ASSUME kind \in {"bybit", "bitget"}, NEW d \in Conns PROVE Covered(d)'
  BY <1>1, KeptCovered DEF AllCovered
<1> QED
  BY <1>1 DEF AllCovered

\* A step that rewrites the entry of c, which comes no nearer to an open
\* socket, and lets sockets fade.
LEMMA EntryKept ==
    ASSUME Inv, NEW c \in Conns, NEW g, conn' = [conn EXCEPT ![c] = g],
           g.state = "CONNECTED" =>
             /\ conn[c].state = "CONNECTED" /\ g.ws = conn[c].ws
             /\ g.authed = conn[c].authed /\ g.opening = conn[c].opening,
           \A r \in Sockets : sock'[r].st = "open" => sock[r].st = "open",
           UNCHANGED <<kind, sent, login, requests, opened>>,
           \A d \in Conns : topics'[d] \subseteq topics[d]
    PROVE  \A d \in Conns : Kept(d)
<1>1. conn \in [Conns -> Entry] /\ None \notin Sockets
      /\ \A d \in Conns : conn[d].ws \in Sockets \cup {None}
  BY Parts DEF Inv
<1>2. (\A d \in Conns : d # c => conn'[d] = conn[d]) /\ conn'[c] = g
  BY <1>1
<1>3. ASSUME NEW d \in Conns, conn'[d].state = "CONNECTED", IsWsOpen(d)'
      PROVE  /\ conn[d].state = "CONNECTED" /\ IsWsOpen(d)
             /\ conn'[d].ws = conn[d].ws
             /\ conn'[d].authed = conn[d].authed
             /\ conn'[d].opening = conn[d].opening
  <2>1. /\ conn[d].state = "CONNECTED" /\ conn'[d].ws = conn[d].ws
        /\ conn'[d].authed = conn[d].authed
        /\ conn'[d].opening = conn[d].opening
    BY <1>2, <1>3
  <2>2. conn'[d].ws # None /\ sock'[conn'[d].ws].st = "open"
    BY <1>3 DEF IsWsOpen, IsOpen
  <2> QED
    BY <1>1, <2>1, <2>2 DEF IsWsOpen, IsOpen
<1> QED
  BY <1>3 DEF Kept

LEMMA EntryCovered ==
    ASSUME Inv, AllCovered, NEW c \in Conns, NEW g,
           conn' = [conn EXCEPT ![c] = g],
           g.state = "CONNECTED" =>
             /\ conn[c].state = "CONNECTED" /\ g.ws = conn[c].ws
             /\ g.authed = conn[c].authed /\ g.opening = conn[c].opening,
           \A r \in Sockets : sock'[r].st = "open" => sock[r].st = "open",
           UNCHANGED <<kind, sent, login, requests, opened>>,
           \A d \in Conns : topics'[d] \subseteq topics[d]
    PROVE  AllCovered'
BY EntryKept, KeptAllCovered

\* A connect opens nothing and leaves connections as connected as they were.
LEMMA ConnectOpens ==
    ASSUME Inv, kind \in {"bybit", "bitget"}, NEW c \in Conns,
           NEW f \in [Conns -> Entry],
           \A d \in Conns : Sound(f[d]) /\ f[d].ws = conn[d].ws
                            /\ f[d].state = conn[d].state,
           NEW ss \in [Sockets -> SocketRecords],
           \A s \in Sockets : ss[s].conn = sock[s].conn /\ ss[s].st = sock[s].st,
           Connect(c, f, ss)
    PROVE  /\ \A d \in Conns : conn'[d].authed = f[d].authed
                               /\ conn'[d].opening = f[d].opening
           /\ \A s \in Sockets : sock'[s].st = "open" => sock[s].st = "open"
           /\ \A d \in Conns :
                conn'[d].state = "CONNECTED" /\ IsWsOpen(d)' =>
                  /\ conn[d].state = "CONNECTED" /\ IsWsOpen(d)
                  /\ conn'[d].ws = conn[d].ws
<1>1. /\ None \notin Sockets
      /\ \A d \in Conns : conn[d].ws \in Sockets \cup {None} /\ f[d] \in Entry
  BY Parts DEF Inv
<1>2. /\ conn'[c].authed = f[c].authed
      /\ \A d \in Conns : (d # c => conn'[d] = f[d])
                          /\ conn'[d].opening = f[d].opening
      /\ conn'[c].state \in {conn[c].state, Starts(f[c])}
      /\ \A s \in Sockets : sock'[s] = ss[s] \/ sock'[s] = Dialled(c)
  BY ConnectSpares, ConnectKeeps
<1>3. \A s \in Sockets : sock'[s].st = "open" => sock[s].st = "open"
  BY <1>2 DEF Dialled
<1>4. ASSUME NEW d \in Conns PROVE conn'[d].authed = f[d].authed
  BY <1>2
<1>5. conn'[c].state = "CONNECTED" => conn[c].state = "CONNECTED"
  BY <1>2 DEF Starts
<1>6. conn'[c].ws = conn[c].ws \/ ~IsWsOpen(c)'
  <2>1. CASE kind = "bybit"
    BY <2>1 DEF Connect, BybitConnect
  <2>2. CASE kind = "bitget"
    <3>1. BitgetConnect(c, f, ss)
      BY <2>2, Zenon DEF Connect
    <3>2. CASE conn' = f
      BY <3>2
    <3>3. CASE /\ Free # {} /\ sock' = [ss EXCEPT ![NewSocket] = Dialled(c)]
               /\ conn' = [f EXCEPT ![c].state = Starts(f[c]), ![c].ws = NewSocket]
      <4> DEFINE n == NewSocket
                 st == Starts(f[c])
      <4>1. n \in Sockets
        BY <3>3, NewSocketIsFree
      <4>2. /\ sock' = [ss EXCEPT ![n] = Dialled(c)]
            /\ conn' = [f EXCEPT ![c].state = st, ![c].ws = n]
        BY <3>3
      <4> HIDE DEF n, st
      <4>3. conn'[c].ws = n /\ sock'[n].st = "dialing"
        BY <1>1, <4>1, <4>2 DEF Dialled, Entry
      <4>4. sock'[conn'[c].ws].st = "dialing"
        BY <4>3
      <4> QED
        BY <4>4 DEF IsWsOpen, IsOpen
    <3> QED
      BY <3>1, <3>2, <3>3 DEF BitgetConnect
  <2> QED
    BY <2>1, <2>2
<1>7. ASSUME NEW d \in Conns, conn'[d].state = "CONNECTED", IsWsOpen(d)'
      PROVE  conn[d].state = "CONNECTED" /\ IsWsOpen(d) /\ conn'[d].ws = conn[d].ws
  <2>1. conn[d].state = "CONNECTED" /\ conn'[d].ws = conn[d].ws
    BY <1>2, <1>5, <1>6, <1>7
  <2>2. conn'[d].ws # None /\ sock'[conn'[d].ws].st = "open"
    BY <1>7 DEF IsWsOpen, IsOpen
  <2> QED
    BY <1>1, <1>3, <2>1, <2>2 DEF IsWsOpen, IsOpen
<1> QED
  BY <1>2, <1>3, <1>4, <1>7

LEMMA ConnectKept ==
    ASSUME Inv, kind \in {"bybit", "bitget"}, NEW c \in Conns,
           NEW f \in [Conns -> Entry],
           \A d \in Conns : Sound(f[d]) /\ f[d].ws = conn[d].ws
                            /\ f[d].state = conn[d].state
                            /\ (conn[d].authed => f[d].authed)
                            /\ f[d].opening = conn[d].opening,
           NEW ss \in [Sockets -> SocketRecords],
           \A s \in Sockets : ss[s].conn = sock[s].conn /\ ss[s].st = sock[s].st,
           Connect(c, f, ss), kind' = kind, opened' = opened,
           \A s \in Sockets : sent[s] \subseteq sent'[s],
           \A b \in Range(requests) : b \in Range(requests'),
           NEW d \in Conns, topics'[d] \subseteq topics[d],
           conn[d].ws \in login => conn[d].ws \in login'
    PROVE  Kept(d)
<1>1. conn[d].ws \in Sockets \cup {None} /\ None \notin Sockets
  BY Parts DEF Inv
<1>2. IsWsOpen(d) => conn[d].ws \in Sockets
  BY <1>1 DEF IsWsOpen, IsOpen
<1>3. conn'[d].authed = f[d].authed /\ conn'[d].opening = f[d].opening
  BY ConnectOpens
<1>4. conn'[d].state = "CONNECTED" /\ IsWsOpen(d)' =>
        conn[d].state = "CONNECTED" /\ IsWsOpen(d) /\ conn'[d].ws = conn[d].ws
  BY ConnectOpens
<1> QED
  BY <1>2, <1>3, <1>4 DEF Kept

LEMMA ReconnectTimerCovered ==
    ASSUME Inv, AllCovered, NEW c \in Conns, ReconnectTimer(c)
    PROVE  AllCovered'
<1>1. /\ conn \in [Conns -> Entry] /\ sock \in [Sockets -> SocketRecords]
      /\ \A d \in Conns : Sound(conn[d])
  BY Parts DEF Inv, Shape
<1> DEFINE f == [conn EXCEPT ![c].timer = FALSE]
<1>2. Connect(c, f, sock) /\ UNCHANGED <<kind, topics, sent, login, requests, opened>>
  BY DEF ReconnectTimer, queueVars
<1>3. /\ f \in [Conns -> Entry]
      /\ \A d \in Conns : /\ Sound(f[d]) /\ f[d].ws = conn[d].ws
                          /\ f[d].state = conn[d].state
                          /\ f[d].authed = conn[d].authed
                          /\ f[d].opening = conn[d].opening
  BY <1>1 DEF Sound, Entry
<1> HIDE DEF f
<1>4. kind \in {"bybit", "bitget"} => \A d \in Conns : Kept(d)
  BY <1>1, <1>2, <1>3, ConnectKept
<1> QED
  BY <1>2, <1>4, KeptAllCovered

\* A subscribe of a connected store asks for its topic, or leaves that to the
\* login that is on its way.
LEMMA SubscribeAsks ==
    ASSUME TypeOK, kind \in {"bybit", "bitget"},
           NEW c \in Conns, NEW t \in Topics, Subscribe(c, t)
    PROVE  \/ /\ Connect(c, conn, sock) /\ conn[c].state # "CONNECTED"
              /\ UNCHANGED <<sent, requests>>
           \/ /\ UNCHANGED <<conn, sock, mutex, sent, requests>>
              /\ conn[c].state # "CONNECTED"
           \/ /\ UNCHANGED <<conn, sock, mutex, sent>> /\ kind = "bybit"
              /\ UNCHANGED requests /\ c \in Private /\ ~conn[c].authed
           \/ /\ UNCHANGED <<conn, sock, mutex, requests>>
              /\ SendNow(c, {t}) /\ kind = "bybit"
              /\ c \in Private => conn[c].authed
           \/ /\ UNCHANGED <<conn, sock, mutex, sent>> /\ kind = "bitget"
              /\ Enqueue(c, {}) /\ c \in Private /\ ~conn[c].authed
           \/ /\ UNCHANGED <<conn, sock, mutex, sent>> /\ kind = "bitget"
              /\ Enqueue(c, {t})
<1>1. CASE kind = "bybit"
  <2>1. BybitSubscribe(c, t)
    BY <1>1, Zenon DEF Subscribe
  <2> QED
    BY <1>1, <2>1 DEF BybitSubscribe, InProgress, Logs, Okx
<1>2. CASE kind = "bitget"
  <2>1. BitgetSubscribe(c, t)
    BY <1>2, Zenon DEF Subscribe
  <2> QED
    BY <1>2, <2>1 DEF BitgetSubscribe, InProgress, Logs
<1> QED
  BY <1>1, <1>2

LEMMA SubscribeCovered ==
    ASSUME Inv, AllCovered, NEW c \in Conns, NEW t \in Topics, Subscribe(c, t)
    PROVE  AllCovered'
<1>1. /\ conn \in [Conns -> Entry] /\ sock \in [Sockets -> SocketRecords]
      /\ \A d \in Conns : Sound(conn[d]) /\ conn[d].ws \in Sockets \cup {None}
      /\ topics \in [Conns -> SUBSET Topics] /\ TypeOK /\ None \notin Sockets
  BY Parts DEF Inv, Shape, TypeOK
<1>2. /\ UNCHANGED <<kind, login, opened>>
      /\ topics' = [topics EXCEPT ![c] = topics[c] \cup {t}]
  BY DEF Subscribe
<1>3. /\ \A d \in Conns : d # c => topics'[d] \subseteq topics[d]
      /\ topics'[c] = topics[c] \cup {t}
  BY <1>1, <1>2
<1> SUFFICES ASSUME kind \in {"bybit", "bitget"}, NEW d \in Conns
             PROVE  (d # c => Kept(d)) /\ (d = c => Covered(d)')
  BY <1>2, CoveredFrom
<1>4. /\ \A s \in Sockets : sent[s] \subseteq sent'[s]
      /\ \A b \in Range(requests) : b \in Range(requests')
  <2>1. UNCHANGED sent \/ SendNow(c, {t})
    BY <1>1, SubscribeParts
  <2>2. UNCHANGED requests \/ \E ts \in {{}, {t}} : Enqueue(c, ts)
    BY <1>1, SubscribeParts
  <2>3. \A s \in Sockets : sent[s] \subseteq sent'[s]
    BY <1>1, <2>1, SendNowAdds
  <2>4. ASSUME NEW ts \in {{}, {t}}, Enqueue(c, ts)
        PROVE  \A b \in Range(requests) : b \in Range(requests')
    BY <1>1, <2>4, EnqueueAdds
  <2> QED
    BY <2>2, <2>3, <2>4
<1>5. CASE d # c
  <2>1. CASE Connect(c, conn, sock)
    BY <1>1, <1>2, <1>3, <1>4, <1>5, <2>1, ConnectKept
  <2>2. CASE UNCHANGED <<conn, sock>>
    BY <1>1, <1>2, <1>3, <1>4, <1>5, <2>2 DEF Kept, IsWsOpen, IsOpen
  <2> QED
    BY <1>1, <1>5, <2>1, <2>2, SubscribeParts
<1>6. CASE d = c
  <2>1. CASE Connect(c, conn, sock) /\ conn[c].state # "CONNECTED"
    <3>1. conn'[c].state # "CONNECTED"
      BY <1>1, <2>1, ConnectSpares DEF Starts
    <3> QED
      BY <1>6, <3>1 DEF Covered
  <2>2. CASE UNCHANGED <<conn, sock>> /\ conn[c].state # "CONNECTED"
    BY <1>6, <2>2 DEF Covered
  <2>3. ASSUME UNCHANGED <<conn, sock>>, conn[c].state = "CONNECTED", IsWsOpen(c),
               c \in Private => conn[c].authed \/ conn[c].opening
                                \/ conn[c].ws \in login,
               t \in sent'[conn[c].ws] \/ Pending(c, t)'
        PROVE  Covered(c)'
    <3>1. ASSUME NEW x \in topics'[c] PROVE x \in sent'[conn[c].ws] \/ Pending(c, x)'
      <4>1. CASE x = t
        BY <2>3, <4>1
      <4>2. CASE x \in topics[c] /\ x \in sent[conn[c].ws]
        BY <1>1, <1>4, <2>3, <4>2 DEF IsWsOpen, IsOpen
      <4>3. CASE x \in topics[c] /\ Pending(c, x)
        <5>1. conn[c].opening \/ conn[c].ws \in login \/ InBatch(c, x)
          BY <4>3, PendingInBatch
        <5>2. InBatch(c, x) => InBatch(c, x)'
          BY <1>2, <1>4 DEF InBatch
        <5>3. InBatch(c, x)' =>
                \E i \in DOMAIN requests' :
                   /\ requests'[i].conn = c /\ x \in requests'[i].topics
                   /\ requests'[i].generation = opened'[c]
          BY DEF InBatch, Range
        <5> QED
          BY <1>2, <2>3, <5>1, <5>2, <5>3 DEF Pending
      <4> QED
        BY <1>3, <1>6, <2>3, <3>1, <4>1, <4>2, <4>3 DEF AllCovered, Covered
    <3> QED
      BY <1>2, <2>3, <3>1 DEF Covered
  <2>4. ASSUME UNCHANGED <<conn, sock>>, conn[c].state = "CONNECTED", IsWsOpen(c)
        PROVE  /\ c \in Private => conn[c].authed \/ conn[c].opening
                                   \/ conn[c].ws \in login
               /\ conn[c].ws \in Sockets
    BY <1>1, <2>4 DEF AllCovered, Covered, IsWsOpen, IsOpen
  <2>5. (conn[c].opening \/ conn[c].ws \in login) /\ UNCHANGED <<conn, sock>>
        => Pending(c, t)'
    BY <1>2 DEF Pending
  <2>6. CASE ~(conn[c].state = "CONNECTED" /\ IsWsOpen(c)) /\ UNCHANGED <<conn, sock>>
    BY <1>6, <2>6 DEF Covered, IsWsOpen, IsOpen
  <2>7. CASE UNCHANGED <<conn, sock>> /\ c \in Private /\ ~conn[c].authed
    BY <1>6, <2>3, <2>4, <2>5, <2>6, <2>7
  <2>8. CASE UNCHANGED <<conn, sock>> /\ SendNow(c, {t})
    <3>1. IsWsOpen(c) => {t} \subseteq sent'[conn[c].ws]
      BY <1>1, <2>8, SendNowAdds
    <3> QED
      BY <1>6, <2>3, <2>4, <2>6, <2>8, <3>1
  <2>9. CASE UNCHANGED <<conn, sock>> /\ kind = "bitget" /\ Enqueue(c, {t})
    <3> DEFINE b == [conn |-> c, generation |-> opened[c], topics |-> {t}]
    <3>1. Request(c, opened[c], {t}) = <<b>>
      BY <2>9 DEF Request
    <3>2. b \in Range(<<b>>)
      BY DEF Range
    <3>3. Range(requests') = Range(requests) \cup Range(Request(c, opened[c], {t}))
      BY <1>1, <2>9, EnqueueAdds
    <3>4. b \in Range(requests')
      BY <3>1, <3>2, <3>3
    <3>5. \E i \in DOMAIN requests' : requests'[i] = b
      BY <3>4 DEF Range
    <3>6. Pending(c, t)'
      BY <1>2, <3>5 DEF Pending
    <3> QED
      BY <1>6, <2>3, <2>4, <2>6, <2>9, <3>6
  <2> QED
    BY <1>1, <1>6, <2>1, <2>2, <2>7, <2>8, <2>9, SubscribeAsks
<1> QED
  BY <1>5, <1>6

LEMMA BybitDialsCovered ==
    ASSUME Inv, AllCovered, BybitDials
    PROVE  AllCovered'
<1> DEFINE c == Head(mutex.granted)
           st == Starts(conn[c])
           n == NewSocket
<1>1. /\ conn \in [Conns -> Entry] /\ sock \in [Sockets -> SocketRecords]
      /\ \A d \in Conns : conn[d].ws \in Sockets \cup {None}
      /\ None \notin Sockets /\ mutex.granted \in Seq(Conns)
      /\ mutex.granted # <<>> /\ \A d \in Conns : conn[d] \in Entry
  BY Parts DEF Inv, Mutexes, BybitDials
<1>2. c \in Conns
  BY <1>1, RangeOfHead
<1>3. /\ UNCHANGED <<kind, topics, sent, login, requests, opened>>
      /\ \/ UNCHANGED <<conn, sock>>
         \/ /\ Free # {}
            /\ sock' = [sock EXCEPT ![n] = Dialled(c)]
            /\ conn' = [conn EXCEPT ![c].state = st, ![c].ws = n,
                                    ![c].promise = TRUE]
  BY DEF BybitDials, queueVars
<1>4. st = "CONNECTED" => conn[c].state = "CONNECTED"
  BY DEF Starts
<1>5. Free # {} => n \in Sockets /\ sock[n].st = "free"
  BY NewSocketIsFree
<1> HIDE DEF c, st, n
<1>6. ASSUME NEW d \in Conns PROVE Kept(d)
  <2>1. CASE UNCHANGED <<conn, sock>>
    BY <1>3, <2>1 DEF Kept, IsWsOpen, IsOpen
  <2>2. CASE /\ Free # {}
             /\ sock' = [sock EXCEPT ![n] = Dialled(c)]
             /\ conn' = [conn EXCEPT ![c].state = st, ![c].ws = n,
                                     ![c].promise = TRUE]
    <3>1. \A s \in Sockets : sock'[s].st = "open" => sock[s].st = "open"
      BY <1>1, <1>5, <2>2 DEF Dialled
    <3>2. CASE d = c
      <4>1. conn'[d].ws = n
        BY <1>1, <1>2, <2>2, <3>2 DEF Entry
      <4>2. sock'[n].st = "dialing"
        BY <1>1, <1>5, <2>2 DEF Dialled
      <4>3. sock'[conn'[d].ws].st = "dialing"
        BY <4>1, <4>2
      <4>4. ~IsWsOpen(d)'
        BY <4>3 DEF IsWsOpen, IsOpen
      <4> QED
        BY <1>3, <4>4 DEF Kept
    <3>3. CASE d # c
      <4>1. conn'[d] = conn[d]
        BY <1>1, <2>2, <3>3
      <4>2. IsWsOpen(d)' => IsWsOpen(d)
        BY <1>1, <3>1, <4>1 DEF IsWsOpen, IsOpen
      <4> QED
        BY <1>3, <4>1, <4>2 DEF Kept
    <3> QED
      BY <3>2, <3>3
  <2> QED
    BY <1>3, <2>1, <2>2
<1> QED
  BY <1>3, <1>6, KeptAllCovered

\* Bitget: the requests for a set of topics are one batch.
LEMMA RequestPends ==
    ASSUME kind = "bitget", NEW c, NEW n, NEW ts, NEW t \in ts
    PROVE  \E b \in Range(Request(c, n, ts)) :
              b.conn = c /\ t \in b.topics /\ b.generation = n
<1> DEFINE b == [conn |-> c, generation |-> n, topics |-> ts]
<1>1. Request(c, n, ts) = <<b>>
  BY DEF Request
<1>2. b \in Range(<<b>>)
  BY DEF Range
<1> QED
  BY <1>1, <1>2

\* A batch in the queue makes its topics pending.
LEMMA BatchPends ==
    ASSUME NEW c, NEW t,
           \E b \in Range(requests') :
              b.conn = c /\ t \in b.topics /\ b.generation = opened'[c]
    PROVE  Pending(c, t)'
<1>1. \E i \in DOMAIN requests' : /\ requests'[i].conn = c
                                  /\ t \in requests'[i].topics
                                  /\ requests'[i].generation = opened'[c]
  BY DEF Range
<1> QED
  BY <1>1 DEF Pending

\* What an open asks for.
LEMMA OpensAsk ==
    ASSUME Inv, kind \in {"bybit", "bitget"}, NEW s \in Sockets, OnWsOpen(s),
           NEW c, c = sock[s].conn, conn[c].ws = s \/ IsWsOpen(c)
    PROVE  /\ c \in Private => conn'[c].opening \/ conn[c].ws \in login'
           /\ c \notin Private =>
                \A t \in topics[c] : t \in sent'[conn[c].ws] \/ Pending(c, t)'
<1>1. /\ TypeOK /\ c \in Conns /\ conn[c].ws \in Sockets \cup {None}
      /\ conn \in [Conns -> Entry] /\ conn[c] \in Entry
      /\ None \notin Sockets /\ requests \in Seq(Batches)
      /\ sent \in [Sockets -> SUBSET Topics] /\ opened \in [Conns -> Nat]
      /\ topics[c] \in SUBSET Topics
  BY Parts DEF Inv, Shape, OnWsOpen, TypeOK
<1>2. conn[c].ws \in Sockets
  BY <1>1 DEF IsWsOpen, IsOpen
<1>3. CASE kind = "bybit"
  <2>1. BybitOpens(c, s) /\ Takes(c, s)
    BY <1>3, Zenon DEF OnWsOpen, Takes
  <2>2. CASE c \in Private
    BY <1>3, <2>1, <2>2 DEF BybitOpens, Logs, Okx
  <2>3. CASE c \notin Private
    <3>1. sent' = [sent EXCEPT ![conn[c].ws] = sent[conn[c].ws] \cup topics[c]]
      BY <2>1, <2>3 DEF BybitOpens, Logs
    <3> DEFINE w == conn[c].ws
    <3> HIDE DEF w
    <3>2. sent'[w] = sent[w] \cup topics[c]
      BY <1>1, <1>2, <3>1 DEF w
    <3> QED
      BY <2>3, <3>2 DEF w
  <2> QED
    BY <2>2, <2>3
<1>4. CASE kind = "bitget"
  <2>1. BitgetOpens(c)
    BY <1>4, Zenon DEF OnWsOpen
  <2>2. CASE c \in Private
    <3>1. conn' = [conn EXCEPT ![c].state = "CONNECTED", ![c].opening = TRUE]
      BY <1>4, <2>1, <2>2 DEF BitgetOpens, Logs, Okx
    <3>2. conn'[c].opening
      BY <1>1, <3>1 DEF Entry
    <3> QED
      BY <2>2, <3>2
  <2>3. CASE c \notin Private
    <3> DEFINE n == opened[c] + 1
    <3>1. /\ requests' = requests \o Request(c, n, topics[c])
          /\ opened' = [opened EXCEPT ![c] = n]
      BY <2>1, <2>3 DEF BitgetOpens, Logs
    <3>2. n \in Nat /\ opened'[c] = n
      BY <1>1, <3>1
    <3> HIDE DEF n
    <3>3. Range(requests') = Range(requests) \cup Range(Request(c, n, topics[c]))
      <4>1. Request(c, n, topics[c]) \in Seq(Batches)
        BY <1>1, <3>2, RequestType
      <4> QED
        BY <1>1, <3>1, <4>1, RangeOfConcat
    <3>4. ASSUME NEW t \in topics[c] PROVE Pending(c, t)'
      <4>1. \E b \in Range(Request(c, n, topics[c])) :
               b.conn = c /\ t \in b.topics /\ b.generation = n
        BY <1>4, <3>4, RequestPends
      <4> QED
        BY <3>2, <3>3, <4>1, BatchPends
    <3> QED
      BY <2>3, <3>4
  <2> QED
    BY <2>2, <2>3
<1> QED
  BY <1>3, <1>4

LEMMA OnWsOpenCovered ==
    ASSUME Inv, AllCovered, NEW s \in Sockets, OnWsOpen(s)
    PROVE  AllCovered'
<1> DEFINE c == sock[s].conn
<1> HIDE DEF c
<1>1. /\ c \in Conns /\ sock[s].st = "dialing"
      /\ sock' = [sock EXCEPT ![s].st = "open"]
      /\ \E g : conn' = [conn EXCEPT ![c] = g] /\ g.ws = conn[c].ws
      /\ \A r \in Sockets : sent[r] \subseteq sent'[r]
      /\ login \subseteq login' /\ UNCHANGED <<kind, topics>>
  BY OpensParts DEF c
<1>2. /\ conn \in [Conns -> Entry] /\ sock \in [Sockets -> SocketRecords]
      /\ \A d \in Conns : /\ conn[d].ws \in Sockets \cup {None}
                          /\ conn[d].ws # None => sock[conn[d].ws].conn = d
      /\ None \notin Sockets /\ TypeOK
  BY Parts DEF Inv, Shape
<1>3. /\ \A d \in Conns : d # c => conn'[d] = conn[d]
      /\ conn'[c].ws = conn[c].ws
  BY <1>1, <1>2
<1>4. \A r \in Sockets : r # s => sock'[r] = sock[r]
  BY <1>1, <1>2
<1> SUFFICES ASSUME kind \in {"bybit", "bitget"}, NEW d \in Conns
             PROVE  (d # c => Kept(d)) /\ (d = c => Covered(d)')
  BY <1>1, CoveredFrom
<1>5. CASE d # c
  <2>1. opened'[d] = opened[d] /\ \A b \in Range(requests) : b \in Range(requests')
    <3>1. /\ opened' = opened \/ opened' = [opened EXCEPT ![c] = opened[c] + 1]
          /\ requests' = requests
             \/ \E n \in Nat, ts \in SUBSET Topics : requests' = requests \o Request(c, n, ts)
      <4>1. opened \in [Conns -> Nat] /\ topics[c] \in SUBSET Topics
        BY <1>1, <1>2 DEF TypeOK
      <4>2. opened[c] + 1 \in Nat
        BY <1>1, <4>1
      <4>3. CASE kind = "bybit"
        <5>1. BybitOpens(c, s)
          BY <4>3, Zenon DEF OnWsOpen, c
        <5> QED
          BY <5>1 DEF BybitOpens
      <4>4. CASE kind = "bitget"
        <5>1. BitgetOpens(c)
          BY <4>4, Zenon DEF OnWsOpen, c
        <5> QED
          BY <4>1, <4>2, <5>1 DEF BitgetOpens
      <4> QED
        BY <4>3, <4>4
    <3>2. opened'[d] = opened[d]
      BY <1>2, <1>5, <3>1 DEF TypeOK
    <3>3. ASSUME NEW n \in Nat, NEW ts \in SUBSET Topics,
                 requests' = requests \o Request(c, n, ts)
          PROVE  \A b \in Range(requests) : b \in Range(requests')
      <4>1. requests \in Seq(Batches) /\ Request(c, n, ts) \in Seq(Batches)
        BY <1>1, <1>2, Parts, RequestType
      <4> QED
        BY <3>3, <4>1, RangeOfConcat
    <3> QED
      BY <3>1, <3>2, <3>3
  <2>2. conn[d].ws # s
    BY <1>2, <1>5 DEF c
  <2>3. IsWsOpen(d)' => IsWsOpen(d) /\ conn[d].ws \in Sockets
    BY <1>2, <1>3, <1>4, <1>5, <2>2 DEF IsWsOpen, IsOpen
  <2> QED
    BY <1>1, <1>3, <1>5, <2>1, <2>3 DEF Kept
<1>6. ASSUME d = c PROVE Covered(d)'
  <2> SUFFICES ASSUME IsWsOpen(d)'
               PROVE  /\ d \in Private => \/ conn'[d].authed \/ conn'[d].opening
                                          \/ conn'[d].ws \in login'
                      /\ \A t \in topics'[d] :
                           t \in sent'[conn'[d].ws] \/ Pending(d, t)'
    BY DEF Covered
  <2>1. conn[d].ws = s \/ IsWsOpen(d)
    BY <1>2, <1>3, <1>4, <1>6 DEF IsWsOpen, IsOpen
  <2>2. /\ d \in Private => conn'[d].opening \/ conn[d].ws \in login'
        /\ d \notin Private =>
             \A t \in topics[d] : t \in sent'[conn[d].ws] \/ Pending(d, t)'
    BY <1>6, <2>1, OpensAsk DEF c
  <2>3. conn'[d].ws = conn[d].ws /\ topics'[d] = topics[d]
    BY <1>1, <1>3, <1>6
  <2>4. \A t : conn'[d].opening \/ conn'[d].ws \in login' => Pending(d, t)'
    BY DEF Pending
  <2> QED
    BY <2>2, <2>3, <2>4
<1> QED
  BY <1>5, <1>6

LEMMA BitgetLoginCovered ==
    ASSUME Inv, AllCovered, NEW c \in Conns, BitgetLogin(c)
    PROVE  AllCovered'
<1> DEFINE n == conn[c].beats + 1
           g == [conn[c] EXCEPT !.opening = FALSE, !.beats = n, !.beating = TRUE]
<1>1. /\ conn' = [conn EXCEPT ![c] = g]
      /\ login' = IF IsWsOpen(c) THEN login \cup {conn[c].ws} ELSE login
      /\ UNCHANGED <<kind, topics, sock, sent, requests, opened>>
  BY DEF BitgetLogin, queueVars
<1>2. conn \in [Conns -> Entry]
  BY Parts DEF Inv
<1> HIDE DEF n
<1>3. g.ws = conn[c].ws
  BY <1>2 DEF Entry
<1> HIDE DEF g
<1>4. /\ \A d \in Conns : d # c => conn'[d] = conn[d]
      /\ conn'[c].ws = conn[c].ws
  BY <1>1, <1>2, <1>3
<1>5. ASSUME NEW d \in Conns, d # c PROVE Kept(d)
  BY <1>1, <1>4, <1>5 DEF Kept, IsWsOpen, IsOpen
<1>6. IsWsOpen(c)' => conn'[c].ws \in login'
  BY <1>1, <1>4 DEF IsWsOpen, IsOpen
<1>7. Covered(c)'
  BY <1>6 DEF Covered, Pending
<1> QED
  BY <1>1, <1>5, <1>7, CoveredFrom

\* The answer of a login asks for every stored topic.
LEMMA AuthenticatedAsks ==
    ASSUME Inv, kind \in {"bybit", "bitget"}, NEW s \in Sockets,
           OnWsAuthenticated(s), NEW c, c = sock[s].conn,
           conn[c].state = "CONNECTED", IsWsOpen(c)
    PROVE  /\ conn'[c].authed /\ conn'[c].ws = conn[c].ws
           /\ \A t \in topics[c] : t \in sent'[conn[c].ws] \/ Pending(c, t)'
<1> DEFINE f == [conn EXCEPT ![c] = [conn[c] EXCEPT !.authed = TRUE]]
           in == [sock EXCEPT ![s] = [sock[s] EXCEPT !.in = TRUE]]
<1>1. /\ TypeOK /\ conn \in [Conns -> Entry] /\ sock[s].st \in {"open", "leaving"}
      /\ c \in Conns /\ requests \in Seq(Batches) /\ topics[c] \in SUBSET Topics
      /\ opened[c] \in Nat
  BY Parts DEF Inv, Shape, OnWsAuthenticated, TypeOK
<1>2. /\ conn' = f /\ opened' = opened
      /\ IF kind = "bybit" THEN SendNow(c, topics[c]) ELSE Enqueue(c, topics[c])
  <2> HIDE DEF f, in
  <2> QED
    BY <1>1, AuthenticatedParts DEF f, in
<1>3. conn'[c].authed /\ conn'[c].ws = conn[c].ws
  BY <1>1, <1>2 DEF Entry
<1>4. CASE kind = "bybit"
  BY <1>1, <1>2, <1>3, <1>4, SendNowAdds
<1>5. CASE kind = "bitget"
  <2>1. Range(requests') = Range(requests)
                             \cup Range(Request(c, opened[c], topics[c]))
    BY <1>1, <1>2, <1>5, EnqueueAdds
  <2>2. ASSUME NEW t \in topics[c] PROVE Pending(c, t)'
    <3>1. \E b \in Range(Request(c, opened[c], topics[c])) :
             b.conn = c /\ t \in b.topics /\ b.generation = opened[c]
      BY <1>5, <2>2, RequestPends
    <3>2. opened'[c] = opened[c]
      BY <1>2
    <3> QED
      BY <2>1, <3>1, <3>2, BatchPends
  <2> QED
    BY <1>3, <2>2
<1> QED
  BY <1>4, <1>5

LEMMA OnWsAuthenticatedCovered ==
    ASSUME Inv, AllCovered, NEW s \in Sockets, OnWsAuthenticated(s)
    PROVE  AllCovered'
<1> DEFINE c == sock[s].conn
           g == [conn[c] EXCEPT !.authed = TRUE]
           f == [conn EXCEPT ![c] = g]
           in == [sock EXCEPT ![s] = [sock[s] EXCEPT !.in = TRUE]]
<1>1. /\ TypeOK /\ conn \in [Conns -> Entry] /\ sock \in [Sockets -> SocketRecords]
      /\ \A d \in Conns : /\ Sound(conn[d]) /\ conn[d].ws \in Sockets \cup {None}
                          /\ conn[d].ws # None => sock[conn[d].ws].conn = d
      /\ None \notin Sockets
  BY Parts DEF Inv, Shape
<1>2. /\ sock[s].st \in {"open", "leaving"} /\ login' = login \ {s}
      /\ IF conn[c].state = "CONNECTED" \/ InProgress(c) \/ topics[c] = {}
         THEN conn' = f /\ sock' = in ELSE Connect(c, f, in)
      /\ IF kind = "bybit" /\ conn[c].state = "CONNECTED"
         THEN SendNow(c, topics[c]) ELSE UNCHANGED sent
      /\ IF kind # "bybit" /\ conn[c].state = "CONNECTED"
         THEN Enqueue(c, topics[c]) ELSE UNCHANGED requests
      /\ UNCHANGED <<kind, topics, opened>>
  <2>1. f = [conn EXCEPT ![c] = [conn[c] EXCEPT !.authed = TRUE]]
    OBVIOUS
  <2> HIDE DEF f, g
  <2> QED
    BY <1>1, <2>1, AuthenticatedParts
<1>3. c \in Conns /\ topics[c] \in SUBSET Topics
  BY <1>1, <1>2 DEF Inv, Shape, TypeOK
<1>4. /\ Sound(g) /\ g.ws = conn[c].ws /\ g.state = conn[c].state
      /\ g.authed = TRUE /\ g.opening = conn[c].opening
  BY <1>1, <1>3, ZenonT(60) DEF Sound, Entry
<1> HIDE DEF g
<1>5. /\ f \in [Conns -> Entry]
      /\ \A d \in Conns : Sound(f[d]) /\ f[d].ws = conn[d].ws
                          /\ f[d].state = conn[d].state
                          /\ (conn[d].authed => f[d].authed)
                          /\ f[d].opening = conn[d].opening
  BY <1>1, <1>3, <1>4 DEF Sound
<1>6. /\ in \in [Sockets -> SocketRecords]
      /\ \A r \in Sockets : in[r].conn = sock[r].conn /\ in[r].st = sock[r].st
  BY <1>1, <1>2 DEF SocketRecords
<1>7. /\ \A r \in Sockets : sent[r] \subseteq sent'[r]
      /\ \A b \in Range(requests) : b \in Range(requests')
  BY <1>1, <1>2, <1>3, SendNowAdds, EnqueueAdds
<1> HIDE DEF c, f, in
<1> SUFFICES ASSUME kind \in {"bybit", "bitget"}, NEW d \in Conns
             PROVE  (d # c => Kept(d)) /\ (d = c => Covered(d)')
  BY <1>2, CoveredFrom
<1>8. ASSUME d # c PROVE Kept(d)
  <2>1. conn[d].ws # s
    BY <1>1, <1>8 DEF c
  <2>2. conn[d].ws \in login => conn[d].ws \in login'
    BY <1>2, <2>1
  <2>3. CASE Connect(c, f, in)
    BY <1>2, <1>3, <1>5, <1>6, <1>7, <2>2, <2>3, ConnectKept
  <2>4. CASE conn' = f /\ sock' = in
    BY <1>1, <1>2, <1>5, <1>6, <1>7, <2>2, <2>4 DEF Kept, IsWsOpen, IsOpen
  <2> QED
    BY <1>2, <2>3, <2>4
<1>9. ASSUME d = c PROVE Covered(d)'
  <2>1. CASE conn[d].state # "CONNECTED"
    <3>1. CASE Connect(c, f, in)
      <4>1. conn'[d].state \in {f[d].state, Starts(f[d])}
        BY <1>3, <1>5, <1>9, <3>1, ConnectSpares
      <4>2. conn'[d].state # "CONNECTED"
        BY <1>5, <2>1, <4>1 DEF Starts
      <4> QED
        BY <4>2 DEF Covered
    <3>2. CASE conn' = f
      <4>1. conn'[d].state # "CONNECTED"
        BY <1>5, <2>1, <3>2
      <4> QED
        BY <4>1 DEF Covered
    <3> QED
      BY <1>2, <3>1, <3>2
  <2>2. CASE conn[d].state = "CONNECTED"
    <3>1. conn' = f /\ sock' = in
      BY <1>2, <1>9, <2>2
    <3>2. IsWsOpen(d)' => IsWsOpen(d)
      BY <1>1, <1>5, <1>6, <3>1 DEF IsWsOpen, IsOpen
    <3>3. CASE IsWsOpen(d)
      <4>1. /\ conn'[d].authed /\ conn'[d].ws = conn[d].ws
            /\ \A t \in topics[d] : t \in sent'[conn[d].ws] \/ Pending(d, t)'
        BY <1>9, <2>2, <3>3, AuthenticatedAsks DEF c
      <4>2. topics'[d] = topics[d]
        BY <1>2
      <4> QED
        BY <4>1, <4>2 DEF Covered
    <3>4. CASE ~IsWsOpen(d)'
      BY <3>4 DEF Covered
    <3> QED
      BY <3>2, <3>3, <3>4
  <2> QED
    BY <2>1, <2>2
<1> QED
  BY <1>8, <1>9

LEMMA DroppedCovered ==
    ASSUME Inv, AllCovered, NEW c \in Conns, Fades(sock'),
           UNCHANGED <<kind, topics, sent, login, requests, opened>>,
           \/ UNCHANGED conn
           \/ \E b \in BOOLEAN : conn' = [conn EXCEPT ![c].pong = b]
           \/ conn' = [conn EXCEPT ![c] = Dropped(conn[c])]
           \/ conn' = [conn EXCEPT ![c] = ReconnectWithDelay(Dropped(conn[c]))]
    PROVE  AllCovered'
<1>1. conn \in [Conns -> Entry] /\ Sound(conn[c])
  BY Parts DEF Inv, Shape
<1>2. \A r \in Sockets : sock'[r].st = "open" => sock[r].st = "open"
  BY DEF Fades
<1>3. ASSUME NEW g, conn' = [conn EXCEPT ![c] = g],
             g.state = "CONNECTED" =>
               /\ conn[c].state = "CONNECTED" /\ g.ws = conn[c].ws
               /\ g.authed = conn[c].authed /\ g.opening = conn[c].opening
      PROVE  AllCovered'
  BY <1>2, <1>3, EntryCovered
<1>4. /\ Sound(Dropped(conn[c])) /\ Dropped(conn[c]).state = conn[c].state
      /\ Dropped(conn[c]).ws = conn[c].ws
      /\ Dropped(conn[c]).authed = conn[c].authed
      /\ Dropped(conn[c]).opening = conn[c].opening
  BY <1>1, DroppedKeeps
<1>5. CASE UNCHANGED conn
  BY <1>1, <1>3, <1>5
<1>6. ASSUME NEW b \in BOOLEAN, conn' = [conn EXCEPT ![c].pong = b]
      PROVE  AllCovered'
  <2> DEFINE g == [conn[c] EXCEPT !.pong = b]
  <2>1. conn' = [conn EXCEPT ![c] = g]
    BY <1>6
  <2>2. /\ g.state = conn[c].state /\ g.ws = conn[c].ws
        /\ g.authed = conn[c].authed /\ g.opening = conn[c].opening
    BY <1>1 DEF Sound, Entry
  <2> HIDE DEF g
  <2> QED
    BY <1>3, <2>1, <2>2
<1>7. CASE conn' = [conn EXCEPT ![c] = Dropped(conn[c])]
  BY <1>3, <1>4, <1>7
<1>8. CASE conn' = [conn EXCEPT ![c] = ReconnectWithDelay(Dropped(conn[c]))]
  <2> DEFINE g == ReconnectWithDelay(Dropped(conn[c]))
  <2>1. g.state # "CONNECTED"
    BY <1>4, ReconnectSets
  <2> HIDE DEF g
  <2> QED
    BY <1>3, <1>8, <2>1 DEF g
<1> QED
  BY <1>5, <1>6, <1>7, <1>8

LEMMA PongCovered ==
    ASSUME Inv, AllCovered, NEW c \in Conns,
           OnWsMessage(c) \/ Ping(c) \/ PongTimeout(c)
    PROVE  AllCovered'
<1>1. /\ TypeOK /\ conn[c].ws \in Sockets \cup {None}
      /\ UNCHANGED <<kind, topics, sent, login, requests, opened>>
  BY Parts DEF Inv, OnWsMessage, Ping, PongTimeout, queueVars, netVars
<1>2. Fades(sock) /\ Fades(Terminated(conn[c].ws))
  BY <1>1, SockFades, TerminatedFades
<1>3. CASE OnWsMessage(c) \/ Ping(c)
  <2>1. /\ \E b \in BOOLEAN : conn' = [conn EXCEPT ![c].pong = b]
        /\ UNCHANGED sock
    BY <1>3 DEF OnWsMessage, Ping, netVars
  <2> QED
    BY <1>1, <1>2, <2>1, DroppedCovered
<1>4. CASE PongTimeout(c)
  <2>1. /\ sock' = Terminated(conn[c].ws)
        /\ \/ conn' = [conn EXCEPT ![c].pong = FALSE]
           \/ conn' = [conn EXCEPT ![c] = Dropped(conn[c])]
           \/ conn' = [conn EXCEPT ![c] = ReconnectWithDelay(Dropped(conn[c]))]
    BY <1>4 DEF PongTimeout, BitgetPongTimeout, ReconnectableClose, Dropped
  <2> QED
    BY <1>1, <1>2, <2>1, DroppedCovered
<1> QED
  BY <1>3, <1>4

LEMMA OnWsErrorCovered ==
    ASSUME Inv, AllCovered, NEW s \in Sockets, OnWsError(s)
    PROVE  AllCovered'
<1> DEFINE c == sock[s].conn
<1> HIDE DEF c
<1>1. /\ c \in Conns /\ sock[s].st \in {"refused", "failing"}
      /\ \/ sock' = AfterError(sock, s) /\ UNCHANGED conn
         \/ /\ sock' = AfterError(Terminated(conn[c].ws), s)
            /\ \/ conn' = [conn EXCEPT ![c] = Dropped(conn[c])]
               \/ conn' = [conn EXCEPT
                             ![c] = ReconnectWithDelay(Dropped(conn[c]))]
      /\ UNCHANGED <<kind, topics, sent, login, requests, opened>>
  BY ErrorParts DEF c, queueVars
<1>2. conn[c].ws \in Sockets \cup {None} /\ TypeOK
  BY <1>1, Parts DEF Inv
<1>3. Fades(sock')
  <2>1. Fades(sock) /\ Fades(Terminated(conn[c].ws))
    BY <1>2, SockFades, TerminatedFades
  <2> QED
    BY <1>1, <1>2, <2>1, AfterErrorFades
<1> QED
  BY <1>1, <1>3, DroppedCovered

\* A closed connection is not CONNECTED, whatever socket closed.
LEMMA OnWsCloseCovered ==
    ASSUME Inv, AllCovered, NEW s \in Sockets, OnWsClose(s)
    PROVE  AllCovered'
<1> DEFINE c == sock[s].conn
<1> HIDE DEF c
<1>1. /\ c \in Conns /\ sock[s].st \in {"gone", "ended", "leaving"}
      /\ sock' = [sock EXCEPT ![s] = [Unused EXCEPT !.conn = c]]
      /\ sent' = [sent EXCEPT ![s] = {}] /\ login' = login \ {s}
      /\ \E g : conn' = [conn EXCEPT ![c] = g] /\ g.state # "CONNECTED"
      /\ \A d \in Conns : topics'[d] \subseteq topics[d]
      /\ UNCHANGED <<kind, requests, opened>>
  BY ClosesParts DEF c, queueVars
<1>2. /\ conn \in [Conns -> Entry] /\ sock \in [Sockets -> SocketRecords]
      /\ \A d \in Conns : /\ conn[d].ws \in Sockets \cup {None}
                          /\ conn[d].ws # None => sock[conn[d].ws].conn = d
      /\ None \notin Sockets /\ sent \in [Sockets -> SUBSET Topics]
  BY Parts DEF Inv, Shape, TypeOK
<1>3. /\ \A d \in Conns : d # c => conn'[d] = conn[d]
      /\ conn'[c].state # "CONNECTED"
  BY <1>1, <1>2
<1>4. \A r \in Sockets : r # s => sock'[r] = sock[r] /\ sent'[r] = sent[r]
  BY <1>1, <1>2
<1>5. ASSUME NEW d \in Conns PROVE Kept(d)
  <2>1. CASE d = c
    <3>1. conn'[d].state # "CONNECTED"
      BY <1>3, <2>1
    <3> QED
      BY <1>1, <3>1 DEF Kept
  <2>2. CASE d # c
    <3>1. conn[d].ws # s
      BY <1>2, <2>2 DEF c
    <3>2. IsWsOpen(d)' => IsWsOpen(d) /\ conn[d].ws \in Sockets
      BY <1>2, <1>3, <1>4, <2>2, <3>1 DEF IsWsOpen, IsOpen
    <3> QED
      BY <1>1, <1>3, <1>4, <2>2, <3>1, <3>2 DEF Kept
  <2> QED
    BY <2>1, <2>2
<1> QED
  BY <1>1, <1>5, KeptAllCovered

LEMMA ClosesCovered ==
    ASSUME Inv, AllCovered, BybitClose \/ \E c \in Conns : CloseAll(c)
    PROVE  AllCovered'
<1>1. UNCHANGED <<kind, topics, sent, login, requests, opened>>
  BY CloseAllParts DEF BybitClose, queueVars
<1>2. ASSUME NEW c \in Conns, Closing(c) PROVE AllCovered'
  <2>1. /\ \E g : conn' = [conn EXCEPT ![c] = g] /\ g.state = "CLOSING"
        /\ \A r \in Sockets : sock'[r].st = "open" => sock[r].st = "open"
    BY <1>2, ClosingParts
  <2> QED
    BY <1>1, <2>1, EntryCovered
<1>3. CASE UNCHANGED <<conn, sock>>
  BY <1>1, <1>3, KeptAllCovered DEF Kept, IsWsOpen, IsOpen
<1>4. CASE BybitClose
  <2>1. closings \in Seq(Conns) /\ closings # <<>>
    BY <1>4 DEF Inv, TypeOK, BybitClose
  <2>2. Head(closings) \in Conns /\ Closing(Head(closings))
    BY <1>4, <2>1, RangeOfHead DEF BybitClose
  <2> QED
    BY <1>2, <2>2
<1>5. ASSUME NEW c \in Conns, CloseAll(c) PROVE AllCovered'
  <2>1. CASE Halting(c)
    BY <1>1, <2>1 DEF Halting, AllCovered
  <2> QED
    BY <1>2, <1>3, <1>5, <2>1, CloseAllParts
<1> QED
  BY <1>4, <1>5

\* A batch at its turn is sent on the registered socket; only a batch of an
\* older open is dropped.
LEMMA BitgetRequestsCovered ==
    ASSUME Inv, AllCovered, NEW c \in Conns, BitgetRequests(c)
    PROVE  AllCovered'
<1>1. /\ TypeOK /\ requests \in Seq(Batches) /\ None \notin Sockets
      /\ \A d \in Conns : conn[d].ws \in Sockets \cup {None}
  BY Parts DEF Inv
<1>2. PICK i \in DOMAIN requests :
        /\ requests[i].conn = c /\ requests' = RemoveAt(requests, i)
        /\ IF requests[i].generation = opened[c]
           THEN SendNow(c, requests[i].topics) ELSE UNCHANGED sent
  BY DEF BitgetRequests
<1>3. /\ UNCHANGED <<kind, conn, topics, sock, login, opened>>
      /\ kind = "bitget"
  BY DEF BitgetRequests
<1>4. requests[i].topics \in SUBSET Topics
  <2>1. i \in 1..Len(requests)
    BY <1>1, LenProperties
  <2>2. requests[i] \in Batches
    BY <1>1, <2>1, ElementOfSeq
  <2> QED
    BY <2>2 DEF Batches
<1>5. /\ \A r \in Sockets : sent[r] \subseteq sent'[r]
      /\ requests[i].generation = opened[c] /\ IsWsOpen(c)
         => requests[i].topics \subseteq sent'[conn[c].ws]
  <2>1. CASE requests[i].generation = opened[c]
    <3>1. SendNow(c, requests[i].topics)
      BY <1>2, <2>1
    <3> QED
      BY <1>1, <1>4, <3>1, SendNowAdds
  <2>2. CASE requests[i].generation # opened[c]
    BY <1>2, <2>2
  <2> QED
    BY <2>1, <2>2
<1>6. \A b \in Range(requests) : b = requests[i] \/ b \in Range(requests')
  BY <1>1, <1>2, RemoveAtLeaves
<1>7. \A d \in Conns : IsWsOpen(d)' = IsWsOpen(d)
  BY <1>3 DEF IsWsOpen, IsOpen
<1>8. \A d \in Conns : IsWsOpen(d) => conn[d].ws \in Sockets
  BY <1>1 DEF IsWsOpen, IsOpen
<1>9. ASSUME NEW d \in Conns, d # c PROVE Kept(d)
  BY <1>2, <1>3, <1>5, <1>6, <1>7, <1>8, <1>9 DEF Kept
<1>10. Covered(c)'
  <2> SUFFICES ASSUME conn[c].state = "CONNECTED", IsWsOpen(c)
               PROVE  /\ c \in Private => \/ conn[c].authed \/ conn[c].opening
                                          \/ conn[c].ws \in login
                      /\ \A t \in topics[c] :
                            t \in sent'[conn[c].ws] \/ Pending(c, t)'
    BY <1>3, <1>7 DEF Covered
  <2>1. /\ c \in Private => \/ conn[c].authed \/ conn[c].opening
                            \/ conn[c].ws \in login
        /\ \A t \in topics[c] : t \in sent[conn[c].ws] \/ Pending(c, t)
    BY <1>3 DEF AllCovered, Covered
  <2>2. ASSUME NEW t \in topics[c] PROVE t \in sent'[conn[c].ws] \/ Pending(c, t)'
    <3>1. CASE t \in sent[conn[c].ws]
      BY <1>5, <1>8, <3>1
    <3>2. CASE conn[c].opening \/ conn[c].ws \in login
      BY <1>3, <3>2 DEF Pending
    <3>3. CASE InBatch(c, t)
      <4>1. PICK b \in Range(requests) :
               b.conn = c /\ t \in b.topics /\ b.generation = opened[c]
        BY <3>3 DEF InBatch
      <4>2. CASE b = requests[i]
        BY <1>5, <4>1, <4>2
      <4>3. CASE b \in Range(requests')
        BY <1>3, <4>1, <4>3, BatchPends
      <4> QED
        BY <1>6, <4>2, <4>3
    <3> QED
      BY <2>1, <2>2, <3>1, <3>2, <3>3, PendingInBatch
  <2> QED
    BY <2>1, <2>2
<1> QED
  BY <1>3, <1>9, <1>10, CoveredFrom

\* Steps of the clients for OKX, of Bybit's connects and of the network.
LEMMA OthersCovered ==
    ASSUME Inv, AllCovered,
           \/ OkxDials \/ OkxRegisters \/ OkxRequests
           \/ \E c \in Conns : BybitWakes(c)
           \/ \E s \in Sockets : SocketFails(s)
    PROVE  AllCovered'
<1>1. CASE OkxDials \/ OkxRegisters \/ OkxRequests
  <2>1. Okx /\ kind' = kind
    BY <1>1 DEF OkxDials, OkxRegisters, OkxRequests, Inv, Shape
  <2> QED
    BY <2>1 DEF AllCovered, Okx
<1>2. ASSUME NEW c \in Conns, BybitWakes(c) PROVE AllCovered'
  <2>1. UNCHANGED <<kind, conn, topics, sock, sent, login, requests, opened>>
    BY <1>2 DEF BybitWakes, netVars, queueVars
  <2> QED
    BY <2>1, KeptAllCovered DEF Kept, IsWsOpen, IsOpen
<1>3. ASSUME NEW s \in Sockets, SocketFails(s) PROVE AllCovered'
  <2>1. UNCHANGED <<kind, conn, topics, sent, login, requests, opened>>
    BY <1>3 DEF SocketFails, queueVars
  <2>2. PICK st \in {"refused", "failing", "ended"} :
          sock' = [sock EXCEPT ![s].st = st]
    BY <1>3 DEF SocketFails
  <2>3. sock \in [Sockets -> SocketRecords] /\ None \notin Sockets
        /\ \A d \in Conns : conn[d].ws \in Sockets \cup {None}
    BY Parts DEF Inv
  <2>4. \A r \in Sockets : sock'[r].st = "open" => sock[r].st = "open"
    BY <2>2, <2>3 DEF SocketRecords
  <2>5. \A d \in Conns : IsWsOpen(d)' => IsWsOpen(d)
    BY <2>1, <2>3, <2>4 DEF IsWsOpen, IsOpen
  <2> QED
    BY <2>1, <2>5, KeptAllCovered DEF Kept
<1> QED
  BY <1>1, <1>2, <1>3

LEMMA NextCovered == Inv /\ AllCovered /\ [Next]_vars => AllCovered'
<1> SUFFICES ASSUME Inv, AllCovered, [Next]_vars PROVE AllCovered'
  OBVIOUS
<1>1. CASE UNCHANGED vars
  <2>1. UNCHANGED <<kind, conn, topics, sock, sent, login, requests, opened>>
    BY <1>1 DEF vars, netVars, queueVars
  <2> QED
    BY <2>1, KeptAllCovered DEF Kept, IsWsOpen, IsOpen
<1>2. ASSUME NEW s \in Sockets, Ends(s) PROVE AllCovered'
  BY <1>2, OnWsErrorCovered, OnWsCloseCovered DEF Ends
<1>3. CASE Dials
  BY <1>3, BybitDialsCovered, OthersCovered DEF Dials
<1>4. ASSUME NEW c \in Conns, Caller(c) PROVE AllCovered'
  BY <1>4, SubscribeCovered, ClosesCovered DEF Caller
<1>5. ASSUME NEW c \in Conns, Timers(c) PROVE AllCovered'
  BY <1>5, ReconnectTimerCovered, PongCovered DEF Timers
<1>6. CASE Turns
  BY <1>6, OthersCovered, ClosesCovered, BitgetRequestsCovered,
     BitgetLoginCovered DEF Turns
<1>7. CASE Network
  BY <1>7, OnWsOpenCovered, OnWsAuthenticatedCovered, OthersCovered, PongCovered
     DEF Network
<1> QED
  BY <1>1, <1>2, <1>3, <1>4, <1>5, <1>6, <1>7 DEF Next

\* Bybit, Bitget: a topic that is stored for a connected store with an open
\* socket was requested on that socket, or a login or a batch on its way will
\* do so; no order of opens, logins, subscribes and drops loses one.
THEOREM NoTopicIsForgotten == Spec => []StoredIsRequested
<1>1. Init => AllCovered
  BY DEF Init, Fresh, AllCovered, Covered
<1>2. AllCovered => StoredIsRequested
  BY DEF AllCovered, Covered, StoredIsRequested
<1> QED
  BY InitInv, NextInv, <1>1, NextCovered, <1>2, PTL DEF Spec

-----------------------------------------------------------------------------
(* Bitget: one socket, and none after the close.                            *)

\* What holds of c as long as no late login can connect it again: all its
\* sockets are the registered one, its timer runs only when that is gone, and
\* nobody dials it once it is closed.
Single(c) ==
    /\ \A s \in Sockets :
         sock[s].conn = c /\ sock[s].st # "free" => conn[c].ws = s
    /\ conn[c].timer \/ conn[c].state \in {"none", "INITIAL"} => ~Alive(c)
    /\ conn[c].timer => c \in InUse /\ conn[c].state # "none"
    /\ c \in retired =>
         /\ conn[c].state \in {"CLOSING", "INITIAL"}
         /\ \A s \in Sockets :
              sock[s].conn = c => sock[s].st \notin {"dialing", "open"}

AllSingle ==
    kind = "bitget" => \A c \in Conns \ (retired \cap Private) : Single(c)

\* A step in which sockets of d end at most, and nothing else concerns it.
Alone(d) ==
    /\ d \in retired' <=> d \in retired
    /\ conn'[d].state = conn[d].state /\ conn'[d].timer = conn[d].timer
    /\ conn'[d].ws = conn[d].ws
    /\ \A s \in Sockets :
         /\ sock'[s].conn = d /\ sock'[s].st # "free"
            <=> sock[s].conn = d /\ sock[s].st # "free"
         /\ sock'[s].conn = d /\ sock'[s].st \in {"dialing", "open"}
            => sock[s].conn = d /\ sock[s].st \in {"dialing", "open"}

LEMMA AloneSingle ==
    ASSUME NEW d \in Conns, Single(d), Alone(d)
    PROVE  Single(d)'
<1>1. Alive(d)' <=> Alive(d)
  BY DEF Alive, Alone
<1>2. d \in InUse' <=> d \in InUse
  BY DEF InUse, Alone
<1>3. /\ conn'[d].timer \/ conn'[d].state \in {"none", "INITIAL"} => ~Alive(d)'
      /\ conn'[d].timer => d \in InUse' /\ conn'[d].state # "none"
  BY <1>1, <1>2 DEF Single, Alone
<1>4. \A s \in Sockets :
         sock'[s].conn = d /\ sock'[s].st # "free" => conn'[d].ws = s
  BY DEF Single, Alone
<1>5. d \in retired' =>
         /\ conn'[d].state \in {"CLOSING", "INITIAL"}
         /\ \A s \in Sockets :
              sock'[s].conn = d => sock'[s].st \notin {"dialing", "open"}
  BY DEF Single, Alone
<1> QED
  BY <1>3, <1>4, <1>5 DEF Single

\* A step of one connection.
LEMMA SingleFrom ==
    ASSUME AllSingle, kind' = kind, retired \subseteq retired', NEW c,
           kind = "bitget" =>
             \A d \in Conns :
               /\ d # c => Alone(d)
               /\ d = c /\ d \notin retired' \cap Private => Single(d)'
    PROVE  AllSingle'
<1>1. ASSUME kind = "bitget", NEW d \in Conns \ (retired' \cap Private)
      PROVE  Single(d)'
  <2>1. CASE d = c
    BY <1>1, <2>1
  <2>2. CASE d # c
    <3>1. Single(d)
      BY <1>1 DEF AllSingle
    <3> QED
      BY <1>1, <2>2, <3>1, AloneSingle
  <2> QED
    BY <2>1, <2>2
<1> QED
  BY <1>1 DEF AllSingle

LEMMA AllAlone ==
    ASSUME AllSingle, UNCHANGED <<kind, retired>>,
           kind = "bitget" => \A d \in Conns : Alone(d)
    PROVE  AllSingle'
<1>1. ASSUME kind = "bitget", NEW d \in Conns \ (retired' \cap Private)
      PROVE  Single(d)'
  BY <1>1, AloneSingle DEF AllSingle
<1> QED
  BY <1>1 DEF AllSingle

\* What a connect of the Bitget client does.
LEMMA BitgetConnects ==
    ASSUME Inv, kind = "bitget", NEW c \in Conns, NEW f \in [Conns -> Entry],
           NEW ss \in [Sockets -> SocketRecords],
           \A d \in Conns : f[d].ws = conn[d].ws,
           Connect(c, f, ss)
    PROVE  \/ conn' = f /\ sock' = ss /\ (IsWsOpen(c) \/ f[c].state = "CONNECTING")
           \/ \E n \in Sockets :
                /\ sock[n].st = "free" /\ sock' = [ss EXCEPT ![n] = Dialled(c)]
                /\ conn'[c].ws = n /\ conn'[c].state = Starts(f[c])
                /\ conn'[c].timer = f[c].timer
                /\ \A d \in Conns : d # c => conn'[d] = f[d]
<1>1. BitgetConnect(c, f, ss)
  BY Zenon DEF Connect
<1>2. CASE IsWsOpen(c) \/ f[c].state = "CONNECTING"
  BY <1>1, <1>2 DEF BitgetConnect
<1>3. CASE ~(IsWsOpen(c) \/ f[c].state = "CONNECTING")
  <2> DEFINE n == NewSocket
             st == Starts(f[c])
  <2>1. /\ Free # {} /\ sock' = [ss EXCEPT ![n] = Dialled(c)]
        /\ conn' = [f EXCEPT ![c].state = st, ![c].ws = n]
    BY <1>1, <1>3 DEF BitgetConnect
  <2>2. n \in Sockets /\ sock[n].st = "free"
    BY <2>1, NewSocketIsFree
  <2>3. f[c] \in Entry
    OBVIOUS
  <2> HIDE DEF n, st
  <2>4. /\ conn'[c].ws = n /\ conn'[c].state = st /\ conn'[c].timer = f[c].timer
        /\ \A d \in Conns : d # c => conn'[d] = f[d]
    BY <2>1, <2>3 DEF Entry
  <2> QED
    BY <2>1, <2>2, <2>4 DEF st
<1> QED
  BY <1>2, <1>3

\* The connect of a connection without sockets.
LEMMA ConnectSingle ==
    ASSUME Inv, kind = "bitget", NEW c \in Conns, ~Alive(c), c \in InUse,
           NEW f \in [Conns -> Entry],
           \A d \in Conns : /\ f[d].ws = conn[d].ws /\ f[d].state = conn[d].state
                            /\ (d # c => f[d].timer = conn[d].timer),
           f[c].timer = FALSE, Connect(c, f, sock), UNCHANGED retired,
           NEW d \in Conns
    PROVE  (d # c => Alone(d)) /\ (d = c => Single(d)')
<1>1. /\ conn \in [Conns -> Entry] /\ sock \in [Sockets -> SocketRecords]
      /\ conn[c].ws \in Sockets \cup {None} /\ None \notin Sockets
      /\ conn[c].ws # None => sock[conn[c].ws].conn = c
  BY Parts DEF Inv, Shape
<1>2. \A s \in Sockets : sock[s].conn = c => sock[s].st = "free"
  BY DEF Alive
<1>3. ~IsWsOpen(c)
  BY <1>1, <1>2 DEF IsWsOpen, IsOpen
<1>4. CASE conn' = f /\ sock' = sock /\ f[c].state = "CONNECTING"
  <2>1. d # c => Alone(d)
    BY <1>4 DEF Alone
  <2>2. ASSUME d = c PROVE Single(d)'
    <3>1. conn'[d].timer = FALSE /\ conn'[d].state = "CONNECTING"
      BY <1>4, <2>2
    <3>2. /\ \A s \in Sockets : sock'[s].conn = d => sock'[s].st = "free"
          /\ d \notin retired'
      BY <1>2, <1>4, <2>2 DEF InUse
    <3> QED
      BY <3>1, <3>2 DEF Single
  <2> QED
    BY <2>1, <2>2
<1>5. ASSUME NEW n \in Sockets, sock[n].st = "free",
             sock' = [sock EXCEPT ![n] = Dialled(c)],
             conn'[c].ws = n, conn'[c].state = Starts(f[c]),
             conn'[c].timer = f[c].timer,
             \A e \in Conns : e # c => conn'[e] = f[e]
      PROVE  (d # c => Alone(d)) /\ (d = c => Single(d)')
  <2>1. /\ sock'[n].conn = c /\ sock'[n].st = "dialing"
        /\ \A s \in Sockets : s # n => sock'[s] = sock[s]
    BY <1>1, <1>5 DEF Dialled
  <2>2. d # c => Alone(d)
    BY <1>5, <2>1 DEF Alone
  <2>3. ASSUME d = c PROVE Single(d)'
    <3>1. conn'[d].timer = FALSE /\ conn'[d].state \notin {"none", "INITIAL"}
      BY <1>5, <2>3 DEF Starts
    <3>2. \A s \in Sockets : sock'[s].conn = d /\ sock'[s].st # "free" => s = n
      BY <1>2, <2>1, <2>3
    <3>3. conn'[d].ws = n /\ d \notin retired'
      BY <1>5, <2>3 DEF InUse
    <3> QED
      BY <3>1, <3>2, <3>3 DEF Single
  <2> QED
    BY <2>2, <2>3
<1>6. \/ conn' = f /\ sock' = sock /\ (IsWsOpen(c) \/ f[c].state = "CONNECTING")
      \/ \E n \in Sockets :
           /\ sock[n].st = "free" /\ sock' = [sock EXCEPT ![n] = Dialled(c)]
           /\ conn'[c].ws = n /\ conn'[c].state = Starts(f[c])
           /\ conn'[c].timer = f[c].timer
           /\ \A e \in Conns : e # c => conn'[e] = f[e]
  BY <1>1, BitgetConnects
<1> QED
  BY <1>3, <1>4, <1>5, <1>6

LEMMA SubscribeSingle ==
    ASSUME Inv, Reachable, AllSingle, NEW c \in Conns, NEW t \in Topics,
           Subscribe(c, t)
    PROVE  AllSingle'
<1>1. /\ conn \in [Conns -> Entry] /\ TypeOK /\ conn[c].timer \in BOOLEAN
  BY Parts DEF Inv, Entry
<1>2. UNCHANGED <<kind, retired>> /\ c \in InUse /\ c \notin retired
  BY DEF Subscribe, InUse
<1>3. CASE UNCHANGED <<conn, sock>>
  BY <1>2, <1>3, AllAlone DEF Alone
<1>4. ASSUME kind = "bitget", Connect(c, conn, sock),
             conn[c].state \notin {"CONNECTED", "CONNECTING", "RECONNECTING"}
      PROVE  \A d \in Conns : (d # c => Alone(d)) /\ (d = c => Single(d)')
  <2>1. conn[c].state = "none"
    BY <1>2, <1>4 DEF Reachable, Reach
  <2>2. ~Alive(c) /\ conn[c].timer = FALSE
    BY <1>1, <1>2, <1>4, <2>1 DEF AllSingle, Single
  <2> QED
    BY <1>1, <1>2, <1>4, <2>2, ConnectSingle
<1>5. CASE kind = "bitget"
  <2>1. BitgetSubscribe(c, t)
    BY <1>5, Zenon DEF Subscribe
  <2> QED
    BY <1>2, <1>3, <1>4, <1>5, <2>1, SingleFrom DEF BitgetSubscribe, InProgress
<1> QED
  BY <1>2, <1>5 DEF AllSingle

LEMMA ReconnectTimerSingle ==
    ASSUME Inv, AllSingle, NEW c \in Conns, ReconnectTimer(c)
    PROVE  AllSingle'
<1> DEFINE f == [conn EXCEPT ![c].timer = FALSE]
<1>1. /\ conn \in [Conns -> Entry] /\ sock \in [Sockets -> SocketRecords]
  BY Parts DEF Inv
<1>2. Connect(c, f, sock) /\ UNCHANGED <<kind, retired>> /\ conn[c].timer
  BY DEF ReconnectTimer, callVars
<1>3. /\ f \in [Conns -> Entry] /\ f[c].timer = FALSE
      /\ \A d \in Conns : /\ f[d].ws = conn[d].ws /\ f[d].state = conn[d].state
                          /\ (d # c => f[d].timer = conn[d].timer)
  BY <1>1 DEF Entry
<1> HIDE DEF f
<1> SUFFICES ASSUME kind = "bitget", NEW d \in Conns
             PROVE  /\ d # c => Alone(d)
                    /\ d = c /\ d \notin retired' \cap Private => Single(d)'
  BY <1>2, SingleFrom
<1>4. CASE c \notin retired \cap Private
  <2>1. ~Alive(c) /\ c \in InUse
    BY <1>2, <1>4 DEF AllSingle, Single
  <2> QED
    BY <1>2, <1>3, <2>1, ConnectSingle
<1>5. CASE c \in retired \cap Private /\ d # c
  <2>1. CASE conn' = f /\ sock' = sock
    BY <1>2, <1>3, <1>5, <2>1 DEF Alone
  <2>2. ASSUME NEW n \in Sockets, sock[n].st = "free",
               sock' = [sock EXCEPT ![n] = Dialled(c)], conn'[d] = f[d]
        PROVE  Alone(d)
    <3>1. /\ sock'[n].conn = c
          /\ \A s \in Sockets : s # n => sock'[s] = sock[s]
      BY <1>1, <2>2 DEF Dialled
    <3> QED
      BY <1>2, <1>3, <1>5, <2>2, <3>1 DEF Alone
  <2> QED
    BY <1>1, <1>2, <1>3, <1>5, <2>1, <2>2, BitgetConnects
<1> QED
  BY <1>2, <1>4, <1>5

LEMMA OnWsOpenSingle ==
    ASSUME Inv, AllSingle, NEW s \in Sockets, OnWsOpen(s)
    PROVE  AllSingle'
<1> DEFINE c == sock[s].conn
<1> HIDE DEF c
<1>1. /\ c \in Conns /\ sock[s].st = "dialing"
      /\ sock' = [sock EXCEPT ![s].st = "open"]
      /\ \E g : /\ conn' = [conn EXCEPT ![c] = g] /\ g.state = "CONNECTED"
                /\ g.timer = conn[c].timer /\ g.ws = conn[c].ws
      /\ UNCHANGED <<kind, retired>>
  BY OpensParts DEF c, callVars
<1>2. conn \in [Conns -> Entry] /\ sock \in [Sockets -> SocketRecords]
  BY Parts DEF Inv
<1>3. /\ \A d \in Conns : d # c => conn'[d] = conn[d]
      /\ conn'[c].state = "CONNECTED" /\ conn'[c].timer = conn[c].timer
      /\ conn'[c].ws = conn[c].ws
  BY <1>1, <1>2
<1>4. /\ \A r \in Sockets : r # s => sock'[r] = sock[r]
      /\ sock'[s].conn = sock[s].conn /\ sock'[s].st = "open"
  BY <1>1, <1>2 DEF SocketRecords
<1> SUFFICES ASSUME kind = "bitget", NEW d \in Conns
             PROVE  /\ d # c => Alone(d)
                    /\ d = c /\ d \notin retired' \cap Private => Single(d)'
  BY <1>1, SingleFrom
<1>5. ASSUME d # c PROVE Alone(d)
  BY <1>1, <1>3, <1>4, <1>5 DEF Alone, c
<1>6. ASSUME d = c, d \notin retired' \cap Private PROVE Single(d)'
  <2>1. Single(d) /\ sock[s].conn = d /\ Alive(d)
    BY <1>1, <1>6 DEF AllSingle, Alive, c
  <2>2. conn[d].timer = FALSE
    BY <1>2, <2>1 DEF Single, Entry
  <2>3. d \notin retired
    BY <1>1, <2>1 DEF Single
  <2>4. /\ conn'[d].timer = FALSE /\ conn'[d].state = "CONNECTED"
        /\ d \notin retired' /\ conn'[d].ws = conn[d].ws
    BY <1>1, <1>3, <1>6, <2>2, <2>3
  <2>5. \A r \in Sockets : sock'[r].conn = d /\ sock'[r].st # "free"
                           => conn[d].ws = r
    BY <1>1, <1>4, <2>1 DEF Single
  <2> QED
    BY <2>4, <2>5 DEF Single
<1> QED
  BY <1>5, <1>6

\* A login is answered while its connection is up: no connect follows but for
\* a private one that is being closed.
LEMMA OnWsAuthenticatedSingle ==
    ASSUME Inv, Reachable, AllSingle, NEW s \in Sockets, OnWsAuthenticated(s)
    PROVE  AllSingle'
<1> DEFINE c == sock[s].conn
           g == [conn[c] EXCEPT !.authed = TRUE]
           f == [conn EXCEPT ![c] = g]
           in == [sock EXCEPT ![s] = [sock[s] EXCEPT !.in = TRUE]]
<1>1. /\ TypeOK /\ conn \in [Conns -> Entry] /\ sock \in [Sockets -> SocketRecords]
  BY Parts DEF Inv
<1>2. /\ s \in login /\ sock[s].st \in {"open", "leaving"}
      /\ IF conn[c].state = "CONNECTED" \/ InProgress(c) \/ topics[c] = {}
         THEN conn' = f /\ sock' = in ELSE Connect(c, f, in)
      /\ UNCHANGED <<kind, retired>>
  <2>1. f = [conn EXCEPT ![c] = [conn[c] EXCEPT !.authed = TRUE]]
    OBVIOUS
  <2> HIDE DEF f, g
  <2> QED
    BY <1>1, <2>1, AuthenticatedParts DEF callVars
<1>3. c \in Conns /\ c \in Private
  BY <1>1, <1>2 DEF Inv, Shape
<1>4. /\ g.ws = conn[c].ws /\ g.state = conn[c].state /\ g.timer = conn[c].timer
      /\ g \in Entry
  BY <1>1, <1>3, ZenonT(60) DEF Entry
<1> HIDE DEF g
<1>5. /\ f \in [Conns -> Entry]
      /\ \A d \in Conns : /\ f[d].ws = conn[d].ws /\ f[d].state = conn[d].state
                          /\ f[d].timer = conn[d].timer
  BY <1>1, <1>3, <1>4
<1>6. /\ in \in [Sockets -> SocketRecords]
      /\ \A r \in Sockets : in[r].conn = sock[r].conn /\ in[r].st = sock[r].st
  BY <1>1, <1>2 DEF SocketRecords
<1>7. sock[s].conn = c
  OBVIOUS
<1> HIDE DEF c, f, in
<1>8. CASE conn' = f /\ sock' = in
  BY <1>2, <1>5, <1>6, <1>8, AllAlone DEF Alone
<1>9. ASSUME kind = "bitget", c \notin retired
      PROVE  conn[c].state = "CONNECTED" \/ InProgress(c)
  <2>1. Single(c) /\ Reach(c)
    BY <1>3, <1>9 DEF AllSingle, Reachable, InUse
  <2>2. Alive(c)
    BY <1>2, <1>7 DEF Alive
  <2> QED
    BY <2>1, <2>2 DEF Single, Reach, InProgress
<1>10. ASSUME kind = "bitget", Connect(c, f, in), c \in retired,
              NEW d \in Conns, d # c
       PROVE  Alone(d)
  <2>1. CASE conn' = f /\ sock' = in
    BY <1>2, <1>5, <1>6, <2>1 DEF Alone
  <2>2. ASSUME NEW n \in Sockets, sock[n].st = "free",
               sock' = [in EXCEPT ![n] = Dialled(c)], conn'[d] = f[d]
        PROVE  Alone(d)
    <3>1. /\ sock'[n].conn = c
          /\ \A r \in Sockets : r # n => sock'[r] = in[r]
      BY <1>6, <2>2 DEF Dialled
    <3>2. \A r \in Sockets : sock'[r].conn = d
                             => /\ sock[r].conn = d /\ sock'[r].st = sock[r].st
      BY <1>6, <1>10, <3>1
    <3>3. \A r \in Sockets : sock[r].st # "free" => sock'[r].conn = sock[r].conn
                                                    /\ sock'[r].st = sock[r].st
      BY <1>6, <2>2, <3>1
    <3> QED
      BY <1>2, <1>5, <2>2, <3>2, <3>3 DEF Alone
  <2> QED
    BY <1>3, <1>5, <1>6, <1>10, <2>1, <2>2, BitgetConnects
<1> QED
  BY <1>2, <1>3, <1>8, <1>9, <1>10, SingleFrom DEF AllSingle

\* The close of the only socket leaves none; its connection is down, or, in
\* use, has its timer.
LEMMA OnWsCloseSingle ==
    ASSUME Inv, Reachable, AllSingle, NEW s \in Sockets, OnWsClose(s)
    PROVE  AllSingle'
<1> DEFINE c == sock[s].conn
<1> HIDE DEF c
<1>1. /\ c \in Conns /\ sock[s].st \in {"gone", "ended", "leaving"}
      /\ sock' = [sock EXCEPT ![s] = [Unused EXCEPT !.conn = c]]
      /\ \E g : /\ conn' = [conn EXCEPT ![c] = g]
                /\ conn[c].state # "CLOSING" =>
                     g.timer /\ g.state \in {"RECONNECTING", "CONNECTING"}
                /\ conn[c].state = "CLOSING" /\ kind # "bybit" =>
                     g.state = "INITIAL" /\ g.timer = conn[c].timer
      /\ UNCHANGED <<kind, retired>>
  BY ClosesParts DEF c, callVars
<1>2. conn \in [Conns -> Entry] /\ sock \in [Sockets -> SocketRecords]
  BY Parts DEF Inv
<1>3. /\ \A d \in Conns : d # c => conn'[d] = conn[d]
      /\ conn[c].state # "CLOSING" =>
           conn'[c].timer /\ conn'[c].state \in {"RECONNECTING", "CONNECTING"}
      /\ conn[c].state = "CLOSING" /\ kind # "bybit" =>
           conn'[c].state = "INITIAL" /\ conn'[c].timer = conn[c].timer
  BY <1>1, <1>2
<1>4. /\ \A r \in Sockets : r # s => sock'[r] = sock[r]
      /\ sock'[s].st = "free"
  BY <1>1, <1>2 DEF Unused
<1> SUFFICES ASSUME kind = "bitget", NEW d \in Conns
             PROVE  /\ d # c => Alone(d)
                    /\ d = c /\ d \notin retired' \cap Private => Single(d)'
  BY <1>1, SingleFrom
<1>5. ASSUME d # c PROVE Alone(d)
  <2>1. sock[s].conn # d
    BY <1>5 DEF c
  <2> QED
    BY <1>1, <1>3, <1>4, <1>5, <2>1 DEF Alone
<1>6. ASSUME d = c, d \notin retired' \cap Private PROVE Single(d)'
  <2>1. Single(d) /\ sock[s].conn = d /\ Alive(d)
    BY <1>1, <1>6 DEF AllSingle, Alive, c
  <2>2. \A r \in Sockets : sock'[r].conn = d => sock'[r].st = "free"
    <3>1. ASSUME NEW r \in Sockets, sock'[r].conn = d, sock'[r].st # "free"
          PROVE  FALSE
      <4>1. r # s /\ sock[r].conn = d /\ sock[r].st # "free"
        BY <1>4, <3>1
      <4>2. conn[d].ws = r /\ conn[d].ws = s
        BY <1>1, <2>1, <4>1 DEF Single
      <4> QED
        BY <4>1, <4>2
    <3> QED
      BY <3>1
  <2>3. ~Alive(d)'
    BY <2>2 DEF Alive
  <2>4. conn[d].timer = FALSE /\ conn[d].state \notin {"none", "INITIAL"}
    BY <1>2, <2>1 DEF Single, Entry
  <2>5. CASE conn[d].state = "CLOSING"
    <3>1. conn'[d].state = "INITIAL" /\ conn'[d].timer = FALSE
      BY <1>3, <1>6, <2>4, <2>5
    <3> QED
      BY <2>2, <2>3, <3>1 DEF Single
  <2>6. CASE conn[d].state # "CLOSING"
    <3>1. conn'[d].state \in {"RECONNECTING", "CONNECTING"}
      BY <1>3, <1>6, <2>6
    <3>2. d \notin retired'
      BY <1>1, <2>1, <2>4, <2>6 DEF Single
    <3> QED
      BY <2>2, <2>3, <3>1, <3>2 DEF Single, InUse
  <2> QED
    BY <2>5, <2>6
<1> QED
  BY <1>5, <1>6

\* close() leaves no socket that dials or is open.
LEMMA ClosingSingle ==
    ASSUME Inv, AllSingle, NEW c \in Conns, Closing(c),
           c \in retired', \A d \in Conns : d # c => (d \in retired' <=> d \in retired),
           retired \subseteq retired', kind' = kind
    PROVE  AllSingle'
<1>1. /\ \E g : /\ conn' = [conn EXCEPT ![c] = g] /\ g.state = "CLOSING"
                /\ ~g.timer /\ g.ws = conn[c].ws
      /\ \A r \in Sockets :
           /\ sock'[r].conn = sock[r].conn
           /\ sock'[r].st = "free" <=> sock[r].st = "free"
           /\ sock'[r].st \in {"open", "dialing"}
              => sock'[r].st = sock[r].st /\ r # conn[c].ws
  BY ClosingParts
<1>2. conn \in [Conns -> Entry]
  BY Parts DEF Inv
<1>3. /\ \A d \in Conns : d # c => conn'[d] = conn[d]
      /\ conn'[c].state = "CLOSING" /\ ~conn'[c].timer /\ conn'[c].ws = conn[c].ws
  BY <1>1, <1>2
<1> SUFFICES ASSUME kind = "bitget", NEW d \in Conns
             PROVE  /\ d # c => Alone(d)
                    /\ d = c /\ d \notin retired' \cap Private => Single(d)'
  BY SingleFrom
<1>4. ASSUME d # c PROVE Alone(d)
  BY <1>1, <1>3, <1>4 DEF Alone
<1>5. ASSUME d = c, d \notin retired' \cap Private PROVE Single(d)'
  <2>1. \A r \in Sockets : sock[r].conn = d /\ sock[r].st # "free" => conn[d].ws = r
    BY <1>5 DEF AllSingle, Single
  <2>2. \A r \in Sockets : sock'[r].conn = d => sock'[r].st \notin {"dialing", "open"}
    BY <1>1, <1>5, <2>1
  <2>3. \A r \in Sockets : sock'[r].conn = d /\ sock'[r].st # "free" => conn'[d].ws = r
    BY <1>1, <1>3, <1>5, <2>1
  <2> QED
    BY <1>3, <1>5, <2>2, <2>3 DEF Single
<1> QED
  BY <1>4, <1>5

LEMMA ClosesSingle ==
    ASSUME Inv, AllSingle, BybitClose \/ \E c \in Conns : CloseAll(c)
    PROVE  AllSingle'
<1>1. CASE BybitClose
  <2>1. /\ closings \in Seq(Conns) /\ closings # <<>>
        /\ Range(closings) \subseteq retired
    BY <1>1 DEF Inv, Shape, TypeOK, BybitClose
  <2>2. Head(closings) \in Conns /\ Head(closings) \in Range(closings)
    BY <2>1, RangeOfHead
  <2>3. Closing(Head(closings)) /\ UNCHANGED <<kind, retired>>
    BY <1>1 DEF BybitClose
  <2> QED
    BY <2>1, <2>2, <2>3, ClosingSingle
<1>2. ASSUME NEW c \in Conns, CloseAll(c) PROVE AllSingle'
  <2>1. /\ kind = "bitget" => Closing(c)
        /\ retired' = retired \cup {c} /\ kind' = kind
    BY <1>2, CloseAllParts
  <2> QED
    BY <2>1, ClosingSingle DEF AllSingle
<1> QED
  BY <1>1, <1>2

\* Errors, missing pongs and the network: sockets end.
LEMMA FadesSingle ==
    ASSUME Inv, AllSingle, Fades(sock'), UNCHANGED <<kind, retired>>,
           kind = "bitget" =>
             \A d \in Conns : /\ conn'[d].state = conn[d].state
                              /\ conn'[d].timer = conn[d].timer
                              /\ conn'[d].ws = conn[d].ws
    PROVE  AllSingle'
<1>1. ASSUME kind = "bitget", NEW d \in Conns PROVE Alone(d)
  BY <1>1 DEF Alone, Fades
<1> QED
  BY <1>1, AllAlone

\* A step that rewrites other fields of an entry.
LEMMA FieldsSingle ==
    ASSUME Inv, AllSingle, Fades(sock'), UNCHANGED <<kind, retired>>,
           NEW c \in Conns, NEW g, conn' = [conn EXCEPT ![c] = g],
           g.state = conn[c].state, g.timer = conn[c].timer, g.ws = conn[c].ws
    PROVE  AllSingle'
<1>1. conn \in [Conns -> Entry]
  BY Parts DEF Inv
<1>2. \A d \in Conns : /\ conn'[d].state = conn[d].state
                       /\ conn'[d].timer = conn[d].timer
                       /\ conn'[d].ws = conn[d].ws
  BY <1>1
<1> QED
  BY <1>2, FadesSingle

LEMMA PongSingle ==
    ASSUME Inv, AllSingle, NEW c \in Conns,
           OnWsMessage(c) \/ Ping(c) \/ PongTimeout(c)
    PROVE  AllSingle'
<1>1. /\ TypeOK /\ conn[c].ws \in Sockets \cup {None} /\ conn[c] \in Entry
      /\ UNCHANGED <<kind, retired>>
  BY Parts DEF Inv, OnWsMessage, Ping, PongTimeout, callVars
<1>2. Fades(sock) /\ Fades(Terminated(conn[c].ws))
  BY <1>1, SockFades, TerminatedFades
<1>3. ASSUME NEW b \in BOOLEAN, conn' = [conn EXCEPT ![c].pong = b], Fades(sock')
      PROVE  AllSingle'
  <2> DEFINE g == [conn[c] EXCEPT !.pong = b]
  <2>1. conn' = [conn EXCEPT ![c] = g]
    BY <1>3
  <2>2. g.state = conn[c].state /\ g.timer = conn[c].timer /\ g.ws = conn[c].ws
    BY <1>1 DEF Entry
  <2> HIDE DEF g
  <2> QED
    BY <1>1, <1>3, <2>1, <2>2, FieldsSingle
<1>4. CASE OnWsMessage(c) \/ Ping(c)
  <2>1. /\ \E b \in BOOLEAN : conn' = [conn EXCEPT ![c].pong = b]
        /\ UNCHANGED sock
    BY <1>4 DEF OnWsMessage, Ping, netVars
  <2> QED
    BY <1>2, <1>3, <2>1
<1>5. CASE PongTimeout(c) /\ kind = "bitget"
  <2>1. /\ sock' = Terminated(conn[c].ws)
        /\ conn' = [conn EXCEPT ![c].pong = FALSE]
    BY <1>5 DEF PongTimeout, BitgetPongTimeout
  <2> QED
    BY <1>2, <1>3, <2>1
<1>6. CASE kind # "bitget"
  BY <1>1, <1>6 DEF AllSingle
<1> QED
  BY <1>4, <1>5, <1>6

LEMMA OnWsErrorSingle ==
    ASSUME Inv, AllSingle, NEW s \in Sockets, OnWsError(s)
    PROVE  AllSingle'
<1> DEFINE c == sock[s].conn
<1> HIDE DEF c
<1>1. /\ sock[s].st \in {"refused", "failing"}
      /\ kind = "bitget" => sock' = AfterError(sock, s) /\ UNCHANGED conn
      /\ UNCHANGED <<kind, retired>>
  BY ErrorParts DEF c
<1>2. Fades(AfterError(sock, s))
  BY <1>1, SockFades, AfterErrorFades DEF Inv
<1> QED
  BY <1>1, <1>2, FadesSingle DEF AllSingle

LEMMA BitgetLoginSingle ==
    ASSUME Inv, AllSingle, NEW c \in Conns, BitgetLogin(c)
    PROVE  AllSingle'
<1> DEFINE n == conn[c].beats + 1
           g == [conn[c] EXCEPT !.opening = FALSE, !.beats = n, !.beating = TRUE]
<1>1. conn' = [conn EXCEPT ![c] = g] /\ UNCHANGED <<kind, sock, retired>>
  BY DEF BitgetLogin, callVars
<1>2. conn[c] \in Entry
  BY Parts DEF Inv
<1> HIDE DEF n
<1>3. g.state = conn[c].state /\ g.timer = conn[c].timer /\ g.ws = conn[c].ws
  BY <1>2 DEF Entry
<1> HIDE DEF g
<1>4. Fades(sock')
  BY <1>1, SockFades DEF Inv
<1> QED
  BY <1>1, <1>3, <1>4, FieldsSingle

LEMMA OthersSingle ==
    ASSUME Inv, AllSingle,
           \/ Dials \/ OkxRegisters \/ OkxRequests
           \/ \E c \in Conns : BybitWakes(c) \/ BitgetRequests(c)
           \/ \E s \in Sockets : SocketFails(s)
    PROVE  AllSingle'
<1>1. CASE Dials \/ OkxRegisters \/ OkxRequests \/ \E c \in Conns : BybitWakes(c)
  <2>1. kind' # "bitget"
    BY <1>1 DEF Dials, BybitDials, OkxDials, OkxRegisters, OkxRequests,
                BybitWakes, Inv, Shape, Okx
  <2> QED
    BY <2>1 DEF AllSingle
<1>2. ASSUME NEW c \in Conns, BitgetRequests(c) PROVE AllSingle'
  <2>1. UNCHANGED <<kind, conn, sock, retired>>
    BY <1>2 DEF BitgetRequests, callVars
  <2> QED
    BY <2>1, AllAlone DEF Alone
<1>3. ASSUME NEW s \in Sockets, SocketFails(s) PROVE AllSingle'
  <2>1. UNCHANGED <<kind, conn, retired>>
    BY <1>3 DEF SocketFails, callVars
  <2>2. PICK st \in {"refused", "failing", "ended"} :
           /\ sock' = [sock EXCEPT ![s].st = st]
           /\ sock[s].st \in {"dialing", "open"}
           /\ sock[s].st = "open" => st \in {"failing", "ended"}
    BY <1>3 DEF SocketFails
  <2>3. sock \in [Sockets -> SocketRecords]
    BY Parts DEF Inv
  <2>4. Fades(sock')
    BY <2>2, <2>3 DEF Fades, SocketRecords
  <2> QED
    BY <2>1, <2>4, FadesSingle
<1> QED
  BY <1>1, <1>2, <1>3

LEMMA NextSingle == Inv /\ Reachable /\ AllSingle /\ [Next]_vars => AllSingle'
<1> SUFFICES ASSUME Inv, Reachable, AllSingle, [Next]_vars PROVE AllSingle'
  OBVIOUS
<1>1. CASE UNCHANGED vars
  <2>1. UNCHANGED <<kind, conn, sock, retired>>
    BY <1>1 DEF vars, netVars, callVars
  <2> QED
    BY <2>1, AllAlone DEF Alone
<1>2. ASSUME NEW s \in Sockets, Ends(s) PROVE AllSingle'
  BY <1>2, OnWsErrorSingle, OnWsCloseSingle DEF Ends
<1>3. CASE Dials
  BY <1>3, OthersSingle
<1>4. ASSUME NEW c \in Conns, Caller(c) PROVE AllSingle'
  BY <1>4, SubscribeSingle, ClosesSingle DEF Caller
<1>5. ASSUME NEW c \in Conns, Timers(c) PROVE AllSingle'
  BY <1>5, ReconnectTimerSingle, PongSingle DEF Timers
<1>6. CASE Turns
  BY <1>6, OthersSingle, ClosesSingle, BitgetLoginSingle DEF Turns
<1>7. CASE Network
  BY <1>7, OnWsOpenSingle, OnWsAuthenticatedSingle, OthersSingle, PongSingle
     DEF Network
<1> QED
  BY <1>1, <1>2, <1>3, <1>4, <1>5, <1>6, <1>7 DEF Next

LEMMA InitSingle == Init => AllSingle
<1> SUFFICES ASSUME Init, NEW c \in Conns PROVE Single(c)
  BY DEF AllSingle
<1>1. /\ \A s \in Sockets : sock[s].st = "free"
      /\ conn[c].timer = FALSE /\ c \notin retired
  BY DEF Init, Unused, Fresh
<1> QED
  BY <1>1 DEF Single, Alive

\* Bitget: the public connection that the caller closed is never dialed again,
\* though a reconnect timer, a failed socket or a late event was under way.
THEOREM NoDialAfterClose == Spec => []ClosedStaysClosed
<1>1. Inv /\ AllSingle => ClosedStaysClosed
  <2> SUFFICES ASSUME Inv, AllSingle, kind = "bitget", NEW c \in retired \ Private
               PROVE  /\ ~conn[c].timer
                      /\ \A s \in Sockets :
                           sock[s].conn = c => sock[s].st \notin {"dialing", "open"}
    BY DEF ClosedStaysClosed
  <2>1. c \in Conns /\ c \notin InUse
    BY DEF Inv, TypeOK, InUse
  <2> QED
    BY <2>1 DEF AllSingle, Single
<1> QED
  BY InitInv, NextInv, InitReach, NextReach, InitSingle, NextSingle, <1>1, PTL
     DEF Spec

-----------------------------------------------------------------------------
(* Bybit: what is asked on a socket.                                        *)

\* Nothing is asked on a socket before it opens.
Clean == \A s \in Sockets :
            sock[s].st = "dialing" => sent[s] = {} /\ s \notin login /\ ~sock[s].in

\* An open socket with topics or a login is the registered one; a connection
\* that is authenticated was so by that socket, or by one that is about to
\* close; and private topics are on a socket that logged in.
Guarded(c) ==
    /\ \A s \in Sockets :
         /\ sock[s].conn = c /\ sock[s].st = "open"
         /\ sent[s] # {} \/ s \in login \/ sock[s].in
         => conn[c].ws = s
    /\ conn[c].authed =>
         \E s \in Sockets : /\ sock[s].conn = c /\ sock[s].in
                            /\ sock[s].st \in {"open", "failing", "ended"}
                            /\ sock[s].st = "open" => conn[c].ws = s
    /\ c \in Private =>
         \A s \in Sockets : sock[s].conn = c /\ sent[s] # {} => sock[s].in

AllGuarded == kind = "bybit" => Clean /\ \A c \in InUse : Guarded(c)

\* A step that asks nothing of a socket of d and registers no other one.
Calm(d) ==
    /\ conn'[d].ws = conn[d].ws /\ (conn'[d].authed => conn[d].authed)
    /\ conn'[d].authed =>
         \A s \in Sockets :
           sock[s].conn = d /\ sock[s].st \in {"open", "failing", "ended"} =>
             /\ sock'[s].conn = d /\ sock'[s].in = sock[s].in
             /\ sock'[s].st \in {"open", "failing", "ended"}
             /\ sock'[s].st = "open" => sock[s].st = "open"
    /\ \A s \in Sockets : sock'[s].conn = d =>
         \/ sent'[s] = {} /\ ~sock'[s].in /\ s \notin login'
         \/ /\ sock[s].conn = d /\ sock'[s].in = sock[s].in
            /\ sent'[s] \subseteq sent[s] /\ (s \in login' => s \in login)
            /\ sock'[s].st = "open" => sock[s].st = "open"

LEMMA CalmGuarded ==
    ASSUME NEW d, Guarded(d), Calm(d)
    PROVE  Guarded(d)'
<1>1. \A s \in Sockets :
         /\ sock'[s].conn = d /\ sock'[s].st = "open"
         /\ sent'[s] # {} \/ s \in login' \/ sock'[s].in
         => conn'[d].ws = s
  BY DEF Guarded, Calm
<1>2. ASSUME conn'[d].authed
      PROVE  \E s \in Sockets : /\ sock'[s].conn = d /\ sock'[s].in
                                /\ sock'[s].st \in {"open", "failing", "ended"}
                                /\ sock'[s].st = "open" => conn'[d].ws = s
  <2>1. PICK s \in Sockets : /\ sock[s].conn = d /\ sock[s].in
                             /\ sock[s].st \in {"open", "failing", "ended"}
                             /\ sock[s].st = "open" => conn[d].ws = s
    BY <1>2 DEF Guarded, Calm
  <2>2. /\ sock'[s].conn = d /\ sock'[s].in
        /\ sock'[s].st \in {"open", "failing", "ended"}
        /\ sock'[s].st = "open" => sock[s].st = "open"
        /\ conn'[d].ws = conn[d].ws
    BY <1>2, <2>1 DEF Calm
  <2> QED
    BY <2>1, <2>2
<1>3. d \in Private =>
         \A s \in Sockets : sock'[s].conn = d /\ sent'[s] # {} => sock'[s].in
  BY DEF Guarded, Calm
<1> QED
  BY <1>1, <1>2, <1>3 DEF Guarded

\* A step of one connection.
LEMMA GuardedFrom ==
    ASSUME AllGuarded, kind' = kind, retired \subseteq retired', NEW c,
           kind = "bybit" => Clean' /\ \A d \in InUse' : /\ d # c => Calm(d)
                                                         /\ d = c => Guarded(d)'
    PROVE  AllGuarded'
<1>1. ASSUME kind = "bybit", NEW d \in InUse' PROVE Guarded(d)'
  <2>1. d \in InUse
    BY DEF InUse
  <2> QED
    BY <1>1, <2>1, CalmGuarded DEF AllGuarded
<1> QED
  BY <1>1 DEF AllGuarded

LEMMA AllCalm ==
    ASSUME AllGuarded, kind' = kind, retired \subseteq retired',
           kind = "bybit" => Clean' /\ \A d \in InUse' : Calm(d)
    PROVE  AllGuarded'
<1>1. ASSUME kind = "bybit", NEW d \in InUse' PROVE Guarded(d)'
  <2>1. d \in InUse
    BY DEF InUse
  <2> QED
    BY <1>1, <2>1, CalmGuarded DEF AllGuarded
<1> QED
  BY <1>1 DEF AllGuarded

\* Errors, missing pongs and the network: sockets end.
LEMMA FadesGuarded ==
    ASSUME AllGuarded, Fades(sock'), kind' = kind, retired \subseteq retired',
           UNCHANGED <<sent, login>>,
           kind = "bybit" =>
             \A d \in Conns : /\ conn'[d].ws = conn[d].ws
                              /\ conn'[d].authed => conn[d].authed
    PROVE  AllGuarded'
<1>1. ASSUME kind = "bybit", NEW d \in InUse' PROVE Calm(d)
  BY <1>1 DEF Calm, Fades, InUse
<1>2. kind = "bybit" => Clean'
  BY DEF AllGuarded, Clean, Fades
<1> QED
  BY <1>1, <1>2, AllCalm

LEMMA FieldsGuarded ==
    ASSUME Inv, AllGuarded, Fades(sock'), UNCHANGED <<kind, retired, sent, login>>,
           NEW c \in Conns, NEW g, conn' = [conn EXCEPT ![c] = g],
           g.ws = conn[c].ws, g.authed = conn[c].authed
    PROVE  AllGuarded'
<1>1. conn \in [Conns -> Entry]
  BY Parts DEF Inv
<1>2. \A d \in Conns : /\ conn'[d].ws = conn[d].ws
                       /\ conn'[d].authed => conn[d].authed
  BY <1>1
<1> QED
  BY <1>2, FadesGuarded

LEMMA DroppedGuarded ==
    ASSUME Inv, AllGuarded, NEW c \in Conns, Fades(sock'),
           UNCHANGED <<kind, retired, sent, login>>,
           \/ UNCHANGED conn
           \/ \E b \in BOOLEAN : conn' = [conn EXCEPT ![c].pong = b]
           \/ conn' = [conn EXCEPT ![c] = Dropped(conn[c])]
           \/ conn' = [conn EXCEPT ![c] = ReconnectWithDelay(Dropped(conn[c]))]
    PROVE  AllGuarded'
<1>1. conn \in [Conns -> Entry] /\ Sound(conn[c])
  BY Parts DEF Inv, Shape
<1>2. /\ Sound(Dropped(conn[c])) /\ Dropped(conn[c]).ws = conn[c].ws
      /\ Dropped(conn[c]).authed = conn[c].authed
  BY <1>1, DroppedKeeps
<1>3. CASE UNCHANGED conn
  BY <1>3, FadesGuarded
<1>4. ASSUME NEW b \in BOOLEAN, conn' = [conn EXCEPT ![c].pong = b]
      PROVE  AllGuarded'
  <2> DEFINE g == [conn[c] EXCEPT !.pong = b]
  <2>1. conn' = [conn EXCEPT ![c] = g]
    BY <1>4
  <2>2. g.ws = conn[c].ws /\ g.authed = conn[c].authed
    BY <1>1 DEF Sound, Entry
  <2> HIDE DEF g
  <2> QED
    BY <2>1, <2>2, FieldsGuarded
<1>5. CASE conn' = [conn EXCEPT ![c] = Dropped(conn[c])]
  BY <1>2, <1>5, FieldsGuarded
<1>6. CASE conn' = [conn EXCEPT ![c] = ReconnectWithDelay(Dropped(conn[c]))]
  <2> DEFINE g == ReconnectWithDelay(Dropped(conn[c]))
  <2>1. g.ws = conn[c].ws /\ g.authed = conn[c].authed
    BY <1>2, ReconnectSets
  <2> HIDE DEF g
  <2> QED
    BY <1>6, <2>1, FieldsGuarded DEF g
<1> QED
  BY <1>3, <1>4, <1>5, <1>6

LEMMA PongGuarded ==
    ASSUME Inv, AllGuarded, NEW c \in Conns,
           OnWsMessage(c) \/ Ping(c) \/ PongTimeout(c)
    PROVE  AllGuarded'
<1>1. /\ TypeOK /\ conn[c].ws \in Sockets \cup {None}
      /\ UNCHANGED <<kind, retired, sent, login>>
  BY Parts DEF Inv, OnWsMessage, Ping, PongTimeout, callVars, netVars
<1>2. Fades(sock) /\ Fades(Terminated(conn[c].ws))
  BY <1>1, SockFades, TerminatedFades
<1>3. CASE OnWsMessage(c) \/ Ping(c)
  <2>1. /\ \E b \in BOOLEAN : conn' = [conn EXCEPT ![c].pong = b]
        /\ UNCHANGED sock
    BY <1>3 DEF OnWsMessage, Ping, netVars
  <2> QED
    BY <1>1, <1>2, <2>1, DroppedGuarded
<1>4. CASE PongTimeout(c)
  <2>1. /\ sock' = Terminated(conn[c].ws)
        /\ \/ conn' = [conn EXCEPT ![c].pong = FALSE]
           \/ conn' = [conn EXCEPT ![c] = Dropped(conn[c])]
           \/ conn' = [conn EXCEPT ![c] = ReconnectWithDelay(Dropped(conn[c]))]
    BY <1>4 DEF PongTimeout, BitgetPongTimeout, ReconnectableClose, Dropped
  <2> QED
    BY <1>1, <1>2, <2>1, DroppedGuarded
<1> QED
  BY <1>3, <1>4

LEMMA OnWsErrorGuarded ==
    ASSUME Inv, AllGuarded, NEW s \in Sockets, OnWsError(s)
    PROVE  AllGuarded'
<1> DEFINE c == sock[s].conn
<1> HIDE DEF c
<1>1. /\ c \in Conns /\ sock[s].st \in {"refused", "failing"}
      /\ \/ sock' = AfterError(sock, s) /\ UNCHANGED conn
         \/ /\ sock' = AfterError(Terminated(conn[c].ws), s)
            /\ \/ conn' = [conn EXCEPT ![c] = Dropped(conn[c])]
               \/ conn' = [conn EXCEPT
                             ![c] = ReconnectWithDelay(Dropped(conn[c]))]
      /\ UNCHANGED <<kind, retired, sent, login>>
  BY ErrorParts DEF c
<1>2. conn[c].ws \in Sockets \cup {None} /\ TypeOK
  BY <1>1, Parts DEF Inv
<1>3. Fades(sock')
  <2>1. Fades(sock) /\ Fades(Terminated(conn[c].ws))
    BY <1>2, SockFades, TerminatedFades
  <2> QED
    BY <1>1, <1>2, <2>1, AfterErrorFades
<1> QED
  BY <1>1, <1>3, DroppedGuarded

LEMMA SocketFailsGuarded ==
    ASSUME Inv, AllGuarded, NEW s \in Sockets, SocketFails(s)
    PROVE  AllGuarded'
<1>1. UNCHANGED <<kind, conn, retired, sent, login>>
  BY DEF SocketFails, callVars
<1>2. PICK st \in {"refused", "failing", "ended"} :
         /\ sock' = [sock EXCEPT ![s].st = st]
         /\ sock[s].st \in {"dialing", "open"}
         /\ sock[s].st = "open" => st \in {"failing", "ended"}
  BY DEF SocketFails
<1>3. sock \in [Sockets -> SocketRecords]
  BY Parts DEF Inv
<1>4. Fades(sock')
  BY <1>2, <1>3 DEF Fades, SocketRecords
<1> QED
  BY <1>1, <1>4, FadesGuarded

\* A connection that is being closed is in use no more.
LEMMA ClosingGuarded ==
    ASSUME Inv, AllGuarded, NEW c \in Conns, Closing(c), c \in retired',
           retired \subseteq retired', UNCHANGED <<kind, sent, login>>
    PROVE  AllGuarded'
<1>1. /\ \E g : conn' = [conn EXCEPT ![c] = g]
      /\ \A r \in Sockets :
           /\ sock'[r].conn = sock[r].conn /\ sock'[r].in = sock[r].in
           /\ sock'[r].st \in {"open", "dialing"} => sock'[r].st = sock[r].st
           /\ r # conn[c].ws => sock'[r] = sock[r]
  BY ClosingParts
<1>2. /\ conn \in [Conns -> Entry] /\ conn[c].ws \in Sockets \cup {None}
      /\ conn[c].ws # None => sock[conn[c].ws].conn = c
      /\ None \notin Sockets
  BY Parts DEF Inv, Shape
<1>3. \A d \in Conns : d # c => conn'[d] = conn[d]
  BY <1>1, <1>2
<1>4. ASSUME NEW d \in InUse' PROVE Calm(d)
  <2>1. d \in Conns /\ d # c
    BY <1>4 DEF InUse
  <2>2. \A r \in Sockets : sock[r].conn = d => sock'[r] = sock[r]
    BY <1>1, <1>2, <2>1
  <2> QED
    BY <1>1, <1>3, <2>1, <2>2 DEF Calm
<1>5. kind = "bybit" => Clean'
  BY <1>1 DEF AllGuarded, Clean
<1> QED
  BY <1>4, <1>5, AllCalm

LEMMA ClosesGuarded ==
    ASSUME Inv, AllGuarded, BybitClose \/ \E c \in Conns : CloseAll(c)
    PROVE  AllGuarded'
<1>1. CASE BybitClose
  <2>1. /\ closings \in Seq(Conns) /\ closings # <<>>
        /\ Range(closings) \subseteq retired
    BY <1>1 DEF Inv, Shape, TypeOK, BybitClose
  <2>2. Head(closings) \in Conns /\ Head(closings) \in Range(closings)
    BY <2>1, RangeOfHead
  <2>3. Closing(Head(closings)) /\ UNCHANGED <<kind, retired, sent, login>>
    BY <1>1 DEF BybitClose
  <2> QED
    BY <2>1, <2>2, <2>3, ClosingGuarded
<1>2. ASSUME NEW c \in Conns, CloseAll(c) PROVE AllGuarded'
  <2>1. /\ Closing(c) \/ Halting(c) \/ UNCHANGED <<conn, sock>>
        /\ retired' = retired \cup {c} /\ UNCHANGED <<kind, sent, login>>
    BY <1>2, CloseAllParts
  <2>2. CASE Closing(c)
    BY <2>1, <2>2, ClosingGuarded
  <2>3. CASE UNCHANGED <<conn, sock>>
    <3>1. Fades(sock')
      BY <2>3, SockFades DEF Inv
    <3> QED
      BY <2>1, <2>3, <3>1, FadesGuarded
  <2>4. CASE Halting(c)
    BY <2>1, <2>4 DEF Halting, AllGuarded
  <2> QED
    BY <2>1, <2>2, <2>3, <2>4
<1> QED
  BY <1>1, <1>2

\* A connect of Bybit only asks for the mutex.
LEMMA ReconnectTimerGuarded ==
    ASSUME Inv, AllGuarded, NEW c \in Conns, ReconnectTimer(c)
    PROVE  AllGuarded'
<1> DEFINE g == [conn[c] EXCEPT !.timer = FALSE]
<1>1. /\ Connect(c, [conn EXCEPT ![c] = g], sock)
      /\ UNCHANGED <<kind, retired, sent, login>>
  BY DEF ReconnectTimer, callVars
<1>2. conn[c] \in Entry
  BY Parts DEF Inv
<1>3. g.ws = conn[c].ws /\ g.authed = conn[c].authed
  BY <1>2 DEF Entry
<1> HIDE DEF g
<1>4. CASE kind = "bybit"
  <2>1. conn' = [conn EXCEPT ![c] = g] /\ UNCHANGED sock
    BY <1>1, <1>4 DEF Connect, BybitConnect
  <2>2. Fades(sock')
    BY <2>1, SockFades DEF Inv
  <2> QED
    BY <1>1, <1>3, <2>1, <2>2, FieldsGuarded
<1> QED
  BY <1>1, <1>4 DEF AllGuarded

\* A connect dials only where no socket is open: nothing private is on its way
\* over the old one.
LEMMA BybitDialsGuarded ==
    ASSUME Inv, AllGuarded, BybitDials
    PROVE  AllGuarded'
<1> DEFINE c == Head(mutex.granted)
           st == Starts(conn[c])
           n == NewSocket
<1>1. /\ conn \in [Conns -> Entry] /\ sock \in [Sockets -> SocketRecords]
      /\ \A d \in Conns : conn[d].ws \in Sockets \cup {None}
      /\ None \notin Sockets /\ mutex.granted \in Seq(Conns)
      /\ mutex.granted # <<>> /\ \A d \in Conns : conn[d] \in Entry
  BY Parts DEF Inv, Mutexes, BybitDials
<1>2. c \in Conns
  BY <1>1, RangeOfHead
<1>3. /\ UNCHANGED <<kind, sent, login, retired>>
      /\ \/ UNCHANGED <<conn, sock>>
         \/ /\ Free # {} /\ ~IsWsOpen(c)
            /\ sock' = [sock EXCEPT ![n] = Dialled(c)]
            /\ conn' = [conn EXCEPT ![c].state = st, ![c].ws = n,
                                    ![c].promise = TRUE]
  BY DEF BybitDials, callVars
<1>4. Free # {} => n \in Sockets /\ sock[n].st = "free"
  BY NewSocketIsFree
<1> HIDE DEF c, st, n
<1>5. CASE UNCHANGED <<conn, sock>>
  <2>1. Fades(sock')
    BY <1>5, SockFades DEF Inv
  <2> QED
    BY <1>3, <1>5, <2>1, FadesGuarded
<1>6. CASE /\ Free # {} /\ ~IsWsOpen(c)
           /\ sock' = [sock EXCEPT ![n] = Dialled(c)]
           /\ conn' = [conn EXCEPT ![c].state = st, ![c].ws = n,
                                   ![c].promise = TRUE]
  <2>1. /\ n \in Sockets /\ sock[n].st = "free"
        /\ sent[n] = {} /\ n \notin login
    BY <1>4, <1>6 DEF Inv, Shape
  <2>2. /\ sock'[n].conn = c /\ sock'[n].st = "dialing" /\ ~sock'[n].in
        /\ \A s \in Sockets : s # n => sock'[s] = sock[s]
    BY <1>1, <1>6, <2>1 DEF Dialled
  <2>3. conn'[c].authed = conn[c].authed
    BY <1>1, <1>2, <1>6 DEF Entry
  <2>4. \A d \in Conns : d # c => conn'[d] = conn[d]
    BY <1>1, <1>6
  <2>5. ASSUME NEW d \in InUse', d # c PROVE Calm(d)
    <3>1. d \in Conns /\ conn'[d] = conn[d]
      BY <2>4, <2>5 DEF InUse
    <3>2. \A s \in Sockets : sock'[s].conn = d => s # n
      BY <2>2, <2>5
    <3>3. \A s \in Sockets : sock[s].st # "free" => sock'[s] = sock[s]
      BY <2>1, <2>2
    <3> QED
      BY <1>3, <2>2, <3>1, <3>2, <3>3 DEF Calm
  <2>6. ASSUME kind = "bybit", NEW d \in InUse', d = c PROVE Guarded(d)'
    <3>1. Guarded(d) /\ d \in Conns /\ conn[d].ws \in Sockets \cup {None}
      BY <1>1, <1>3, <2>6 DEF AllGuarded, InUse
    <3>2. \A s \in Sockets : conn[d].ws = s => sock[s].st # "open"
      BY <1>1, <1>6, <2>6 DEF IsWsOpen, IsOpen
    <3>3. \A s \in Sockets :
            /\ sock'[s].conn = d /\ sock'[s].st = "open"
            /\ sent'[s] # {} \/ s \in login' \/ sock'[s].in
            => conn'[d].ws = s
      BY <1>3, <2>2, <3>1, <3>2 DEF Guarded
    <3>4. ASSUME conn'[d].authed
          PROVE  \E s \in Sockets :
                   /\ sock'[s].conn = d /\ sock'[s].in
                   /\ sock'[s].st \in {"open", "failing", "ended"}
                   /\ sock'[s].st = "open" => conn'[d].ws = s
      <4>1. PICK s \in Sockets : /\ sock[s].conn = d /\ sock[s].in
                                 /\ sock[s].st \in {"open", "failing", "ended"}
                                 /\ sock[s].st = "open" => conn[d].ws = s
        BY <2>3, <2>6, <3>1, <3>4 DEF Guarded
      <4>2. s # n /\ sock[s].st # "open"
        BY <2>1, <3>2, <4>1
      <4>3. sock'[s] = sock[s]
        BY <2>2, <4>2
      <4> QED
        BY <4>1, <4>2, <4>3
    <3>5. d \in Private =>
            \A s \in Sockets : sock'[s].conn = d /\ sent'[s] # {} => sock'[s].in
      BY <1>3, <2>1, <2>2, <3>1 DEF Guarded
    <3> QED
      BY <3>3, <3>4, <3>5 DEF Guarded
  <2>7. kind = "bybit" => Clean'
    BY <1>3, <2>1, <2>2 DEF AllGuarded, Clean
  <2> QED
    BY <1>3, <2>5, <2>6, <2>7, GuardedFrom
<1> QED
  BY <1>3, <1>5, <1>6

\* The close of any socket takes the authentication of its connection away.
LEMMA OnWsCloseGuarded ==
    ASSUME Inv, Reachable, AllGuarded, NEW s \in Sockets, OnWsClose(s)
    PROVE  AllGuarded'
<1> DEFINE c == sock[s].conn
<1> HIDE DEF c
<1>1. /\ c \in Conns
      /\ sock' = [sock EXCEPT ![s] = [Unused EXCEPT !.conn = c]]
      /\ sent' = [sent EXCEPT ![s] = {}] /\ login' = login \ {s}
      /\ \E g : /\ conn' = [conn EXCEPT ![c] = g]
                /\ kind = "bybit" => ~g.authed
                /\ conn[c].state # "CLOSING" => g.ws = conn[c].ws
      /\ UNCHANGED <<kind, retired>>
  BY ClosesParts DEF c, callVars
<1>2. /\ conn \in [Conns -> Entry] /\ sock \in [Sockets -> SocketRecords]
      /\ sent \in [Sockets -> SUBSET Topics]
  BY Parts DEF Inv, TypeOK
<1>3. /\ \A d \in Conns : d # c => conn'[d] = conn[d]
      /\ kind = "bybit" => ~conn'[c].authed
      /\ conn[c].state # "CLOSING" => conn'[c].ws = conn[c].ws
  BY <1>1, <1>2
<1>4. /\ \A r \in Sockets : r # s => sock'[r] = sock[r] /\ sent'[r] = sent[r]
      /\ sock'[s].conn = c /\ sock'[s].st = "free" /\ ~sock'[s].in
      /\ sent'[s] = {} /\ s \notin login' /\ login' \subseteq login
  BY <1>1, <1>2 DEF Unused
<1>5. ASSUME kind = "bybit", NEW d \in InUse' PROVE Calm(d)
  <2>1. d \in Conns /\ d \in InUse
    BY <1>1, <1>5 DEF InUse
  <2>2. CASE d = c
    <3>1. conn[d].state # "CLOSING"
      BY <2>1 DEF Reachable, Reach
    <3>2. conn'[d].ws = conn[d].ws /\ ~conn'[d].authed
      BY <1>3, <1>5, <2>2, <3>1
    <3> QED
      BY <1>4, <3>2 DEF Calm
  <2>3. CASE d # c
    <3>1. sock[s].conn # d
      BY <2>3 DEF c
    <3> QED
      BY <1>3, <1>4, <2>1, <2>3, <3>1 DEF Calm
  <2> QED
    BY <2>2, <2>3
<1>6. kind = "bybit" => Clean'
  BY <1>4 DEF AllGuarded, Clean
<1> QED
  BY <1>1, <1>5, <1>6, AllCalm

\* The open of any socket asks on the registered one, and of a private
\* connection only the login.
LEMMA OnWsOpenGuarded ==
    ASSUME Inv, AllGuarded, NEW s \in Sockets, OnWsOpen(s)
    PROVE  AllGuarded'
<1> DEFINE c == sock[s].conn
<1> HIDE DEF c
<1>1. /\ c \in Conns /\ sock[s].st = "dialing"
      /\ sock' = [sock EXCEPT ![s].st = "open"]
      /\ \E g : /\ conn' = [conn EXCEPT ![c] = g] /\ g.ws = conn[c].ws
                /\ g.authed = conn[c].authed
      /\ \A r \in Sockets :
           /\ sent'[r] # sent[r] => r = conn[c].ws /\ (r = s \/ sock[r].st = "open")
                                    /\ ~Logs(c)
           /\ r \in login' => \/ r \in login
                              \/ r = conn[c].ws /\ (r = s \/ sock[r].st = "open")
      /\ UNCHANGED <<kind, retired>>
  <2>1. /\ c \in Conns /\ sock[s].st = "dialing"
        /\ sock' = [sock EXCEPT ![s].st = "open"]
        /\ \E g : /\ conn' = [conn EXCEPT ![c] = g] /\ g.ws = conn[c].ws
                  /\ g.authed = conn[c].authed
        /\ UNCHANGED <<kind, retired>>
    BY OpensParts DEF c, callVars
  <2>2. \A r \in Sockets :
          /\ sent'[r] # sent[r] => r = conn[c].ws /\ (r = s \/ sock[r].st = "open")
                                   /\ ~Logs(c)
          /\ r \in login' => \/ r \in login
                             \/ /\ r = conn[c].ws /\ Logs(c)
                                /\ r = s \/ sock[r].st = "open"
    BY OpensParts DEF c
  <2> QED
    BY <2>1, <2>2
<1>2. /\ conn \in [Conns -> Entry] /\ sock \in [Sockets -> SocketRecords]
      /\ \A d \in Conns : conn[d].ws # None => sock[conn[d].ws].conn = d
      /\ None \notin Sockets
  BY Parts DEF Inv, Shape
<1>3. /\ \A d \in Conns : d # c => conn'[d] = conn[d]
      /\ conn'[c].ws = conn[c].ws /\ conn'[c].authed = conn[c].authed
  BY <1>1, <1>2
<1>4. /\ \A r \in Sockets : /\ r # s => sock'[r] = sock[r]
                            /\ sock'[r].conn = sock[r].conn
                            /\ sock'[r].in = sock[r].in
      /\ sock'[s].st = "open" /\ sock[s].conn = c
  BY <1>1, <1>2 DEF SocketRecords, c
<1>5. ASSUME kind = "bybit", NEW d \in InUse', d # c PROVE Calm(d)
  <2>1. d \in Conns /\ conn'[d] = conn[d]
    BY <1>3, <1>5 DEF InUse
  <2>2. ASSUME NEW r \in Sockets, sock[r].conn = d
        PROVE  /\ r # s /\ sock'[r] = sock[r] /\ sent'[r] = sent[r]
               /\ r \in login' => r \in login
    <3>1. r # s /\ r # conn[c].ws
      BY <1>1, <1>2, <1>4, <1>5, <2>2
    <3> QED
      BY <1>1, <1>4, <3>1
  <2> QED
    BY <1>4, <2>1, <2>2 DEF Calm
<1>6. ASSUME kind = "bybit", NEW d \in InUse', d = c PROVE Guarded(d)'
  <2>1. /\ Guarded(d) /\ d \in Conns
        /\ sent[s] = {} /\ s \notin login /\ ~sock[s].in
    BY <1>1, <1>6 DEF AllGuarded, InUse, Clean
  <2>2. \A r \in Sockets :
          /\ sock'[r].conn = d /\ sock'[r].st = "open"
          /\ sent'[r] # {} \/ r \in login' \/ sock'[r].in
          => conn'[d].ws = r
    <3> SUFFICES ASSUME NEW r \in Sockets, sock'[r].conn = d, sock'[r].st = "open",
                        sent'[r] # {} \/ r \in login' \/ sock'[r].in,
                        r # conn[c].ws
                 PROVE  FALSE
      BY <1>3, <1>6
    <3>1. sent'[r] = sent[r] /\ (r \in login' => r \in login)
      BY <1>1
    <3>2. r # s
      BY <1>4, <2>1, <3>1
    <3> QED
      BY <1>4, <1>6, <2>1, <3>1, <3>2 DEF Guarded
  <2>3. ASSUME conn'[d].authed
        PROVE  \E r \in Sockets :
                 /\ sock'[r].conn = d /\ sock'[r].in
                 /\ sock'[r].st \in {"open", "failing", "ended"}
                 /\ sock'[r].st = "open" => conn'[d].ws = r
    <3>1. PICK r \in Sockets : /\ sock[r].conn = d /\ sock[r].in
                               /\ sock[r].st \in {"open", "failing", "ended"}
                               /\ sock[r].st = "open" => conn[d].ws = r
      BY <1>3, <1>6, <2>1, <2>3 DEF Guarded
    <3>2. sock'[r] = sock[r]
      BY <1>4, <2>1, <3>1
    <3> QED
      BY <1>3, <1>6, <3>1, <3>2
  <2>4. d \in Private =>
          \A r \in Sockets : sock'[r].conn = d /\ sent'[r] # {} => sock'[r].in
    <3>1. d \in Private => Logs(c)
      BY <1>6 DEF Logs, Okx
    <3>2. d \in Private => \A r \in Sockets : sent'[r] = sent[r]
      BY <1>1, <3>1
    <3> QED
      BY <1>4, <2>1, <3>2 DEF Guarded
  <2> QED
    BY <2>2, <2>3, <2>4 DEF Guarded
<1>7. ASSUME kind = "bybit" PROVE Clean'
  <2> SUFFICES ASSUME NEW r \in Sockets, sock'[r].st = "dialing"
               PROVE  sent'[r] = {} /\ r \notin login' /\ ~sock'[r].in
    BY DEF Clean
  <2>1. r # s /\ sock[r].st = "dialing" /\ sock'[r] = sock[r]
    BY <1>4
  <2>2. sent'[r] = sent[r] /\ (r \in login' => r \in login)
    BY <1>1, <2>1
  <2> QED
    BY <1>7, <2>1, <2>2 DEF AllGuarded, Clean
<1> QED
  BY <1>1, <1>5, <1>6, <1>7, GuardedFrom

\* A login of a connection in use is answered on its registered socket.
LEMMA OnWsAuthenticatedGuarded ==
    ASSUME Inv, AllGuarded, NEW s \in Sockets, OnWsAuthenticated(s)
    PROVE  AllGuarded'
<1> DEFINE c == sock[s].conn
           g == [conn[c] EXCEPT !.authed = TRUE]
           f == [conn EXCEPT ![c] = g]
           in == [sock EXCEPT ![s] = [sock[s] EXCEPT !.in = TRUE]]
<1>1. /\ TypeOK /\ conn \in [Conns -> Entry] /\ sock \in [Sockets -> SocketRecords]
      /\ \A d \in Conns : conn[d].ws # None => sock[conn[d].ws].conn = d
      /\ None \notin Sockets /\ topics \in [Conns -> SUBSET Topics]
  BY Parts DEF Inv, Shape, TypeOK
<1>2. /\ s \in login /\ sock[s].st \in {"open", "leaving"}
      /\ login' = login \ {s}
      /\ (conn' = f /\ sock' = in) \/ Connect(c, f, in)
      /\ UNCHANGED sent \/ SendNow(c, topics[c])
      /\ UNCHANGED <<kind, retired>>
  <2>1. f = [conn EXCEPT ![c] = [conn[c] EXCEPT !.authed = TRUE]]
    OBVIOUS
  <2> HIDE DEF f, g
  <2> QED
    BY <1>1, <2>1, AuthenticatedParts DEF callVars
<1> SUFFICES ASSUME kind = "bybit" PROVE AllGuarded'
  BY <1>2 DEF AllGuarded
<1>3. conn' = f /\ sock' = in
  BY <1>2 DEF Connect, BybitConnect
<1>4. /\ c \in Conns /\ c \in Private
  BY <1>1, <1>2 DEF Inv, Shape
<1>5. /\ \A d \in Conns : d # c => conn'[d] = conn[d]
      /\ conn'[c].ws = conn[c].ws
  <2>1. g.ws = conn[c].ws
    BY <1>1, <1>4 DEF Entry
  <2> HIDE DEF g
  <2> QED
    BY <1>1, <1>3, <1>4, <2>1
<1>6. /\ \A r \in Sockets : /\ r # s => sock'[r] = sock[r]
                            /\ sock'[r].conn = sock[r].conn
                            /\ sock'[r].st = sock[r].st
      /\ sock'[s].in
  BY <1>1, <1>3 DEF SocketRecords
<1>7. \A r \in Sockets :
        sent'[r] # sent[r] => r = conn[c].ws /\ sock[r].st = "open"
  <2>1. topics[c] \in SUBSET Topics
    BY <1>1, <1>4
  <2> HIDE DEF c
  <2> QED
    BY <1>1, <1>2, <1>4, <2>1, SendNowAdds
<1>8. sock[s].conn = c
  OBVIOUS
<1> HIDE DEF c, f, g, in
<1>9. ASSUME NEW d \in InUse', d # c PROVE Calm(d)
  <2>1. d \in Conns /\ conn'[d] = conn[d]
    BY <1>5, <1>9 DEF InUse
  <2>2. ASSUME NEW r \in Sockets, sock[r].conn = d
        PROVE  r # s /\ sock'[r] = sock[r] /\ sent'[r] = sent[r]
    <3>1. r # s /\ r # conn[c].ws
      BY <1>1, <1>4, <1>8, <1>9, <2>2
    <3> QED
      BY <1>6, <1>7, <3>1
  <2> QED
    BY <1>2, <1>6, <2>1, <2>2 DEF Calm
<1>10. ASSUME NEW d \in InUse', d = c PROVE Guarded(d)'
  <2>1. Guarded(d) /\ d \notin retired
    BY <1>2, <1>10 DEF AllGuarded, InUse
  <2>2. sock[s].st = "open"
    BY <1>2, <1>8, <1>10, <2>1 DEF Inv, Shape
  <2>3. conn[d].ws = s
    BY <1>2, <1>8, <1>10, <2>1, <2>2 DEF Guarded
  <2>4. \A r \in Sockets :
          /\ sock'[r].conn = d /\ sock'[r].st = "open"
          /\ sent'[r] # {} \/ r \in login' \/ sock'[r].in
          => conn'[d].ws = r
    <3> SUFFICES ASSUME NEW r \in Sockets, sock'[r].conn = d, sock'[r].st = "open",
                        sent'[r] # {} \/ r \in login' \/ sock'[r].in,
                        r # s
                 PROVE  FALSE
      BY <1>5, <1>10, <2>3
    <3>1. sent'[r] = sent[r] /\ sock'[r] = sock[r]
      BY <1>6, <1>7, <1>10, <2>3
    <3> QED
      BY <1>2, <2>1, <2>3, <3>1 DEF Guarded
  <2>5. /\ sock'[s].conn = d /\ sock'[s].in /\ sock'[s].st = "open"
        /\ conn'[d].ws = s
    BY <1>5, <1>6, <1>8, <1>10, <2>2, <2>3
  <2>6. \A r \in Sockets : sock'[r].conn = d /\ sent'[r] # {} => sock'[r].in
    BY <1>4, <1>6, <1>7, <1>10, <2>1, <2>3 DEF Guarded
  <2> QED
    BY <2>4, <2>5, <2>6 DEF Guarded
<1>11. Clean'
  <2> SUFFICES ASSUME NEW r \in Sockets, sock'[r].st = "dialing"
               PROVE  sent'[r] = {} /\ r \notin login' /\ ~sock'[r].in
    BY DEF Clean
  <2>1. r # s /\ sock'[r] = sock[r] /\ sent'[r] = sent[r]
    BY <1>2, <1>6, <1>7
  <2> QED
    BY <1>2, <2>1 DEF AllGuarded, Clean
<1> QED
  BY <1>2, <1>9, <1>10, <1>11, GuardedFrom

\* A private subscribe goes out only if the connection is authenticated, and
\* then, as no socket is about to close, over the one that logged in.
LEMMA SubscribeGuarded ==
    ASSUME Inv, AllGuarded, Quiet, NEW c \in Conns, NEW t \in Topics,
           Subscribe(c, t)
    PROVE  AllGuarded'
<1>1. /\ TypeOK /\ conn \in [Conns -> Entry]
      /\ \A d \in Conns : conn[d].ws # None => sock[conn[d].ws].conn = d
      /\ None \notin Sockets
  BY Parts DEF Inv, Shape
<1>2. UNCHANGED <<kind, retired, login>>
  BY DEF Subscribe
<1> SUFFICES ASSUME kind = "bybit" PROVE AllGuarded'
  BY <1>2 DEF AllGuarded
<1>3. /\ UNCHANGED <<conn, sock>>
      /\ \/ UNCHANGED sent
         \/ SendNow(c, {t}) /\ (c \in Private => conn[c].authed)
  <2>1. Connect(c, conn, sock) => UNCHANGED <<conn, sock>>
    BY DEF Connect, BybitConnect
  <2> QED
    BY <1>1, <2>1, SubscribeAsks
<1>4. CASE UNCHANGED sent
  <2>1. Fades(sock')
    BY <1>1, <1>3, SockFades
  <2> QED
    BY <1>2, <1>3, <1>4, <2>1, FadesGuarded
<1>5. CASE SendNow(c, {t}) /\ (c \in Private => conn[c].authed)
  <2>1. \A r \in Sockets :
          sent'[r] # sent[r] => r = conn[c].ws /\ sock[r].st = "open"
    BY <1>1, <1>5, SendNowAdds
  <2>2. ASSUME NEW d \in InUse', d # c PROVE Calm(d)
    <3>1. \A r \in Sockets : sock[r].conn = d => sent'[r] = sent[r]
      BY <1>1, <2>1, <2>2
    <3> QED
      BY <1>2, <1>3, <3>1 DEF Calm
  <2>3. ASSUME NEW d \in InUse', d = c PROVE Guarded(d)'
    <3>1. Guarded(d)
      BY <1>2, <2>3 DEF AllGuarded, InUse
    <3>2. \A r \in Sockets :
            /\ sock'[r].conn = d /\ sock'[r].st = "open"
            /\ sent'[r] # {} \/ r \in login' \/ sock'[r].in
            => conn'[d].ws = r
      BY <1>2, <1>3, <2>1, <2>3, <3>1 DEF Guarded
    <3>3. d \in Private =>
            \A r \in Sockets : sock'[r].conn = d /\ sent'[r] # {} => sock'[r].in
      <4> SUFFICES ASSUME d \in Private, NEW r \in Sockets, sock[r].conn = d,
                          sent'[r] # {}
                   PROVE  sock[r].in
        BY <1>3
      <4>1. CASE sent'[r] = sent[r]
        BY <3>1, <4>1 DEF Guarded
      <4>2. CASE sent'[r] # sent[r]
        <5>1. PICK s \in Sockets : /\ sock[s].conn = d /\ sock[s].in
                                   /\ sock[s].st \in {"open", "failing", "ended"}
                                   /\ sock[s].st = "open" => conn[d].ws = s
          BY <1>5, <2>3, <3>1 DEF Guarded
        <5>2. sock[s].st = "open"
          BY <5>1 DEF Quiet, Ending
        <5>3. s = r
          BY <2>1, <2>3, <4>2, <5>1, <5>2
        <5> QED
          BY <5>1, <5>3
      <4> QED
        BY <4>1, <4>2
    <3>4. conn'[d].authed =>
            \E r \in Sockets : /\ sock'[r].conn = d /\ sock'[r].in
                               /\ sock'[r].st \in {"open", "failing", "ended"}
                               /\ sock'[r].st = "open" => conn'[d].ws = r
      BY <1>3, <3>1 DEF Guarded
    <3> QED
      BY <3>2, <3>3, <3>4 DEF Guarded
  <2>4. Clean'
    <3>1. \A r \in Sockets : sock[r].st = "dialing" => sent'[r] = sent[r]
      BY <2>1
    <3> QED
      BY <1>2, <1>3, <3>1 DEF AllGuarded, Clean
  <2> QED
    BY <1>2, <2>2, <2>3, <2>4, GuardedFrom
<1> QED
  BY <1>3, <1>4, <1>5

LEMMA OthersGuarded ==
    ASSUME Inv, AllGuarded,
           \/ OkxDials \/ OkxRegisters \/ OkxRequests
           \/ \E c \in Conns : BybitWakes(c) \/ BitgetRequests(c) \/ BitgetLogin(c)
    PROVE  AllGuarded'
<1>1. CASE OkxDials \/ OkxRegisters \/ OkxRequests
  <2>1. kind' # "bybit"
    BY <1>1 DEF OkxDials, OkxRegisters, OkxRequests, Inv, Shape, Okx
  <2> QED
    BY <2>1 DEF AllGuarded
<1>2. ASSUME NEW c \in Conns, BybitWakes(c) PROVE AllGuarded'
  <2>1. UNCHANGED <<kind, conn, retired, sock, sent, login>>
    BY <1>2 DEF BybitWakes, callVars, netVars
  <2>2. Fades(sock')
    BY <2>1, SockFades DEF Inv
  <2> QED
    BY <2>1, <2>2, FadesGuarded
<1>3. ASSUME NEW c \in Conns, BitgetRequests(c) \/ BitgetLogin(c)
      PROVE  AllGuarded'
  <2>1. kind' # "bybit"
    BY <1>3 DEF BitgetRequests, BitgetLogin, Inv, Shape
  <2> QED
    BY <2>1 DEF AllGuarded
<1> QED
  BY <1>1, <1>2, <1>3

LEMMA NextGuarded == Inv /\ Reachable /\ AllGuarded /\ [Next]_vars => AllGuarded'
<1> SUFFICES ASSUME Inv, Reachable, AllGuarded, [Next]_vars PROVE AllGuarded'
  OBVIOUS
<1>1. CASE UNCHANGED vars
  <2>1. UNCHANGED <<kind, conn, sock, sent, login, retired>>
    BY <1>1 DEF vars, netVars, callVars
  <2>2. Fades(sock')
    BY <2>1, SockFades DEF Inv
  <2> QED
    BY <2>1, <2>2, FadesGuarded
<1>2. ASSUME NEW s \in Sockets, Ends(s) PROVE AllGuarded'
  BY <1>2, OnWsErrorGuarded, OnWsCloseGuarded DEF Ends
<1>3. CASE Dials
  BY <1>3, BybitDialsGuarded, OthersGuarded DEF Dials
<1>4. ASSUME Quiet, NEW c \in Conns, Caller(c) PROVE AllGuarded'
  BY <1>4, SubscribeGuarded, ClosesGuarded DEF Caller
<1>5. ASSUME NEW c \in Conns, Timers(c) PROVE AllGuarded'
  BY <1>5, ReconnectTimerGuarded, PongGuarded DEF Timers
<1>6. CASE Turns
  BY <1>6, OthersGuarded, ClosesGuarded DEF Turns
<1>7. CASE Network
  BY <1>7, OnWsOpenGuarded, OnWsAuthenticatedGuarded, SocketFailsGuarded,
     PongGuarded DEF Network
<1> QED
  BY <1>1, <1>2, <1>3, <1>4, <1>5, <1>6, <1>7 DEF Next

LEMMA InitGuarded == Init => AllGuarded
<1> SUFFICES ASSUME Init PROVE Clean /\ \A c \in InUse : Guarded(c)
  BY DEF AllGuarded
<1>1. /\ \A s \in Sockets : sock[s].st = "free" /\ sent[s] = {}
      /\ \A c \in Conns : conn[c].authed = FALSE
  BY DEF Init, Unused, Fresh
<1> QED
  BY <1>1 DEF Clean, Guarded, InUse

\* Bybit: whatever the order of opens, logins, drops and reconnects, private
\* topics are requested only on a socket that has itself logged in; that
\* isAuthenticated belongs to the connection and not to the socket does no harm.
THEOREM PrivateTopicsWait == Spec => []PrivateAfterLogin
<1>1. Inv /\ AllGuarded => PrivateAfterLogin
  <2> SUFFICES ASSUME Inv, AllGuarded, kind = "bybit", NEW s \in Sockets,
                      sock[s].conn \in Private \ retired, sent[s] # {}
               PROVE  sock[s].in
    BY DEF PrivateAfterLogin
  <2>1. sock[s].conn \in InUse
    BY Parts DEF Inv, InUse
  <2> QED
    BY <2>1 DEF AllGuarded, Guarded
<1> QED
  BY InitInv, NextInv, InitReach, NextReach, InitGuarded, NextGuarded, <1>1, PTL
     DEF Spec

\* Bybit, Bitget: no topic of a connection in use is delivered twice, as one
\* socket at most carries its topics, however connects, timers and closes
\* race; and a Bitget connection never dials a second one.
THEOREM OneCarries == Spec => []OneSocket
<1>1. Inv /\ AllGuarded /\ AllSingle => OneSocket
  <2> SUFFICES ASSUME Inv, AllGuarded, AllSingle, kind \in {"bybit", "bitget"},
                      NEW c \in InUse, NEW s \in Sockets, sock[s].conn = c, Carries(s)
               PROVE  conn[c].ws = s
    BY DEF OneSocket
  <2>1. c \in Conns \ (retired \cap Private)
    BY DEF InUse
  <2>2. CASE kind = "bybit"
    BY <2>2 DEF Carries, AllGuarded, Guarded
  <2>3. CASE kind = "bitget"
    BY <2>1, <2>3 DEF Carries, AllSingle, Single
  <2> QED
    BY <2>2, <2>3
<1> QED
  BY InitInv, NextInv, InitReach, NextReach, InitGuarded, NextGuarded,
     InitSingle, NextSingle, <1>1, PTL DEF Spec
=============================================================================
