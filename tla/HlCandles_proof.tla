--------------------------- MODULE HlCandles_proof ---------------------------
(***************************************************************************)
(* Proofs about HlCandles.  Inv is the typing with what the steps of loops *)
(* and sockets rely on (Shape).  AllSecured says, stronger than RoomKept,  *)
(* what keeps each room: a job, the queue with its timer, a loop whose     *)
(* client is still there, a retry, the items of a client that will replay  *)
(* them.  One lemma per action shows that both are kept; a step takes a    *)
(* room from one of these places only to put it into another.              *)
(***************************************************************************)
EXTENDS HlCandles, SequenceTheorems, FiniteSetTheorems, TLAPS

-----------------------------------------------------------------------------
(* Clients, maps and loops.                                                 *)

\* A client that is changed in place leaves a pool of clients.
LEMMA PoolExcept ==
    ASSUME pool \in Seq(Clients), NEW i \in DOMAIN pool, NEW c \in Clients,
           pool' = [pool EXCEPT ![i] = c]
    PROVE  /\ pool' \in Seq(Clients) /\ Len(pool') = Len(pool)
           /\ DOMAIN pool' = DOMAIN pool
           /\ pool'[i] = c
           /\ \A j \in DOMAIN pool : j # i => pool'[j] = pool[j]
  BY ExceptSeq, LenProperties

\* The maps hold rooms that were asked for.
LEMMA MapType ==
    ASSUME NEW m \in SUBSET Asked, NEW S \in SUBSET Asked
    PROVE  DeleteAll(m, S) \subseteq Asked /\ PutAll(m, S) \subseteq Asked
  BY DEF DeleteAll, PutAll

\* A client is picked from the pool, or a place is left for another one.
LEMMA PickedType ==
    ASSUME TypeOK, NEW n \in Nat, NEW i \in GetCandleClient(n)
    PROVE  i \in DOMAIN pool \/ (i = Len(pool) + 1 /\ Len(pool) < MaxClients)
  BY HlAssumption DEF TypeOK, GetCandleClient, WithRoom, LeastBusy

\* Whichever client is picked, the sockets of the pool stay as they are.
LEMMA PoolWithType ==
    ASSUME TypeOK, NEW n \in Nat, NEW i \in GetCandleClient(n),
           pool' = PoolWith(i, n)
    PROVE  /\ pool' \in Seq(Clients) /\ Len(pool') \in 1..MaxClients
           /\ Len(pool') >= Len(pool) /\ i \in 1..Len(pool')
           /\ \A j \in DOMAIN pool :
                /\ j \in DOMAIN pool'
                /\ pool'[j].items = pool[j].items /\ pool'[j].subs = pool[j].subs
                /\ pool'[j].open = pool[j].open /\ pool'[j].once = pool[j].once
           /\ \A j \in DOMAIN pool' \ DOMAIN pool :
                /\ pool'[j].items = {} /\ pool'[j].subs = {}
                /\ ~pool'[j].open /\ ~pool'[j].once
<1>1. CASE i \in DOMAIN pool
  <2> DEFINE c == [pool[i] EXCEPT !.count = @ + n, !.live = FALSE]
  <2>1. i \in 1..Len(pool) /\ pool[i] \in Clients
    BY <1>1 DEF TypeOK
  <2>2. c \in Clients
    <3>1. pool[i].count + n \in Nat
      BY <2>1 DEF Clients
    <3> QED
      BY <2>1, <3>1 DEF Clients
  <2>3. pool' = [pool EXCEPT ![i] = c]
    BY <2>1 DEF TypeOK, PoolWith, Picked
  <2>4. /\ pool' \in Seq(Clients) /\ Len(pool') = Len(pool)
        /\ DOMAIN pool' = DOMAIN pool /\ pool'[i] = c
        /\ \A j \in DOMAIN pool : j # i => pool'[j] = pool[j]
    <3> HIDE DEF c
    <3> QED
      BY <1>1, <2>2, <2>3, PoolExcept DEF TypeOK
  <2>5. /\ c.items = pool[i].items /\ c.subs = pool[i].subs
        /\ c.open = pool[i].open /\ c.once = pool[i].once
    BY <2>1 DEF Clients
  <2> HIDE DEF c
  <2> QED
    BY <1>1, <2>1, <2>4, <2>5 DEF TypeOK
<1>2. CASE i = Len(pool) + 1 /\ Len(pool) < MaxClients
  <2> DEFINE c == [Client EXCEPT !.count = n]
  <2>1. c \in Clients /\ c.items = {} /\ c.subs = {} /\ ~c.open /\ ~c.once
    BY DEF Clients, Client
  <2>2. pool' = Append(pool, c)
    BY <1>2 DEF TypeOK, PoolWith
  <2> HIDE DEF c
  <2>3. /\ pool' \in Seq(Clients) /\ Len(pool') = Len(pool) + 1
        /\ pool'[i] = c /\ \A j \in 1..Len(pool) : pool'[j] = pool[j]
    <3>1. pool \in Seq(Clients) /\ c \in Clients
      BY <2>1 DEF TypeOK
    <3>2. /\ Append(pool, c) \in Seq(Clients)
          /\ Len(Append(pool, c)) = Len(pool) + 1
          /\ \A j \in 1..Len(pool) : Append(pool, c)[j] = pool[j]
          /\ Append(pool, c)[Len(pool) + 1] = c
      BY <3>1, AppendProperties
    <3> QED
      BY <1>2, <2>2, <3>2
  <2>4. DOMAIN pool' = 1..Len(pool') /\ DOMAIN pool = 1..Len(pool)
    BY <2>3 DEF TypeOK
  <2>5. \A j \in DOMAIN pool' \ DOMAIN pool : j = i
    BY <1>2, <2>3, <2>4 DEF TypeOK
  <2> QED
    BY <1>2, <2>1, <2>3, <2>4, <2>5, HlAssumption DEF TypeOK
<1> QED
  BY <1>1, <1>2, PickedType

\* The loops of a pool are loops of every longer one.
LEMMA LoopsGrow ==
    ASSUME Len(pool) \in Nat, Len(pool') \in Nat, Len(pool') >= Len(pool)
    PROVE  Loops \subseteq Loops'
<1>1. 0..Len(pool) \subseteq 0..Len(pool')
  OBVIOUS
<1> QED
  BY <1>1 DEF Loops

\* Where the parts of a loop come from, whatever step it takes.
LEMMA LoopType ==
    ASSUME TypeOK, NEW l \in loops
    PROVE  /\ l \in Loops /\ l.kind \in {"flush", "resub"}
           /\ l.client \in 0..Len(pool)
           /\ l.client # 0 => l.client \in DOMAIN pool
           /\ l.todo \subseteq Asked /\ l.later \subseteq Asked
           /\ l.waits \subseteq Asked /\ l.failed \subseteq Asked
           /\ \A r, s \in l.waits : r = s
<1>1. l \in Loops /\ DOMAIN pool = 1..Len(pool) /\ Len(pool) \in Nat
  BY DEF TypeOK
<1> QED
  BY <1>1 DEF TypeOK, Loops

\* The parts of a client.
LEMMA ClientType ==
    ASSUME TypeOK, NEW i \in DOMAIN pool
    PROVE  /\ pool[i] \in Clients /\ i \in 1..Len(pool)
           /\ pool[i].count \in Nat
           /\ pool[i].live \in BOOLEAN /\ pool[i].open \in BOOLEAN
           /\ pool[i].once \in BOOLEAN
           /\ pool[i].items \subseteq Asked /\ pool[i].subs \subseteq Asked
<1>1. pool[i] \in Clients /\ i \in 1..Len(pool)
  BY DEF TypeOK
<1> QED
  BY <1>1 DEF Clients

-----------------------------------------------------------------------------
(* The invariant.                                                           *)

\* Only a connect loop takes chunks, and a loop of resubscribeEntry runs on a
\* client that opened before; a request is answered on an open client only.
Shape ==
    /\ \A l \in loops : l.kind = "resub" =>
         l.later = {} /\ (l.client # 0 => pool[l.client].once)
    /\ \A i \in DOMAIN pool :
         pool[i].open \/ pool[i].subs # {} => pool[i].once
    /\ \A j \in DOMAIN jobs : jobs[j].flush => jobs[j].data = {}

\* The connect at the head of the queue has taken its rooms.
Begun(j) == j = 1 /\ \E l \in loops : l.kind = "flush"

Asks(r) == \E j \in DOMAIN jobs : r \in jobs[j].data
Queued(r) ==
    r \in queue /\ (timer \/ \E j \in DOMAIN jobs : jobs[j].flush /\ ~Begun(j))
Runs(l, r) ==
    \/ r \in l.later \cup l.failed
    \/ /\ l.client # 0
       /\ r \in l.todo \/ (r \in l.waits /\ r \in pool[l.client].items)
Holds(c, r) == r \in c.items /\ ((~c.open /\ c.once) \/ r \in c.subs)

Secured(r) ==
    \/ restart
    \/ Asks(r)
    \/ Queued(r)
    \/ \E l \in loops : Runs(l, r)
    \/ \E S \in retries : r \in S
    \/ \E i \in DOMAIN pool : Holds(pool[i], r)
    \/ r \in dropped

AllSecured == ~ended => \A r \in rooms \ Unknown : Secured(r)

\* A room has one type: spot and perp rooms of a coin are not both asked for.
NoTwins == \A r, s \in Asked : r.coin = s.coin => r = s

Inv == TypeOK /\ Shape

\* What TypeOK says of the loops.
LoopsOK ==
    /\ loops \subseteq Loops
    /\ \A l \in loops : \A r, s \in l.waits : r = s
    /\ \A l, m \in loops : l.kind = "flush" /\ m.kind = "flush" =>
         l = m /\ jobs # <<>> /\ Head(jobs).flush

ShapedLoop(l) ==
    l.kind = "resub" => l.later = {} /\ (l.client # 0 => pool[l.client].once)

\* A loop that takes a step in place.
LEMMA Becoming ==
    ASSUME TypeOK, Len(pool') \in Nat, Len(pool') >= Len(pool),
           jobs' = jobs, NEW l \in loops, NEW m \in Loops',
           m.kind = l.kind, \A r, s \in m.waits : r = s, Becomes(l, m)
    PROVE  LoopsOK' /\ \A k \in loops' : k = m \/ k \in loops \ {l}
<1>1. loops \subseteq Loops'
  BY LoopsGrow DEF TypeOK
<1>2. \A k \in loops' : k = m \/ k \in loops \ {l}
  BY DEF Becomes
<1>3. \A k \in loops' : \A r, s \in k.waits : r = s
  BY <1>2 DEF TypeOK
<1>4. ASSUME NEW k \in loops', NEW n \in loops',
             k.kind = "flush", n.kind = "flush"
      PROVE  k = n /\ jobs' # <<>> /\ Head(jobs').flush
  BY <1>2, <1>4 DEF TypeOK
<1> QED
  BY <1>1, <1>2, <1>3, <1>4 DEF LoopsOK

\* A loop that was at work stays shaped as long as its client has been open.
LEMMA StaysShaped ==
    ASSUME TypeOK, Shape, NEW l \in loops,
           \A i \in DOMAIN pool : pool[i].once => pool'[i].once
    PROVE  ShapedLoop(l)'
<1>1. l.client # 0 => l.client \in DOMAIN pool
  BY LoopType
<1> QED
  BY <1>1 DEF Shape, ShapedLoop

\* Without twins the maps are sets.
LEMMA MapSet ==
    ASSUME NoTwins, NEW m \in SUBSET Asked, NEW S \in SUBSET Asked
    PROVE  DeleteAll(m, S) = m \ S /\ PutAll(m, S) = m \cup S
<1>1. DeleteAll(m, S) = m \ S
  BY DEF DeleteAll, NoTwins
<1>2. ASSUME NEW r \in S, r.spot, Perp(r) \in S
      PROVE  FALSE
  <2>1. r \in Room /\ Perp(r).coin = r.coin /\ Perp(r).spot = FALSE
    BY HlAssumption DEF Room, Perp
  <2>2. Perp(r) = r
    BY <1>2, <2>1 DEF NoTwins
  <2> QED
    BY <1>2, <2>1, <2>2
<1> QED
  BY <1>1, <1>2 DEF PutAll

\* What secures a room goes on while a loop takes a step in place, if the
\* client, the loop and the rooms left behind lose it only to something else.
LEMMA LoopMoves ==
    ASSUME TypeOK, NEW r, Secured(r), NEW l \in loops, NEW m,
           Becomes(l, m), m.kind = l.kind,
           UNCHANGED <<queue, timer, jobs, retries, restart>>,
           Runs(l, r) => Secured(r)', r \in dropped => Secured(r)',
           \A i \in DOMAIN pool : Holds(pool[i], r) => Secured(r)',
           \A i \in DOMAIN pool :
             r \in pool[i].items => r \in pool'[i].items \/ Secured(r)'
    PROVE  Secured(r)'
<1>1. Asks(r) => Secured(r)'
  BY DEF Secured, Asks
<1>2. Queued(r) => Secured(r)'
  <2>1. (\E k \in loops' : k.kind = "flush") => \E k \in loops : k.kind = "flush"
    BY DEF Becomes
  <2>2. Queued(r) => Queued(r)'
    BY <2>1 DEF Queued, Begun
  <2> QED
    BY <2>2 DEF Secured
<1>3. ASSUME NEW k \in loops, Runs(k, r), k # l
      PROVE  Secured(r)'
  <2>1. k \in loops' /\ (k.client # 0 => k.client \in DOMAIN pool)
    BY <1>3, LoopType DEF Becomes
  <2>2. Runs(k, r)' \/ Secured(r)'
    BY <1>3, <2>1 DEF Runs
  <2> QED
    BY <2>1, <2>2 DEF Secured
<1>4. (restart \/ \E S \in retries : r \in S) => Secured(r)'
  BY DEF Secured
<1> QED
  BY <1>1, <1>2, <1>3, <1>4 DEF Secured

-----------------------------------------------------------------------------
(* The steps of a loop.                                                     *)

\* A connect loop gives its next chunk to a client.
LEMMA NextChunkKeeps ==
    ASSUME Inv, NEW l \in loops, NextChunk(l),
           UNCHANGED <<role, failVars, faults>>
    PROVE  Inv' /\ (NoTwins /\ AllSecured => AllSecured')
<1> USE DEF Inv, roomVars, failVars
<1>0. PICK c \in Chunks(l.later) : \E i \in GetCandleClient(Cardinality(c)) :
        /\ pool' = PoolWith(i, Cardinality(c))
        /\ Becomes(l, [l EXCEPT !.client = i, !.todo = c, !.later = @ \ c])
  BY DEF NextChunk
<1>1. PICK i \in GetCandleClient(Cardinality(c)) :
        /\ pool' = PoolWith(i, Cardinality(c))
        /\ Becomes(l, [l EXCEPT !.client = i, !.todo = c, !.later = @ \ c])
  BY <1>0
<1> DEFINE m == [l EXCEPT !.client = i, !.todo = c, !.later = @ \ c]
<1>2. c \subseteq l.later /\ Cardinality(c) \in Nat
  <2>1. c \subseteq l.later /\ l.later \subseteq Asked
    BY LoopType DEF Chunks
  <2> QED
    BY <2>1, HlAssumption, FS_Subset, FS_CardinalityType
<1>3. l \in Loops /\ l.later \subseteq Asked /\ l.kind = "flush"
  BY LoopType DEF NextChunk, Shape
<1>4. /\ pool' \in Seq(Clients) /\ Len(pool') \in 1..MaxClients
      /\ Len(pool') >= Len(pool) /\ i \in 1..Len(pool')
      /\ \A j \in DOMAIN pool :
           /\ j \in DOMAIN pool'
           /\ pool'[j].items = pool[j].items /\ pool'[j].subs = pool[j].subs
           /\ pool'[j].open = pool[j].open /\ pool'[j].once = pool[j].once
      /\ \A j \in DOMAIN pool' \ DOMAIN pool :
           pool'[j].subs = {} /\ ~pool'[j].open /\ ~pool'[j].once
  BY <1>1, <1>2, PoolWithType
<1>5. m \in Loops' /\ m.kind = "flush" /\ m.waits = l.waits
  <2>1. i \in 0..Len(pool') /\ c \in SUBSET Asked /\ l.later \ c \in SUBSET Asked
    BY <1>2, <1>3, <1>4, HlAssumption
  <2>2. m.kind = "flush" /\ m.waits = l.waits
    BY <1>3 DEF Loops
  <2>3. m \in Loops'
    BY <1>3, <2>1 DEF Loops
  <2> QED
    BY <2>2, <2>3
<1>6. UNCHANGED <<role, rooms, queue, timer, jobs, retries, dropped, restart,
                  ticker, seen, targeted, ended, faults>>
  BY DEF NextChunk
<1>7. LoopsOK' /\ \A k \in loops' : k = m \/ k \in loops \ {l}
  <2> HIDE DEF m
  <2>1. Becomes(l, m) /\ Len(pool') \in Nat
    BY <1>1, <1>4 DEF m
  <2> QED
    BY <1>3, <1>4, <1>5, <1>6, <2>1, LoopType, Becoming
<1>8. TypeOK'
  BY <1>4, <1>6, <1>7 DEF TypeOK, LoopsOK, Jobs, Clients
<1>9. Shape'
  <2>1. \A k \in loops' : ShapedLoop(k)'
    BY <1>4, <1>5, <1>7, StaysShaped DEF ShapedLoop
  <2>2. \A j \in DOMAIN pool' :
          pool'[j].open \/ pool'[j].subs # {} => pool'[j].once
    BY <1>4 DEF Shape
  <2> QED
    BY <1>6, <2>1, <2>2 DEF Shape, ShapedLoop
<1>10. ASSUME AllSecured PROVE AllSecured'
  <2> SUFFICES ASSUME ~ended, NEW r \in rooms \ Unknown PROVE Secured(r)'
    BY <1>6 DEF AllSecured
  <2>1. Secured(r)
    BY <1>10 DEF AllSecured
  <2>2. Runs(l, r) => Secured(r)'
    <3>1. m \in loops' /\ l.todo = {} /\ l.waits = {} /\ l \in Loops
      BY <1>1, <1>3 DEF Becomes, NextChunk
    <3>2. /\ m.later = l.later \ c /\ m.failed = l.failed /\ m.todo = c
          /\ m.client # 0
      BY <1>3, <1>4, HlAssumption DEF Loops
    <3> HIDE DEF m
    <3> QED
      BY <3>1, <3>2 DEF Secured, Runs
  <2>3. \A j \in DOMAIN pool : Holds(pool[j], r) => Secured(r)'
    BY <1>4 DEF Secured, Holds
  <2>4. r \in dropped => Secured(r)'
    BY <1>6 DEF Secured
  <2> HIDE DEF m
  <2>5. Becomes(l, m) /\ m.kind = l.kind
    BY <1>1, <1>3, <1>5 DEF m
  <2> QED
    BY <1>4, <1>6, <2>1, <2>2, <2>3, <2>4, <2>5, LoopMoves
<1> QED
  BY <1>8, <1>9, <1>10

\* The items of a client are replaced, unless the client was.
LEMMA WithItemsType ==
    ASSUME TypeOK, NEW l \in loops, NEW S \in SUBSET Asked,
           pool' = WithItems(l, S)
    PROVE  /\ pool' \in Seq(Clients) /\ Len(pool') = Len(pool)
           /\ DOMAIN pool' = DOMAIN pool
           /\ \A j \in DOMAIN pool :
                /\ pool'[j].subs = pool[j].subs
                /\ pool'[j].open = pool[j].open /\ pool'[j].once = pool[j].once
                /\ pool'[j].items = IF j = l.client THEN S ELSE pool[j].items
<1>1. CASE l.client = 0
  <2>1. pool' = pool /\ \A j \in DOMAIN pool : j # l.client
    BY <1>1 DEF WithItems, TypeOK
  <2> QED
    BY <2>1 DEF TypeOK
<1>2. CASE l.client # 0
  <2> DEFINE c == [pool[l.client] EXCEPT !.items = S]
  <2>1. l.client \in DOMAIN pool /\ pool[l.client] \in Clients
    BY <1>2, LoopType DEF TypeOK
  <2>2. /\ c \in Clients /\ c.items = S /\ c.subs = pool[l.client].subs
        /\ c.open = pool[l.client].open /\ c.once = pool[l.client].once
    BY <2>1 DEF Clients
  <2>3. pool' = [pool EXCEPT ![l.client] = c]
    BY <1>2 DEF WithItems
  <2> HIDE DEF c
  <2>4. /\ pool' \in Seq(Clients) /\ Len(pool') = Len(pool)
        /\ DOMAIN pool' = DOMAIN pool /\ pool'[l.client] = c
        /\ \A j \in DOMAIN pool : j # l.client => pool'[j] = pool[j]
    BY <2>1, <2>2, <2>3, PoolExcept DEF TypeOK
  <2> QED
    BY <2>2, <2>4
<1> QED
  BY <1>1, <1>2

\* A room enters the items before it is asked for.
LEMMA SubscribesKeeps ==
    ASSUME Inv, NEW l \in loops, Subscribes(l),
           UNCHANGED <<role, failVars, faults>>
    PROVE  Inv' /\ (NoTwins /\ AllSecured => AllSecured')
<1> USE DEF Inv, roomVars, failVars
<1>1. PICK r \in l.todo :
        /\ pool' = WithItems(l, IF r \in Unknown THEN DeleteAll(ItemsOf(l), {r})
                                ELSE PutAll(ItemsOf(l), {r}))
        /\ Becomes(l, [l EXCEPT !.todo = @ \ {r}, !.waits = {r} \ Unknown])
  BY DEF Subscribes
<1> DEFINE m == [l EXCEPT !.todo = @ \ {r}, !.waits = {r} \ Unknown]
           X == IF r \in Unknown THEN DeleteAll(ItemsOf(l), {r})
                ELSE PutAll(ItemsOf(l), {r})
<1>2. /\ l \in Loops /\ r \in Asked /\ l.todo \in SUBSET Asked
      /\ ItemsOf(l) \in SUBSET Asked
  BY LoopType, ClientType DEF ItemsOf
<1>3. X \in SUBSET Asked
  BY <1>2, MapType
<1>4. /\ pool' \in Seq(Clients) /\ Len(pool') = Len(pool)
      /\ DOMAIN pool' = DOMAIN pool
      /\ \A j \in DOMAIN pool :
           /\ pool'[j].subs = pool[j].subs
           /\ pool'[j].open = pool[j].open /\ pool'[j].once = pool[j].once
           /\ pool'[j].items = IF j = l.client THEN X ELSE pool[j].items
  <2> HIDE DEF X
  <2>1. pool' = WithItems(l, X)
    BY <1>1 DEF X
  <2> QED
    BY <1>3, <2>1, WithItemsType
<1> HIDE DEF X
<1>5. /\ m \in Loops' /\ m.kind = l.kind /\ m.client = l.client
      /\ m.todo = l.todo \ {r} /\ m.waits = {r} \ Unknown
      /\ m.later = l.later /\ m.failed = l.failed
  <2>1. l.todo \ {r} \in SUBSET Asked /\ {r} \ Unknown \in SUBSET Asked
    BY <1>2
  <2>2. m \in Loops
    BY <1>2, <2>1 DEF Loops
  <2>3. Loops' = Loops
    BY <1>4 DEF Loops
  <2> QED
    BY <1>2, <2>2, <2>3 DEF Loops
<1>6. UNCHANGED <<role, rooms, queue, timer, jobs, retries, dropped, restart,
                  ticker, seen, targeted, ended, faults>>
  BY DEF Subscribes
<1>7. Becomes(l, m)
  BY <1>1
<1> HIDE DEF m
<1>8. LoopsOK' /\ \A k \in loops' : k = m \/ k \in loops \ {l}
  <2>1. Len(pool') \in Nat /\ Len(pool') >= Len(pool)
        /\ \A q, s \in m.waits : q = s
    BY <1>4, <1>5 DEF TypeOK
  <2> QED
    BY <1>5, <1>6, <1>7, <2>1, Becoming
<1>9. TypeOK'
  BY <1>4, <1>6, <1>8 DEF TypeOK, LoopsOK, Jobs, Clients
<1>10. Shape'
  <2>1. ShapedLoop(l)'
    BY <1>4, StaysShaped
  <2>2. \A k \in loops' : ShapedLoop(k)'
    BY <1>4, <1>5, <1>8, <2>1, StaysShaped DEF ShapedLoop
  <2>3. \A j \in DOMAIN pool' :
          pool'[j].open \/ pool'[j].subs # {} => pool'[j].once
    BY <1>4 DEF Shape
  <2> QED
    BY <1>6, <2>2, <2>3 DEF Shape, ShapedLoop
<1>11. ASSUME NoTwins, AllSecured PROVE AllSecured'
  <2> SUFFICES ASSUME ~ended, NEW s \in rooms \ Unknown PROVE Secured(s)'
    BY <1>6 DEF AllSecured
  <2>1. Secured(s)
    BY <1>11 DEF AllSecured
  <2>2. /\ s \in ItemsOf(l) => s \in X
        /\ s = r => s \in X
    <3>1. /\ DeleteAll(ItemsOf(l), {r}) = ItemsOf(l) \ {r}
          /\ PutAll(ItemsOf(l), {r}) = ItemsOf(l) \cup {r}
      BY <1>2, <1>11, MapSet
    <3> QED
      BY <3>1 DEF X
  <2>3. \A j \in DOMAIN pool : s \in pool[j].items => s \in pool'[j].items
    BY <1>4, <2>2, LoopType DEF ItemsOf, TypeOK
  <2>4. Runs(l, s) => Runs(m, s)'
    <3>1. l.client # 0 => l.client \in DOMAIN pool
      BY LoopType
    <3>2. l.client # 0 /\ s \in l.todo => s \in m.todo \/
            (s \in m.waits /\ s \in pool'[m.client].items)
      BY <1>4, <1>5, <2>2, <3>1
    <3>3. l.waits = {}
      BY DEF Subscribes
    <3> QED
      BY <1>5, <3>2, <3>3 DEF Runs
  <2>5. Runs(l, s) => Secured(s)'
    BY <1>7, <2>4 DEF Becomes, Secured
  <2>6. \A j \in DOMAIN pool : Holds(pool[j], s) => Secured(s)'
    BY <1>4, <2>3 DEF Secured, Holds
  <2>7. s \in dropped => Secured(s)'
    BY <1>6 DEF Secured
  <2> QED
    BY <1>5, <1>6, <1>7, <2>1, <2>3, <2>5, <2>6, <2>7, LoopMoves
<1> QED
  BY <1>9, <1>10, <1>11

\* A loop takes a step in place, and the clients stay well formed.
LEMMA InPlace ==
    ASSUME Inv, NEW l \in loops, NEW m \in Loops, Becomes(l, m),
           m.kind = l.kind, m.client = l.client, m.later = l.later,
           \A r, s \in m.waits : r = s,
           pool' \in Seq(Clients), Len(pool') = Len(pool),
           \A j \in DOMAIN pool :
             /\ pool[j].once => pool'[j].once
             /\ pool'[j].open \/ pool'[j].subs # {} => pool'[j].once,
           UNCHANGED <<role, rooms, queue, timer, jobs, retries, failVars>>,
           dropped' \subseteq Asked, faults' \in 0..MaxFaults
    PROVE  Inv'
<1> USE DEF Inv, failVars
<1>1. DOMAIN pool' = DOMAIN pool /\ Loops' = Loops
  BY DEF TypeOK, Loops
<1>2. LoopsOK' /\ \A k \in loops' : k = m \/ k \in loops \ {l}
  <2>1. Len(pool') \in Nat /\ Len(pool') >= Len(pool)
    BY DEF TypeOK
  <2> QED
    BY <1>1, <2>1, Becoming
<1>3. TypeOK'
  BY <1>1, <1>2 DEF TypeOK, LoopsOK, Jobs, Clients
<1>4. \A k \in loops' : ShapedLoop(k)'
  <2>1. ShapedLoop(l)'
    BY StaysShaped
  <2>2. ShapedLoop(m)'
    BY <2>1 DEF ShapedLoop
  <2> QED
    BY <1>2, <2>2, StaysShaped
<1> QED
  BY <1>1, <1>3, <1>4 DEF Shape, ShapedLoop

\* An answered room is replayed by its client, or was secured otherwise.
LEMMA AnsweredKeeps ==
    ASSUME Inv, NEW l \in loops, Answered(l),
           UNCHANGED <<role, failVars, faults>>
    PROVE  Inv' /\ (NoTwins /\ AllSecured => AllSecured')
<1> USE DEF Inv, roomVars, failVars
<1> DEFINE i == l.client
           m == [l EXCEPT !.waits = {}]
           c == [pool[i] EXCEPT !.subs = @ \cup l.waits,
                                !.count = IF Counts(l) THEN @ + 1 ELSE @]
<1>1. /\ i \in DOMAIN pool /\ pool[i] \in Clients /\ pool[i].count \in Nat
      /\ pool[i].open /\ pool[i].once
      /\ pool[i].subs \cup l.waits \in SUBSET Asked
  BY LoopType, ClientType DEF Answered, Shape
<1>2. /\ c \in Clients /\ c.items = pool[i].items /\ c.open = pool[i].open
      /\ c.once = pool[i].once /\ c.subs = pool[i].subs \cup l.waits
  <2> DEFINE n == IF Counts(l) THEN pool[i].count + 1 ELSE pool[i].count
  <2>1. n \in Nat /\ c = [pool[i] EXCEPT !.subs = @ \cup l.waits, !.count = n]
    BY <1>1
  <2> HIDE DEF n, c
  <2> QED
    BY <1>1, <2>1 DEF Clients
<1>3. pool' = [pool EXCEPT ![i] = c]
  BY DEF Answered
<1>4. /\ m \in Loops /\ m.kind = l.kind /\ m.client = l.client
      /\ m.later = l.later /\ m.failed = l.failed /\ m.todo = l.todo
      /\ m.waits = {}
  BY LoopType DEF Loops
<1>5. Becomes(l, m)
  BY DEF Answered
<1> HIDE DEF c, m
<1>6. /\ pool' \in Seq(Clients) /\ Len(pool') = Len(pool)
      /\ DOMAIN pool' = DOMAIN pool /\ pool'[i] = c
      /\ \A j \in DOMAIN pool : j # i => pool'[j] = pool[j]
  BY <1>1, <1>2, <1>3, PoolExcept DEF TypeOK
<1>7. /\ UNCHANGED <<role, rooms, queue, timer, jobs, retries, failVars, faults>>
      /\ dropped' = dropped \ (l.waits \cap pool[i].items)
  BY DEF Answered
<1>8. Inv'
  <2>1. \A j \in DOMAIN pool :
          /\ pool[j].once => pool'[j].once
          /\ pool'[j].open \/ pool'[j].subs # {} => pool'[j].once
    BY <1>1, <1>2, <1>6 DEF Shape
  <2>2. dropped' \subseteq Asked /\ faults' \in 0..MaxFaults
    BY <1>7 DEF TypeOK
  <2> QED
    BY <1>4, <1>5, <1>6, <1>7, <2>1, <2>2, InPlace
<1>9. ASSUME AllSecured PROVE AllSecured'
  <2> SUFFICES ASSUME ~ended, NEW r \in rooms \ Unknown PROVE Secured(r)'
    BY <1>7 DEF AllSecured
  <2>1. Secured(r)
    BY <1>9 DEF AllSecured
  <2>2. \A j \in DOMAIN pool : pool'[j].items = pool[j].items
    BY <1>2, <1>6
  <2>3. r \in l.waits /\ r \in pool[i].items => Secured(r)'
    BY <1>1, <1>2, <1>6 DEF Secured, Holds
  <2>4. \A j \in DOMAIN pool : Holds(pool[j], r) => Secured(r)'
    BY <1>2, <1>6 DEF Secured, Holds
  <2>5. Runs(l, r) => Secured(r)'
    BY <1>4, <1>5, <2>3 DEF Runs, Secured, Becomes
  <2>6. r \in dropped => Secured(r)'
    BY <1>7, <2>3 DEF Secured
  <2> QED
    BY <1>4, <1>5, <1>7, <2>1, <2>2, <2>4, <2>5, <2>6, LoopMoves
<1> QED
  BY <1>8, <1>9

\* A refused room leaves the items and is retried.
LEMMA RefusedKeeps ==
    ASSUME Inv, NEW l \in loops, Refused(l)
    PROVE  Inv' /\ (NoTwins /\ AllSecured => AllSecured')
<1> USE DEF Inv, roomVars, failVars
<1>0. PICK late \in {{}, l.waits} :
         /\ late # {} => pool[l.client].open
         /\ pool' = [pool EXCEPT ![l.client] =
              [pool[l.client] EXCEPT !.items = DeleteAll(@, l.waits),
                                     !.subs = @ \cup late]]
  BY DEF Refused
<1> DEFINE i == l.client
           m == [l EXCEPT !.waits = {}, !.failed = @ \cup l.waits]
           items == DeleteAll(pool[i].items, l.waits)
           c == [pool[i] EXCEPT !.items = DeleteAll(@, l.waits),
                                !.subs = @ \cup late]
<1>1. /\ i \in DOMAIN pool /\ pool[i] \in Clients
      /\ pool[i].subs \cup late \in SUBSET Asked
      /\ l.waits \in SUBSET Asked /\ pool[i].items \in SUBSET Asked
  BY LoopType, ClientType DEF Refused
<1>2. items \in SUBSET Asked
  BY <1>1, MapType
<1>3. /\ c \in Clients /\ c.items = items /\ c.open = pool[i].open
      /\ c.once = pool[i].once /\ c.subs = pool[i].subs \cup late
  <2> HIDE DEF items
  <2>1. c = [pool[i] EXCEPT !.items = items, !.subs = @ \cup late]
    BY DEF items
  <2> HIDE DEF c
  <2> QED
    BY <1>1, <1>2, <2>1 DEF Clients
<1>4. pool' = [pool EXCEPT ![i] = c]
  BY <1>0
<1>5. /\ m \in Loops /\ m.kind = l.kind /\ m.client = l.client
      /\ m.later = l.later /\ m.failed = l.failed \cup l.waits
      /\ m.todo = l.todo /\ m.waits = {}
  <2>1. l \in Loops /\ l.failed \cup l.waits \in SUBSET Asked
    BY LoopType
  <2> QED
    BY <2>1 DEF Loops
<1>6. Becomes(l, m)
  BY DEF Refused
<1> HIDE DEF c, m, items
<1>7. /\ pool' \in Seq(Clients) /\ Len(pool') = Len(pool)
      /\ DOMAIN pool' = DOMAIN pool /\ pool'[i] = c
      /\ \A j \in DOMAIN pool : j # i => pool'[j] = pool[j]
  BY <1>1, <1>3, <1>4, PoolExcept DEF TypeOK
<1>8. /\ UNCHANGED <<role, rooms, queue, timer, jobs, retries, dropped, failVars>>
      /\ faults' \in 0..MaxFaults
  BY HlAssumption DEF Refused, Fault, TypeOK
<1>9. Inv'
  <2>1. \A j \in DOMAIN pool :
          /\ pool[j].once => pool'[j].once
          /\ pool'[j].open \/ pool'[j].subs # {} => pool'[j].once
    BY <1>0, <1>3, <1>7 DEF Shape
  <2>2. dropped' \subseteq Asked
    BY <1>8 DEF TypeOK
  <2> QED
    BY <1>5, <1>6, <1>7, <1>8, <2>1, <2>2, InPlace
<1>10. ASSUME NoTwins, AllSecured PROVE AllSecured'
  <2> SUFFICES ASSUME ~ended, NEW r \in rooms \ Unknown PROVE Secured(r)'
    BY <1>8 DEF AllSecured
  <2>1. Secured(r)
    BY <1>10 DEF AllSecured
  <2>2. r \in l.waits => Secured(r)'
    BY <1>5, <1>6 DEF Secured, Runs, Becomes
  <2>3. items = pool[i].items \ l.waits
    BY <1>1, <1>10, MapSet DEF items
  <2>4. \A j \in DOMAIN pool :
          r \in pool[j].items => r \in pool'[j].items \/ Secured(r)'
    BY <1>3, <1>7, <2>2, <2>3
  <2>5. \A j \in DOMAIN pool : Holds(pool[j], r) => Secured(r)'
    BY <1>3, <1>7, <2>2, <2>3 DEF Secured, Holds
  <2>6. Runs(l, r) => Secured(r)'
    BY <1>5, <1>6, <2>2 DEF Runs, Secured, Becomes
  <2>7. r \in dropped => Secured(r)'
    BY <1>8 DEF Secured
  <2> QED
    BY <1>5, <1>6, <1>8, <2>1, <2>4, <2>5, <2>6, <2>7, LoopMoves
<1> QED
  BY <1>9, <1>10

\* The loops of a replaced client secure nothing but failed and later rooms.
LEMMA ReplacedRejectsKeeps ==
    ASSUME Inv, ReplacedRejects
    PROVE  Inv' /\ (AllSecured => AllSecured')
<1> USE DEF Inv, roomVars, failVars
<1>1. PICK l \in loops : l.client = 0 /\ Becomes(l, Stops(l))
  BY DEF ReplacedRejects
<1> DEFINE m == Stops(l)
<1>2. /\ m \in Loops /\ m.kind = l.kind /\ m.client = l.client
      /\ m.later = l.later /\ m.failed = l.failed /\ m.waits = {}
  <2>1. l \in Loops
    BY LoopType
  <2> QED
    BY <2>1 DEF Loops, Stops
<1>3. UNCHANGED <<role, rooms, queue, timer, jobs, pool, retries, dropped,
                  failVars, faults>>
  BY DEF ReplacedRejects
<1> HIDE DEF m
<1>4. Becomes(l, m)
  BY <1>1 DEF m
<1>5. Inv'
  <2>1. /\ pool' \in Seq(Clients) /\ Len(pool') = Len(pool)
        /\ dropped' \subseteq Asked /\ faults' \in 0..MaxFaults
        /\ \A j \in DOMAIN pool :
             /\ pool[j].once => pool'[j].once
             /\ pool'[j].open \/ pool'[j].subs # {} => pool'[j].once
    BY <1>3 DEF TypeOK, Shape
  <2> QED
    BY <1>2, <1>3, <1>4, <2>1, InPlace
<1>6. ASSUME AllSecured PROVE AllSecured'
  <2> SUFFICES ASSUME ~ended, NEW r \in rooms \ Unknown PROVE Secured(r)'
    BY <1>3 DEF AllSecured
  <2>1. Secured(r)
    BY <1>6 DEF AllSecured
  <2>2. Runs(l, r) => Secured(r)'
    BY <1>1, <1>2, <1>4 DEF Runs, Secured, Becomes
  <2>3. /\ \A j \in DOMAIN pool : Holds(pool[j], r) => Secured(r)'
        /\ r \in dropped => Secured(r)'
    BY <1>3 DEF Secured, Holds
  <2> QED
    BY <1>2, <1>3, <1>4, <2>1, <2>2, <2>3, LoopMoves
<1> QED
  BY <1>5, <1>6

-----------------------------------------------------------------------------
(* The calls that wait for the mutex.                                       *)

\* The first job of a queue that is not empty.
LEMMA JobType ==
    ASSUME NEW s \in Seq(Jobs), s # <<>>
    PROVE  /\ 1 \in DOMAIN s /\ Head(s) = s[1] /\ s[1] \in Jobs
           /\ s[1].data \subseteq Asked /\ s[1].flush \in BOOLEAN
<1>1. 1 \in DOMAIN s /\ Head(s) = s[1] /\ s[1] \in Jobs
  OBVIOUS
<1> QED
  BY <1>1 DEF Jobs

\* A job more at the end.
LEMMA JobsAppend ==
    ASSUME NEW s \in Seq(Jobs), NEW t, NEW e \in Jobs, t = Append(s, e)
    PROVE  /\ t \in Seq(Jobs) /\ t # <<>>
           /\ Head(t) = IF s = <<>> THEN e ELSE Head(s)
           /\ \A j \in DOMAIN s : j \in DOMAIN t /\ t[j] = s[j]
           /\ Len(s) + 1 \in DOMAIN t /\ t[Len(s) + 1] = e
           /\ \A j \in DOMAIN t : j \in DOMAIN s \/ t[j] = e
<1>1. /\ t \in Seq(Jobs) /\ t # <<>> /\ Len(t) = Len(s) + 1
      /\ \A j \in 1..Len(s) : t[j] = s[j]
      /\ t[Len(s) + 1] = e
  BY AppendProperties
<1>2. Len(s) \in Nat /\ DOMAIN s = 1..Len(s) /\ DOMAIN t = 1..(Len(s) + 1)
  BY <1>1
<1>3. Head(t) = IF s = <<>> THEN e ELSE Head(s)
  <2>1. Head(t) = t[1]
    BY <1>1, JobType
  <2>2. CASE s = <<>>
    BY <1>1, <2>1, <2>2
  <2>3. CASE s # <<>>
    <3>1. 1 \in 1..Len(s) /\ Head(s) = s[1]
      BY <1>2, <2>3, JobType
    <3> QED
      BY <1>1, <2>1, <2>3, <3>1
  <2> QED
    BY <2>2, <2>3
<1> QED
  BY <1>1, <1>2, <1>3

\* The first job is over.
LEMMA JobsTail ==
    ASSUME NEW s \in Seq(Jobs), NEW t, s # <<>>, t = Tail(s)
    PROVE  /\ t \in Seq(Jobs)
           /\ \A j \in DOMAIN s :
                j # 1 => j - 1 \in DOMAIN t /\ t[j - 1] = s[j]
           /\ \A j \in DOMAIN t : j + 1 \in DOMAIN s /\ t[j] = s[j + 1]
<1>1. /\ t \in Seq(Jobs) /\ Len(t) = Len(s) - 1
      /\ \A j \in 1..Len(t) : t[j] = s[j + 1]
  BY HeadTailProperties
<1>2. DOMAIN s = 1..Len(s) /\ DOMAIN t = 1..Len(t) /\ Len(s) \in Nat
  BY <1>1
<1>3. ASSUME NEW j \in DOMAIN s, j # 1
      PROVE  j - 1 \in DOMAIN t /\ t[j - 1] = s[j]
  <2>1. j - 1 \in 1..Len(t) /\ (j - 1) + 1 = j
    BY <1>1, <1>2, <1>3
  <2> QED
    BY <1>1, <1>2, <2>1
<1> QED
  BY <1>1, <1>2, <1>3

\* A step that only touches the rooms on their way to a loop.
LEMMA RoomsMove ==
    ASSUME Inv, UNCHANGED <<role, pool, loops, dropped, failVars, faults>>,
           rooms' \subseteq Asked, queue' \subseteq Asked, timer' \in BOOLEAN,
           retries' \subseteq SUBSET Asked, jobs' \in Seq(Jobs),
           \A j \in DOMAIN jobs' : jobs'[j].flush => jobs'[j].data = {},
           Flushing => jobs' # <<>> /\ Head(jobs').flush
    PROVE  Inv'
<1> USE DEF Inv, failVars
<1>1. Loops' = Loops
  BY DEF Loops
<1>2. TypeOK'
  <2>1. \A l, m \in loops' : l.kind = "flush" /\ m.kind = "flush" =>
          l = m /\ jobs' # <<>> /\ Head(jobs').flush
    BY DEF TypeOK, Flushing
  <2> QED
    BY <1>1, <2>1 DEF TypeOK, Jobs, Clients
<1> QED
  BY <1>2 DEF Shape

\* A new room is asked for.
LEMMA SubscribeCandleKeeps ==
    ASSUME Inv, NEW r \in Asked, SubscribeCandle(r)
    PROVE  Inv' /\ (AllSecured => AllSecured')
<1> USE DEF Inv, poolVars, failVars
<1>1. Ask({r}) \in Jobs /\ ~Ask({r}).flush /\ Ask({r}).data = {r}
  BY DEF Ask, Jobs
<1>2. jobs \in Seq(Jobs) /\ jobs' = Append(jobs, Ask({r}))
  BY DEF TypeOK, SubscribeCandle
<1> DEFINE e == Ask({r})
<1> HIDE DEF e
<1>3. /\ jobs' \in Seq(Jobs) /\ jobs' # <<>>
      /\ Head(jobs') = IF jobs = <<>> THEN e ELSE Head(jobs)
      /\ \A j \in DOMAIN jobs : j \in DOMAIN jobs' /\ jobs'[j] = jobs[j]
      /\ Len(jobs) + 1 \in DOMAIN jobs' /\ jobs'[Len(jobs) + 1] = e
      /\ \A j \in DOMAIN jobs' : j \in DOMAIN jobs \/ jobs'[j] = e
  BY <1>1, <1>2, JobsAppend DEF e
<1>4. UNCHANGED <<role, queue, timer, pool, loops, retries, dropped, failVars,
                  faults>> /\ rooms' = rooms \cup {r}
  BY DEF SubscribeCandle
<1>5. Inv'
  <2>1. Flushing => jobs' # <<>> /\ Head(jobs').flush
    BY <1>3 DEF TypeOK, Flushing
  <2>2. \A j \in DOMAIN jobs' : jobs'[j].flush => jobs'[j].data = {}
    BY <1>1, <1>3 DEF Shape, e
  <2>3. /\ rooms' \subseteq Asked /\ queue' \subseteq Asked
        /\ timer' \in BOOLEAN /\ retries' \subseteq SUBSET Asked
    BY <1>4 DEF TypeOK
  <2> QED
    BY <1>3, <1>4, <2>1, <2>2, <2>3, RoomsMove
<1>6. ASSUME AllSecured PROVE AllSecured'
  <2> SUFFICES ASSUME ~ended, NEW s \in rooms' \ Unknown PROVE Secured(s)'
    BY <1>4 DEF AllSecured
  <2>1. CASE s = r
    BY <1>1, <1>3, <2>1 DEF Secured, Asks, e
  <2>2. CASE s \in rooms
    <3>1. Secured(s)
      BY <1>6, <2>2 DEF AllSecured
    <3>2. Asks(s) => Asks(s)'
      BY <1>3 DEF Asks
    <3>3. Queued(s) => Queued(s)'
      BY <1>3, <1>4 DEF Queued, Begun
    <3> QED
      BY <1>4, <3>1, <3>2, <3>3 DEF Secured, Runs, Holds
  <2> QED
    BY <1>4, <2>1, <2>2
<1> QED
  BY <1>5, <1>6

\* The rooms of a job enter the queue, with a timer.
LEMMA QueuesKeeps ==
    ASSUME Inv, Queues
    PROVE  Inv' /\ (NoTwins /\ AllSecured => AllSecured')
<1> USE DEF Inv, poolVars, failVars
<1> DEFINE S == Head(jobs).data
<1>1. /\ jobs \in Seq(Jobs) /\ jobs # <<>> /\ ~Head(jobs).flush
      /\ jobs' = Tail(jobs)
  BY DEF TypeOK, Queues
<1>2. /\ jobs' \in Seq(Jobs)
      /\ \A j \in DOMAIN jobs :
           j # 1 => j - 1 \in DOMAIN jobs' /\ jobs'[j - 1] = jobs[j]
      /\ \A j \in DOMAIN jobs' : j + 1 \in DOMAIN jobs /\ jobs'[j] = jobs[j + 1]
  BY <1>1, JobsTail
<1>3. S \in SUBSET Asked /\ queue \in SUBSET Asked /\ S = jobs[1].data
  BY <1>1, JobType DEF TypeOK
<1>4. /\ UNCHANGED <<role, rooms, pool, loops, retries, dropped, failVars,
                     faults>>
      /\ timer' = TRUE /\ queue' = PutAll(queue, S)
  BY DEF Queues
<1> HIDE DEF S
<1>5. Inv'
  <2>1. ~Flushing
    BY <1>1 DEF TypeOK, Flushing
  <2>2. \A j \in DOMAIN jobs' : jobs'[j].flush => jobs'[j].data = {}
    BY <1>2 DEF Shape
  <2>3. /\ rooms' \subseteq Asked /\ queue' \subseteq Asked
        /\ timer' \in BOOLEAN /\ retries' \subseteq SUBSET Asked
    BY <1>3, <1>4, MapType, ZenonT(60) DEF TypeOK
  <2> QED
    BY <1>2, <1>4, <2>1, <2>2, <2>3, RoomsMove
<1>6. ASSUME NoTwins, AllSecured PROVE AllSecured'
  <2> SUFFICES ASSUME ~ended, NEW r \in rooms \ Unknown PROVE Secured(r)'
    BY <1>4 DEF AllSecured
  <2>1. Secured(r)
    BY <1>6 DEF AllSecured
  <2>2. queue' = queue \cup S
    BY <1>3, <1>4, <1>6, MapSet
  <2>3. Asks(r) => Asks(r)' \/ Queued(r)'
    BY <1>2, <1>3, <1>4, <2>2 DEF Asks, Queued
  <2>4. Queued(r) => Queued(r)'
    BY <1>4, <2>2 DEF Queued
  <2> QED
    BY <1>4, <2>1, <2>3, <2>4 DEF Secured, Runs, Holds
<1> QED
  BY <1>5, <1>6

\* The timer leaves a connect that takes the queue.
LEMMA TimerFiresKeeps ==
    ASSUME Inv, TimerFires
    PROVE  Inv' /\ (AllSecured => AllSecured')
<1> USE DEF Inv, poolVars, failVars
<1>1. Flush \in Jobs /\ Flush.flush /\ Flush.data = {}
  BY DEF Flush, Jobs
<1>2. jobs \in Seq(Jobs) /\ jobs' = Append(jobs, Flush)
  BY DEF TypeOK, TimerFires
<1>3. /\ jobs' \in Seq(Jobs) /\ jobs' # <<>>
      /\ Head(jobs') = IF jobs = <<>> THEN Flush ELSE Head(jobs)
      /\ \A j \in DOMAIN jobs : j \in DOMAIN jobs' /\ jobs'[j] = jobs[j]
      /\ Len(jobs) + 1 \in DOMAIN jobs' /\ jobs'[Len(jobs) + 1] = Flush
      /\ \A j \in DOMAIN jobs' : j \in DOMAIN jobs \/ jobs'[j] = Flush
  BY <1>1, <1>2, JobsAppend
<1>4. /\ UNCHANGED <<role, rooms, queue, pool, loops, retries, dropped, failVars,
                     faults>>
      /\ timer' = FALSE
  BY DEF TimerFires
<1>5. Flushing => jobs # <<>> /\ Head(jobs).flush
  BY DEF TypeOK, Flushing
<1>6. Inv'
  <2>1. \A j \in DOMAIN jobs' : jobs'[j].flush => jobs'[j].data = {}
    BY <1>1, <1>3 DEF Shape
  <2>2. /\ rooms' \subseteq Asked /\ queue' \subseteq Asked
        /\ timer' \in BOOLEAN /\ retries' \subseteq SUBSET Asked
    BY <1>4 DEF TypeOK
  <2> QED
    BY <1>3, <1>4, <1>5, <2>1, <2>2, RoomsMove
<1>7. ASSUME AllSecured PROVE AllSecured'
  <2> SUFFICES ASSUME ~ended, NEW r \in rooms \ Unknown PROVE Secured(r)'
    BY <1>4 DEF AllSecured
  <2>1. Secured(r)
    BY <1>7 DEF AllSecured
  <2>2. Asks(r) => Asks(r)'
    BY <1>3 DEF Asks
  <2>3. Flushing => Len(jobs) + 1 # 1
    BY <1>2, <1>5
  <2>4. r \in queue => Queued(r)'
    BY <1>1, <1>3, <1>4, <2>3 DEF Queued, Begun, Flushing
  <2> QED
    BY <1>4, <2>1, <2>2, <2>4 DEF Secured, Queued, Runs, Holds
<1> QED
  BY <1>6, <1>7

\* The rooms of a retry enter the queue, with a timer.
LEMMA RetryFiresKeeps ==
    ASSUME Inv, NEW S \in retries, RetryFires(S)
    PROVE  Inv' /\ (NoTwins /\ AllSecured => AllSecured')
<1> USE DEF Inv, failVars
<1>1. S \in SUBSET Asked /\ queue \in SUBSET Asked
  BY DEF TypeOK
<1>2. /\ UNCHANGED <<role, rooms, jobs, pool, loops, dropped, failVars, faults>>
      /\ timer' = TRUE /\ queue' = PutAll(queue, S) /\ retries' = retries \ {S}
  BY DEF RetryFires
<1>3. Inv'
  <2>1. Flushing => jobs' # <<>> /\ Head(jobs').flush
    BY <1>2 DEF TypeOK, Flushing
  <2>2. /\ jobs' \in Seq(Jobs)
        /\ \A j \in DOMAIN jobs' : jobs'[j].flush => jobs'[j].data = {}
    BY <1>2 DEF TypeOK, Shape
  <2>3. /\ rooms' \subseteq Asked /\ queue' \subseteq Asked
        /\ timer' \in BOOLEAN /\ retries' \subseteq SUBSET Asked
    BY <1>1, <1>2, MapType DEF TypeOK
  <2> QED
    BY <1>2, <2>1, <2>2, <2>3, RoomsMove
<1>4. ASSUME NoTwins, AllSecured PROVE AllSecured'
  <2> SUFFICES ASSUME ~ended, NEW r \in rooms \ Unknown PROVE Secured(r)'
    BY <1>2 DEF AllSecured
  <2>1. Secured(r)
    BY <1>4 DEF AllSecured
  <2>2. queue' = queue \cup S
    BY <1>1, <1>2, <1>4, MapSet
  <2>3. r \in queue \/ r \in S => Queued(r)'
    BY <1>2, <2>2 DEF Queued
  <2>4. Asks(r) => Asks(r)'
    BY <1>2 DEF Asks
  <2> QED
    BY <1>2, <2>1, <2>3, <2>4 DEF Secured, Queued, Runs, Holds
<1> QED
  BY <1>3, <1>4

-----------------------------------------------------------------------------
(* A connect starts, and a loop ends.                                       *)

\* The loop has the rooms of the queue as its later ones.
LEMMA FlushStartsKeeps ==
    ASSUME Inv, FlushStarts
    PROVE  Inv' /\ (AllSecured => AllSecured')
<1> USE DEF Inv, failVars
<1> DEFINE m == Loop("flush", 0, {}, queue)
<1>1. /\ m.kind = "flush" /\ m.client = 0 /\ m.later = queue /\ m.waits = {}
      /\ m \in Loops
  BY DEF Loop, Loops, TypeOK
<1>2. /\ UNCHANGED <<role, rooms, timer, jobs, pool, retries, dropped, failVars,
                     faults>>
      /\ queue' = {} /\ loops' = loops \cup {m}
      /\ jobs # <<>> /\ Head(jobs).flush /\ ~Flushing
  BY DEF FlushStarts
<1> HIDE DEF m
<1>3. TypeOK'
  <2>1. Loops' = Loops
    BY <1>2 DEF Loops
  <2>2. \A l \in loops' : \A r, s \in l.waits : r = s
    BY <1>1, <1>2 DEF TypeOK
  <2>3. \A l, k \in loops' : l.kind = "flush" /\ k.kind = "flush" =>
          l = k /\ jobs' # <<>> /\ Head(jobs').flush
    BY <1>2 DEF Flushing
  <2> QED
    BY <1>1, <1>2, <2>1, <2>2, <2>3 DEF TypeOK, Jobs, Clients
<1>4. Shape'
  BY <1>1, <1>2 DEF Shape
<1>5. ASSUME AllSecured PROVE AllSecured'
  <2> SUFFICES ASSUME ~ended, NEW r \in rooms \ Unknown PROVE Secured(r)'
    BY <1>2 DEF AllSecured
  <2>1. Secured(r)
    BY <1>5 DEF AllSecured
  <2>2. r \in queue => Secured(r)'
    BY <1>1, <1>2 DEF Secured, Runs
  <2>3. \A l \in loops : Runs(l, r) => Secured(r)'
    BY <1>2 DEF Secured, Runs
  <2> QED
    BY <1>2, <2>1, <2>2, <2>3 DEF Secured, Asks, Queued, Holds
<1> QED
  BY <1>3, <1>4, <1>5

\* Failed rooms become a retry; the job of a connect is over.
LEMMA LoopEndsKeeps ==
    ASSUME Inv, NEW l \in loops, LoopEnds(l),
           UNCHANGED <<role, failVars, faults>>
    PROVE  Inv' /\ (AllSecured => AllSecured')
<1> USE DEF Inv, failVars
<1>1. /\ l.todo = {} /\ l.waits = {} /\ l.later = {}
      /\ loops' = loops \ {l}
      /\ retries' = IF l.failed = {} THEN retries ELSE retries \cup {l.failed}
      /\ jobs' = IF l.kind = "flush" THEN Tail(jobs) ELSE jobs
      /\ UNCHANGED <<rooms, queue, timer, pool, dropped>>
  BY DEF LoopEnds
<1>2. l.kind = "flush" =>
        /\ jobs # <<>> /\ jobs \in Seq(Jobs) /\ Head(jobs).flush
        /\ jobs[1].data = {}
        /\ \A k \in loops' : k.kind # "flush"
  <2>1. ASSUME l.kind = "flush" PROVE jobs # <<>> /\ Head(jobs).flush
    BY <2>1 DEF TypeOK
  <2>2. ASSUME l.kind = "flush" PROVE jobs[1].data = {}
    BY <2>1, <2>2, JobType DEF TypeOK, Shape
  <2>3. ASSUME l.kind = "flush", NEW k \in loops', k.kind = "flush" PROVE FALSE
    BY <1>1, <2>3 DEF TypeOK
  <2> QED
    BY <2>1, <2>2, <2>3 DEF TypeOK
<1>3. /\ jobs' \in Seq(Jobs)
      /\ \A j \in DOMAIN jobs' : jobs'[j].flush => jobs'[j].data = {}
      /\ l.kind = "flush" => \A j \in DOMAIN jobs :
           j # 1 => j - 1 \in DOMAIN jobs' /\ jobs'[j - 1] = jobs[j]
  <2>1. CASE l.kind = "flush"
    <3>1. /\ jobs' \in Seq(Jobs)
          /\ \A j \in DOMAIN jobs :
               j # 1 => j - 1 \in DOMAIN jobs' /\ jobs'[j - 1] = jobs[j]
          /\ \A j \in DOMAIN jobs' :
               j + 1 \in DOMAIN jobs /\ jobs'[j] = jobs[j + 1]
      BY <1>1, <1>2, <2>1, JobsTail
    <3> QED
      BY <3>1 DEF Shape
  <2>2. CASE l.kind # "flush"
    BY <1>1, <2>2 DEF TypeOK, Shape
  <2> QED
    BY <2>1, <2>2
<1>4. TypeOK'
  <2>1. Loops' = Loops /\ l.failed \in SUBSET Asked
    BY <1>1, LoopType DEF Loops
  <2>2. \A k, m \in loops' : k.kind = "flush" /\ m.kind = "flush" =>
          k = m /\ jobs' # <<>> /\ Head(jobs').flush
    BY <1>1, <1>2 DEF TypeOK
  <2>3. \A k \in loops' : \A r, s \in k.waits : r = s
    BY <1>1 DEF TypeOK
  <2> QED
    BY <1>1, <1>3, <2>1, <2>2, <2>3 DEF TypeOK, Jobs, Clients
<1>5. Shape'
  BY <1>1, <1>3 DEF Shape
<1>6. ASSUME AllSecured PROVE AllSecured'
  <2> SUFFICES ASSUME ~ended, NEW r \in rooms \ Unknown PROVE Secured(r)'
    BY <1>1 DEF AllSecured
  <2>1. Secured(r)
    BY <1>6 DEF AllSecured
  <2>2. Runs(l, r) => Secured(r)'
    BY <1>1 DEF Runs, Secured
  <2>3. ASSUME NEW k \in loops, k # l, Runs(k, r) PROVE Secured(r)'
    BY <1>1, <2>3 DEF Runs, Secured
  <2>4. Asks(r) => Asks(r)'
    BY <1>1, <1>2, <1>3 DEF Asks
  <2>5. Queued(r) => Queued(r)'
    <3>1. CASE l.kind = "flush"
      <4>1. \A j \in DOMAIN jobs :
              jobs[j].flush /\ ~Begun(j) => \E k \in DOMAIN jobs' : jobs'[k].flush
        BY <1>3, <3>1 DEF Begun
      <4>2. \A j \in DOMAIN jobs' : ~Begun(j)'
        BY <1>2, <3>1 DEF Begun
      <4> QED
        BY <1>1, <4>1, <4>2 DEF Queued
    <3>2. CASE l.kind # "flush"
      BY <1>1, <3>2 DEF Queued, Begun
    <3> QED
      BY <3>1, <3>2
  <2>6. (\E S \in retries : r \in S) => Secured(r)'
    BY <1>1 DEF Secured
  <2> QED
    BY <1>1, <2>1, <2>2, <2>3, <2>4, <2>5, <2>6 DEF Secured, Holds
<1> QED
  BY <1>4, <1>5, <1>6

-----------------------------------------------------------------------------
(* Sockets and restarts.                                                    *)

\* A loop that waits stops; its rooms are replayed at the open, or left behind.
LEMMA SocketClosesKeeps ==
    ASSUME Inv, NEW i \in DOMAIN pool, SocketCloses(i)
    PROVE  Inv' /\ (NoTwins /\ AllSecured => AllSecured')
<1> USE DEF Inv, roomVars, failVars
<1> DEFINE S == ResumesAtOpen(i)
           items == PutAll(pool[i].items, S)
           c == [pool[i] EXCEPT !.items = items, !.subs = {}, !.open = FALSE]
<1>1. pool[i] \in Clients /\ pool[i].items \in SUBSET Asked
      /\ S \in SUBSET Asked /\ i # 0
  BY ClientType, LoopType DEF ResumesAtOpen, Hit
<1>2. items \in SUBSET Asked
  <2> HIDE DEF S
  <2> QED
    BY <1>1, MapType
<1>3. /\ UNCHANGED <<role, roomVars, retries, failVars>>
      /\ faults' \in 0..MaxFaults
      /\ pool' = [pool EXCEPT ![i] = c]
      /\ loops' = (loops \ Hit(i)) \cup {Stops(l) : l \in Hit(i)}
      /\ dropped' = dropped \cup LeavesBehind(i)
  BY HlAssumption DEF SocketCloses, Rejects, Fault, TypeOK
<1> HIDE DEF S, items
<1>4. /\ c \in Clients /\ c.items = items /\ ~c.open
      /\ c.once = pool[i].once /\ c.subs = {}
  BY <1>1, <1>2 DEF Clients
<1> HIDE DEF c
<1>5. /\ pool' \in Seq(Clients) /\ Len(pool') = Len(pool)
      /\ DOMAIN pool' = DOMAIN pool /\ pool'[i] = c
      /\ \A j \in DOMAIN pool : j # i => pool'[j] = pool[j]
  BY <1>3, <1>4, PoolExcept DEF TypeOK
<1>6. \A l \in loops :
        /\ Stops(l) \in Loops /\ Stops(l).kind = l.kind
        /\ Stops(l).client = l.client /\ Stops(l).waits = {}
        /\ Stops(l).later = l.later /\ Stops(l).failed = l.failed
  <2> TAKE l \in loops
  <2>1. l \in Loops
    BY LoopType
  <2> QED
    BY <2>1 DEF Loops, Stops
<1>7. /\ \A k \in loops' : k \in loops \/ \E l \in loops : k = Stops(l)
      /\ \A l \in loops : l \notin Hit(i) => l \in loops'
      /\ \A l \in Hit(i) : Stops(l) \in loops' /\ l \in loops
  BY <1>3 DEF Hit
<1>8. TypeOK'
  <2>1. Loops' = Loops
    BY <1>5 DEF Loops
  <2>2. \A k \in loops' : \A r, s \in k.waits : r = s
    BY <1>6, <1>7 DEF TypeOK
  <2>3. ASSUME NEW k \in loops', NEW m \in loops',
               k.kind = "flush", m.kind = "flush"
        PROVE  k = m /\ jobs' # <<>> /\ Head(jobs').flush
    <3>1. \A l, n \in loops : l.kind = "flush" /\ n.kind = "flush" =>
            l = n /\ jobs # <<>> /\ Head(jobs).flush
      BY DEF TypeOK
    <3>2. PICK l \in loops : l.kind = "flush" /\
            ((k = l /\ l \notin Hit(i)) \/ (k = Stops(l) /\ l \in Hit(i)))
      BY <1>3, <1>6, <2>3 DEF Hit
    <3>3. PICK n \in loops : n.kind = "flush" /\
            ((m = n /\ n \notin Hit(i)) \/ (m = Stops(n) /\ n \in Hit(i)))
      BY <1>3, <1>6, <2>3 DEF Hit
    <3> QED
      BY <1>3, <3>1, <3>2, <3>3
  <2>4. loops' \subseteq Loops /\ dropped' \subseteq Asked
    <3>1. LeavesBehind(i) \subseteq Asked
      BY LoopType DEF LeavesBehind, Hit
    <3> QED
      BY <1>3, <1>6, <1>7, <3>1 DEF TypeOK
  <2> QED
    BY <1>3, <1>5, <2>1, <2>2, <2>3, <2>4 DEF TypeOK, Jobs, Clients
<1>9. Shape'
  <2>1. \A j \in DOMAIN pool : pool'[j].once = pool[j].once
    BY <1>4, <1>5
  <2>2. \A l \in loops : ShapedLoop(l)' /\ ShapedLoop(Stops(l))'
    BY <1>6, <2>1, StaysShaped DEF ShapedLoop
  <2>3. \A k \in loops' : ShapedLoop(k)'
    BY <1>7, <2>2
  <2>4. \A j \in DOMAIN pool' :
          pool'[j].open \/ pool'[j].subs # {} => pool'[j].once
    BY <1>4, <1>5 DEF Shape
  <2> QED
    BY <1>3, <2>3, <2>4 DEF Shape, ShapedLoop
<1>10. ASSUME NoTwins, AllSecured PROVE AllSecured'
  <2> SUFFICES ASSUME ~ended, NEW r \in rooms \ Unknown PROVE Secured(r)'
    BY <1>3 DEF AllSecured
  <2>1. Secured(r)
    BY <1>10 DEF AllSecured
  <2>2. items = pool[i].items \cup S
    BY <1>1, <1>10, MapSet DEF items
  <2>3. \A j \in DOMAIN pool : r \in pool[j].items => r \in pool'[j].items
    BY <1>4, <1>5, <2>2
  <2>4. r \in c.items /\ pool[i].once => Secured(r)'
    BY <1>4, <1>5 DEF Secured, Holds
  <2>5. ASSUME NEW j \in DOMAIN pool, Holds(pool[j], r) PROVE Secured(r)'
    <3>1. CASE j = i
      <4>1. pool[i].once /\ r \in c.items
        BY <1>4, <2>2, <2>5, <3>1 DEF Holds, Shape
      <4> QED
        BY <2>4, <4>1
    <3>2. CASE j # i
      BY <1>5, <2>5, <3>2 DEF Secured, Holds
    <3> QED
      BY <3>1, <3>2
  <2>6. ASSUME NEW l \in loops, Runs(l, r), l \notin Hit(i) PROVE Secured(r)'
    <3>1. l \in loops' /\ (l.client # 0 => l.client \in DOMAIN pool)
      BY <1>7, <2>6, LoopType
    <3> QED
      BY <2>3, <2>6, <3>1 DEF Runs, Secured
  <2>7. ASSUME NEW l \in Hit(i), Runs(l, r) PROVE Secured(r)'
    <3>1. l \in loops /\ Stops(l) \in loops' /\ l.client = i
      BY <1>7 DEF Hit
    <3>2. r \in l.later \cup l.failed => Secured(r)'
      BY <1>6, <3>1 DEF Runs, Secured
    <3>3. CASE l.kind = "flush"
      <4>1. r \in l.todo => r \in LeavesBehind(i)
        BY <3>3 DEF LeavesBehind
      <4>2. r \in l.waits /\ ~pool[i].once => r \in LeavesBehind(i)
        BY <3>3 DEF LeavesBehind
      <4>3. r \in l.waits /\ r \in pool[i].items /\ pool[i].once => Secured(r)'
        BY <1>4, <2>2, <2>4
      <4>4. r \in LeavesBehind(i) => Secured(r)'
        BY <1>3 DEF Secured
      <4> QED
        BY <2>7, <3>1, <3>2, <4>1, <4>2, <4>3, <4>4 DEF Runs
    <3>4. CASE l.kind = "resub"
      <4>1. pool[i].once
        BY <1>1, <3>1, <3>4 DEF Shape
      <4>2. r \in l.todo => r \in S
        BY <3>4 DEF S, ResumesAtOpen
      <4>3. r \in S \/ r \in pool[i].items => Secured(r)'
        BY <1>4, <2>2, <2>4, <4>1
      <4> QED
        BY <2>7, <3>1, <3>2, <4>2, <4>3 DEF Runs
    <3> QED
      BY <3>1, <3>3, <3>4, LoopType
  <2>8. Queued(r) => Queued(r)'
    <3>1. (\E k \in loops' : k.kind = "flush")
            => \E k \in loops : k.kind = "flush"
      BY <1>6, <1>7
    <3> QED
      BY <1>3, <3>1 DEF Queued, Begun
  <2> QED
    BY <1>3, <2>1, <2>5, <2>6, <2>7, <2>8 DEF Secured, Asks
<1> QED
  BY <1>8, <1>9, <1>10

\* A client that was open before hands its items to a loop.
LEMMA SocketOpensKeeps ==
    ASSUME Inv, NEW i \in DOMAIN pool, SocketOpens(i)
    PROVE  Inv' /\ (AllSecured => AllSecured')
<1> USE DEF Inv, roomVars, failVars
<1> DEFINE again == pool[i].once
           items == pool[i].items
           left == IF again THEN {} ELSE items
           n == IF again /\ pool[i].live THEN 0 ELSE pool[i].count
           c == [pool[i] EXCEPT !.open = TRUE, !.once = TRUE,
                                !.items = left, !.count = n]
           m == Loop("resub", i, items, {})
<1>1. /\ pool[i] \in Clients /\ items \in SUBSET Asked
      /\ left \in SUBSET Asked /\ n \in Nat
      /\ i \in 1..Len(pool)
  BY ClientType
<1>2. /\ UNCHANGED <<role, roomVars, retries, dropped, failVars, faults>>
      /\ pool' = [pool EXCEPT ![i] = c]
      /\ loops' = IF again /\ items # {} THEN loops \cup {m} ELSE loops
      /\ ~pool[i].open
  BY DEF SocketOpens
<1>3. /\ m \in Loops /\ m.kind = "resub" /\ m.client = i /\ m.later = {}
      /\ m.todo = items /\ m.waits = {}
  <2> HIDE DEF items
  <2>1. i \in 0..Len(pool) /\ items \in SUBSET Asked
    BY <1>1 DEF TypeOK
  <2> QED
    BY <2>1 DEF Loop, Loops
<1> HIDE DEF n, left
<1>4. c \in Clients /\ c.open /\ c.once /\ c.items = left /\ c.subs = pool[i].subs
  BY <1>1 DEF Clients
<1> HIDE DEF c, m
<1>5. /\ pool' \in Seq(Clients) /\ Len(pool') = Len(pool)
      /\ DOMAIN pool' = DOMAIN pool /\ pool'[i] = c
      /\ \A j \in DOMAIN pool : j # i => pool'[j] = pool[j]
  BY <1>2, <1>4, PoolExcept DEF TypeOK
<1>6. TypeOK'
  <2>1. Loops' = Loops
    BY <1>5 DEF Loops
  <2>2. \A k \in loops' : \A r, s \in k.waits : r = s
    BY <1>2, <1>3 DEF TypeOK
  <2>3. \A k, l \in loops' : k.kind = "flush" /\ l.kind = "flush" =>
          k = l /\ jobs' # <<>> /\ Head(jobs').flush
    BY <1>2, <1>3 DEF TypeOK
  <2>4. loops' \subseteq Loops
    BY <1>2, <1>3 DEF TypeOK
  <2> QED
    BY <1>2, <1>5, <2>1, <2>2, <2>3, <2>4 DEF TypeOK, Jobs, Clients
<1>7. Shape'
  <2>1. \A j \in DOMAIN pool : pool[j].once => pool'[j].once
    BY <1>4, <1>5
  <2>2. ASSUME NEW k \in loops', k = m PROVE ShapedLoop(k)'
    BY <1>3, <1>4, <1>5, <2>2 DEF ShapedLoop
  <2>3. \A k \in loops' : ShapedLoop(k)'
    BY <1>2, <2>1, <2>2, StaysShaped
  <2>4. \A j \in DOMAIN pool' :
          pool'[j].open \/ pool'[j].subs # {} => pool'[j].once
    BY <1>4, <1>5 DEF Shape
  <2> QED
    BY <1>2, <2>3, <2>4 DEF Shape, ShapedLoop
<1>8. ASSUME AllSecured PROVE AllSecured'
  <2> SUFFICES ASSUME ~ended, NEW r \in rooms \ Unknown PROVE Secured(r)'
    BY <1>2 DEF AllSecured
  <2>1. Secured(r)
    BY <1>8 DEF AllSecured
  <2>2. r \in items /\ again => Secured(r)'
    BY <1>1, <1>2, <1>3 DEF Secured, Runs
  <2>3. ASSUME NEW j \in DOMAIN pool, r \in pool[j].items
        PROVE  r \in pool'[j].items \/ Secured(r)'
    BY <1>4, <1>5, <2>2, <2>3 DEF left
  <2>4. ASSUME NEW j \in DOMAIN pool, Holds(pool[j], r) PROVE Secured(r)'
    <3>1. CASE j = i
      BY <1>2, <2>2, <2>4, <3>1 DEF Holds, Shape
    <3>2. CASE j # i
      BY <1>5, <2>4, <3>2 DEF Secured, Holds
    <3> QED
      BY <3>1, <3>2
  <2>5. ASSUME NEW l \in loops, Runs(l, r) PROVE Secured(r)'
    <3>1. l \in loops' /\ (l.client # 0 => l.client \in DOMAIN pool)
      BY <1>2, LoopType
    <3> QED
      BY <2>3, <2>5, <3>1 DEF Runs, Secured
  <2>6. Queued(r) => Queued(r)'
    BY <1>2, <1>3 DEF Queued, Begun
  <2> QED
    BY <1>2, <2>1, <2>4, <2>5, <2>6 DEF Secured, Asks
<1> QED
  BY <1>6, <1>7, <1>8

\* After a restart every room of the set is asked for again.
LEMMA RestartKeeps ==
    ASSUME Inv, Restart
    PROVE  Inv' /\ (AllSecured => AllSecured')
<1> USE DEF Inv
<1> DEFINE e == Ask(rooms)
<1>1. /\ UNCHANGED <<role, rooms, queue, timer, retries, seen, targeted, ended,
                     faults>>
      /\ pool' = [i \in DOMAIN pool |-> Client]
      /\ loops' = {[l EXCEPT !.client = 0] : l \in loops}
      /\ dropped' = {} /\ restart' = FALSE /\ ticker' = "asking"
      /\ jobs \in Seq(Jobs) /\ jobs' = Append(jobs, e)
  BY DEF Restart, Replay, TypeOK
<1>2. e \in Jobs /\ ~e.flush /\ e.data = rooms
  BY DEF Ask, Jobs, TypeOK
<1> HIDE DEF e
<1>3. /\ jobs' \in Seq(Jobs) /\ jobs' # <<>>
      /\ Head(jobs') = IF jobs = <<>> THEN e ELSE Head(jobs)
      /\ Len(jobs) + 1 \in DOMAIN jobs' /\ jobs'[Len(jobs) + 1] = e
      /\ \A j \in DOMAIN jobs : jobs'[j] = jobs[j]
      /\ \A j \in DOMAIN jobs' : j \in DOMAIN jobs \/ jobs'[j] = e
  BY <1>1, <1>2, JobsAppend
<1>4. /\ pool' \in Seq(Clients) /\ Len(pool') = Len(pool)
      /\ \A i \in DOMAIN pool' :
           pool'[i].once = FALSE /\ pool'[i].open = FALSE /\ pool'[i].subs = {}
  <2>1. Client \in Clients /\ Client.once = FALSE /\ Client.open = FALSE
        /\ Client.subs = {}
    BY DEF Client, Clients
  <2>2. DOMAIN pool = 1..Len(pool) /\ Len(pool) \in Nat
    BY DEF TypeOK
  <2>3. pool' \in [1..Len(pool) -> Clients]
    BY <1>1, <2>1, <2>2
  <2>4. pool' \in Seq(Clients) /\ Len(pool') = Len(pool)
    BY <2>2, <2>3, IsASeq
  <2> QED
    BY <1>1, <2>1, <2>4
<1> DEFINE Cut(l) == [l EXCEPT !.client = 0]
<1>5. \A l \in loops :
        /\ Cut(l) \in Loops /\ Cut(l).client = 0 /\ Cut(l).kind = l.kind
        /\ Cut(l).later = l.later /\ Cut(l).waits = l.waits
  <2> TAKE l \in loops
  <2>1. l \in Loops /\ 0 \in 0..Len(pool)
    BY LoopType DEF TypeOK
  <2> QED
    BY <2>1 DEF Loops
<1>6. loops' = {Cut(l) : l \in loops}
  BY <1>1
<1> HIDE DEF Cut
<1>7. TypeOK'
  <2>1. Loops' = Loops
    BY <1>4 DEF Loops
  <2>2. \A k \in loops' : \A r, s \in k.waits : r = s
    BY <1>5, <1>6 DEF TypeOK
  <2>3. ASSUME NEW k \in loops', NEW m \in loops',
               k.kind = "flush", m.kind = "flush"
        PROVE  k = m /\ jobs' # <<>> /\ Head(jobs').flush
    <3>1. PICK l \in loops : k = Cut(l) /\ l.kind = "flush"
      BY <1>5, <1>6, <2>3
    <3>2. PICK n \in loops : m = Cut(n) /\ n.kind = "flush"
      BY <1>5, <1>6, <2>3
    <3>3. l = n /\ jobs # <<>> /\ Head(jobs).flush
      BY <3>1, <3>2 DEF TypeOK
    <3> QED
      BY <1>3, <3>1, <3>2, <3>3
  <2>4. loops' \subseteq Loops
    BY <1>5, <1>6
  <2> QED
    BY <1>1, <1>3, <1>4, <2>1, <2>2, <2>3, <2>4 DEF TypeOK, Jobs, Clients
<1>8. Shape'
  <2>1. \A k \in loops' : ShapedLoop(k)'
    BY <1>5, <1>6 DEF Shape, ShapedLoop
  <2>2. \A j \in DOMAIN jobs' : jobs'[j].flush => jobs'[j].data = {}
    BY <1>2, <1>3 DEF Shape
  <2> QED
    BY <1>4, <2>1, <2>2 DEF Shape, ShapedLoop
<1>9. \A r \in rooms' : Asks(r)'
  BY <1>1, <1>2, <1>3 DEF Asks
<1>10. AllSecured'
  BY <1>9 DEF AllSecured, Secured
<1> QED
  BY <1>7, <1>8, <1>10

-----------------------------------------------------------------------------
(* The ticker and the watchdog leave the rooms alone; they may ask for a    *)
(* restart, or give up.                                                     *)

\* What changes neither rooms nor sockets keeps the invariant.
LEMMA OtherKeeps ==
    ASSUME Inv, UNCHANGED <<role, rooms, queue, timer, jobs, pool, loops,
                            retries, dropped>>,
           restart' \in BOOLEAN, restart => restart',
           ended' \in BOOLEAN, ended => ended', seen' \in BOOLEAN,
           targeted' \in 0..MaxTargeted, faults' \in 0..MaxFaults,
           ticker' \in {"asking", "on", "off"}
    PROVE  Inv' /\ (AllSecured => AllSecured')
<1> USE DEF Inv
<1>1. Loops' = Loops
  BY DEF Loops
<1>2. TypeOK'
  BY <1>1 DEF TypeOK, Jobs, Clients
<1>3. Shape'
  BY DEF Shape
<1>4. ASSUME NEW r PROVE Secured(r) => Secured(r)'
  BY DEF Secured, Asks, Queued, Begun, Runs, Holds
<1>5. AllSecured => AllSecured'
  BY <1>4 DEF AllSecured
<1> QED
  BY <1>2, <1>3, <1>5

\* An escalation schedules a restart or gives up.
LEMMA EscalateType ==
    ASSUME TypeOK, Escalate
    PROVE  /\ restart' \in BOOLEAN /\ (restart => restart')
           /\ ended' \in BOOLEAN /\ (ended => ended')
           /\ targeted' \in 0..MaxTargeted
<1>1. MaxTargeted \in Nat /\ targeted \in 0..MaxTargeted
      /\ restart \in BOOLEAN /\ ended \in BOOLEAN
  BY HlAssumption DEF TypeOK
<1>2. CASE targeted < MaxTargeted
  BY <1>1, <1>2 DEF Escalate, Schedule
<1>3. CASE ~(targeted < MaxTargeted)
  BY <1>1, <1>3 DEF Escalate
<1> QED
  BY <1>2, <1>3

\* Each of these actions is such a step.
LEMMA FeedKeeps ==
    ASSUME Inv, \/ TickerAnswers \/ TickerFails \/ TickerDies \/ NoteActivity
                \/ TickerActivity \/ WatchdogStep
    PROVE  Inv' /\ (AllSecured => AllSecured')
<1> USE DEF Inv, roomVars, poolVars, failVars
<1>0. /\ restart \in BOOLEAN /\ ended \in BOOLEAN /\ seen \in BOOLEAN
      /\ targeted \in 0..MaxTargeted /\ faults \in 0..MaxFaults
      /\ ticker \in {"asking", "on", "off"}
      /\ MaxTargeted \in Nat /\ MaxFaults \in Nat
  BY HlAssumption DEF TypeOK
<1>1. CASE TickerAnswers
  BY <1>0, <1>1, OtherKeeps DEF TickerAnswers
<1>2. CASE TickerFails
  BY <1>0, <1>2, OtherKeeps DEF TickerFails, Fault, Schedule
<1>3. CASE TickerDies
  BY <1>0, <1>3, OtherKeeps DEF TickerDies, Fault
<1>4. CASE NoteActivity
  BY <1>0, <1>4, OtherKeeps DEF NoteActivity
<1>5. CASE TickerActivity
  BY <1>0, <1>5, OtherKeeps DEF TickerActivity
<1>6. CASE CandleStall
  <2>1. Escalate /\ UNCHANGED <<role, roomVars, poolVars, ticker, seen, faults>>
    BY <1>6 DEF CandleStall
  <2> QED
    BY <1>0, <2>1, EscalateType, OtherKeeps
<1>7. CASE TickerStall
  <2>1. Escalate /\ UNCHANGED <<role, roomVars, poolVars, ticker, seen, faults>>
    BY <1>7 DEF TickerStall
  <2> QED
    BY <1>0, <2>1, EscalateType, OtherKeeps
<1> QED
  BY <1>1, <1>2, <1>3, <1>4, <1>6, <1>7, <1>5 DEF WatchdogStep

-----------------------------------------------------------------------------
(* The theorems.                                                            *)

\* The connector starts with its rooms in a job.
LEMMA InitInv == Init => Inv /\ AllSecured
<1> SUFFICES ASSUME Init PROVE Inv /\ AllSecured
  OBVIOUS
<1> DEFINE R == IF role = "candle" THEN Kept ELSE {}
           e == Ask(R)
<1>1. R \in SUBSET Asked /\ rooms = R
  BY HlAssumption DEF Init
<1> HIDE DEF R
<1>2. e \in Jobs /\ ~e.flush /\ e.data = R
  BY <1>1 DEF Ask, Jobs
<1> HIDE DEF e
<1>3. jobs = IF role = "candle" THEN <<e>> ELSE <<>>
  BY <1>1 DEF Init, e
<1>4. jobs \in Seq(Jobs) /\ \A j \in DOMAIN jobs : jobs[j] = e
  BY <1>2, <1>3
<1>5. Client \in Clients /\ ~Client.open /\ Client.subs = {}
  BY DEF Client, Clients
<1>6. /\ pool \in Seq(Clients) /\ Len(pool) \in 1..MaxClients
      /\ \A i \in DOMAIN pool : pool[i] = Client
  BY <1>5, HlAssumption DEF Init
<1>7. TypeOK
  <2>1. /\ role \in Roles /\ rooms \subseteq Asked /\ queue = {} /\ dropped = {}
        /\ timer = FALSE /\ restart = FALSE /\ seen = FALSE /\ ended = FALSE
        /\ loops = {} /\ retries = {}
        /\ ticker \in {"asking", "on", "off"}
        /\ targeted = 0 /\ faults = 0
    BY <1>1 DEF Init
  <2>2. targeted \in 0..MaxTargeted /\ faults \in 0..MaxFaults
    BY <2>1, HlAssumption
  <2>3. LoopsOK /\ retries \subseteq SUBSET Asked
    BY <2>1 DEF LoopsOK
  <2>4. queue \subseteq Asked /\ dropped \subseteq Asked
    BY <2>1
  <2> QED
    BY <1>4, <1>6, <2>1, <2>2, <2>3, <2>4 DEF TypeOK, LoopsOK
<1>8. Shape
  BY <1>2, <1>4, <1>5, <1>6 DEF Init, Shape
<1>9. AllSecured
  <2>1. role = "candle" => \A r \in rooms : Asks(r)
    BY <1>1, <1>2, <1>3 DEF Asks
  <2>2. role # "candle" => rooms = {}
    BY <1>1 DEF R
  <2> QED
    BY <2>1, <2>2 DEF AllSecured, Secured
<1> QED
  BY <1>7, <1>8, <1>9 DEF Inv

\* Every step keeps the invariant.
LEMMA NextInv ==
    Inv /\ [Next]_vars => Inv' /\ (NoTwins /\ AllSecured => AllSecured')
<1> SUFFICES ASSUME Inv, [Next]_vars
             PROVE  Inv' /\ (NoTwins /\ AllSecured => AllSecured')
  OBVIOUS
<1>1. CASE \E r \in Asked : SubscribeCandle(r)
  BY <1>1, SubscribeCandleKeeps
<1>2. CASE RoomStep
  BY <1>2, QueuesKeeps, TimerFiresKeeps, FlushStartsKeeps, RetryFiresKeeps
     DEF RoomStep
<1>3. CASE LoopStep
  BY <1>3, NextChunkKeeps, SubscribesKeeps, AnsweredKeeps, LoopEndsKeeps
     DEF LoopStep
<1>4. CASE SocketStep
  BY <1>4, ReplacedRejectsKeeps, SocketOpensKeeps DEF SocketStep
<1>5. CASE Restart
  BY <1>5, RestartKeeps
<1>6. CASE \/ TickerAnswers \/ TickerFails \/ TickerDies \/ NoteActivity
           \/ TickerActivity \/ WatchdogStep
  BY <1>6, FeedKeeps
<1>7. CASE \E l \in loops : Refused(l)
  BY <1>7, RefusedKeeps
<1>8. CASE \E i \in DOMAIN pool : SocketCloses(i)
  BY <1>8, SocketClosesKeeps
<1>9. CASE UNCHANGED vars
  <2>1. UNCHANGED <<role, rooms, queue, timer, jobs, pool, loops, retries,
                    dropped, restart, ticker, seen, targeted, ended, faults>>
    BY <1>9 DEF vars, roomVars, poolVars, failVars
  <2> QED
    BY <2>1, OtherKeeps DEF Inv, TypeOK
<1> QED
  BY <1>1, <1>2, <1>3, <1>4, <1>5, <1>6, <1>7, <1>8, <1>9 DEF Next

\* What secures a room is on its way to a client, or streams already.
LEMMA SecuredIsKept ==
    ASSUME Inv, AllSecured
    PROVE  RoomKept
<1> SUFFICES ASSUME ~ended, NEW r \in rooms \ Unknown
             PROVE  Streams(r) \/ Coming(r) \/ r \in dropped
  BY DEF RoomKept
<1>1. Secured(r)
  BY DEF AllSecured
<1>2. (\E i \in DOMAIN pool : Holds(pool[i], r)) => Streams(r) \/ Coming(r)
  BY DEF Holds, Streams, Coming
<1>3. (\E l \in loops : Runs(l, r)) => Coming(r)
  BY DEF Runs, Coming
<1>4. Asks(r) \/ Queued(r) \/ restart \/ (\E S \in retries : r \in S) => Coming(r)
  BY DEF Asks, Queued, Coming
<1> QED
  BY <1>1, <1>2, <1>3, <1>4 DEF Secured

\* The state has its type: one connect at a time, that holds the mutex while it
\* runs, and one request at a time in a loop (the mutex and the await of
\* connectHyperliquidCandleStreams and of resubscribeEntry).
THEOREM HlTypeCorrect == Spec => []TypeOK
<1>1. Init => Inv
  BY InitInv
<1>2. Inv /\ [Next]_vars => Inv'
  BY NextInv
<1>3. Inv => TypeOK
  BY DEF Inv
<1> QED
  BY <1>1, <1>2, <1>3, PTL DEF Spec

\* If no coin is asked for as a spot and as a perp room, no room of the set is
\* lost, however many clients, drops, late answers and restarts: it streams, or
\* what will subscribe it is under way, or a connect loop left it behind.
THEOREM RoomsKept == Spec => (NoTwins => []RoomKept)
<1>1. Init => Inv /\ AllSecured
  BY InitInv
<1>2. Inv /\ AllSecured /\ NoTwins /\ [Next]_vars => Inv' /\ AllSecured'
  BY NextInv
<1>3. Inv /\ AllSecured => RoomKept
  BY SecuredIsKept
<1>4. NoTwins => NoTwins'
  BY DEF NoTwins
<1> QED
  BY <1>1, <1>2, <1>3, <1>4, PTL DEF Spec

=============================================================================
