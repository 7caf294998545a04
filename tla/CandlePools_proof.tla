-------------------------- MODULE CandlePools_proof --------------------------
(***************************************************************************)
(* Proofs about CandlePools: its types, that no room dies, that Binance    *)
(* streams a room on one socket, and that no client is overfilled.         *)
(*                                                                         *)
(* Inv is inductive.  Safe (no room dies, and none after the connector has *)
(* given up either), Dialled (what Binance's sockets carry and what the    *)
(* head of the calls has still to dial) and Counted (ids, counts and       *)
(* topics of the clients) are inductive with it.  Every Keeps lemma is one *)
(* action; the picks of the venues are told once, as Puts, and every       *)
(* change of a pool once, as PoolStep.                                     *)
(***************************************************************************)
EXTENDS CandlePools, SequenceTheorems, LeastElement

Clients == [id : Nat, count : Nat, topics : SUBSET Topics, mute : BOOLEAN,
            tries : 0..MaxTargeted]
Calls == [kind : {"connect", "flush", "subscribe"}, data : SUBSET Topics]

-----------------------------------------------------------------------------
(* The pool and the picks from it.                                          *)

\* There are finitely many topics.
LEMMA TopicsFinite ==
    \A S \in SUBSET Topics : IsFiniteSet(S) /\ Cardinality(S) \in Nat
<1>1. IsFiniteSet(Rooms \X BOOLEAN)
  <2>1. IsFiniteSet(BOOLEAN)
    <3>1. BOOLEAN = {TRUE} \cup {FALSE}
      OBVIOUS
    <3>2. IsFiniteSet({TRUE}) /\ IsFiniteSet({FALSE})
      BY FS_Singleton, Zenon
    <3> QED
      BY <3>1, <3>2, FS_Union, Zenon
  <2>2. IsFiniteSet(Rooms)
    BY PoolsAssumption
  <2> QED
    BY <2>1, <2>2, FS_Product
<1>2. IsFiniteSet(Topics)
  <2> DEFINE f == [x \in Rooms \X BOOLEAN |-> [room |-> x[1], echo |-> x[2]]]
  <2>1. f \in [Rooms \X BOOLEAN -> Topics]
    BY DEF Topics
  <2>2. \A t \in Topics : \E x \in Rooms \X BOOLEAN : f[x] = t
    <3> TAKE t \in Topics
    <3>1. /\ t.room \in Rooms /\ t.echo \in BOOLEAN
          /\ t = [room |-> t.room, echo |-> t.echo]
      BY DEF Topics
    <3>2. <<t.room, t.echo>> \in Rooms \X BOOLEAN
      BY <3>1
    <3>3. f[<<t.room, t.echo>>] = t
      BY <3>1, <3>2
    <3> QED
      BY <3>2, <3>3
  <2>3. f \in Surjection(Rooms \X BOOLEAN, Topics)
    BY <2>1, <2>2 DEF Surjection
  <2> HIDE DEF f
  <2> QED
    BY <1>1, <2>3, FS_Surjection DEF ExistsSurjection
<1> QED
  BY <1>2, FS_Subset, FS_CardinalityType

\* A chunk is part of the set, and no larger than asked for.
LEMMA NextOfType ==
    ASSUME NEW S \in SUBSET Topics, NEW n \in Nat
    PROVE  NextOf(S, n) \subseteq S /\ Cardinality(NextOf(S, n)) <= n
<1>1. IsFiniteSet(S) /\ Cardinality(S) \in Nat
  BY TopicsFinite
<1>2. CASE Cardinality(S) <= n
  BY <1>2 DEF NextOf
<1>3. CASE ~(Cardinality(S) <= n)
  <2>1. \E c \in SUBSET S : Cardinality(c) = n
    BY <1>1, <1>3, SubsetOfSize
  <2> DEFINE c == CHOOSE x \in SUBSET S : Cardinality(x) = n
  <2>2. c \in SUBSET S /\ Cardinality(c) = n
    BY <2>1, Zenon
  <2>3. NextOf(S, n) = c
    BY <1>3 DEF NextOf
  <2> HIDE DEF c
  <2> QED
    BY <2>2, <2>3
<1> QED
  BY <1>2, <1>3

\* The parts of a client of a pool.
LEMMA ClientType ==
    ASSUME NEW p \in Seq(Clients)
    PROVE  /\ Len(p) \in Nat /\ DOMAIN p = 1..Len(p)
           /\ \A i \in DOMAIN p :
                /\ i \in Nat /\ p[i] \in Clients
                /\ p[i].id \in Nat /\ p[i].count \in Nat
                /\ p[i].topics \subseteq Topics /\ p[i].topics \in SUBSET Topics
                /\ p[i].mute \in BOOLEAN /\ p[i].tries \in 0..MaxTargeted
<1>1. Len(p) \in Nat /\ DOMAIN p = 1..Len(p)
  BY LenProperties
<1>2. \A i \in DOMAIN p : i \in Nat /\ p[i] \in Clients
  BY <1>1, ElementOfSeq
<1> QED
  BY <1>1, <1>2 DEF Clients

\* The least loaded client exists.
LEMMA LeastLoadedIn ==
    ASSUME NEW p \in Seq(Clients), NEW S \in SUBSET DOMAIN p, S # {}
    PROVE  LeastLoaded(p, S) \in S
<1>1. \A i \in S : i \in Nat /\ p[i].count \in Nat
  BY ClientType
<1> DEFINE f == [i \in S |-> p[i].count]
<1>2. PICK m \in S : \A j \in S : p[m].count <= p[j].count
  <2>1. \A i \in S : f[i] \in Nat
    BY <1>1
  <2>2. \E m \in S : \A j \in S : f[m] <= f[j]
    <3> HIDE DEF f
    <3> QED
      BY <2>1, LeastValue
  <2> QED
    BY <2>2
<1> DEFINE T == {i \in S : p[i].count = p[m].count}
<1>3. T \in SUBSET Nat /\ T # {}
  BY <1>1
<1>4. PICK i \in T : \A j \in T : i <= j
  <2> HIDE DEF T
  <2> QED
    BY <1>3, LeastNat
<1>5. /\ i \in S
      /\ \A j \in S : \/ p[i].count < p[j].count
                      \/ p[i].count = p[j].count /\ i <= j
  BY <1>1, <1>2, <1>4
<1> QED
  BY <1>5, Zenon DEF LeastLoaded

\* So does the fullest, when none has more than the limit.
LEMMA FullestIn ==
    ASSUME NEW p \in Seq(Clients), NEW S \in SUBSET DOMAIN p, S # {},
           \A i \in S : p[i].count <= Cap
    PROVE  Fullest(p, S) \in S
<1>1. /\ Cap \in Nat
      /\ \A i \in S : i \in Nat /\ p[i].count \in Nat /\ Cap - p[i].count \in Nat
  BY PoolsAssumption, ClientType
<1> DEFINE f == [i \in S |-> Cap - p[i].count]
<1>2. PICK m \in S : \A j \in S : p[m].count >= p[j].count
  <2>1. \A i \in S : f[i] = Cap - p[i].count
    OBVIOUS
  <2>2. \E m \in S : \A j \in S : f[m] <= f[j]
    <3> HIDE DEF f
    <3>1. \A i \in S : f[i] \in Nat
      BY <1>1, <2>1
    <3> QED
      BY <3>1, LeastValue
  <2>3. PICK m \in S : \A j \in S : f[m] <= f[j]
    BY <2>2
  <2>4. \A j \in S : Cap - p[m].count <= Cap - p[j].count
    BY <2>1, <2>3
  <2>5. ASSUME NEW j \in S PROVE p[m].count >= p[j].count
    <3>1. /\ Cap \in Nat /\ p[m].count \in Nat /\ p[j].count \in Nat
          /\ Cap - p[m].count <= Cap - p[j].count
      BY <1>1, <2>4
    <3> HIDE DEF f
    <3> QED
      BY <3>1
  <2> QED
    BY <2>5
<1> DEFINE T == {i \in S : p[i].count = p[m].count}
<1>3. T \in SUBSET Nat /\ T # {}
  BY <1>1
<1>4. PICK i \in T : \A j \in T : i <= j
  <2> HIDE DEF T
  <2> QED
    BY <1>3, LeastNat
<1>5. /\ i \in S
      /\ \A j \in S : \/ p[i].count > p[j].count
                      \/ p[i].count = p[j].count /\ i <= j
  BY <1>1, <1>2, <1>4
<1> QED
  BY <1>5, Zenon DEF Fullest

\* A filled pool f is a pool: the client i holds the new topics besides its own,
\* and the ids stay.
IsFilled(p, i, n, ts, f) ==
    /\ f \in Seq(Clients)
    /\ Len(f) = Len(p)
    /\ \A j \in DOMAIN p :
         /\ f[j].id = p[j].id
         /\ p[j].topics \subseteq f[j].topics
         /\ i # j => f[j].topics = p[j].topics
         /\ p[j].id # p[i].id => f[j].count = p[j].count
    /\ f[i].topics = p[i].topics \cup ts
    /\ f[i].count = p[i].count + n

LEMMA FilledType ==
    ASSUME NEW p \in Seq(Clients), NEW i \in DOMAIN p, NEW n \in Nat,
           NEW ts \in SUBSET Topics
    PROVE  IsFilled(p, i, n, ts, Filled(p, i, n, ts))
<1> DEFINE g(j) == IF p[j].id = p[i].id
                   THEN [p[j] EXCEPT !.count = p[i].count + n,
                            !.topics = IF i = j THEN @ \cup ts ELSE @]
                   ELSE p[j]
           q == [j \in 1..Len(p) |-> g(j)]
<1>1. /\ Len(p) \in Nat /\ DOMAIN p = 1..Len(p) /\ p[i].count + n \in Nat
      /\ \A j \in DOMAIN p : p[j] \in Clients /\ p[j].topics \subseteq Topics
  BY ClientType
<1>2. ASSUME NEW j \in DOMAIN p
      PROVE  /\ g(j) \in Clients
             /\ g(j).id = p[j].id
             /\ p[j].topics \subseteq g(j).topics
             /\ i # j => g(j).topics = p[j].topics
             /\ p[j].id # p[i].id => g(j).count = p[j].count
             /\ i = j => /\ g(j).topics = p[i].topics \cup ts
                        /\ g(j).count = p[i].count + n
  <2>1. p[j] \in Clients /\ p[i].count + n \in Nat /\ p[j].topics \cup ts \subseteq Topics
    BY <1>1
  <2> QED
    BY <2>1 DEF Clients
<1>3. q \in Seq(Clients) /\ Len(q) = Len(p)
  <2> HIDE DEF g
  <2>1. \A j \in 1..Len(p) : g(j) \in Clients
    BY <1>1, <1>2
  <2> QED
    BY <1>1, <2>1, IsASeq
<1>4. Filled(p, i, n, ts) = q
  BY <1>1 DEF Filled
<1>5. \A j \in DOMAIN p : q[j] = g(j)
  BY <1>1
<1> HIDE DEF q, g
<1>6. IsFilled(p, i, n, ts, q)
  BY <1>1, <1>2, <1>3, <1>5 DEF IsFilled
<1> QED
  BY <1>4, <1>6

\* A new client at the end of the pool.
LEMMA AppendedType ==
    ASSUME NEW p \in Seq(Clients), NEW id \in Nat, NEW n \in Nat,
           NEW ts \in SUBSET Topics
    PROVE  LET q == Append(p, Client(id, n, ts))
           IN  /\ q \in Seq(Clients) /\ Len(q) = Len(p) + 1
               /\ \A j \in DOMAIN p : q[j] = p[j]
               /\ q[Len(p) + 1].id = id /\ q[Len(p) + 1].count = n
               /\ q[Len(p) + 1].topics = ts
<1> DEFINE c == Client(id, n, ts)
<1>1. c \in Clients /\ c.id = id /\ c.count = n /\ c.topics = ts
  BY PoolsAssumption DEF Clients, Client
<1>3. DOMAIN p = 1..Len(p)
  BY ClientType
<1> HIDE DEF c
<1>4. /\ Append(p, c) \in Seq(Clients) /\ Len(Append(p, c)) = Len(p) + 1
      /\ \A j \in 1..Len(p) : Append(p, c)[j] = p[j]
      /\ Append(p, c)[Len(p) + 1] = c
  BY <1>1, AppendProperties
<1> QED
  BY <1>1, <1>3, <1>4 DEF c

-----------------------------------------------------------------------------
(* What a venue's pick does to the pool: Puts says it without the venue.    *)

\* q is p with the topics ts counted and put on a client below the limit, or
\* on a new one when there is none with place for k.
Puts(p, q, k, n, ts) ==
    \/ \E i \in Below(p, k) : q = Filled(p, i, n, ts)
    \/ /\ Below(p, k) = {}
       /\ \E id \in Nat : /\ venue \in {"okx", "bitget", "kucoin", "bybit"} => id = Len(p)
                          /\ q = Append(p, Client(id, n, ts))

\* The clients that have place are clients of the pool, with less than Cap.
LEMMA BelowType ==
    ASSUME NEW p \in Seq(Clients), NEW n \in Nat
    PROVE  /\ Below(p, n) \in SUBSET DOMAIN p
           /\ \A i \in Below(p, n) : p[i].count + n <= Cap /\ p[i].count <= Cap
<1>1. Below(p, n) \in SUBSET DOMAIN p
  BY DEF Below
<1>2. \A i \in Below(p, n) : p[i].count + n <= Cap /\ p[i].count \in Nat /\ Cap \in Nat
  BY <1>1, ClientType, PoolsAssumption DEF Below
<1> QED
  BY <1>1, <1>2

\* Every venue's pick is such a step.
LEMMA GetsPut ==
    ASSUME NEW p \in Seq(Clients), NEW n \in Nat, NEW ts \in SUBSET Topics
    PROVE  /\ venue = "kucoin" => Puts(p, GetKucoinClient(p, n, ts), n, n, ts)
           /\ venue = "okx" =>
                Puts(p, GetOkxClient(p, ts), 1, Cardinality(ts), ts)
           /\ venue = "bitget" =>
                Puts(p, GetBitgetClient(p, ts), 1, Cardinality(ts), ts)
           /\ Bybit => \A t \in Topics : Puts(p, GetBybitClient(p, t), 1, 1, {t})
<1>1. \A k \in Nat : Below(p, k) \in SUBSET DOMAIN p
  BY BelowType
<1>2. Len(p) \in Nat /\ Cardinality(ts) \in Nat
  BY ClientType, TopicsFinite
<1>3. \A k \in Nat : Below(p, k) # {} => LeastLoaded(p, Below(p, k)) \in Below(p, k)
  BY <1>1, LeastLoadedIn
<1>4. Below(p, 1) # {} => Fullest(p, Below(p, 1)) \in Below(p, 1)
  BY <1>1, BelowType, FullestIn
<1>5. ASSUME venue = "kucoin" PROVE Puts(p, GetKucoinClient(p, n, ts), n, n, ts)
  BY <1>2, <1>3, <1>5 DEF GetKucoinClient, Puts
<1>6. ASSUME venue = "okx" PROVE Puts(p, GetOkxClient(p, ts), 1, Cardinality(ts), ts)
  BY <1>2, <1>3, <1>6 DEF GetOkxClient, Puts
<1>7. ASSUME venue = "bitget"
      PROVE  Puts(p, GetBitgetClient(p, ts), 1, Cardinality(ts), ts)
  BY <1>2, <1>4, <1>7 DEF GetBitgetClient, Puts
<1>8. ASSUME Bybit, NEW t \in Topics PROVE Puts(p, GetBybitClient(p, t), 1, 1, {t})
  <2>1. NewBybitId(p) \in Nat /\ (venue = "bybit" => NewBybitId(p) = Len(p))
    BY <1>2, PoolsAssumption DEF NewBybitId
  <2>2. venue \in {"okx", "bitget", "kucoin", "bybit"} => venue = "bybit"
    BY <1>8 DEF Bybit
  <2> QED
    BY <1>3, <2>1, <2>2 DEF GetBybitClient, Puts
<1> QED
  BY <1>5, <1>6, <1>7, <1>8

\* Such a step loses no topic, and the topics ts are on a client after it.
LEMMA PutsType ==
    ASSUME NEW p \in Seq(Clients), NEW q, NEW k \in Nat, NEW n \in Nat,
           NEW ts \in SUBSET Topics, Puts(p, q, k, n, ts)
    PROVE  /\ q \in Seq(Clients) /\ DOMAIN p \subseteq DOMAIN q
           /\ \A j \in DOMAIN p : p[j].topics \subseteq q[j].topics
           /\ \E j \in DOMAIN q : ts \subseteq q[j].topics
<1>1. ASSUME NEW i \in Below(p, k), q = Filled(p, i, n, ts)
      PROVE  /\ q \in Seq(Clients) /\ DOMAIN p = DOMAIN q
             /\ \A j \in DOMAIN p : p[j].topics \subseteq q[j].topics
             /\ i \in DOMAIN q /\ ts \subseteq q[i].topics
  <2>1. i \in DOMAIN p
    BY DEF Below
  <2> DEFINE f == Filled(p, i, n, ts)
  <2> HIDE DEF f
  <2>2. /\ f \in Seq(Clients) /\ Len(f) = Len(p)
        /\ \A j \in DOMAIN p : p[j].topics \subseteq f[j].topics
        /\ f[i].topics = p[i].topics \cup ts
    <3>1. IsFilled(p, i, n, ts, f)
      BY <2>1, FilledType DEF f
    <3> QED
      BY <3>1 DEF IsFilled
  <2>3. DOMAIN p = DOMAIN f
    BY <2>2, ClientType
  <2>4. q = f
    BY <1>1 DEF f
  <2> QED
    BY <2>1, <2>2, <2>3, <2>4
<1>2. ASSUME NEW id \in Nat, q = Append(p, Client(id, n, ts))
      PROVE  /\ q \in Seq(Clients) /\ DOMAIN p \subseteq DOMAIN q
             /\ \A j \in DOMAIN p : p[j].topics \subseteq q[j].topics
             /\ Len(p) + 1 \in DOMAIN q /\ ts \subseteq q[Len(p) + 1].topics
  <2> DEFINE f == Append(p, Client(id, n, ts))
  <2>1. /\ f \in Seq(Clients) /\ Len(f) = Len(p) + 1
        /\ \A j \in DOMAIN p : f[j] = p[j]
        /\ f[Len(p) + 1].topics = ts
    BY AppendedType
  <2>4. q = f
    BY <1>2
  <2> HIDE DEF f
  <2>2. Len(p) \in Nat /\ DOMAIN p = 1..Len(p) /\ DOMAIN q = 1..(Len(p) + 1)
    BY <2>1, <2>4, ClientType
  <2>3. DOMAIN p \subseteq DOMAIN q /\ Len(p) + 1 \in DOMAIN q
    BY <2>2
  <2> QED
    BY <2>1, <2>3, <2>4
<1> QED
  BY <1>1, <1>2 DEF Puts

\* A pool of fresh clients.
LEMMA RecreatedType ==
    ASSUME NEW p \in Seq(Clients)
    PROVE  /\ Recreated(p) \in Seq(Clients) /\ Len(Recreated(p)) = Len(p)
           /\ \A i \in DOMAIN p : /\ Recreated(p)[i].id = p[i].id
                                  /\ Recreated(p)[i].count = 0
                                  /\ Recreated(p)[i].topics = {}
<1> DEFINE g(i) == [Client(p[i].id, 0, {}) EXCEPT !.tries = p[i].tries]
           q == [i \in 1..Len(p) |-> g(i)]
<1>1. /\ Len(p) \in Nat /\ DOMAIN p = 1..Len(p)
      /\ \A i \in DOMAIN p : p[i].id \in Nat /\ p[i].tries \in 0..MaxTargeted
  BY ClientType
<1>2. \A i \in DOMAIN p : /\ g(i) \in Clients /\ g(i).id = p[i].id
                          /\ g(i).count = 0 /\ g(i).topics = {}
  BY <1>1 DEF Clients, Client
<1>3. Recreated(p) = q
  BY <1>1 DEF Recreated
<1>4. \A i \in DOMAIN p : q[i] = g(i)
  BY <1>1
<1>5. q \in Seq(Clients) /\ Len(q) = Len(p)
  <2> HIDE DEF g
  <2>1. \A i \in 1..Len(p) : g(i) \in Clients
    BY <1>1, <1>2
  <2> QED
    BY <1>1, <2>1, IsASeq
<1> HIDE DEF g, q
<1> QED
  BY <1>1, <1>2, <1>3, <1>4, <1>5

\* A pool whose clients change in place.
LEMMA InPlaceType ==
    ASSUME NEW p \in Seq(Clients), NEW q, DOMAIN q = DOMAIN p,
           q = [i \in DOMAIN p |-> q[i]], \A i \in DOMAIN p : q[i] \in Clients
    PROVE  q \in Seq(Clients) /\ Len(q) = Len(p)
<1>1. Len(p) \in Nat /\ DOMAIN p = 1..Len(p)
  BY ClientType
<1> DEFINE g(i) == q[i]
           f == [i \in 1..Len(p) |-> g(i)]
<1>2. q = f
  BY <1>1
<1>3. \A i \in 1..Len(p) : g(i) \in Clients
  BY <1>1
<1>4. f \in Seq(Clients) /\ Len(f) = Len(p)
  <2> HIDE DEF g
  <2> QED
    BY <1>1, <1>3, IsASeq
<1> HIDE DEF f
<1> QED
  BY <1>2, <1>4

-----------------------------------------------------------------------------
(* The calls on the mutex.                                                  *)

HasTopic(js, t) == \E j \in DOMAIN js : t \in js[j].data
HasKind(js, k) == \E j \in DOMAIN js : js[j].kind = k

\* A call is added at the end.
LEMMA CallsAppend ==
    ASSUME NEW js \in Seq(Calls), NEW c \in Calls
    PROVE  /\ Append(js, c) \in Seq(Calls)
           /\ \A t : HasTopic(Append(js, c), t) <=> HasTopic(js, t) \/ t \in c.data
           /\ \A k : HasKind(Append(js, c), k) <=> HasKind(js, k) \/ c.kind = k
           /\ \A j \in DOMAIN Append(js, c) : Append(js, c)[j] = c \/ (j \in DOMAIN js /\ Append(js, c)[j] = js[j])
<1> DEFINE q == Append(js, c)
<1>1. /\ q \in Seq(Calls) /\ Len(q) = Len(js) + 1 /\ q # <<>>
      /\ \A i \in 1..Len(js) : q[i] = js[i]
      /\ q[Len(js) + 1] = c
  BY AppendProperties
<1> HIDE DEF q
<1>2. Len(js) \in Nat /\ DOMAIN js = 1..Len(js) /\ DOMAIN q = 1..Len(q)
  BY <1>1, LenProperties
<1>3. DOMAIN q = DOMAIN js \cup {Len(js) + 1}
  BY <1>1, <1>2
<1>4. \A j \in DOMAIN js : q[j] = js[j]
  BY <1>1, <1>2
<1>5. \A t : HasTopic(q, t) <=> HasTopic(js, t) \/ t \in c.data
  BY <1>1, <1>3, <1>4 DEF HasTopic
<1>6. \A k : HasKind(q, k) <=> HasKind(js, k) \/ c.kind = k
  BY <1>1, <1>3, <1>4 DEF HasKind
<1>7. \A j \in DOMAIN q : q[j] = c \/ (j \in DOMAIN js /\ q[j] = js[j])
  BY <1>1, <1>3, <1>4
<1> QED
  BY <1>1, <1>5, <1>6, <1>7 DEF q

\* A connect is added for rooms, if there are any.
LEMMA ConnectsAdded ==
    ASSUME NEW js \in Seq(Calls), NEW S \in SUBSET Topics
    PROVE  /\ js \o Connects(S) \in Seq(Calls)
           /\ \A t : HasTopic(js \o Connects(S), t) <=> HasTopic(js, t) \/ t \in S
           /\ \A k : HasKind(js, k) => HasKind(js \o Connects(S), k)
<1>1. CASE S = {}
  <2>1. js \o Connects(S) = js
    BY <1>1, ConcatEmptySeq DEF Connects
  <2> QED
    BY <1>1, <2>1
<1>2. CASE S # {}
  <2> DEFINE c == Job("connect", S)
  <2>1. c \in Calls /\ c.data = S
    BY DEF Calls, Job
  <2>2. js \o Connects(S) = Append(js, c)
    <3>1. Connects(S) = <<c>>
      BY <1>2 DEF Connects
    <3> HIDE DEF c
    <3> QED
      BY <2>1, <3>1, AppendIsConcat
  <2> HIDE DEF c
  <2> QED
    BY <2>1, <2>2, CallsAppend
<1> QED
  BY <1>1, <1>2

\* The head of the calls and the others.
LEMMA CallsTail ==
    ASSUME NEW js \in Seq(Calls), js # <<>>
    PROVE  /\ Head(js) \in Calls /\ Head(js).data \subseteq Topics
           /\ Head(js).data \in SUBSET Topics
           /\ Tail(js) \in Seq(Calls)
           /\ \A t : HasTopic(js, t) <=> HasTopic(Tail(js), t) \/ t \in Head(js).data
           /\ \A k : HasKind(js, k) <=> HasKind(Tail(js), k) \/ Head(js).kind = k
           /\ 1 \in DOMAIN js /\ js[1] = Head(js)
           /\ \A j \in DOMAIN Tail(js) : j + 1 \in DOMAIN js /\ Tail(js)[j] = js[j + 1]
<1> DEFINE q == Tail(js)
<1>1. /\ Head(js) \in Calls /\ q \in Seq(Calls) /\ Len(q) = Len(js) - 1
      /\ \A i \in 1..Len(q) : q[i] = js[i + 1]
      /\ Head(js) = js[1]
  BY HeadTailProperties
<1> HIDE DEF q
<1>2. /\ Len(js) \in Nat /\ DOMAIN js = 1..Len(js) /\ DOMAIN q = 1..Len(q)
      /\ Len(q) \in Nat
  BY <1>1, LenProperties
<1>3. /\ 1 \in DOMAIN js /\ \A j \in DOMAIN q : j + 1 \in DOMAIN js
      /\ \A j \in DOMAIN js : j = 1 \/ (j - 1 \in DOMAIN q /\ j = (j - 1) + 1)
  BY <1>1, <1>2
<1>4. /\ \A j \in DOMAIN q : q[j] = js[j + 1]
      /\ \A j \in DOMAIN js : j = 1 \/ (j - 1 \in DOMAIN q /\ js[j] = q[j - 1])
  BY <1>1, <1>2, <1>3
<1>5. \A t : HasTopic(js, t) <=> HasTopic(q, t) \/ t \in Head(js).data
  BY <1>1, <1>3, <1>4 DEF HasTopic
<1>6. \A k : HasKind(js, k) <=> HasKind(q, k) \/ Head(js).kind = k
  BY <1>1, <1>3, <1>4 DEF HasKind
<1>7. Head(js).data \in SUBSET Topics
  BY <1>1 DEF Calls
<1> QED
  BY <1>1, <1>3, <1>4, <1>5, <1>6, <1>7 DEF q

\* The head goes on with part of its work, or is done.
LEMMA GoesOnType ==
    ASSUME jobs \in Seq(Calls), jobs # <<>>, NEW S \in SUBSET Topics,
           NEW kind \in {"connect", "flush", "subscribe"}
    PROVE  /\ GoesOn(kind, S) \in Seq(Calls)
           /\ \A t : HasTopic(GoesOn(kind, S), t) <=> HasTopic(Tail(jobs), t) \/ t \in S
           /\ \A k : HasKind(Tail(jobs), k) => HasKind(GoesOn(kind, S), k)
           /\ \A j \in DOMAIN GoesOn(kind, S) :
                \/ S # {} /\ j = 1 /\ GoesOn(kind, S)[1] = Job(kind, S)
                \/ S # {} /\ j - 1 \in DOMAIN Tail(jobs) /\ GoesOn(kind, S)[j] = Tail(jobs)[j - 1]
                \/ S = {} /\ j \in DOMAIN Tail(jobs) /\ GoesOn(kind, S)[j] = Tail(jobs)[j]
<1>1. Tail(jobs) \in Seq(Calls)
  BY CallsTail
<1>2. CASE S = {}
  BY <1>1, <1>2 DEF GoesOn
<1>3. CASE S # {}
  <2> DEFINE c == Job(kind, S)
             r == Tail(jobs)
             q == <<c>> \o r
  <2>1. c \in Calls /\ c.data = S
    BY DEF Calls, Job
  <2>2. GoesOn(kind, S) = q
    BY <1>3 DEF GoesOn
  <2> HIDE DEF c, r
  <2>3. /\ <<c>> \in Seq(Calls) /\ r \in Seq(Calls) /\ Len(<<c>>) = 1 /\ <<c>>[1] = c
    BY <1>1, <2>1 DEF r
  <2>4. /\ q \in Seq(Calls) /\ Len(q) = Len(<<c>>) + Len(r)
        /\ \A i \in 1..Len(<<c>>) + Len(r) :
             q[i] = IF i <= Len(<<c>>) THEN <<c>>[i] ELSE r[i - Len(<<c>>)]
    BY <2>3, ConcatProperties, Zenon
  <2>5. Len(r) \in Nat /\ DOMAIN r = 1..Len(r) /\ DOMAIN q = 1..(Len(r) + 1)
    BY <2>3, <2>4, LenProperties
  <2>6. q[1] = c /\ \A i \in 1..(Len(r) + 1) : i # 1 => q[i] = r[i - 1]
    BY <2>3, <2>4, <2>5
  <2> HIDE DEF q
  <2>7. /\ 1 \in DOMAIN q
        /\ \A i \in DOMAIN q : i = 1 \/ (i - 1 \in DOMAIN r /\ q[i] = r[i - 1])
        /\ \A i \in DOMAIN r : i + 1 \in DOMAIN q /\ q[i + 1] = r[i]
    BY <2>5, <2>6
  <2>8. \A t : HasTopic(q, t) <=> HasTopic(r, t) \/ t \in S
    BY <2>1, <2>6, <2>7 DEF HasTopic
  <2>9. \A k : HasKind(r, k) => HasKind(q, k)
    BY <2>7 DEF HasKind
  <2> QED
    BY <1>3, <2>2, <2>4, <2>6, <2>7, <2>8, <2>9 DEF r, c
<1> QED
  BY <1>2, <1>3

-----------------------------------------------------------------------------
(* The init loops.                                                          *)

Loops == [market : Markets, cycle : BOOLEAN]

\* A loop ends, goes on with the next market, or another one starts.
LEMMA InitsType ==
    ASSUME inits \in Seq(Loops), NEW i \in DOMAIN inits
    PROVE  /\ Without(inits, i) \in Seq(Loops)
           /\ ~Last(i) => NextMarket(i) \in Seq(Loops)
           /\ inits[i].market \in Markets /\ inits[i].cycle \in BOOLEAN
<1>1. /\ Len(inits) \in Nat /\ DOMAIN inits = 1..Len(inits)
      /\ i \in 1..Len(inits) /\ inits[i] \in Loops
  BY LenProperties, ElementOfSeq
<1>2. Without(inits, i) \in Seq(Loops)
  <2>1. SubSeq(inits, 1, i - 1) \in Seq(Loops)
    BY <1>1, SubSeqProperties
  <2>2. SubSeq(inits, i + 1, Len(inits)) \in Seq(Loops)
    BY <1>1, SubSeqProperties
  <2> QED
    BY <2>1, <2>2, ConcatProperties DEF Without
<1>3. ASSUME ~Last(i) PROVE NextMarket(i) \in Seq(Loops)
  <2> DEFINE l == [inits[i] EXCEPT !.market = @ + 1]
  <2>1. l \in Loops
    <3>1. inits[i].market \in 1..NMarkets /\ inits[i].market # NMarkets
      BY <1>1, <1>3 DEF Loops, Markets, Last
    <3>2. inits[i].market + 1 \in Markets
      BY <3>1, PoolsAssumption DEF Markets
    <3> QED
      BY <1>1, <3>2 DEF Loops
  <2>2. NextMarket(i) = [inits EXCEPT ![i] = l]
    BY <1>1 DEF NextMarket
  <2> HIDE DEF l
  <2> QED
    BY <1>1, <2>1, <2>2, ExceptSeq
<1>4. inits[i].market \in Markets /\ inits[i].cycle \in BOOLEAN
  BY <1>1 DEF Loops
<1> QED
  BY <1>2, <1>3, <1>4

\* A new loop.
LEMMA InitsAppend ==
    ASSUME NEW s \in Seq(Loops), NEW b \in BOOLEAN
    PROVE  Append(s, [market |-> 1, cycle |-> b]) \in Seq(Loops)
<1> DEFINE l == [market |-> 1, cycle |-> b]
<1>1. l \in Loops
  BY PoolsAssumption DEF Loops, Markets
<1> HIDE DEF l
<1>2. Append(s, l) \in Seq(Loops)
  BY <1>1, AppendProperties
<1> QED
  BY <1>2 DEF l

-----------------------------------------------------------------------------
(* The invariant.                                                           *)

Plain(S) == \A t \in S : ~t.echo

\* What the steps rely on besides the types: a price worker asks for no
\* topics, Binance has no init loops, only OKX stores second names, a symbol
\* on the list of a v3 socket is subscribed there, and a flush brings no rooms
\* of its own.
Shape ==
    /\ role = "price" => rooms = {} /\ queue = {} /\ \A t : ~HasTopic(jobs, t)
    /\ venue = "binance" => inits = <<>>
    /\ ended \/ errors < MaxErrors
    /\ venue # "okx" => /\ Plain(rooms) /\ Plain(queue)
                        /\ \A t : HasTopic(jobs, t) => ~t.echo
    /\ \A r \in channels : Room(r) \in special
    /\ \A j \in DOMAIN jobs : jobs[j].kind = "flush" => jobs[j].data = {}

Inv == TypeOK /\ Shape

\* A client of the pool p carries the topic.
OnPool(p, t) == \E i \in DOMAIN p : t \in p[i].topics

\* NoDeadRoom, and also after the connector has given up.
Held(t) == Served(t) \/ Coming(t) \/ Abandoned(t)
Safe == \A t \in rooms : ~t.echo => Held(t)

\* Bitget does not stream these rooms.
Unserved == Delisted \cup Streamless

\* The parts of Held, for two successive states.
LEMMA HeldDef ==
    \A t : Held(t) <=>
        \/ t \in special \/ OnPool(pool, t)
        \/ HasTopic(jobs, t)
        \/ t \in queue /\ (timer \/ HasKind(jobs, "flush"))
        \/ venue = "binance" /\ (timer \/ HasKind(jobs, "connect"))
        \/ Bybit /\ restarting
        \/ t \in lost \/ (venue = "bitget" /\ t.room \in Unserved)
  BY DEF Held, Served, On, Coming, InJob, Queued, Waits, Abandoned, Unserved,
         OnPool, HasTopic, HasKind

LEMMA HeldNext ==
    \A t : Held(t)' <=>
        \/ t \in special' \/ OnPool(pool', t)
        \/ HasTopic(jobs', t)
        \/ t \in queue' /\ (timer' \/ HasKind(jobs', "flush"))
        \/ venue' = "binance" /\ (timer' \/ HasKind(jobs', "connect"))
        \/ Bybit' /\ restarting'
        \/ t \in lost' \/ (venue' = "bitget" /\ t.room \in Unserved)
  BY DEF Held, Served, On, Coming, InJob, Queued, Waits, Abandoned, Unserved,
         OnPool, HasTopic, HasKind

\* q carries all that p carries.
Keeps(p, q) == \A t : OnPool(p, t) => OnPool(q, t)

\* The head of the calls moves the topics c to where they are held, and goes
\* on with the others.
MovesOn(kind, c) ==
    /\ kind \in {"connect", "subscribe"} /\ Holds(kind)
    /\ venue = "binance" => kind = "subscribe"
    /\ c \in SUBSET Head(jobs).data
    /\ jobs' = GoesOn(kind, Head(jobs).data \ c)
    /\ Keeps(pool, pool')
    /\ special \subseteq special' /\ queue \subseteq queue'
    /\ timer => timer'
    /\ lost \subseteq lost' /\ venue' = venue /\ restarting' = restarting
    /\ \A t \in c : \/ t \in special' \/ OnPool(pool', t) \/ t \in lost'
                    \/ t \in queue' /\ timer'
                    \/ venue = "bitget" /\ t.room \in Unserved

LEMMA HeadMoves ==
    ASSUME Inv, NEW kind, NEW c, MovesOn(kind, c)
    PROVE  /\ jobs' \in Seq(Calls)
           /\ \A t : HasTopic(jobs', t) => HasTopic(jobs, t)
           /\ \A j \in DOMAIN jobs' : jobs'[j].kind = "flush" => jobs'[j].data = {}
           /\ \A t : Held(t) => Held(t)'
<1>1. jobs \in Seq(Calls) /\ jobs # <<>> /\ Head(jobs).kind = kind
  BY DEF Inv, TypeOK, Calls, Holds, MovesOn
<1>2. /\ Head(jobs).data \in SUBSET Topics
      /\ \A t : HasTopic(jobs, t) <=> HasTopic(Tail(jobs), t) \/ t \in Head(jobs).data
      /\ \A k : HasKind(jobs, k) <=> HasKind(Tail(jobs), k) \/ kind = k
      /\ \A j \in DOMAIN Tail(jobs) : j + 1 \in DOMAIN jobs /\ Tail(jobs)[j] = jobs[j + 1]
  BY <1>1, CallsTail
<1> DEFINE S == Head(jobs).data \ c
<1>3. /\ S \in SUBSET Topics
      /\ \A t \in Head(jobs).data : t \in c \/ t \in S
      /\ \A t \in S : t \in Head(jobs).data
      /\ kind \in {"connect", "flush", "subscribe"} /\ kind # "flush"
      /\ jobs' = GoesOn(kind, S)
  BY <1>2 DEF MovesOn
<1> HIDE DEF S
<1> DEFINE g == GoesOn(kind, S)
<1>4. /\ g \in Seq(Calls)
      /\ \A t : HasTopic(g, t) <=> HasTopic(Tail(jobs), t) \/ t \in S
      /\ \A k : HasKind(Tail(jobs), k) => HasKind(g, k)
      /\ \A j \in DOMAIN g :
           \/ S # {} /\ j = 1 /\ g[1] = Job(kind, S)
           \/ S # {} /\ j - 1 \in DOMAIN Tail(jobs) /\ g[j] = Tail(jobs)[j - 1]
           \/ S = {} /\ j \in DOMAIN Tail(jobs) /\ g[j] = Tail(jobs)[j]
  BY <1>1, <1>3, GoesOnType, SMTT(60)
<1> HIDE DEF g
<1>5. /\ jobs' \in Seq(Calls)
      /\ \A t : HasTopic(jobs', t) <=> HasTopic(Tail(jobs), t) \/ t \in S
      /\ \A k : HasKind(Tail(jobs), k) => HasKind(jobs', k)
      /\ \A j \in DOMAIN jobs' :
           \/ S # {} /\ j = 1 /\ jobs'[1] = Job(kind, S)
           \/ S # {} /\ j - 1 \in DOMAIN Tail(jobs) /\ jobs'[j] = Tail(jobs)[j - 1]
           \/ S = {} /\ j \in DOMAIN Tail(jobs) /\ jobs'[j] = Tail(jobs)[j]
  <2>1. jobs' = g
    BY <1>3 DEF g
  <2> QED
    BY <1>4, <2>1
<1>6. \A t : HasTopic(jobs', t) => HasTopic(jobs, t)
  BY <1>2, <1>3, <1>5
<1>7. \A j \in DOMAIN jobs' : jobs'[j].kind = "flush" => jobs'[j].data = {}
  <2>1. \A j \in DOMAIN Tail(jobs) : Tail(jobs)[j].kind = "flush" => Tail(jobs)[j].data = {}
    BY <1>2 DEF Inv, Shape
  <2>2. Job(kind, S).kind # "flush"
    BY <1>3 DEF Job
  <2> QED
    BY <1>5, <2>1, <2>2
<1>8. ASSUME NEW t, Held(t) PROVE Held(t)'
  <2>1. Bybit' = Bybit
    BY DEF Bybit, MovesOn
  <2>2. HasTopic(jobs, t) => HasTopic(jobs', t) \/ t \in c
    BY <1>2, <1>3, <1>5
  <2>3. HasKind(jobs, "flush") => HasKind(jobs', "flush")
    BY <1>2, <1>3, <1>5
  <2>4. venue = "binance" => (HasKind(jobs, "connect") => HasKind(jobs', "connect"))
    BY <1>2, <1>5 DEF MovesOn
  <2>5. OnPool(pool, t) => OnPool(pool', t)
    BY DEF Keeps, MovesOn
  <2> QED
    BY <1>8, <2>1, <2>2, <2>3, <2>4, <2>5, HeldDef, HeldNext DEF MovesOn
<1> QED
  BY <1>5, <1>6, <1>7, <1>8

-----------------------------------------------------------------------------
(* The steps of the call that holds the mutex.                              *)

\* What a pick carries, and what a new socket carries.
LEMMA PutsCarries ==
    ASSUME NEW p \in Seq(Clients), NEW q, NEW k \in Nat, NEW n \in Nat,
           NEW ts \in SUBSET Topics, Puts(p, q, k, n, ts)
    PROVE  q \in Seq(Clients) /\ Keeps(p, q) /\ \A t \in ts : OnPool(q, t)
  BY PutsType DEF Keeps, OnPool

LEMMA AppendedCarries ==
    ASSUME NEW p \in Seq(Clients), NEW id \in Nat, NEW n \in Nat,
           NEW ts \in SUBSET Topics
    PROVE  LET q == Append(p, Client(id, n, ts))
           IN  q \in Seq(Clients) /\ Keeps(p, q) /\ \A t \in ts : OnPool(q, t)
<1> DEFINE q == Append(p, Client(id, n, ts))
<1>1. /\ q \in Seq(Clients) /\ Len(q) = Len(p) + 1
      /\ \A j \in DOMAIN p : q[j] = p[j]
      /\ q[Len(p) + 1].topics = ts
  BY AppendedType
<1> HIDE DEF q
<1>2. /\ Len(p) \in Nat /\ DOMAIN p = 1..Len(p) /\ DOMAIN q = 1..(Len(p) + 1)
  BY <1>1, ClientType
<1>3. DOMAIN p \subseteq DOMAIN q /\ Len(p) + 1 \in DOMAIN q
  BY <1>2
<1>4. Keeps(p, q)
  BY <1>1, <1>3 DEF Keeps, OnPool
<1>5. \A t \in ts : OnPool(q, t)
  BY <1>1, <1>3 DEF OnPool
<1> QED
  BY <1>1, <1>4, <1>5 DEF q

\* The call that holds the mutex.
LEMMA HeadType ==
    ASSUME Inv, NEW kind, Holds(kind)
    PROVE  /\ jobs \in Seq(Calls) /\ jobs # <<>> /\ pool \in Seq(Clients)
           /\ Head(jobs).data \in SUBSET Topics
<1>1. jobs \in Seq(Calls) /\ jobs # <<>> /\ pool \in Seq(Clients)
  BY DEF Inv, TypeOK, Calls, Clients, Holds
<1> QED
  BY <1>1, CallsTail

\* A subscribe or a dial.
LEMMA HeadStep ==
    ASSUME Inv, NEW kind \in {"connect", "subscribe"}, Holds(kind),
           venue = "binance" => kind = "subscribe",
           NEW c \in SUBSET Head(jobs).data,
           jobs' = GoesOn(kind, Head(jobs).data \ c),
           pool' \in Seq(Clients), Keeps(pool, pool'),
           lost' \subseteq Topics, lost \subseteq lost', faults' \in 0..MaxFaults,
           \A t \in c : OnPool(pool', t) \/ t \in lost',
           UNCHANGED <<venue, role, rooms, queue, timer, execute, special,
                       channels, tickVars, targeted, errors, ended>>
    PROVE  Inv' /\ (Safe => Safe')
<1>1. /\ jobs' \in Seq(Calls)
      /\ \A t : HasTopic(jobs', t) => HasTopic(jobs, t)
      /\ \A j \in DOMAIN jobs' : jobs'[j].kind = "flush" => jobs'[j].data = {}
      /\ \A t : Held(t) => Held(t)'
  <2>1. MovesOn(kind, c)
    BY DEF MovesOn, tickVars
  <2> QED
    BY <2>1, HeadMoves
<1>2. TypeOK'
  BY <1>1 DEF Inv, TypeOK, Calls, Clients, tickVars
<1>3. Shape'
  BY <1>1 DEF Inv, Shape, tickVars
<1>4. Safe => Safe'
  BY <1>1 DEF Safe
<1> QED
  BY <1>2, <1>3, <1>4 DEF Inv

\* Binance dials the next chunk.
LEMMA BinanceDialsKeeps ==
    ASSUME Inv, BinanceDials
    PROVE  Inv' /\ (Safe => Safe')
<1> DEFINE c == NextOf(Head(jobs).data, Batch)
<1>1. /\ venue = "binance" /\ Holds("subscribe")
      /\ pool' = Append(pool, Client(Len(pool), Cardinality(c), c))
      /\ jobs' = GoesOn("subscribe", Head(jobs).data \ c)
      /\ UNCHANGED <<venue, role, rooms, queue, timer, execute, special,
                     channels, lost, tickVars, failVars>>
  BY DEF BinanceDials
<1>2. /\ jobs \in Seq(Calls) /\ jobs # <<>> /\ pool \in Seq(Clients)
      /\ Head(jobs).data \in SUBSET Topics
  BY <1>1, HeadType
<1>3. c \in SUBSET Head(jobs).data
  BY <1>2, NextOfType, PoolsAssumption
<1> HIDE DEF c
<1>4. c \in SUBSET Topics /\ Cardinality(c) \in Nat /\ Len(pool) \in Nat
  BY <1>2, <1>3, TopicsFinite, ClientType
<1>5. pool' \in Seq(Clients) /\ Keeps(pool, pool') /\ \A t \in c : OnPool(pool', t)
  BY <1>1, <1>2, <1>4, AppendedCarries
<1>6. lost' \subseteq Topics /\ lost \subseteq lost' /\ faults' \in 0..MaxFaults
  BY <1>1 DEF Inv, TypeOK, failVars
<1>7. UNCHANGED <<venue, role, rooms, queue, timer, execute, special,
                  channels, tickVars, targeted, errors, ended>>
  BY <1>1 DEF failVars
<1> QED
  BY <1>1, <1>3, <1>5, <1>6, <1>7, HeadStep

\* Bybit puts a topic on a client.
LEMMA BybitConnectsKeeps ==
    ASSUME Inv, BybitConnects
    PROVE  Inv' /\ (Safe => Safe')
<1>1. PICK t \in Head(jobs).data :
        /\ pool' = GetBybitClient(pool, t)
        /\ jobs' = GoesOn("connect", Head(jobs).data \ {t})
  BY DEF BybitConnects
<1>2. /\ Bybit /\ Holds("connect")
      /\ UNCHANGED <<venue, role, rooms, queue, timer, execute, special,
                     channels, lost, tickVars, failVars>>
  BY DEF BybitConnects
<1>3. /\ jobs \in Seq(Calls) /\ jobs # <<>> /\ pool \in Seq(Clients)
      /\ Head(jobs).data \in SUBSET Topics
  BY <1>2, HeadType
<1>4. t \in Topics /\ {t} \in SUBSET Topics /\ {t} \in SUBSET Head(jobs).data
  BY <1>3
<1>5. Puts(pool, pool', 1, 1, {t})
  <2>1. {} \in SUBSET Topics
    OBVIOUS
  <2>2. \A x \in Topics : Puts(pool, GetBybitClient(pool, x), 1, 1, {x})
    BY <1>2, <1>3, <2>1, GetsPut
  <2> QED
    BY <1>1, <1>4, <2>2
<1>6. pool' \in Seq(Clients) /\ Keeps(pool, pool') /\ \A x \in {t} : OnPool(pool', x)
  BY <1>3, <1>4, <1>5, PutsCarries
<1>7. /\ lost' \subseteq Topics /\ lost \subseteq lost' /\ faults' \in 0..MaxFaults
      /\ venue # "binance"
  BY <1>2 DEF Inv, TypeOK, failVars, Bybit
<1>8. UNCHANGED <<venue, role, rooms, queue, timer, execute, special,
                  channels, tickVars, targeted, errors, ended>>
  BY <1>2 DEF failVars
<1> QED
  BY <1>1, <1>2, <1>4, <1>6, <1>7, <1>8, HeadStep

\* OKX, Bitget and KuCoin put a chunk on a client.
LEMMA SubscribesKeeps ==
    ASSUME Inv, OkxSubscribes \/ BitgetSubscribes \/ KucoinSubscribes
    PROVE  Inv' /\ (Safe => Safe')
<1>1. Holds("subscribe")
  BY DEF OkxSubscribes, BitgetSubscribes, KucoinSubscribes
<1>2. /\ jobs \in Seq(Calls) /\ jobs # <<>> /\ pool \in Seq(Clients)
      /\ Head(jobs).data \in SUBSET Topics
  BY <1>1, HeadType
<1>3. \A n \in Nat : /\ NextOf(Head(jobs).data, n) \in SUBSET Head(jobs).data
                     /\ NextOf(Head(jobs).data, n) \in SUBSET Topics
                     /\ Cardinality(NextOf(Head(jobs).data, n)) \in Nat
  BY <1>2, NextOfType, TopicsFinite
<1>4. Cap \in Nat /\ Batch \in Nat
  BY PoolsAssumption
<1>5. PICK n \in Nat :
        /\ jobs' = GoesOn("subscribe", Head(jobs).data \ NextOf(Head(jobs).data, n))
        /\ \/ venue = "okx" /\ pool' = GetOkxClient(pool, NextOf(Head(jobs).data, n))
           \/ venue = "bitget" /\ pool' = GetBitgetClient(pool, NextOf(Head(jobs).data, n))
           \/ /\ venue = "kucoin"
              /\ pool' = GetKucoinClient(pool, Cardinality(NextOf(Head(jobs).data, n)),
                                         NextOf(Head(jobs).data, n))
  BY <1>4 DEF OkxSubscribes, BitgetSubscribes, KucoinSubscribes
<1> DEFINE c == NextOf(Head(jobs).data, n)
<1>6. c \in SUBSET Head(jobs).data /\ c \in SUBSET Topics /\ Cardinality(c) \in Nat
  BY <1>3
<1> HIDE DEF c
<1>7. PICK k \in Nat : Puts(pool, pool', k, Cardinality(c), c)
  BY <1>2, <1>5, <1>6, GetsPut DEF c
<1>8. pool' \in Seq(Clients) /\ Keeps(pool, pool') /\ \A x \in c : OnPool(pool', x)
  BY <1>2, <1>6, <1>7, PutsCarries
<1>9. UNCHANGED <<venue, role, rooms, queue, timer, execute, special,
                  channels, lost, tickVars, targeted, errors, ended, faults>>
  BY DEF OkxSubscribes, BitgetSubscribes, KucoinSubscribes, failVars
<1>10. /\ lost' \subseteq Topics /\ lost \subseteq lost' /\ faults' \in 0..MaxFaults
       /\ venue # "binance" /\ jobs' = GoesOn("subscribe", Head(jobs).data \ c)
  BY <1>5, <1>9 DEF Inv, TypeOK, c
<1> QED
  BY <1>1, <1>6, <1>8, <1>9, <1>10, HeadStep

\* KuCoin counts a chunk whose subscribe fails, and loses it.
LEMMA KucoinSubscribeFailsKeeps ==
    ASSUME Inv, KucoinSubscribeFails
    PROVE  Inv' /\ (Safe => Safe')
<1> DEFINE c == NextOf(Head(jobs).data, Batch)
<1>1. /\ venue = "kucoin" /\ Holds("subscribe") /\ faults < MaxFaults
      /\ faults' = faults + 1
      /\ pool' = GetKucoinClient(pool, Cardinality(c), {})
      /\ lost' = lost \cup c
      /\ jobs' = GoesOn("subscribe", Head(jobs).data \ c)
      /\ UNCHANGED <<venue, role, rooms, queue, timer, execute, special,
                     channels, tickVars, targeted, errors, ended>>
  BY DEF KucoinSubscribeFails
<1>2. /\ jobs \in Seq(Calls) /\ jobs # <<>> /\ pool \in Seq(Clients)
      /\ Head(jobs).data \in SUBSET Topics
  BY <1>1, HeadType
<1>3. c \in SUBSET Head(jobs).data /\ c \in SUBSET Topics /\ Cardinality(c) \in Nat
  BY <1>2, NextOfType, PoolsAssumption, TopicsFinite
<1> HIDE DEF c
<1>4. Puts(pool, pool', Cardinality(c), Cardinality(c), {})
  BY <1>1, <1>2, <1>3, GetsPut
<1>5. pool' \in Seq(Clients) /\ Keeps(pool, pool')
  <2>1. {} \in SUBSET Topics
    OBVIOUS
  <2> QED
    BY <1>2, <1>3, <1>4, <2>1, PutsCarries
<1>6. /\ lost' \subseteq Topics /\ lost \subseteq lost' /\ faults' \in 0..MaxFaults
      /\ \A t \in c : t \in lost'
  BY <1>1, <1>3, PoolsAssumption DEF Inv, TypeOK
<1> QED
  BY <1>1, <1>3, <1>5, <1>6, HeadStep

\* Binance: the timer is set, or all rooms are to be dialled.
LEMMA BinanceConnectKeeps ==
    ASSUME Inv, BinanceConnect
    PROVE  Inv' /\ (Safe => Safe')
<1>1. /\ venue = "binance" /\ Holds("connect")
      /\ UNCHANGED <<venue, role, rooms, queue, special, channels, tickVars, failVars>>
  BY DEF BinanceConnect
<1>2. /\ jobs \in Seq(Calls) /\ jobs # <<>> /\ rooms \in SUBSET Topics
      /\ Tail(jobs) \in Seq(Calls)
      /\ \A t : HasTopic(Tail(jobs), t) => HasTopic(jobs, t)
      /\ \A j \in DOMAIN Tail(jobs) : j + 1 \in DOMAIN jobs /\ Tail(jobs)[j] = jobs[j + 1]
  <2>1. jobs \in Seq(Calls) /\ jobs # <<>> /\ rooms \in SUBSET Topics
    BY <1>1, HeadType DEF Inv, TypeOK
  <2> QED
    BY <2>1, CallsTail
<1>3. \A j \in DOMAIN Tail(jobs) : Tail(jobs)[j].kind = "flush" => Tail(jobs)[j].data = {}
  BY <1>2 DEF Inv, Shape
<1>4. CASE ~execute
  <2>1. /\ timer' = TRUE /\ jobs' = Tail(jobs) /\ UNCHANGED <<execute, pool, lost>>
    BY <1>4 DEF BinanceConnect, BinanceDebounce
  <2>2. TypeOK'
    BY <1>1, <1>2, <2>1 DEF Inv, TypeOK, Calls, tickVars, failVars
  <2>3. Shape'
    BY <1>1, <1>2, <1>3, <2>1 DEF Inv, Shape, tickVars, failVars
  <2>4. \A t : Held(t)'
    BY <1>1, <2>1, HeldNext
  <2> QED
    BY <2>2, <2>3, <2>4 DEF Inv, Safe
<1>5. CASE execute
  <2>1. /\ execute' = FALSE /\ pool' = <<>> /\ lost' = {}
        /\ jobs' = GoesOn("subscribe", rooms) /\ UNCHANGED timer
    BY <1>5 DEF BinanceConnect, BinanceRedial
  <2> DEFINE g == GoesOn("subscribe", rooms)
  <2>2. /\ g \in Seq(Calls)
        /\ \A t : HasTopic(g, t) <=> HasTopic(Tail(jobs), t) \/ t \in rooms
        /\ \A j \in DOMAIN g :
             \/ j = 1 /\ g[1] = Job("subscribe", rooms)
             \/ j - 1 \in DOMAIN Tail(jobs) /\ g[j] = Tail(jobs)[j - 1]
             \/ j \in DOMAIN Tail(jobs) /\ g[j] = Tail(jobs)[j]
    BY <1>2, GoesOnType
  <2> HIDE DEF g
  <2>3. jobs' = g
    BY <2>1 DEF g
  <2>4. \A j \in DOMAIN jobs' : jobs'[j].kind = "flush" => jobs'[j].data = {}
    <3>1. Job("subscribe", rooms).kind # "flush"
      BY DEF Job
    <3> QED
      BY <1>3, <2>2, <2>3, <3>1
  <2>5. TypeOK'
    <3>1. pool' \in Seq(Clients)
      BY <2>1
    <3> QED
      BY <1>1, <2>1, <2>2, <2>3, <3>1 DEF Inv, TypeOK, Calls, Clients, tickVars, failVars
  <2>6. Shape'
    <3>1. Plain(rooms) /\ \A t : HasTopic(jobs', t) => ~t.echo
      BY <1>1, <1>2, <2>2, <2>3 DEF Inv, Shape, Plain
    <3>2. role = "price" => rooms' = {} /\ queue' = {} /\ \A t : ~HasTopic(jobs', t)
      BY <1>1, <1>2, <2>2, <2>3 DEF Inv, Shape
    <3> QED
      BY <1>1, <2>1, <2>4, <3>1, <3>2 DEF Inv, Shape, tickVars, failVars
  <2>7. \A t \in rooms : HasTopic(jobs', t)
    BY <2>2, <2>3
  <2>8. Safe'
    BY <1>1, <2>7, HeldNext DEF Safe
  <2> QED
    BY <2>5, <2>6, <2>8 DEF Inv
<1> QED
  BY <1>4, <1>5 DEF BinanceConnect

\* OKX: the names of a call are stored once more and queued.
LEMMA OkxConnectKeeps ==
    ASSUME Inv, OkxConnect
    PROVE  Inv' /\ (Safe => Safe')
<1>1. /\ venue = "okx" /\ Holds("connect")
      /\ rooms' = rooms \cup {Echo(t) : t \in Head(jobs).data}
      /\ queue' = queue \cup Head(jobs).data
      /\ timer' = TRUE /\ jobs' = Tail(jobs)
      /\ UNCHANGED <<venue, role, execute, poolVars, tickVars, failVars>>
  BY DEF OkxConnect, OkxQueues
<1>2. /\ jobs \in Seq(Calls) /\ jobs # <<>> /\ Head(jobs).data \in SUBSET Topics
      /\ Tail(jobs) \in Seq(Calls)
      /\ \A t : HasTopic(jobs, t) <=> HasTopic(Tail(jobs), t) \/ t \in Head(jobs).data
      /\ \A j \in DOMAIN Tail(jobs) : j + 1 \in DOMAIN jobs /\ Tail(jobs)[j] = jobs[j + 1]
      /\ 1 \in DOMAIN jobs /\ jobs[1] = Head(jobs)
  <2>1. jobs \in Seq(Calls) /\ jobs # <<>>
    BY <1>1, HeadType
  <2> QED
    BY <2>1, CallsTail
<1>3. \A t \in Topics : Echo(t) \in Topics /\ Echo(t).echo
  BY DEF Topics, Echo
<1>4. TypeOK'
  <2>1. rooms' \subseteq Topics /\ queue' \subseteq Topics
    BY <1>1, <1>2, <1>3 DEF Inv, TypeOK
  <2> QED
    BY <1>1, <1>2, <2>1 DEF Inv, TypeOK, Calls, poolVars, tickVars, failVars
<1>5. Shape'
  <2>1. role = "price" =>
          rooms' = {} /\ queue' = {} /\ \A t : ~HasTopic(jobs', t)
    BY <1>1, <1>2 DEF Inv, Shape
  <2> QED
    BY <1>1, <1>2, <2>1 DEF Inv, Shape, poolVars, tickVars, failVars
<1>6. Safe => Safe'
  <2> SUFFICES ASSUME Safe, NEW t \in rooms', ~t.echo PROVE Held(t)'
    BY DEF Safe
  <2>1. t \in rooms
    BY <1>1, <1>2, <1>3
  <2>2. Held(t)
    BY <2>1 DEF Safe
  <2> QED
    BY <1>1, <1>2, <2>2, HeldDef, HeldNext DEF Bybit, poolVars, tickVars
<1> QED
  BY <1>4, <1>5, <1>6 DEF Inv

\* A Bitget topic goes to a v3 socket or into the queue.
LEMMA BitgetConnectKeeps ==
    ASSUME Inv, BitgetConnect
    PROVE  Inv' /\ (Safe => Safe')
<1>1. PICK t \in Head(jobs).data :
        /\ IF t.room \in Special THEN BitgetSpecial(t) ELSE BitgetQueues(t)
        /\ jobs' = GoesOn("connect", Head(jobs).data \ {t})
  BY DEF BitgetConnect
<1>2. /\ venue = "bitget" /\ Holds("connect")
      /\ UNCHANGED <<venue, role, rooms, execute, pool, lost, tickVars, failVars>>
  BY DEF BitgetConnect
<1>3. /\ jobs \in Seq(Calls) /\ jobs # <<>> /\ pool \in Seq(Clients)
      /\ Head(jobs).data \in SUBSET Topics
  BY <1>2, HeadType
<1>4. /\ t \in Topics /\ t.room \in Rooms /\ HasTopic(jobs, t) /\ ~t.echo
      /\ t = Room(t.room)
  <2>1. t \in Topics /\ HasTopic(jobs, t)
    BY <1>3, CallsTail
  <2>2. ~t.echo
    BY <1>2, <2>1 DEF Inv, Shape
  <2> QED
    BY <2>1, <2>2 DEF Topics, Room
<1>5. /\ special' \subseteq Topics /\ channels' \subseteq Rooms
      /\ queue' \subseteq Topics /\ timer' \in BOOLEAN
      /\ special \subseteq special' /\ queue \subseteq queue' /\ (timer => timer')
      /\ t \in special' \/ (t \in queue' /\ timer') \/ t.room \in Unserved
      /\ \A r \in channels' : Room(r) \in special'
      /\ \A x \in queue' : x \in queue \/ x = t
  <2>1. /\ special \subseteq Topics /\ channels \subseteq Rooms
        /\ queue \subseteq Topics /\ timer \in BOOLEAN
        /\ \A r \in channels : Room(r) \in special
    BY DEF Inv, TypeOK, Shape
  <2>2. CASE t.room \in Special
    <3>1. UNCHANGED <<queue, timer>>
      BY <1>1, <2>2 DEF BitgetSpecial
    <3>2. CASE t.room \in channels \cup Streamless
      <4>1. UNCHANGED <<special, channels>>
        BY <1>1, <2>2, <3>2 DEF BitgetSpecial
      <4>2. t \in special \/ t.room \in Unserved
        BY <1>4, <2>1, <3>2 DEF Unserved
      <4> QED
        BY <2>1, <3>1, <4>1, <4>2
    <3>3. CASE t.room \notin channels \cup Streamless
      <4>1. special' = special \cup {t} /\ channels' = channels \cup {t.room}
        BY <1>1, <2>2, <3>3 DEF BitgetSpecial
      <4> QED
        BY <1>4, <2>1, <3>1, <4>1
    <3> QED
      BY <3>2, <3>3
  <2>3. CASE t.room \notin Special
    BY <1>1, <1>4, <2>1, <2>3 DEF BitgetQueues
  <2> QED
    BY <2>2, <2>3
<1>6. /\ jobs' \in Seq(Calls)
      /\ \A x : HasTopic(jobs', x) => HasTopic(jobs, x)
      /\ \A j \in DOMAIN jobs' : jobs'[j].kind = "flush" => jobs'[j].data = {}
      /\ \A x : Held(x) => Held(x)'
  <2>1. Keeps(pool, pool')
    BY <1>2 DEF Keeps
  <2>2. MovesOn("connect", {t})
    BY <1>1, <1>2, <1>5, <2>1 DEF MovesOn, tickVars
  <2> QED
    BY <2>2, HeadMoves
<1>7. TypeOK'
  BY <1>2, <1>5, <1>6 DEF Inv, TypeOK, Calls, tickVars, failVars
<1>8. Shape'
  <2>1. role # "price"
    BY <1>4 DEF Inv, Shape
  <2>2. Plain(queue') /\ Plain(rooms')
    BY <1>2, <1>4, <1>5 DEF Inv, Shape, Plain
  <2> QED
    BY <1>2, <1>5, <1>6, <2>1, <2>2 DEF Inv, Shape, tickVars, failVars
<1>9. Safe => Safe'
  BY <1>2, <1>6 DEF Safe
<1> QED
  BY <1>7, <1>8, <1>9 DEF Inv

\* A flush takes the whole queue.
LEMMA FlushKeeps ==
    ASSUME Inv, OkxFlush \/ BitgetFlush \/ KucoinFlush
    PROVE  Inv' /\ (Safe => Safe')
<1>1. /\ venue \in {"okx", "bitget", "kucoin"} /\ Holds("flush")
      /\ queue' = {} /\ jobs' = GoesOn("subscribe", queue)
      /\ timer' = timer \/ timer' = FALSE
      /\ UNCHANGED <<venue, role, rooms, execute, poolVars, tickVars, failVars>>
  BY DEF OkxFlush, BitgetFlush, KucoinFlush, TakeQueue
<1>2. /\ jobs \in Seq(Calls) /\ jobs # <<>> /\ queue \in SUBSET Topics
      /\ Head(jobs).kind = "flush" /\ timer \in BOOLEAN
  BY <1>1, HeadType DEF Inv, TypeOK, Holds
<1>3. /\ Tail(jobs) \in Seq(Calls)
      /\ \A t : HasTopic(jobs, t) <=> HasTopic(Tail(jobs), t) \/ t \in Head(jobs).data
      /\ 1 \in DOMAIN jobs /\ jobs[1] = Head(jobs)
      /\ \A j \in DOMAIN Tail(jobs) : j + 1 \in DOMAIN jobs /\ Tail(jobs)[j] = jobs[j + 1]
  BY <1>2, CallsTail
<1>4. Head(jobs).data = {} /\ \A j \in DOMAIN Tail(jobs) :
        Tail(jobs)[j].kind = "flush" => Tail(jobs)[j].data = {}
  BY <1>2, <1>3 DEF Inv, Shape
<1> DEFINE g == GoesOn("subscribe", queue)
<1>5. /\ g \in Seq(Calls)
      /\ \A t : HasTopic(g, t) <=> HasTopic(Tail(jobs), t) \/ t \in queue
      /\ \A j \in DOMAIN g :
           \/ j = 1 /\ g[1] = Job("subscribe", queue)
           \/ j - 1 \in DOMAIN Tail(jobs) /\ g[j] = Tail(jobs)[j - 1]
           \/ j \in DOMAIN Tail(jobs) /\ g[j] = Tail(jobs)[j]
  BY <1>2, GoesOnType
<1> HIDE DEF g
<1>6. jobs' = g
  BY <1>1 DEF g
<1>7. \A j \in DOMAIN jobs' : jobs'[j].kind = "flush" => jobs'[j].data = {}
  <2>1. Job("subscribe", queue).kind # "flush"
    BY DEF Job
  <2> QED
    BY <1>4, <1>5, <1>6, <2>1
<1>8. TypeOK'
  BY <1>1, <1>2, <1>5, <1>6 DEF Inv, TypeOK, Calls, poolVars, tickVars, failVars
<1>9. Shape'
  <2>1. role = "price" => rooms' = {} /\ queue' = {} /\ \A t : ~HasTopic(jobs', t)
    BY <1>1, <1>3, <1>5, <1>6 DEF Inv, Shape
  <2>2. venue # "okx" => /\ Plain(rooms') /\ Plain(queue')
                         /\ \A t : HasTopic(jobs', t) => ~t.echo
    BY <1>1, <1>3, <1>5, <1>6 DEF Inv, Shape, Plain
  <2> QED
    BY <1>1, <1>7, <2>1, <2>2 DEF Inv, Shape, poolVars, tickVars, failVars
<1>10. ASSUME NEW t, Held(t) PROVE Held(t)'
  BY <1>1, <1>3, <1>4, <1>5, <1>6, <1>10, HeldDef, HeldNext
     DEF Bybit, poolVars, tickVars
<1> QED
  BY <1>1, <1>8, <1>9, <1>10 DEF Inv, Safe

-----------------------------------------------------------------------------
(* Calls that are added, and restarts.                                      *)

\* The calls q are those of now, and others that bring rooms of the connector.
Grows(q) ==
    /\ q \in Seq(Calls)
    /\ \A j \in DOMAIN q : q[j].kind = "flush" => q[j].data = {}
    /\ \A t : HasTopic(jobs, t) => HasTopic(q, t)
    /\ \A t : HasTopic(q, t) => HasTopic(jobs, t) \/ t \in rooms
    /\ \A k : HasKind(jobs, k) => HasKind(q, k)

LEMMA CallAdded ==
    ASSUME Inv, NEW c \in Calls, c.data \subseteq rooms,
           c.kind = "flush" => c.data = {}
    PROVE  /\ Grows(Append(jobs, c)) /\ HasKind(Append(jobs, c), c.kind)
           /\ \A t \in c.data : HasTopic(Append(jobs, c), t)
<1>1. jobs \in Seq(Calls)
  BY DEF Inv, TypeOK, Calls
<1> DEFINE q == Append(jobs, c)
<1>2. /\ q \in Seq(Calls)
      /\ \A t : HasTopic(q, t) <=> HasTopic(jobs, t) \/ t \in c.data
      /\ \A k : HasKind(q, k) <=> HasKind(jobs, k) \/ c.kind = k
      /\ \A j \in DOMAIN q : q[j] = c \/ (j \in DOMAIN jobs /\ q[j] = jobs[j])
  BY <1>1, CallsAppend
<1> HIDE DEF q
<1>3. \A j \in DOMAIN q : q[j].kind = "flush" => q[j].data = {}
  BY <1>2 DEF Inv, Shape
<1>4. Grows(q) /\ HasKind(q, c.kind) /\ \A t \in c.data : HasTopic(q, t)
  BY <1>2, <1>3 DEF Grows
<1> QED
  BY <1>4 DEF q

\* All rooms are connected again.
LEMMA Replayed ==
    ASSUME Inv, NEW q,
           q = jobs \o Connects(rooms) \/ q = Append(jobs, Job("connect", rooms))
    PROVE  Grows(q) /\ \A t \in rooms : HasTopic(q, t)
<1> DEFINE c == Job("connect", rooms)
<1>1. jobs \in Seq(Calls) /\ rooms \in SUBSET Topics
  BY DEF Inv, TypeOK, Calls
<1>2. c \in Calls /\ c.kind = "connect" /\ c.data = rooms
  BY <1>1 DEF Calls, Job
<1>3. CASE rooms = {} /\ q = jobs \o Connects(rooms)
  <2>1. q = jobs
    BY <1>1, <1>3, ConcatEmptySeq DEF Connects
  <2> QED
    BY <1>1, <1>3, <2>1 DEF Grows, Inv, Shape
<1>4. CASE rooms # {} \/ q # jobs \o Connects(rooms)
  <2>1. q = Append(jobs, c)
    <3>1. rooms # {} => Connects(rooms) = <<c>>
      BY DEF Connects
    <3>2. q = jobs \o <<c>> \/ q = Append(jobs, c)
      BY <1>4, <3>1
    <3> HIDE DEF c
    <3> QED
      BY <1>1, <1>2, <3>2, AppendIsConcat
  <2> HIDE DEF c
  <2>2. Grows(Append(jobs, c)) /\ \A t \in c.data : HasTopic(Append(jobs, c), t)
    BY <1>2, CallAdded
  <2> QED
    BY <1>2, <2>1, <2>2
<1> QED
  BY <1>3, <1>4

\* The invariant after a step that adds calls at most.
LEMMA ShapeFrom ==
    ASSUME Inv, Grows(jobs'), UNCHANGED <<venue, role, rooms, queue>>,
           venue = "binance" => inits' = inits, ended' \/ errors' < MaxErrors,
           \A r \in channels' : Room(r) \in special'
    PROVE  Shape'
<1>1. role = "price" => rooms' = {} /\ queue' = {} /\ \A t : ~HasTopic(jobs', t)
  BY DEF Inv, Shape, Grows
<1>2. venue # "okx" => /\ Plain(rooms') /\ Plain(queue')
                       /\ \A t : HasTopic(jobs', t) => ~t.echo
  BY DEF Inv, Shape, Grows, Plain
<1> QED
  BY <1>1, <1>2 DEF Inv, Shape, Grows

\* A restart that connects all rooms again keeps them all.
LEMMA SafeFrom ==
    ASSUME rooms' = rooms, \A t \in rooms : HasTopic(jobs', t)
    PROVE  Safe'
  BY HeldNext DEF Safe

\* Calls that stay as they are.
LEMMA GrowsSame ==
    ASSUME Inv
    PROVE  Grows(jobs)
  BY DEF Grows, Inv, TypeOK, Shape, Calls

\* A room is asked for.
LEMMA RequestKeeps ==
    ASSUME Inv, NEW r \in Rooms, Request(r)
    PROVE  Inv' /\ (Safe => Safe')
<1> DEFINE x == Room(r)
<1>1. /\ role = "candle" /\ rooms' = rooms \cup {x}
      /\ UNCHANGED <<venue, role, execute, poolVars, tickVars, failVars>>
      /\ x \in Topics /\ ~x.echo
  BY DEF Request, Topics, Room
<1>2. /\ jobs \in Seq(Calls) /\ queue \subseteq Topics /\ timer \in BOOLEAN
      /\ venue \in {"binance", "bybit", "bybitFutures", "okx", "bitget", "kucoin"}
  BY PoolsAssumption DEF Inv, TypeOK, Calls
<1>3. \/ /\ venue = "binance" /\ jobs' = Append(jobs, Job("connect", {}))
         /\ UNCHANGED <<queue, timer>>
      \/ /\ venue \in {"bybit", "bybitFutures", "okx", "bitget"}
         /\ jobs' = Append(jobs, Job("connect", {x}))
         /\ UNCHANGED <<queue, timer>>
      \/ /\ venue = "kucoin" /\ queue' = queue \cup {x} /\ timer' = TRUE
         /\ jobs' = jobs
  <2>1. CASE venue = "kucoin"
    BY <2>1 DEF Request, KucoinAsks, Bybit
  <2>2. CASE Bybit
    BY <2>2 DEF Request, BybitAsks, Bybit
  <2>3. CASE venue = "okx"
    BY <2>3 DEF Request, OkxAsks, Bybit
  <2>4. CASE venue = "bitget"
    BY <2>4 DEF Request, BitgetAsks, Bybit
  <2>5. CASE venue = "binance"
    BY <2>5 DEF Request, BinanceAsks, Bybit
  <2> QED
    BY <1>2, <2>1, <2>2, <2>3, <2>4, <2>5 DEF Bybit
<1> HIDE DEF x
<1>4. /\ jobs' \in Seq(Calls)
      /\ \A t : HasTopic(jobs', t) => HasTopic(jobs, t) \/ t = x
      /\ \A t : HasTopic(jobs, t) => HasTopic(jobs', t)
      /\ \A k : HasKind(jobs, k) => HasKind(jobs', k)
      /\ \A j \in DOMAIN jobs' : jobs'[j].kind = "flush" => jobs'[j].data = {}
      /\ venue = "binance" => HasKind(jobs', "connect")
      /\ venue \in {"bybit", "bybitFutures", "okx", "bitget"} => HasTopic(jobs', x)
  <2>1. CASE venue = "kucoin"
    BY <1>2, <1>3, <2>1 DEF Inv, Shape
  <2>2. CASE venue # "kucoin"
    <3>1. PICK S \in SUBSET {x} :
            /\ jobs' = Append(jobs, Job("connect", S))
            /\ venue # "binance" => S = {x}
      BY <1>3, <2>2
    <3> DEFINE c == Job("connect", S)
    <3>2. c \in Calls /\ c.kind = "connect" /\ c.data = S
      BY <1>1 DEF Calls, Job
    <3> HIDE DEF c
    <3>3. /\ Append(jobs, c) \in Seq(Calls)
          /\ \A t : HasTopic(Append(jobs, c), t) <=> HasTopic(jobs, t) \/ t \in c.data
          /\ \A k : HasKind(Append(jobs, c), k) <=> HasKind(jobs, k) \/ c.kind = k
          /\ \A j \in DOMAIN Append(jobs, c) :
               \/ Append(jobs, c)[j] = c
               \/ j \in DOMAIN jobs /\ Append(jobs, c)[j] = jobs[j]
      BY <1>2, <3>2, CallsAppend
    <3>4. jobs' = Append(jobs, c)
      BY <3>1 DEF c
    <3>5. \A j \in DOMAIN jobs' : jobs'[j].kind = "flush" => jobs'[j].data = {}
      BY <3>2, <3>3, <3>4 DEF Inv, Shape
    <3> QED
      BY <2>2, <3>1, <3>2, <3>3, <3>4, <3>5
  <2> QED
    BY <2>1, <2>2
<1>5. queue' \subseteq Topics /\ timer' \in BOOLEAN /\ queue \subseteq queue'
      /\ (timer => timer') /\ \A t \in queue' : t \in queue \/ t = x
  BY <1>1, <1>2, <1>3
<1>6. TypeOK'
  BY <1>1, <1>4, <1>5 DEF Inv, TypeOK, Calls, poolVars, tickVars, failVars
<1>7. Shape'
  <2>1. venue # "okx" => /\ Plain(rooms') /\ Plain(queue')
                         /\ \A t : HasTopic(jobs', t) => ~t.echo
    BY <1>1, <1>4, <1>5 DEF Inv, Shape, Plain
  <2> QED
    BY <1>1, <1>4, <2>1 DEF Inv, Shape, poolVars, tickVars, failVars
<1>8. \A t : Held(t) => Held(t)'
  BY <1>1, <1>4, <1>5, HeldDef, HeldNext DEF Bybit, poolVars, tickVars
<1>9. Held(x)'
  BY <1>1, <1>2, <1>3, <1>4, HeldNext
<1> QED
  BY <1>1, <1>6, <1>7, <1>8, <1>9 DEF Inv, Safe

\* The timer of the queue fires.
LEMMA TimerFiresKeeps ==
    ASSUME Inv, TimerFires
    PROVE  Inv' /\ (Safe => Safe')
<1> DEFINE c == Job(IF venue = "binance" THEN "connect" ELSE "flush", {})
<1>1. /\ timer' = FALSE /\ execute' = (venue = "binance")
      /\ jobs' = Append(jobs, c)
      /\ UNCHANGED <<venue, role, rooms, queue, poolVars, tickVars, failVars>>
  BY DEF TimerFires
<1>2. /\ c \in Calls /\ c.data = {}
      /\ c.kind = IF venue = "binance" THEN "connect" ELSE "flush"
  BY DEF Calls, Job
<1> HIDE DEF c
<1>3. Grows(jobs') /\ HasKind(jobs', c.kind)
  BY <1>1, <1>2, CallAdded
<1>4. TypeOK'
  BY <1>1, <1>3 DEF Inv, TypeOK, Grows, Calls, poolVars, tickVars, failVars
<1>5. Shape'
  BY <1>1, <1>3, ShapeFrom DEF Inv, Shape, poolVars, tickVars, failVars
<1>6. \A t : Held(t) => Held(t)'
  BY <1>1, <1>2, <1>3, HeldDef, HeldNext DEF Grows, Bybit, poolVars, tickVars
<1> QED
  BY <1>1, <1>4, <1>5, <1>6 DEF Inv, Safe

-----------------------------------------------------------------------------
(* Exceptions and drops.                                                    *)

\* Binance closes its sockets; a candle worker is to dial again.
LEMMA BinanceExceptionKeeps ==
    ASSUME Inv, BinanceException
    PROVE  Inv' /\ (Safe => Safe')
<1> DEFINE c == Job("connect", {})
<1>1. /\ venue = "binance" /\ faults < MaxFaults /\ faults' = faults + 1
      /\ restarting' = TRUE /\ pool' = <<>> /\ lost' = {}
      /\ tickers' = IF role = "price" THEN Markets ELSE {}
      /\ jobs' = IF role = "candle" THEN Append(jobs, c) ELSE jobs
      /\ UNCHANGED <<venue, role, rooms, queue, timer, execute, special,
                     channels, inits, retries, targeted, errors, ended>>
  BY DEF BinanceException, BinanceStops, BinanceInit
<1>2. c \in Calls /\ c.data = {} /\ c.kind = "connect" /\ c.kind # "flush"
  BY DEF Calls, Job
<1> HIDE DEF c
<1>3. Grows(Append(jobs, c)) /\ HasKind(Append(jobs, c), "connect")
  BY <1>2, CallAdded
<1>4. Grows(jobs') /\ (role = "candle" => HasKind(jobs', "connect"))
  BY <1>1, <1>3, GrowsSame
<1>5. TypeOK'
  <2>1. pool' \in Seq(Clients)
    BY <1>1
  <2>2. tickers' \subseteq Markets /\ faults' \in 0..MaxFaults
    BY <1>1, PoolsAssumption DEF Inv, TypeOK
  <2> QED
    BY <1>1, <1>4, <2>1, <2>2 DEF Inv, TypeOK, Grows, Calls, Clients
<1>6. Shape'
  BY <1>1, <1>4, ShapeFrom DEF Inv, Shape
<1>7. Safe'
  <2>1. CASE role = "candle"
    BY <1>1, <1>4, <2>1, HeldNext DEF Safe
  <2>2. CASE role # "candle"
    BY <1>1, <2>2, PoolsAssumption DEF Inv, TypeOK, Shape, Safe
  <2> QED
    BY <2>1, <2>2
<1> QED
  BY <1>5, <1>6, <1>7 DEF Inv

\* Bybit starts a cycle: the guard is held until all rooms are connected.
LEMMA StartCycleKeeps ==
    ASSUME Inv, Bybit, StartCycle, faults' \in 0..MaxFaults, retries' \in Nat,
           UNCHANGED <<venue, role, roomVars, special, channels, lost,
                       targeted, errors, ended>>
    PROVE  Inv' /\ (Safe => Safe')
<1>1. /\ restarting' = TRUE /\ pool' = Recreated(pool) /\ tickers' = {}
      /\ inits' = Append(inits, [market |-> 1, cycle |-> TRUE])
  BY DEF StartCycle
<1>2. pool' \in Seq(Clients)
  BY <1>1, RecreatedType DEF Inv, TypeOK, Clients
<1>3. inits' \in Seq(Loops)
  BY <1>1, InitsAppend DEF Inv, TypeOK, Loops
<1>4. TypeOK'
  BY <1>1, <1>2, <1>3 DEF Inv, TypeOK, Clients, Loops, roomVars
<1>5. Shape'
  BY GrowsSame, ShapeFrom DEF Inv, Shape, Bybit, roomVars
<1>6. Safe'
  BY <1>1, HeldNext DEF Safe, Bybit
<1> QED
  BY <1>4, <1>5, <1>6 DEF Inv

LEMMA BybitExceptionKeeps ==
    ASSUME Inv, BybitException
    PROVE  Inv' /\ (Safe => Safe')
  BY StartCycleKeeps, PoolsAssumption DEF BybitException, Inv, TypeOK, tickVars

\* A retry is coalesced into a cycle that runs.
LEMMA BybitRetryTimerKeeps ==
    ASSUME Inv, BybitRetryTimer
    PROVE  Inv' /\ (Safe => Safe')
<1>1. /\ Bybit /\ retries' = retries - 1 /\ retries' \in Nat
      /\ UNCHANGED <<venue, role, roomVars, special, channels, lost, failVars>>
  BY DEF BybitRetryTimer, Inv, TypeOK
<1>2. CASE restarting
  <2>1. UNCHANGED <<restarting, pool, tickers, inits>>
    BY <1>2 DEF BybitRetryTimer
  <2>2. TypeOK'
    BY <1>1, <2>1 DEF Inv, TypeOK, roomVars, failVars
  <2>3. Shape'
    BY <1>1, <2>1 DEF Inv, Shape, roomVars, failVars
  <2>4. \A t : Held(t) => Held(t)'
    BY <1>1, <2>1, HeldDef, HeldNext DEF Bybit, roomVars
  <2> QED
    BY <1>1, <2>2, <2>3, <2>4 DEF Inv, Safe, roomVars
<1>3. CASE ~restarting
  <2>1. StartCycle /\ faults' \in 0..MaxFaults
    BY <1>1, <1>3 DEF BybitRetryTimer, Inv, TypeOK, failVars
  <2> QED
    BY <1>1, <2>1, StartCycleKeeps DEF failVars
<1> QED
  BY <1>2, <1>3

\* OKX restarts tickers and candles, whatever became of the init loops.
LEMMA OkxRestartsKeeps ==
    ASSUME Inv, venue = "okx", NEW running \in Seq(Loops), OkxRestarts(running),
           faults' \in 0..MaxFaults,
           UNCHANGED <<venue, role, rooms, queue, timer, execute, special,
                       channels, lost, restarting, retries, targeted, errors,
                       ended>>
    PROVE  Inv' /\ (Safe => Safe')
<1>1. /\ pool' = Recreated(pool) /\ tickers' = {}
      /\ inits' = Append(running, [market |-> 1, cycle |-> FALSE])
      /\ jobs' = Append(jobs, Job("connect", rooms))
  BY DEF OkxRestarts, OkxStops, ReconnectOkx
<1>2. Grows(jobs') /\ \A t \in rooms : HasTopic(jobs', t)
  BY <1>1, Replayed
<1>3. pool' \in Seq(Clients)
  BY <1>1, RecreatedType DEF Inv, TypeOK, Clients
<1>4. inits' \in Seq(Loops)
  BY <1>1, InitsAppend
<1>5. TypeOK'
  BY <1>1, <1>2, <1>3, <1>4 DEF Inv, TypeOK, Clients, Loops, Calls, Grows
<1>6. Shape'
  BY <1>2, ShapeFrom DEF Inv, Shape
<1> QED
  BY <1>2, <1>5, <1>6, SafeFrom DEF Inv

LEMMA OkxExceptionKeeps ==
    ASSUME Inv, OkxException
    PROVE  Inv' /\ (Safe => Safe')
<1>1. inits \in Seq(Loops) /\ faults' \in 0..MaxFaults
  BY PoolsAssumption DEF Inv, TypeOK, Loops, OkxException
<1> QED
  BY <1>1, OkxRestartsKeeps DEF OkxException

\* Bitget restarts what the role of the worker asks for.
LEMMA BitgetRestartsKeeps ==
    ASSUME Inv, venue = "bitget", NEW running \in Seq(Loops),
           BitgetRestarts(running), faults' \in 0..MaxFaults,
           UNCHANGED <<venue, role, rooms, queue, timer, execute, lost,
                       restarting, retries, targeted, errors, ended>>
    PROVE  Inv' /\ (Safe => Safe')
<1>1. /\ pool' = Recreated(pool) /\ tickers' = {}
      /\ special' = {} /\ channels' = {}
      /\ inits' = Append(running, [market |-> 1, cycle |-> FALSE]) \/ inits' = running
      /\ IF role = "candle" THEN jobs' = jobs \o Connects(rooms) ELSE jobs' = jobs
  BY DEF BitgetRestarts, BitgetStops, ReconnectBitget
<1>2. /\ Grows(jobs')
      /\ role = "candle" => \A t \in rooms : HasTopic(jobs', t)
  BY <1>1, Replayed, GrowsSame
<1>3. pool' \in Seq(Clients)
  BY <1>1, RecreatedType DEF Inv, TypeOK, Clients
<1>4. inits' \in Seq(Loops)
  BY <1>1, InitsAppend
<1>5. TypeOK'
  BY <1>1, <1>2, <1>3, <1>4 DEF Inv, TypeOK, Clients, Loops, Calls, Grows
<1>6. Shape'
  BY <1>1, <1>2, ShapeFrom DEF Inv, Shape
<1>7. role # "candle" => rooms = {}
  BY PoolsAssumption DEF Inv, TypeOK, Shape
<1> QED
  BY <1>2, <1>5, <1>6, <1>7, SafeFrom DEF Inv

LEMMA BitgetExceptionKeeps ==
    ASSUME Inv, BitgetException
    PROVE  Inv' /\ (Safe => Safe')
<1>1. inits \in Seq(Loops) /\ faults' \in 0..MaxFaults
  BY PoolsAssumption DEF Inv, TypeOK, Loops, BitgetException
<1> QED
  BY <1>1, BitgetRestartsKeeps DEF BitgetException

-----------------------------------------------------------------------------
(* Steps that leave the pool, or what it carries.                           *)

\* The pool carries what it carried, and rooms, queue and calls are untouched.
LEMMA OtherKeeps ==
    ASSUME Inv, pool' \in Seq(Clients), Keeps(pool, pool'),
           UNCHANGED <<venue, role, rooms, queue, timer, execute, jobs,
                       special, channels>>,
           lost' \subseteq Topics, lost \subseteq lost', tickers' \subseteq Markets,
           restarting' \in BOOLEAN, restarting => restarting' \/ ~Bybit,
           inits' \in Seq(Loops), venue = "binance" => inits' = inits,
           retries' \in Nat, targeted' \in 0..MaxTargeted,
           errors' \in 0..MaxErrors, ended' \in BOOLEAN, faults' \in 0..MaxFaults,
           ended' \/ errors' < MaxErrors
    PROVE  Inv' /\ (Safe => Safe')
<1>1. TypeOK'
  BY DEF Inv, TypeOK, Clients, Loops
<1>2. Shape'
  BY GrowsSame, ShapeFrom DEF Inv, Shape
<1>3. \A t : Held(t) => Held(t)'
  BY HeldDef, HeldNext DEF Bybit, Keeps
<1> QED
  BY <1>1, <1>2, <1>3 DEF Inv, Safe

\* The same pool carries the same.
LEMMA PoolStays ==
    ASSUME Inv, pool' = pool
    PROVE  pool' \in Seq(Clients) /\ Keeps(pool, pool')
  BY DEF Inv, TypeOK, Clients, Keeps

\* What a state of the invariant gives OtherKeeps for the variables that stay.
LEMMA TypesNow ==
    ASSUME Inv
    PROVE  /\ lost \subseteq Topics /\ tickers \subseteq Markets
           /\ restarting \in BOOLEAN /\ inits \in Seq(Loops) /\ retries \in Nat
           /\ targeted \in 0..MaxTargeted /\ errors \in 0..MaxErrors
           /\ ended \in BOOLEAN /\ faults \in 0..MaxFaults
           /\ ended \/ errors < MaxErrors
           /\ MaxFaults \in Nat /\ MaxErrors \in Nat /\ MaxTargeted \in Nat
           /\ faults < MaxFaults => faults + 1 \in 0..MaxFaults
  BY PoolsAssumption DEF Inv, TypeOK, Shape, Loops

LEMMA BinanceSettledKeeps ==
    ASSUME Inv, BinanceSettled
    PROVE  Inv' /\ (Safe => Safe')
<1>1. venue = "binance" /\ ~Bybit /\ restarting' = FALSE
  BY DEF BinanceSettled, Bybit
<1> QED
  BY <1>1, OtherKeeps, PoolStays, TypesNow
     DEF BinanceSettled, roomVars, poolVars, failVars

LEMMA KucoinErrorKeeps ==
    ASSUME Inv, KucoinError
    PROVE  Inv' /\ (Safe => Safe')
<1>1. /\ ~ended /\ errors < MaxErrors /\ errors' = errors + 1
      /\ ended' = (errors' >= MaxErrors) /\ faults' \in 0..MaxFaults
      /\ UNCHANGED <<venue, role, roomVars, poolVars, tickVars, targeted>>
  BY TypesNow DEF KucoinError, Quiet
<1>2. /\ errors' \in 0..MaxErrors
      /\ errors' >= MaxErrors \/ errors' < MaxErrors
  <2>1. errors' = errors + 1 /\ errors < MaxErrors
    BY <1>1
  <2> QED
    BY <2>1, TypesNow, PoolsAssumption
<1>3. /\ ended' \in BOOLEAN
      /\ ended' \/ errors' < MaxErrors
  <2>1. (errors' >= MaxErrors) \in BOOLEAN
    OBVIOUS
  <2>2. ended' = (errors' >= MaxErrors)
    BY <1>1
  <2>3. ended' \in BOOLEAN
    BY <2>1, <2>2, Zenon
  <2>4. errors' >= MaxErrors => ended'
    BY <2>2, Zenon
  <2> QED
    BY <1>2, <2>3, <2>4, Zenon
<1> QED
  BY <1>1, <1>2, <1>3, OtherKeeps, PoolStays, TypesNow DEF roomVars, poolVars, tickVars

LEMMA TickerStallKeeps ==
    ASSUME Inv, TickerStall
    PROVE  Inv' /\ (Safe => Safe')
  BY OtherKeeps, PoolStays, TypesNow
     DEF TickerStall, roomVars, poolVars, tickVars

LEMMA NoteActivityKeeps ==
    ASSUME Inv, NoteActivity
    PROVE  Inv' /\ (Safe => Safe')
<1>1. targeted' \in 0..MaxTargeted
  BY PoolsAssumption DEF NoteActivity
<1> QED
  BY <1>1, OtherKeeps, PoolStays, TypesNow
     DEF NoteActivity, roomVars, poolVars, tickVars

\* A client of the pool changes in place.
LEMMA ClientChanges ==
    ASSUME Inv, NEW i \in DOMAIN pool, NEW c \in Clients,
           pool' = [pool EXCEPT ![i] = c]
    PROVE  /\ pool' \in Seq(Clients) /\ Len(pool') = Len(pool)
           /\ DOMAIN pool' = DOMAIN pool /\ pool'[i] = c
           /\ \A j \in DOMAIN pool : j # i => pool'[j] = pool[j]
<1>1. pool \in Seq(Clients)
  BY DEF Inv, TypeOK, Clients
<1> QED
  BY <1>1, ExceptSeq, LenProperties

\* The rooms of a dropped Binance socket are lost until the next dial.
LEMMA BinanceSocketDropsKeeps ==
    ASSUME Inv, NEW i \in DOMAIN pool, BinanceSocketDrops(i)
    PROVE  Inv' /\ (Safe => Safe')
<1> DEFINE c == [pool[i] EXCEPT !.topics = {}]
<1>1. /\ faults < MaxFaults /\ faults' = faults + 1
      /\ lost' = lost \cup pool[i].topics
      /\ UNCHANGED <<venue, role, roomVars, special, channels, tickVars,
                     targeted, errors, ended>>
  BY DEF BinanceSocketDrops
<1>2. pool \in Seq(Clients) /\ pool[i] \in Clients /\ pool[i].topics \subseteq Topics
  <2>1. pool \in Seq(Clients)
    BY DEF Inv, TypeOK, Clients
  <2> QED
    BY <2>1, ClientType
<1>3. c \in Clients /\ pool' = [pool EXCEPT ![i] = c]
  BY <1>2 DEF Clients, BinanceSocketDrops
<1> HIDE DEF c
<1>4. /\ pool' \in Seq(Clients) /\ DOMAIN pool' = DOMAIN pool
      /\ \A j \in DOMAIN pool : j # i => pool'[j] = pool[j]
  BY <1>3, ClientChanges
<1>5. TypeOK'
  BY <1>1, <1>2, <1>4, TypesNow DEF Inv, TypeOK, Clients, roomVars, tickVars
<1>6. Shape'
  BY <1>1, GrowsSame, ShapeFrom DEF Inv, Shape, roomVars, tickVars
<1>7. ASSUME NEW t, Held(t) PROVE Held(t)'
  <2>1. OnPool(pool, t) => OnPool(pool', t) \/ t \in lost'
    BY <1>1, <1>4 DEF OnPool
  <2> QED
    BY <1>1, <1>7, <2>1, HeldDef, HeldNext DEF Bybit, roomVars, tickVars
<1> QED
  BY <1>1, <1>5, <1>6, <1>7 DEF Inv, Safe, roomVars

\* A silent socket still carries its topics.
LEMMA GoesSilentKeeps ==
    ASSUME Inv, NEW i \in DOMAIN pool, GoesSilent(i)
    PROVE  Inv' /\ (Safe => Safe')
<1> DEFINE c == [pool[i] EXCEPT !.mute = TRUE]
<1>1. pool \in Seq(Clients) /\ pool[i] \in Clients
  <2>1. pool \in Seq(Clients)
    BY DEF Inv, TypeOK, Clients
  <2> QED
    BY <2>1, ClientType
<1>2. /\ c \in Clients /\ c.topics = pool[i].topics
      /\ pool' = [pool EXCEPT ![i] = c]
  BY <1>1 DEF Clients, GoesSilent
<1> HIDE DEF c
<1>3. /\ pool' \in Seq(Clients) /\ DOMAIN pool' = DOMAIN pool /\ pool'[i] = c
      /\ \A j \in DOMAIN pool : j # i => pool'[j] = pool[j]
  BY <1>2, ClientChanges
<1>4. Keeps(pool, pool')
  BY <1>2, <1>3 DEF Keeps, OnPool
<1> QED
  BY <1>3, <1>4, OtherKeeps, TypesNow DEF GoesSilent, roomVars, tickVars

\* A topic the venue refuses is abandoned.
LEMMA DropRejectedTopicKeeps ==
    ASSUME Inv, NEW i \in DOMAIN pool, DropRejectedTopic(i)
    PROVE  Inv' /\ (Safe => Safe')
<1>1. PICK t \in pool[i].topics :
        /\ t.room \in Delisted
        /\ pool' = [pool EXCEPT ![i].topics = @ \ {t}]
  BY DEF DropRejectedTopic
<1>2. /\ venue = "bitget"
      /\ UNCHANGED <<venue, role, roomVars, special, channels, lost, tickVars,
                     failVars>>
  BY DEF DropRejectedTopic
<1>3. pool \in Seq(Clients) /\ pool[i] \in Clients
  <2>1. pool \in Seq(Clients)
    BY DEF Inv, TypeOK, Clients
  <2> QED
    BY <2>1, ClientType
<1> DEFINE c == [pool[i] EXCEPT !.topics = @ \ {t}]
<1>4. /\ c \in Clients /\ c.topics = pool[i].topics \ {t}
      /\ pool' = [pool EXCEPT ![i] = c]
  BY <1>1, <1>3 DEF Clients
<1> HIDE DEF c
<1>5. /\ pool' \in Seq(Clients) /\ DOMAIN pool' = DOMAIN pool /\ pool'[i] = c
      /\ \A j \in DOMAIN pool : j # i => pool'[j] = pool[j]
  BY <1>4, ClientChanges
<1>6. TypeOK'
  BY <1>2, <1>5 DEF Inv, TypeOK, Clients, roomVars, tickVars, failVars
<1>7. Shape'
  BY <1>2, GrowsSame, ShapeFrom DEF Inv, Shape, roomVars, tickVars, failVars
<1>8. ASSUME NEW x, Held(x) PROVE Held(x)'
  <2>1. OnPool(pool, x) => OnPool(pool', x) \/ x.room \in Unserved
    BY <1>1, <1>4, <1>5 DEF OnPool, Unserved
  <2> QED
    BY <1>2, <1>8, <2>1, HeldDef, HeldNext DEF Bybit, roomVars, tickVars
<1> QED
  BY <1>2, <1>6, <1>7, <1>8 DEF Inv, Safe, roomVars

\* The watchdog of Bitget recreates silent sockets with their topics.
LEMMA CheckClientStallsKeeps ==
    ASSUME Inv, CheckClientStalls
    PROVE  Inv' /\ (Safe => Safe')
<1>1. UNCHANGED <<venue, role, roomVars, special, channels, lost, tickVars,
                  targeted, errors, faults>>
  BY DEF CheckClientStalls
<1>2. CASE \E i \in Silent : pool[i].tries >= MaxTargeted
  <2>1. ended' = TRUE /\ UNCHANGED pool
    BY <1>2 DEF CheckClientStalls
  <2> QED
    BY <1>1, <2>1, OtherKeeps, PoolStays, TypesNow DEF roomVars, tickVars
<1>3. CASE ~\E i \in Silent : pool[i].tries >= MaxTargeted
  <2>1. ended' = ended /\ pool' = [i \in DOMAIN pool |-> AfterCheck(i)]
    BY <1>3 DEF CheckClientStalls
  <2>2. pool \in Seq(Clients)
    BY DEF Inv, TypeOK, Clients
  <2>3. ASSUME NEW i \in DOMAIN pool
        PROVE  AfterCheck(i) \in Clients /\ AfterCheck(i).topics = pool[i].topics
    <3>1. pool[i] \in Clients /\ pool[i].tries \in 0..MaxTargeted /\ MaxTargeted \in Nat
      BY <2>2, ClientType, PoolsAssumption
    <3>2. i \in Silent => pool[i].tries + 1 \in 0..MaxTargeted
      BY <1>3, <3>1
    <3>3. CASE i \in Silent
      BY <3>1, <3>2, <3>3 DEF AfterCheck, RecreateClient, Clients
    <3>4. CASE i \notin Silent
      BY <3>1, <3>4 DEF AfterCheck, Clients
    <3> QED
      BY <3>3, <3>4
  <2>4. pool' \in Seq(Clients)
    <3>1. /\ DOMAIN pool' = DOMAIN pool /\ pool' = [i \in DOMAIN pool |-> pool'[i]]
          /\ \A i \in DOMAIN pool : pool'[i] \in Clients
      BY <2>1, <2>3
    <3> QED
      BY <2>2, <3>1, InPlaceType
  <2>5. Keeps(pool, pool')
    BY <2>1, <2>3 DEF Keeps, OnPool
  <2> QED
    BY <1>1, <2>1, <2>4, <2>5, OtherKeeps, TypesNow DEF roomVars, tickVars
<1> QED
  BY <1>2, <1>3

\* A stall of the candles restarts Bybit's candle clients, or ends the
\* connector.
LEMMA CandleStallKeeps ==
    ASSUME Inv, CandleStall
    PROVE  Inv' /\ (Safe => Safe')
<1>1. UNCHANGED <<venue, role, rooms, queue, timer, execute, special,
                  channels, lost, tickVars, errors, faults>>
  BY DEF CandleStall
<1>2. CASE Bybit /\ targeted < MaxTargeted
  <2>1. /\ pool' = Recreated(pool) /\ jobs' = jobs \o Connects(rooms)
        /\ targeted' = targeted + 1 /\ ended' = ended
    BY <1>2 DEF CandleStall, BybitHandleStall, ReconnectBybit
  <2>2. Grows(jobs') /\ \A t \in rooms : HasTopic(jobs', t)
    BY <2>1, Replayed
  <2>3. pool' \in Seq(Clients)
    BY <2>1, RecreatedType DEF Inv, TypeOK, Clients
  <2>4. targeted' \in 0..MaxTargeted
    BY <1>2, <2>1, TypesNow
  <2>5. TypeOK'
    BY <1>1, <2>1, <2>2, <2>3, <2>4 DEF Inv, TypeOK, Clients, Calls, Grows, tickVars
  <2>6. Shape'
    BY <1>1, <2>1, <2>2, ShapeFrom DEF Inv, Shape, tickVars
  <2> QED
    BY <1>1, <2>2, <2>5, <2>6, SafeFrom DEF Inv
<1>3. CASE ~(Bybit /\ targeted < MaxTargeted)
  <2>1. ended' = TRUE /\ UNCHANGED <<pool, jobs, targeted>>
    BY <1>3 DEF CandleStall, Throws
  <2> QED
    BY <1>1, <2>1, OtherKeeps, PoolStays, TypesNow DEF tickVars
<1> QED
  BY <1>2, <1>3

-----------------------------------------------------------------------------
(* The init loops.                                                          *)

\* A loop ends: that of a cycle connects all rooms and releases the guard.
LEMMA CycleEndsKeeps ==
    ASSUME Inv, Bybit, NEW cycle \in BOOLEAN, CycleEnds(cycle),
           inits' \in Seq(Loops), retries' \in Nat, tickers' \subseteq Markets,
           faults' \in 0..MaxFaults,
           UNCHANGED <<venue, role, rooms, queue, timer, execute, pool,
                       special, channels, lost, targeted, errors, ended>>
    PROVE  Inv' /\ (Safe => Safe')
<1>1. CASE cycle
  <2>1. jobs' = jobs \o Connects(rooms) /\ restarting' = FALSE
    BY <1>1 DEF CycleEnds, ReconnectBybit
  <2>2. Grows(jobs') /\ \A t \in rooms : HasTopic(jobs', t)
    BY <2>1, Replayed
  <2>3. TypeOK'
    BY <2>1, <2>2 DEF Inv, TypeOK, Loops, Calls, Grows
  <2>4. Shape'
    BY <2>2, ShapeFrom DEF Inv, Shape, Bybit
  <2> QED
    BY <2>2, <2>3, <2>4, SafeFrom DEF Inv
<1>2. CASE ~cycle
  <2>1. UNCHANGED <<jobs, restarting>>
    BY <1>2 DEF CycleEnds
  <2>2. venue # "binance"
    BY DEF Bybit
  <2> QED
    BY <2>1, <2>2, OtherKeeps, PoolStays, TypesNow
<1> QED
  BY <1>1, <1>2

\* A market of a loop is subscribed.
LEMMA InitStepKeeps ==
    ASSUME Inv, NEW i \in DOMAIN inits, InitStep(i)
    PROVE  Inv' /\ (Safe => Safe')
<1>1. /\ UNCHANGED <<venue, role, rooms, queue, timer, execute, lost, targeted,
                     errors, faults>>
      /\ venue \in {"binance", "bybit", "bybitFutures", "okx", "bitget", "kucoin"}
  BY PoolsAssumption DEF InitStep, Inv, TypeOK
<1>2. venue # "binance"
  BY DEF Inv, Shape
<1>3. inits \in Seq(Loops)
  BY DEF Inv, TypeOK, Loops
<1>4. /\ Without(inits, i) \in Seq(Loops)
      /\ ~Last(i) => NextMarket(i) \in Seq(Loops)
      /\ inits[i].market \in Markets /\ inits[i].cycle \in BOOLEAN
  BY <1>3, InitsType
<1>5. Subscribed(i) \subseteq Markets
  BY <1>4, TypesNow DEF Subscribed
<1>6. CASE Bybit
  <2>1. BybitInit(i)
    <3>1. venue \notin {"okx", "bitget", "kucoin"}
      BY <1>6 DEF Bybit
    <3> QED
      BY <1>6, <3>1 DEF InitStep
  <2>2. /\ tickers' \subseteq Markets
        /\ UNCHANGED <<retries, pool, special, channels, ended>>
    BY <1>5, <2>1 DEF BybitInit
  <2>3. CASE Last(i)
    <3>1. inits' = Without(inits, i) /\ CycleEnds(inits[i].cycle)
      BY <2>1, <2>3 DEF BybitInit
    <3>2. inits' \in Seq(Loops) /\ retries' \in Nat /\ faults' \in 0..MaxFaults
      BY <1>1, <1>4, <2>2, <3>1, TypesNow
    <3> QED
      BY <1>1, <1>4, <1>6, <2>2, <3>1, <3>2, CycleEndsKeeps
  <2>4. CASE ~Last(i)
    <3>1. inits' = NextMarket(i) /\ UNCHANGED <<jobs, restarting>>
      BY <2>1, <2>4 DEF BybitInit
    <3> QED
      BY <1>1, <1>2, <1>4, <2>2, <2>4, <3>1, OtherKeeps, PoolStays, TypesNow
  <2> QED
    BY <2>3, <2>4
<1>7. CASE ~Bybit
  <2>1. OkxInit(i) \/ BitgetInit(i) \/ KucoinInit(i)
    <3>1. CASE venue = "okx"
      BY <1>7, <3>1 DEF InitStep, Bybit
    <3>2. CASE venue = "bitget"
      BY <1>7, <3>2 DEF InitStep, Bybit
    <3>3. CASE venue = "kucoin"
      BY <1>7, <3>3 DEF InitStep, Bybit
    <3> QED
      BY <1>1, <1>2, <1>7, <3>1, <3>2, <3>3 DEF Bybit
  <2>2. /\ tickers' \subseteq Markets /\ inits' \in Seq(Loops)
        /\ UNCHANGED <<jobs, restarting, retries, pool, special, channels, ended>>
    BY <1>4, <1>5, <2>1 DEF OkxInit, BitgetInit, KucoinInit
  <2> QED
    BY <1>1, <1>2, <2>2, OtherKeeps, PoolStays, TypesNow
<1> QED
  BY <1>6, <1>7

\* A fetch of a loop fails.
LEMMA InitFailsKeeps ==
    ASSUME Inv, NEW i \in DOMAIN inits, InitFails(i)
    PROVE  Inv' /\ (Safe => Safe')
<1>1. /\ UNCHANGED <<venue, role, rooms, queue, timer, execute, lost, targeted,
                     errors>>
      /\ venue \in {"binance", "bybit", "bybitFutures", "okx", "bitget", "kucoin"}
      /\ faults' \in 0..MaxFaults
  BY PoolsAssumption, TypesNow DEF InitFails, Inv, TypeOK
<1>2. venue # "binance"
  BY DEF Inv, Shape
<1>3. inits \in Seq(Loops)
  BY DEF Inv, TypeOK, Loops
<1>4. Without(inits, i) \in Seq(Loops) /\ inits[i].cycle \in BOOLEAN
  BY <1>3, InitsType
<1>5. CASE Bybit
  <2>1. /\ retries' = retries + 1 /\ inits' = Without(inits, i)
        /\ CycleEnds(inits[i].cycle)
        /\ UNCHANGED <<tickers, pool, special, channels, ended>>
    <3>1. venue \notin {"okx", "bitget", "kucoin"}
      BY <1>5 DEF Bybit
    <3> QED
      BY <1>5, <3>1 DEF InitFails, BybitInitFails
  <2>2. inits' \in Seq(Loops) /\ retries' \in Nat /\ tickers' \subseteq Markets
    BY <1>4, <2>1, TypesNow
  <2> QED
    BY <1>1, <1>4, <1>5, <2>1, <2>2, CycleEndsKeeps
<1>6. CASE venue = "okx"
  <2>1. OkxRestarts(Without(inits, i)) /\ UNCHANGED <<restarting, retries, special, channels, ended>>
    BY <1>6 DEF InitFails, OkxInitFails, Bybit
  <2> QED
    BY <1>1, <1>4, <1>6, <2>1, OkxRestartsKeeps
<1>7. CASE venue = "bitget"
  <2>1. BitgetRestarts(Without(inits, i)) /\ UNCHANGED <<restarting, retries, ended>>
    BY <1>7 DEF InitFails, BitgetInitFails, Bybit
  <2> QED
    BY <1>1, <1>4, <1>7, <2>1, BitgetRestartsKeeps
<1>8. CASE venue = "kucoin"
  <2>1. /\ ended' = TRUE
        /\ UNCHANGED <<tickers, inits, jobs, restarting, retries, pool,
                       special, channels>>
    BY <1>8 DEF InitFails, KucoinInitFails, Bybit
  <2> QED
    BY <1>1, <1>8, <2>1, OtherKeeps, PoolStays, TypesNow
<1> QED
  BY <1>1, <1>2, <1>5, <1>6, <1>7, <1>8 DEF Bybit

-----------------------------------------------------------------------------
(* Typing, and rooms that are never dead.                                   *)

LEMMA InitInv == Init => Inv /\ Safe
<1> SUFFICES ASSUME Init PROVE Inv /\ Safe
  OBVIOUS
<1>1. {Room(r) : r \in Kept} \subseteq Topics
  <2>1. \A r \in Kept : r \in Rooms
    BY PoolsAssumption
  <2>2. \A r \in Rooms : Room(r) \in Topics
    BY DEF Room, Topics
  <2> QED
    BY <2>1, <2>2
<1>2. rooms \subseteq Topics /\ Plain(rooms) /\ (role = "price" => rooms = {})
  BY <1>1 DEF Init, Plain, Room
<1>3. pool \in Seq(Clients)
  <2>1. Client(0, 0, {}) \in Clients
    BY PoolsAssumption DEF Client, Clients
  <2> HIDE DEF Clients
  <2> QED
    BY <2>1 DEF Init
<1>4. /\ jobs \in Seq(Calls)
      /\ \A j \in DOMAIN jobs : jobs[j].kind # "flush"
      /\ \A t : HasTopic(jobs, t) => t \in rooms
      /\ venue = "binance" /\ role = "candle" => HasKind(jobs, "connect")
      /\ venue # "binance" /\ venue # "kucoin" /\ role = "candle" =>
           \A t \in rooms : HasTopic(jobs, t)
  <2> DEFINE one(S) == <<Job("connect", S)>>
  <2>1. ASSUME NEW S \in SUBSET Topics
        PROVE  /\ one(S) \in Seq(Calls) /\ DOMAIN one(S) = {1}
               /\ one(S)[1].kind = "connect" /\ one(S)[1].data = S
    BY DEF Calls, Job
  <2>2. \/ jobs = <<>> /\ (role = "price" \/ venue = "kucoin" \/ (rooms = {} /\ venue # "binance"))
        \/ jobs = one({}) /\ venue = "binance"
        \/ jobs = one(rooms)
    BY DEF Init, Connects
  <2>3. <<>> \in Seq(Calls) /\ DOMAIN <<>> = {}
    BY EmptySeq
  <2> HIDE DEF one
  <2>4. CASE jobs = <<>>
    <3>1. /\ role = "price" \/ venue = "kucoin" \/ (rooms = {} /\ venue # "binance")
          /\ role = "price" => rooms = {}
      BY <1>2, <2>1, <2>2, <2>4, <2>3
    <3>2. ~(role = "price" /\ role = "candle")
      OBVIOUS
    <3> QED
      BY <2>3, <2>4, <3>1, <3>2 DEF HasTopic
  <2>5. CASE jobs = one({}) /\ venue = "binance"
    BY <2>1, <2>5 DEF HasTopic, HasKind
  <2>6. CASE jobs = one(rooms)
    BY <1>2, <2>1, <2>6 DEF HasTopic, HasKind
  <2> QED
    BY <2>2, <2>4, <2>5, <2>6
<1>5. inits \in Seq(Loops) /\ (venue = "binance" => inits = <<>>)
  <2> DEFINE l == [market |-> 1, cycle |-> FALSE]
  <2>1. l \in Loops
    BY PoolsAssumption DEF Loops, Markets
  <2>2. inits = IF role = "candle" \/ venue = "binance" THEN <<>> ELSE <<l>>
    BY DEF Init
  <2> HIDE DEF l
  <2>3. <<l>> \in Seq(Loops)
    BY <2>1
  <2> QED
    BY <2>2, <2>3, EmptySeq
<1>6. TypeOK
  <2>1. /\ venue \in Venues /\ role \in Roles
        /\ queue \subseteq Topics /\ lost \subseteq Topics
        /\ special \subseteq Topics /\ channels \subseteq Rooms
        /\ timer \in BOOLEAN /\ execute \in BOOLEAN
        /\ restarting \in BOOLEAN /\ ended \in BOOLEAN
    BY DEF Init
  <2>2. /\ retries \in Nat /\ tickers \subseteq Markets
        /\ targeted \in 0..MaxTargeted
        /\ errors \in 0..MaxErrors /\ faults \in 0..MaxFaults
    BY PoolsAssumption DEF Init
  <2> QED
    BY <1>2, <1>3, <1>4, <1>5, <2>1, <2>2 DEF TypeOK, Clients, Calls, Loops
<1>7. Shape
  <2>1. /\ queue = {} /\ channels = {} /\ errors < MaxErrors
    BY PoolsAssumption DEF Init
  <2>2. Plain(queue)
    BY <2>1 DEF Plain
  <2>3. \A t : HasTopic(jobs, t) => ~t.echo
    BY <1>2, <1>4 DEF Plain
  <2>4. \A j \in DOMAIN jobs : jobs[j].kind = "flush" => jobs[j].data = {}
    BY <1>4
  <2>5. role = "price" => \A t : ~HasTopic(jobs, t)
    BY <1>2, <1>4
  <2> QED
    BY <1>2, <1>5, <2>1, <2>2, <2>3, <2>4, <2>5 DEF Shape
<1>8. Safe
  <2>1. rooms # {} => role = "candle" /\ venue # "kucoin"
    BY PoolsAssumption DEF Init
  <2> QED
    BY <1>4, <2>1, HeldDef DEF Safe
<1> QED
  BY <1>6, <1>7, <1>8 DEF Inv

LEMMA NextInv == Inv /\ [Next]_vars => Inv' /\ (Safe => Safe')
<1> SUFFICES ASSUME Inv, [Next]_vars PROVE Inv' /\ (Safe => Safe')
  OBVIOUS
<1>1. CASE UNCHANGED vars
  BY <1>1, OtherKeeps, PoolStays, TypesNow
     DEF vars, roomVars, poolVars, tickVars, failVars
<1>2. CASE MutexStep
  BY <1>2, BinanceConnectKeeps, BinanceDialsKeeps, BybitConnectsKeeps,
     OkxConnectKeeps, FlushKeeps, SubscribesKeeps, BitgetConnectKeeps
     DEF MutexStep
<1>3. CASE Exception
  BY <1>3, BinanceExceptionKeeps, BybitExceptionKeeps, OkxExceptionKeeps,
     BitgetExceptionKeeps, KucoinErrorKeeps, KucoinSubscribeFailsKeeps,
     TickerStallKeeps, InitFailsKeeps, BinanceSocketDropsKeeps, GoesSilentKeeps
     DEF Exception
<1>4. CASE \/ \E r \in Rooms : Request(r)
           \/ TimerFires \/ BinanceSettled \/ BybitRetryTimer
           \/ \E i \in DOMAIN inits : InitStep(i)
           \/ \E i \in DOMAIN pool : DropRejectedTopic(i)
           \/ NoteActivity \/ WatchdogStep
  BY <1>4, RequestKeeps, TimerFiresKeeps, BinanceSettledKeeps,
     BybitRetryTimerKeeps, InitStepKeeps, DropRejectedTopicKeeps,
     NoteActivityKeeps, CandleStallKeeps, CheckClientStallsKeeps
     DEF WatchdogStep
<1> QED
  BY <1>1, <1>2, <1>3, <1>4 DEF Next

\* Every variable keeps its type: the counters stay in their ranges, whichever
\* of a pool's clients is picked there is one, and no step is undefined.
THEOREM PoolsTypeCorrect == Spec => []TypeOK
<1>1. Init => Inv
  BY InitInv
<1>2. Inv /\ [Next]_vars => Inv'
  BY NextInv
<1>3. Inv => TypeOK
  BY DEF Inv
<1> QED
  BY <1>1, <1>2, <1>3, PTL DEF Spec

\* A room that was asked for is carried by a client of the pool, or something
\* the connector has set going will subscribe it, or it was abandoned: for any
\* number of rooms, any limits, and any number of faults.
THEOREM NoRoomDies == Spec => []NoDeadRoom
<1>1. Init => Inv /\ Safe
  BY InitInv
<1>2. (Inv /\ Safe) /\ [Next]_vars => (Inv /\ Safe)'
  BY NextInv
<1>3. Inv /\ Safe => NoDeadRoom
  BY DEF Safe, Held, NoDeadRoom
<1> QED
  BY <1>1, <1>2, <1>3, PTL DEF Spec

\* The arms of an init loop's steps are the venues'.
LEMMA InitArms ==
    ASSUME Inv, NEW i \in DOMAIN inits
    PROVE  /\ InitStep(i) => \/ BybitInit(i) \/ OkxInit(i)
                             \/ BitgetInit(i) \/ KucoinInit(i)
           /\ InitFails(i) => \/ BybitInitFails(i) \/ OkxInitFails(i)
                              \/ BitgetInitFails(i) \/ KucoinInitFails(i)
<1>1. venue \in {"bybit", "bybitFutures", "okx", "bitget", "kucoin"}
  BY PoolsAssumption DEF Inv, TypeOK, Shape
<1>2. Bybit <=> venue \in {"bybit", "bybitFutures"}
  BY DEF Bybit
<1>3. CASE Bybit
  BY <1>2, <1>3 DEF InitStep, InitFails
<1>4. CASE venue = "okx"
  BY <1>2, <1>4 DEF InitStep, InitFails
<1>5. CASE venue = "bitget"
  BY <1>2, <1>5 DEF InitStep, InitFails
<1>6. CASE venue = "kucoin"
  BY <1>2, <1>6 DEF InitStep, InitFails
<1> QED
  BY <1>1, <1>2, <1>3, <1>4, <1>5, <1>6

-----------------------------------------------------------------------------
(* What the clients of a pool carry.                                        *)

\* q has the clients of p, with their counts and with no topics but theirs.
Shrinks(p, q) ==
    /\ DOMAIN q = DOMAIN p
    /\ \A i \in DOMAIN p : /\ q[i].id = p[i].id /\ q[i].count = p[i].count
                           /\ q[i].topics \subseteq p[i].topics

\* The most a client of the venue v counts.
Limit(v) == CASE v = "binance" -> Batch
              [] v = "bitget"  -> Cap + Batch - 1
              [] v = "okx"     -> 2 * Cap - 1
              [] OTHER         -> Cap

\* n more topics on a client with place for k keep the limit of the venue.
Fits(k, n) ==
    /\ n <= Limit(venue)
    /\ \A m \in Nat : m + k <= Cap => m + n <= Limit(venue)

\* All a step may do to the pool.
PoolStep(p, q) ==
    \/ Shrinks(p, q)
    \/ q = <<>>
    \/ q = Recreated(p)
    \/ \E ts \in SUBSET Topics :
         /\ q = Append(p, Client(Len(p), Cardinality(ts), ts))
         /\ Cardinality(ts) <= Batch
         /\ venue = "binance"
    \/ \E ts \in SUBSET Topics, k \in Nat, n \in Nat :
         Puts(p, q, k, n, ts) /\ Cardinality(ts) <= n
         /\ (venue # "bybitFutures" => Fits(k, n)) /\ venue # "binance"

LEMMA LimitType ==
    /\ Limit(venue) \in Nat /\ Cap \in Nat /\ Batch \in Nat
    /\ Batch <= Cap /\ 1 <= Batch /\ Batch <= Limit(venue)
    /\ venue = "okx" => Limit(venue) = 2 * Cap - 1
    /\ venue = "bitget" => Limit(venue) = Cap + Batch - 1
    /\ venue \in {"kucoin", "bybit"} => Limit(venue) = Cap
<1>1. Cap \in Nat /\ Batch \in Nat /\ Batch <= Cap /\ 1 <= Batch
  BY PoolsAssumption
<1> QED
  BY <1>1 DEF Limit

\* The picks of the venues fit.
LEMMA PicksFit ==
    ASSUME NEW n \in Nat
    PROVE  /\ venue \in {"kucoin", "bybit"} /\ n <= Cap => Fits(n, n)
           /\ venue = "okx" /\ n <= Cap => Fits(1, n)
           /\ venue = "bitget" /\ n <= Batch => Fits(1, n)
  BY LimitType DEF Fits

\* A step that leaves the pool alone is such a step.
LEMMA SamePool ==
    ASSUME pool' = pool PROVE PoolStep(pool, pool')
  BY DEF PoolStep, Shrinks

\* The venue never changes, and the pool changes as said.
LEMMA NextPoolStep ==
    ASSUME Inv, [Next]_vars
    PROVE  venue' = venue /\ PoolStep(pool, pool')
<1>1. pool \in Seq(Clients)
  BY DEF Inv, TypeOK, Clients
<1>2. CASE UNCHANGED vars
  BY <1>2, SamePool DEF vars, poolVars
<1>3. CASE \E r \in Rooms : Request(r)
  BY <1>3, SamePool DEF Request, poolVars
<1>4. CASE MutexStep
  <2>1. CASE BinanceConnect
    <3>1. pool' = pool \/ pool' = <<>>
      BY <2>1 DEF BinanceConnect, BinanceRedial, BinanceDebounce
    <3> QED
      BY <2>1, <3>1, SamePool DEF BinanceConnect, PoolStep
  <2>2. CASE BinanceDials
    <3> DEFINE c == NextOf(Head(jobs).data, Batch)
    <3>1. /\ pool' = Append(pool, Client(Len(pool), Cardinality(c), c))
          /\ venue = "binance" /\ venue' = venue /\ Holds("subscribe")
      BY <2>2 DEF BinanceDials
    <3>2. c \in SUBSET Topics /\ Cardinality(c) <= Batch
      BY <3>1, HeadType, NextOfType, LimitType
    <3> HIDE DEF c
    <3> QED
      BY <3>1, <3>2 DEF PoolStep
  <2>3. CASE BybitConnects
    <3>1. /\ Bybit /\ Holds("connect") /\ venue' = venue
          /\ \E t \in Head(jobs).data : pool' = GetBybitClient(pool, t)
      BY <2>3 DEF BybitConnects
    <3>2. PICK t \in Topics : pool' = GetBybitClient(pool, t)
      BY <3>1, HeadType
    <3>3. Puts(pool, pool', 1, 1, {t})
      BY <1>1, <3>1, <3>2, GetsPut
    <3>4. {t} \in SUBSET Topics /\ Cardinality({t}) <= 1
      <4>1. Cardinality({t}) = 1
        BY FS_Singleton, Zenon
      <4> QED
        BY <4>1
    <3>5. (venue # "bybitFutures" => Fits(1, 1)) /\ venue # "binance"
      BY <3>1, PicksFit, LimitType DEF Bybit
    <3> QED
      BY <3>1, <3>3, <3>4, <3>5 DEF PoolStep
  <2>4. CASE OkxConnect \/ OkxFlush \/ BitgetFlush \/ KucoinFlush
    BY <2>4, SamePool DEF OkxConnect, OkxFlush, BitgetFlush, KucoinFlush, poolVars
  <2>5. CASE BitgetConnect
    BY <2>5, SamePool DEF BitgetConnect
  <2>6. CASE OkxSubscribes
    <3> DEFINE c == NextOf(Head(jobs).data, Cap)
    <3>1. /\ pool' = GetOkxClient(pool, c)
          /\ venue = "okx" /\ venue' = venue /\ Holds("subscribe")
      BY <2>6 DEF OkxSubscribes
    <3>2. c \in SUBSET Topics /\ Cardinality(c) <= Cap
      BY <3>1, HeadType, NextOfType, LimitType
    <3>3. Cardinality(c) \in Nat
      BY <3>2, TopicsFinite
    <3> HIDE DEF c
    <3>4. Puts(pool, pool', 1, Cardinality(c), c)
      BY <1>1, <3>1, <3>2, <3>3, GetsPut
    <3>5. Fits(1, Cardinality(c)) /\ Cardinality(c) <= Cardinality(c)
      BY <3>1, <3>2, <3>3, PicksFit
    <3> QED
      BY <3>1, <3>2, <3>3, <3>4, <3>5 DEF PoolStep
  <2>7. CASE BitgetSubscribes
    <3> DEFINE c == NextOf(Head(jobs).data, Batch)
    <3>1. /\ pool' = GetBitgetClient(pool, c)
          /\ venue = "bitget" /\ venue' = venue /\ Holds("subscribe")
      BY <2>7 DEF BitgetSubscribes
    <3>2. c \in SUBSET Topics /\ Cardinality(c) <= Batch
      BY <3>1, HeadType, NextOfType, LimitType
    <3>3. Cardinality(c) \in Nat
      BY <3>2, TopicsFinite
    <3> HIDE DEF c
    <3>4. Puts(pool, pool', 1, Cardinality(c), c)
      BY <1>1, <3>1, <3>2, <3>3, GetsPut
    <3>5. Fits(1, Cardinality(c)) /\ Cardinality(c) <= Cardinality(c)
      BY <3>1, <3>2, <3>3, PicksFit
    <3> QED
      BY <3>1, <3>2, <3>3, <3>4, <3>5 DEF PoolStep
  <2>8. CASE KucoinSubscribes
    <3> DEFINE c == NextOf(Head(jobs).data, Batch)
    <3>1. /\ pool' = GetKucoinClient(pool, Cardinality(c), c)
          /\ venue = "kucoin" /\ venue' = venue /\ Holds("subscribe")
      BY <2>8 DEF KucoinSubscribes
    <3>2. c \in SUBSET Topics /\ Cardinality(c) <= Batch
      BY <3>1, HeadType, NextOfType, LimitType
    <3>3. Cardinality(c) \in Nat
      BY <3>2, TopicsFinite
    <3> HIDE DEF c
    <3>4. Puts(pool, pool', Cardinality(c), Cardinality(c), c)
      BY <1>1, <3>1, <3>2, <3>3, GetsPut
    <3>5. /\ Fits(Cardinality(c), Cardinality(c))
          /\ Cardinality(c) <= Cardinality(c)
      <4>1. Cardinality(c) <= Cap
        BY <3>2, <3>3, LimitType
      <4> QED
        BY <3>1, <3>3, <4>1, PicksFit
    <3> QED
      BY <3>1, <3>2, <3>3, <3>4, <3>5 DEF PoolStep
  <2> QED
    BY <1>4, <2>1, <2>2, <2>3, <2>4, <2>5, <2>6, <2>7, <2>8 DEF MutexStep
<1>5. CASE TimerFires \/ BinanceSettled \/ NoteActivity
  BY <1>5, SamePool DEF TimerFires, BinanceSettled, NoteActivity, poolVars
<1>6. CASE BybitRetryTimer
  <2>1. venue' = venue /\ (pool' = pool \/ pool' = Recreated(pool))
    BY <1>6 DEF BybitRetryTimer, StartCycle
  <2> QED
    BY <2>1, SamePool DEF PoolStep
<1>7. CASE \E i \in DOMAIN inits : InitStep(i)
  <2>1. PICK i \in DOMAIN inits : InitStep(i)
    BY <1>7
  <2>2. venue' = venue /\ venue # "binance"
    BY <2>1 DEF InitStep, Inv, Shape
  <2>3. pool' = pool
    <3>1. BybitInit(i) \/ OkxInit(i) \/ BitgetInit(i) \/ KucoinInit(i)
      BY <2>1, InitArms
    <3> QED
      BY <3>1 DEF BybitInit, OkxInit, BitgetInit, KucoinInit
  <2> QED
    BY <2>2, <2>3, SamePool
<1>8. CASE \E i \in DOMAIN pool : DropRejectedTopic(i)
  <2>1. PICK i \in DOMAIN pool : DropRejectedTopic(i)
    BY <1>8
  <2>2. PICK t \in pool[i].topics : pool' = [pool EXCEPT ![i].topics = @ \ {t}]
    BY <2>1 DEF DropRejectedTopic
  <2> DEFINE c == [pool[i] EXCEPT !.topics = pool[i].topics \ {t}]
  <2>3. /\ c \in Clients /\ c.topics \subseteq pool[i].topics
        /\ c.id = pool[i].id /\ c.count = pool[i].count
        /\ pool' = [pool EXCEPT ![i] = c]
    <3>1. pool[i] \in Clients
      BY <1>1, ClientType
    <3> QED
      BY <2>2, <3>1 DEF Clients
  <2> HIDE DEF c
  <2>4. Shrinks(pool, pool')
    BY <1>1, <2>3, ClientChanges DEF Shrinks
  <2> QED
    BY <2>1, <2>4 DEF PoolStep, DropRejectedTopic
<1>9. CASE WatchdogStep
  <2>1. CASE CandleStall
    <3>1. venue' = venue /\ (pool' = pool \/ pool' = Recreated(pool))
      BY <2>1 DEF CandleStall, BybitHandleStall, Throws
    <3> QED
      BY <3>1, SamePool DEF PoolStep
  <2>2. CASE CheckClientStalls
    <3>1. /\ venue' = venue
          /\ pool' = pool \/ pool' = [i \in DOMAIN pool |-> AfterCheck(i)]
      BY <2>2 DEF CheckClientStalls
    <3>2. ASSUME NEW i \in DOMAIN pool
          PROVE  /\ AfterCheck(i).id = pool[i].id
                 /\ AfterCheck(i).count = pool[i].count
                 /\ AfterCheck(i).topics = pool[i].topics
      <4>1. pool[i] \in Clients
        BY <1>1, ClientType
      <4> QED
        BY <4>1 DEF AfterCheck, RecreateClient, Clients
    <3> QED
      BY <3>1, <3>2, SamePool DEF PoolStep, Shrinks
  <2> QED
    BY <1>9, <2>1, <2>2 DEF WatchdogStep
<1>10. CASE Exception
  <2>1. CASE BinanceException \/ BybitException
    BY <2>1 DEF BinanceException, BinanceStops, BybitException, StartCycle, PoolStep
  <2>2. CASE OkxException \/ BitgetException
    BY <2>2 DEF OkxException, OkxRestarts, OkxStops, BitgetException,
                BitgetRestarts, BitgetStops, PoolStep
  <2>3. CASE KucoinError \/ TickerStall
    BY <2>3, SamePool DEF KucoinError, TickerStall, poolVars
  <2>4. CASE KucoinSubscribeFails
    <3> DEFINE n == Cardinality(NextOf(Head(jobs).data, Batch))
    <3>1. /\ pool' = GetKucoinClient(pool, n, {})
          /\ venue = "kucoin" /\ venue' = venue /\ Holds("subscribe")
      BY <2>4 DEF KucoinSubscribeFails
    <3>2. n \in Nat /\ n <= Cap
      <4>1. /\ NextOf(Head(jobs).data, Batch) \in SUBSET Topics
            /\ n <= Batch
        BY <3>1, HeadType, NextOfType, LimitType
      <4>2. n \in Nat
        BY <4>1, TopicsFinite
      <4> HIDE DEF n
      <4> QED
        BY <4>1, <4>2, LimitType
    <3> HIDE DEF n
    <3>3. {} \in SUBSET Topics /\ Cardinality({}) <= n
      <4>1. Cardinality({}) = 0
        BY FS_EmptySet
      <4> QED
        BY <3>2, <4>1
    <3>4. Puts(pool, pool', n, n, {}) /\ Fits(n, n)
      BY <1>1, <3>1, <3>2, <3>3, GetsPut, PicksFit
    <3> QED
      BY <3>1, <3>2, <3>3, <3>4 DEF PoolStep
  <2>5. CASE \E i \in DOMAIN inits : InitFails(i)
    <3>1. PICK i \in DOMAIN inits : InitFails(i)
      BY <2>5
    <3>2. venue' = venue
      BY <3>1 DEF InitFails
    <3>3. pool' = pool \/ pool' = Recreated(pool)
      <4>1. \/ BybitInitFails(i) \/ OkxInitFails(i)
            \/ BitgetInitFails(i) \/ KucoinInitFails(i)
        BY <3>1, InitArms
      <4> QED
        BY <4>1 DEF BybitInitFails, OkxInitFails, OkxRestarts, OkxStops,
                    BitgetInitFails, BitgetRestarts, BitgetStops, KucoinInitFails
    <3> QED
      BY <3>2, <3>3, SamePool DEF PoolStep
  <2>6. CASE \E i \in DOMAIN pool : BinanceSocketDrops(i) \/ GoesSilent(i)
    <3>1. PICK i \in DOMAIN pool : BinanceSocketDrops(i) \/ GoesSilent(i)
      BY <2>6
    <3>2. pool[i] \in Clients
      BY <1>1, ClientType
    <3>3. PICK c \in Clients :
            /\ pool' = [pool EXCEPT ![i] = c]
            /\ c.id = pool[i].id /\ c.count = pool[i].count
            /\ c.topics \subseteq pool[i].topics
      <4>1. CASE BinanceSocketDrops(i)
        <5> DEFINE c == [pool[i] EXCEPT !.topics = {}]
        <5>1. /\ c \in Clients /\ pool' = [pool EXCEPT ![i] = c]
              /\ c.id = pool[i].id /\ c.count = pool[i].count
              /\ c.topics \subseteq pool[i].topics
          BY <3>2, <4>1 DEF Clients, BinanceSocketDrops
        <5> HIDE DEF c
        <5> QED
          BY <5>1
      <4>2. CASE GoesSilent(i)
        <5> DEFINE c == [pool[i] EXCEPT !.mute = TRUE]
        <5>1. /\ c \in Clients /\ pool' = [pool EXCEPT ![i] = c]
              /\ c.id = pool[i].id /\ c.count = pool[i].count
              /\ c.topics \subseteq pool[i].topics
          BY <3>2, <4>2 DEF Clients, GoesSilent
        <5> HIDE DEF c
        <5> QED
          BY <5>1
      <4> QED
        BY <3>1, <4>1, <4>2
    <3>4. Shrinks(pool, pool')
      BY <1>1, <3>3, ClientChanges DEF Shrinks
    <3> QED
      BY <3>1, <3>4 DEF PoolStep, BinanceSocketDrops, GoesSilent
  <2> QED
    BY <1>10, <2>1, <2>2, <2>3, <2>4, <2>5, <2>6 DEF Exception
<1> QED
  BY <1>2, <1>3, <1>4, <1>5, <1>6, <1>7, <1>8, <1>9, <1>10 DEF Next

\* Every client has its place for id, carries no more than it counts, and
\* counts no more than L.
Good(p, L) ==
    \A i \in DOMAIN p : /\ p[i].id = i - 1
                        /\ Cardinality(p[i].topics) <= p[i].count
                        /\ p[i].count <= L

\* A pick finds one client to write back to, as no two have the same id, and
\* does not count past the limit.
LEMMA PutsCounted ==
    ASSUME NEW p \in Seq(Clients), NEW L \in Nat, Good(p, L), NEW q,
           NEW k \in Nat, NEW n \in Nat, NEW ts \in SUBSET Topics,
           Puts(p, q, k, n, ts), Cardinality(ts) <= n, n <= L,
           \A m \in Nat : m + k <= Cap => m + n <= L,
           venue \in {"okx", "bitget", "kucoin", "bybit"}
    PROVE  Good(q, L)
<1>1. /\ Len(p) \in Nat /\ DOMAIN p = 1..Len(p)
      /\ \A i \in DOMAIN p : /\ i \in Nat /\ p[i].count \in Nat
                             /\ p[i].topics \in SUBSET Topics
  BY ClientType
<1>2. ASSUME NEW i \in Below(p, k), q = Filled(p, i, n, ts)
      PROVE  Good(q, L)
  <2>1. i \in DOMAIN p /\ p[i].count + n <= L
    BY <1>1, BelowType
  <2> DEFINE f == Filled(p, i, n, ts)
  <2> HIDE DEF f
  <2>2. /\ f \in Seq(Clients) /\ Len(f) = Len(p)
        /\ \A j \in DOMAIN p :
             /\ f[j].id = p[j].id
             /\ i # j => f[j].topics = p[j].topics
             /\ p[j].id # p[i].id => f[j].count = p[j].count
        /\ f[i].topics = p[i].topics \cup ts /\ f[i].count = p[i].count + n
    <3>1. IsFilled(p, i, n, ts, f)
      BY <2>1, FilledType DEF f
    <3> QED
      BY <3>1 DEF IsFilled
  <2>3. DOMAIN f = DOMAIN p
    BY <1>1, <2>2, ClientType
  <2>4. ASSUME NEW j \in DOMAIN p
        PROVE  /\ f[j].id = j - 1
               /\ Cardinality(f[j].topics) <= f[j].count /\ f[j].count <= L
    <3>1. p[j].id = j - 1 /\ p[i].id = i - 1 /\ i \in Nat /\ j \in Nat
      BY <1>1, <2>1 DEF Good
    <3>2. CASE j = i
      <4>1. Cardinality(p[i].topics \cup ts) <= p[i].count + n
        <5>1. /\ IsFiniteSet(p[i].topics) /\ IsFiniteSet(ts)
              /\ p[i].topics \cap ts \in SUBSET Topics
          BY <1>1, <2>1, TopicsFinite
        <5>2. Cardinality(p[i].topics \cup ts) =
                Cardinality(p[i].topics) + Cardinality(ts)
                - Cardinality(p[i].topics \cap ts)
          BY <5>1, FS_Union
        <5>3. /\ Cardinality(p[i].topics) \in Nat /\ Cardinality(ts) \in Nat
              /\ Cardinality(p[i].topics \cap ts) \in Nat
          BY <1>1, <2>1, <5>1, TopicsFinite
        <5>4. Cardinality(p[i].topics) <= p[i].count /\ p[i].count \in Nat
          BY <1>1, <2>1 DEF Good
        <5> QED
          BY <5>2, <5>3, <5>4
      <4> QED
        BY <2>1, <2>2, <3>1, <3>2, <4>1
    <3>3. CASE j # i
      <4>1. p[j].id # p[i].id
        BY <3>1, <3>3
      <4> QED
        BY <2>2, <3>1, <3>3, <4>1 DEF Good
    <3> QED
      BY <3>2, <3>3
  <2>5. q = f
    BY <1>2 DEF f
  <2> QED
    BY <2>3, <2>4, <2>5 DEF Good
<1>3. ASSUME q = Append(p, Client(Len(p), n, ts))
      PROVE  Good(q, L)
  <2> DEFINE f == Append(p, Client(Len(p), n, ts))
  <2>1. /\ f \in Seq(Clients) /\ Len(f) = Len(p) + 1
        /\ \A j \in DOMAIN p : f[j] = p[j]
        /\ f[Len(p) + 1].id = Len(p) /\ f[Len(p) + 1].count = n
        /\ f[Len(p) + 1].topics = ts
    BY <1>1, AppendedType
  <2> HIDE DEF f
  <2>2. DOMAIN f = 1..(Len(p) + 1)
    BY <2>1, ClientType
  <2>3. \A j \in DOMAIN f : j \in DOMAIN p \/ j = Len(p) + 1
    BY <1>1, <2>2
  <2>4. Good(f, L)
    BY <1>1, <2>1, <2>3 DEF Good
  <2> QED
    BY <1>3, <2>4 DEF f
<1> QED
  BY <1>2, <1>3 DEF Puts

\* The clients of the venue are counted within its limit.
Counted == venue # "bybitFutures" => Good(pool, Limit(venue))

LEMMA CountedKept ==
    ASSUME Inv, Counted, [Next]_vars PROVE Counted'
<1> SUFFICES ASSUME venue # "bybitFutures" PROVE Good(pool', Limit(venue))
  BY NextPoolStep DEF Counted
<1>1. /\ pool \in Seq(Clients) /\ Limit(venue) \in Nat
      /\ Good(pool, Limit(venue))
      /\ venue \in {"binance", "bybit", "okx", "bitget", "kucoin"}
  BY LimitType, PoolsAssumption DEF Inv, TypeOK, Clients, Counted
<1>2. /\ Len(pool) \in Nat /\ DOMAIN pool = 1..Len(pool)
      /\ \A i \in DOMAIN pool : /\ i \in Nat /\ pool[i].count \in Nat
                                /\ pool[i].topics \in SUBSET Topics
  BY <1>1, ClientType
<1>3. CASE Shrinks(pool, pool')
  <2>1. ASSUME NEW i \in DOMAIN pool
        PROVE  Cardinality(pool'[i].topics) <= Cardinality(pool[i].topics)
               /\ Cardinality(pool[i].topics) \in Nat
               /\ Cardinality(pool'[i].topics) \in Nat
    <3>1. pool'[i].topics \subseteq pool[i].topics /\ IsFiniteSet(pool[i].topics)
      BY <1>2, <1>3, TopicsFinite DEF Shrinks
    <3>2. Cardinality(pool'[i].topics) <= Cardinality(pool[i].topics)
      BY <3>1, FS_Subset
    <3>3. pool'[i].topics \in SUBSET Topics
      BY <1>2, <3>1
    <3> QED
      BY <1>2, <3>2, <3>3, TopicsFinite
  <2> QED
    BY <1>1, <1>2, <1>3, <2>1 DEF Shrinks, Good
<1>4. CASE pool' = <<>>
  <2>1. DOMAIN pool' = {}
    BY <1>4
  <2> QED
    BY <2>1 DEF Good
<1>5. CASE pool' = Recreated(pool)
  <2> DEFINE f == Recreated(pool)
  <2>1. /\ f \in Seq(Clients) /\ Len(f) = Len(pool)
        /\ \A i \in DOMAIN pool : /\ f[i].id = pool[i].id /\ f[i].count = 0
                                  /\ f[i].topics = {}
    BY <1>1, RecreatedType
  <2> HIDE DEF f
  <2>2. DOMAIN f = DOMAIN pool /\ Cardinality({}) = 0
    BY <1>2, <2>1, ClientType, FS_EmptySet
  <2>3. ASSUME NEW i \in DOMAIN f
        PROVE  /\ f[i].id = i - 1 /\ Cardinality(f[i].topics) <= f[i].count
               /\ f[i].count <= Limit(venue)
    <3>1. i \in DOMAIN pool
      BY <2>2
    <3>2. f[i].id = pool[i].id /\ f[i].count = 0 /\ f[i].topics = {}
      BY <2>1, <3>1
    <3>3. pool[i].id = i - 1
      BY <1>1, <3>1 DEF Good
    <3>4. Cardinality(f[i].topics) = 0
      BY <2>2, <3>2
    <3> QED
      BY <1>1, <3>2, <3>3, <3>4
  <2>4. Good(f, Limit(venue))
    BY <2>3 DEF Good
  <2> QED
    BY <1>5, <2>4 DEF f
<1>6. CASE \E ts \in SUBSET Topics :
             /\ pool' = Append(pool, Client(Len(pool), Cardinality(ts), ts))
             /\ Cardinality(ts) <= Batch
             /\ venue = "binance"
  <2>1. PICK ts \in SUBSET Topics :
             /\ pool' = Append(pool, Client(Len(pool), Cardinality(ts), ts))
             /\ Cardinality(ts) <= Batch
    BY <1>6
  <2> DEFINE f == Append(pool, Client(Len(pool), Cardinality(ts), ts))
  <2>2. Cardinality(ts) \in Nat /\ Cardinality(ts) <= Limit(venue)
    BY <2>1, TopicsFinite, LimitType
  <2>3. /\ f \in Seq(Clients) /\ Len(f) = Len(pool) + 1
        /\ \A j \in DOMAIN pool : f[j] = pool[j]
        /\ f[Len(pool) + 1].id = Len(pool)
        /\ f[Len(pool) + 1].count = Cardinality(ts)
        /\ f[Len(pool) + 1].topics = ts
    BY <1>1, <1>2, <2>2, AppendedType
  <2> HIDE DEF f
  <2>4. DOMAIN f = 1..(Len(pool) + 1)
    BY <2>3, ClientType
  <2>5. \A j \in DOMAIN f : j \in DOMAIN pool \/ j = Len(pool) + 1
    BY <1>2, <2>4
  <2>6. Good(f, Limit(venue))
    BY <1>1, <1>2, <2>2, <2>3, <2>5 DEF Good
  <2> QED
    BY <2>1, <2>6 DEF f
<1>7. CASE \E ts \in SUBSET Topics, k \in Nat, n \in Nat :
             /\ Puts(pool, pool', k, n, ts) /\ Cardinality(ts) <= n
             /\ Fits(k, n) /\ venue # "binance"
  <2>1. PICK ts \in SUBSET Topics, k \in Nat, n \in Nat :
             /\ Puts(pool, pool', k, n, ts) /\ Cardinality(ts) <= n
             /\ Fits(k, n) /\ venue # "binance"
    BY <1>7
  <2>2. /\ n <= Limit(venue)
        /\ \A m \in Nat : m + k <= Cap => m + n <= Limit(venue)
        /\ venue \in {"okx", "bitget", "kucoin", "bybit"}
    BY <1>1, <2>1 DEF Fits
  <2> QED
    BY <1>1, <2>1, <2>2, PutsCounted
<1> QED
  BY <1>3, <1>4, <1>5, <1>6, <1>7, NextPoolStep DEF PoolStep

\* No client ever carries more topics than its venue allows, counting the
\* chunk that may pass the limit.  Futures clients of Bybit share their ids
\* when the spot pool grows first, and a write-back may count too little:
\* they are left out.
THEOREM NeverOverfilled == Spec => [](venue # "bybitFutures" => WithinMax)
<1>1. Init => Inv /\ Counted
  <2> SUFFICES ASSUME Init PROVE Counted
    BY InitInv
  <2>1. Cardinality({}) = 0 /\ Limit(venue) \in Nat
    BY FS_EmptySet, LimitType
  <2>2. pool = <<>> \/ pool = <<Client(0, 0, {})>>
    BY DEF Init
  <2>3. Good(pool, Limit(venue))
    <3>1. CASE pool = <<>>
      BY <3>1 DEF Good
    <3>2. CASE pool = <<Client(0, 0, {})>>
      <4>1. /\ DOMAIN pool = {1} /\ pool[1].id = 0 /\ pool[1].count = 0
            /\ pool[1].topics = {}
        BY <3>2 DEF Client
      <4> QED
        BY <2>1, <4>1 DEF Good
    <3> QED
      BY <2>2, <3>1, <3>2
  <2> QED
    BY <2>3 DEF Counted
<1>2. (Inv /\ Counted) /\ [Next]_vars => (Inv /\ Counted)'
  BY NextInv, CountedKept
<1>3. Inv /\ Counted => (venue # "bybitFutures" => WithinMax)
  <2> SUFFICES ASSUME Inv, Counted, venue # "bybitFutures", NEW i \in DOMAIN pool
               PROVE  LET n == Cardinality(pool[i].topics)
                      IN  CASE venue = "binance" -> n <= Batch
                            [] venue = "bitget"  -> n < Cap + Batch
                            [] venue = "okx"     -> n < 2 * Cap
                            [] OTHER             -> n <= Cap
    BY DEF WithinMax
  <2> DEFINE n == Cardinality(pool[i].topics)
  <2>1. pool \in Seq(Clients)
    BY DEF Inv, TypeOK, Clients
  <2>2. n \in Nat /\ pool[i].count \in Nat
    BY <2>1, ClientType, TopicsFinite
  <2>3. n <= pool[i].count /\ pool[i].count <= Limit(venue)
    BY DEF Counted, Good
  <2> HIDE DEF n
  <2>4. n <= Limit(venue) /\ Limit(venue) \in Nat
    BY <2>2, <2>3, LimitType
  <2>5. CASE venue = "binance"
    BY <2>2, <2>4, <2>5, LimitType DEF n, Limit
  <2>6. CASE venue = "bitget"
    <3>1. n < Cap + Batch
      BY <2>2, <2>4, <2>6, LimitType
    <3> QED
      BY <2>6, <3>1 DEF n
  <2>7. CASE venue = "okx"
    <3>1. n < 2 * Cap
      BY <2>2, <2>4, <2>7, LimitType
    <3> QED
      BY <2>7, <3>1 DEF n
  <2>8. CASE venue \notin {"binance", "bitget", "okx"}
    BY <2>2, <2>4, <2>8 DEF n, Limit
  <2> QED
    BY <2>5, <2>6, <2>7, <2>8
<1> QED
  BY <1>1, <1>2, <1>3, PTL DEF Spec

-----------------------------------------------------------------------------
(* Binance: one socket a room.                                              *)

\* Only the head of the calls dials.
OneDials(js) == \A j \in DOMAIN js : j # 1 => js[j].kind = "connect"

\* No two sockets carry the same topic.
Apart(p) ==
    \A i, j \in DOMAIN p : i # j => p[i].topics \cap p[j].topics = {}

\* What the head has still to dial no socket carries yet.
Fresh(js, p) ==
    js # <<>> /\ Head(js).kind = "subscribe" =>
        \A i \in DOMAIN p : p[i].topics \cap Head(js).data = {}

Dialled ==
    venue = "binance" => OneDials(jobs) /\ Apart(pool) /\ Fresh(jobs, pool)

\* Where the sockets carry less and the calls stay or get a connect more.
LEMMA DialledMore ==
    ASSUME jobs \in Seq(Calls), OneDials(jobs), Apart(pool), Fresh(jobs, pool),
           pool' = <<>> \/ Shrinks(pool, pool'),
           NEW ts \in SUBSET Topics,
           jobs' = jobs \/ jobs' = Append(jobs, Job("connect", ts))
    PROVE  OneDials(jobs') /\ Apart(pool') /\ Fresh(jobs', pool')
<1>1. Apart(pool')
  <2>1. CASE pool' = <<>>
    BY <2>1 DEF Apart
  <2>2. CASE Shrinks(pool, pool')
    BY <2>2 DEF Shrinks, Apart
  <2> QED
    BY <2>1, <2>2
<1>2. Fresh(jobs, pool')
  <2>1. CASE pool' = <<>>
    BY <2>1 DEF Fresh
  <2>2. CASE Shrinks(pool, pool')
    BY <2>2 DEF Shrinks, Fresh
  <2> QED
    BY <2>1, <2>2
<1>3. CASE jobs' = jobs
  BY <1>1, <1>2, <1>3
<1>4. CASE jobs' = Append(jobs, Job("connect", ts))
  <2> DEFINE c == Job("connect", ts)
             q == Append(jobs, c)
  <2>1. c \in Calls /\ c.kind = "connect"
    BY DEF Calls, Job
  <2> HIDE DEF c
  <2>2. \A j \in DOMAIN q : q[j] = c \/ (j \in DOMAIN jobs /\ q[j] = jobs[j])
    BY <2>1, CallsAppend
  <2>3. OneDials(q)
    <3> HIDE DEF q
    <3> QED
      BY <2>1, <2>2 DEF OneDials
  <2>4. /\ q # <<>>
        /\ jobs # <<>> => Head(q) = Head(jobs)
        /\ jobs = <<>> => Head(q) = c
    BY <2>1
  <2>5. Fresh(q, pool')
    <3> HIDE DEF q
    <3> QED
      BY <1>2, <2>1, <2>4 DEF Fresh
  <2>6. jobs' = q
    BY <1>4 DEF c
  <2> HIDE DEF q
  <2> QED
    BY <1>1, <2>3, <2>5, <2>6
<1> QED
  BY <1>3, <1>4

\* The calls behind the head only connect.
LEMMA TailConnects ==
    ASSUME jobs \in Seq(Calls), jobs # <<>>, OneDials(jobs),
           NEW S \in SUBSET Topics
    PROVE  /\ OneDials(GoesOn("subscribe", S))
           /\ S = {} => /\ GoesOn("subscribe", S) = Tail(jobs)
                        /\ Tail(jobs) # <<>> => Head(Tail(jobs)).kind = "connect"
           /\ S # {} => /\ GoesOn("subscribe", S) # <<>>
                        /\ Head(GoesOn("subscribe", S)).data = S
<1>1. /\ Tail(jobs) \in Seq(Calls)
      /\ \A j \in DOMAIN Tail(jobs) : j \in Nat /\ j >= 1 /\ Tail(jobs)[j].kind = "connect"
  <2>1. /\ Tail(jobs) \in Seq(Calls)
        /\ \A j \in DOMAIN Tail(jobs) : j + 1 \in DOMAIN jobs /\ Tail(jobs)[j] = jobs[j + 1]
    BY CallsTail
  <2>2. DOMAIN Tail(jobs) = 1..Len(Tail(jobs)) /\ Len(Tail(jobs)) \in Nat
    BY <2>1, LenProperties
  <2>3. \A j \in DOMAIN Tail(jobs) : j \in Nat /\ j >= 1 /\ j + 1 # 1
    BY <2>2
  <2> QED
    BY <2>1, <2>3 DEF OneDials
<1>2. CASE S = {}
  <2>1. GoesOn("subscribe", S) = Tail(jobs)
    BY <1>2 DEF GoesOn
  <2>2. Tail(jobs) # <<>> => Head(Tail(jobs)).kind = "connect"
    <3> DEFINE q == Tail(jobs)
    <3> HIDE DEF q
    <3>1. q \in Seq(Calls) /\ \A j \in DOMAIN q : q[j].kind = "connect"
      BY <1>1 DEF q
    <3>2. q # <<>> => 1 \in DOMAIN q /\ q[1] = Head(q)
      BY <3>1, CallsTail
    <3>3. q # <<>> => Head(q).kind = "connect"
      BY <3>1, <3>2
    <3> QED
      BY <3>3 DEF q
  <2> QED
    BY <1>1, <1>2, <2>1, <2>2 DEF OneDials
<1>3. CASE S # {}
  <2> DEFINE g == GoesOn("subscribe", S)
  <2>1. /\ g \in Seq(Calls)
        /\ \A j \in DOMAIN g :
             \/ j = 1 /\ g[1] = Job("subscribe", S)
             \/ j - 1 \in DOMAIN Tail(jobs) /\ g[j] = Tail(jobs)[j - 1]
    BY <1>3, GoesOnType
  <2>2. g = <<Job("subscribe", S)>> \o Tail(jobs)
    BY <1>3 DEF GoesOn
  <2>3. g # <<>> /\ Head(g) = Job("subscribe", S)
    <3>1. Len(g) = 1 + Len(Tail(jobs)) /\ g[1] = Job("subscribe", S)
      BY <1>1, <2>2
    <3>2. Len(Tail(jobs)) \in Nat
      BY <1>1, LenProperties
    <3> QED
      BY <2>1, <3>1, <3>2
  <2> HIDE DEF g
  <2>4. OneDials(g)
    BY <1>1, <2>1 DEF OneDials
  <2> QED
    BY <1>3, <2>3, <2>4 DEF Job, g
<1> QED
  BY <1>2, <1>3

LEMMA DialledKept ==
    ASSUME Inv, Dialled, [Next]_vars PROVE Dialled'
<1> SUFFICES ASSUME venue = "binance"
             PROVE  OneDials(jobs') /\ Apart(pool') /\ Fresh(jobs', pool')
  BY NextPoolStep DEF Dialled
<1>1. /\ jobs \in Seq(Calls) /\ pool \in Seq(Clients) /\ rooms \in SUBSET Topics
      /\ OneDials(jobs) /\ Apart(pool) /\ Fresh(jobs, pool) /\ ~Bybit
      /\ inits = <<>>
  BY DEF Inv, TypeOK, Shape, Calls, Clients, Dialled, Bybit
<1>2. {} \in SUBSET Topics
  OBVIOUS
<1>3. ASSUME pool' = pool, jobs' = jobs \/ jobs' = Append(jobs, Job("connect", {}))
      PROVE  OneDials(jobs') /\ Apart(pool') /\ Fresh(jobs', pool')
  <2>1. Shrinks(pool, pool')
    BY <1>3 DEF Shrinks
  <2> QED
    BY <1>1, <1>2, <1>3, <2>1, DialledMore
<1>4. CASE UNCHANGED vars
  BY <1>3, <1>4 DEF vars, poolVars, roomVars
<1>5. CASE \E r \in Rooms : Request(r)
  <2>1. PICK r \in Rooms : Request(r)
    BY <1>5
  <2>2. jobs' = Append(jobs, Job("connect", {})) /\ pool' = pool
    BY <1>1, <2>1 DEF Request, BinanceAsks, poolVars
  <2> QED
    BY <1>3, <2>2
<1>6. CASE BinanceConnect
  <2>1. /\ jobs # <<>> /\ Tail(jobs) \in Seq(Calls)
    BY <1>1, <1>6, CallsTail DEF BinanceConnect, Holds
  <2>2. CASE execute
    <3>1. pool' = <<>> /\ jobs' = GoesOn("subscribe", rooms)
      BY <1>6, <2>2 DEF BinanceConnect, BinanceRedial
    <3>2. OneDials(jobs')
      BY <1>1, <2>1, <3>1, TailConnects
    <3>3. Apart(pool') /\ Fresh(jobs', pool')
      BY <3>1 DEF Apart, Fresh
    <3> QED
      BY <3>2, <3>3
  <2>3. CASE ~execute
    <3>1. pool' = pool /\ jobs' = Tail(jobs)
      BY <1>6, <2>3 DEF BinanceConnect, BinanceDebounce
    <3>2. /\ OneDials(GoesOn("subscribe", {}))
          /\ GoesOn("subscribe", {}) = Tail(jobs)
          /\ Tail(jobs) # <<>> => Head(Tail(jobs)).kind = "connect"
      BY <1>1, <1>2, <2>1, TailConnects
    <3> QED
      BY <1>1, <3>1, <3>2 DEF Fresh
  <2> QED
    BY <2>2, <2>3
<1>7. CASE BinanceDials
  <2> DEFINE c == NextOf(Head(jobs).data, Batch)
             S == Head(jobs).data \ c
             q == Append(pool, Client(Len(pool), Cardinality(c), c))
  <2>1. /\ Holds("subscribe") /\ pool' = q
        /\ jobs' = GoesOn("subscribe", S)
    BY <1>7 DEF BinanceDials
  <2>2. /\ jobs # <<>> /\ Head(jobs).data \in SUBSET Topics
        /\ Head(jobs).kind = "subscribe"
    BY <2>1, HeadType DEF Holds
  <2>3. c \subseteq Head(jobs).data /\ c \in SUBSET Topics /\ S \in SUBSET Topics
    BY <2>2, NextOfType, LimitType
  <2>4. Len(pool) \in Nat /\ Cardinality(c) \in Nat
    BY <1>1, <2>3, ClientType, TopicsFinite
  <2>5. /\ q \in Seq(Clients) /\ Len(q) = Len(pool) + 1
        /\ \A j \in DOMAIN pool : q[j] = pool[j]
        /\ q[Len(pool) + 1].topics = c
    BY <1>1, <2>3, <2>4, AppendedType
  <2>6. DOMAIN pool = 1..Len(pool) /\ DOMAIN q = 1..(Len(pool) + 1)
    BY <1>1, <2>5, ClientType
  <2> HIDE DEF q, c
  <2>7. \A j \in DOMAIN q : j \in DOMAIN pool \/ j = Len(pool) + 1
    BY <2>4, <2>6
  <2>8. \A j \in DOMAIN pool : pool[j].topics \cap Head(jobs).data = {}
    BY <1>1, <2>2 DEF Fresh
  <2>9. Apart(q)
    <3> SUFFICES ASSUME NEW i \in DOMAIN q, NEW j \in DOMAIN q, i # j
                 PROVE  q[i].topics \cap q[j].topics = {}
      BY DEF Apart
    <3>1. CASE i \in DOMAIN pool /\ j \in DOMAIN pool
      BY <1>1, <2>5, <3>1 DEF Apart
    <3>2. CASE i \in DOMAIN pool /\ j = Len(pool) + 1
      BY <2>3, <2>5, <2>8, <3>2
    <3>3. CASE i = Len(pool) + 1 /\ j \in DOMAIN pool
      BY <2>3, <2>5, <2>8, <3>3
    <3> QED
      BY <2>7, <3>1, <3>2, <3>3
  <2>10. \A j \in DOMAIN q : q[j].topics \cap S = {}
    BY <2>3, <2>5, <2>7, <2>8
  <2> HIDE DEF S
  <2>11. OneDials(jobs') /\ Fresh(jobs', q)
    <3>1. OneDials(jobs')
      BY <1>1, <2>1, <2>2, <2>3, TailConnects
    <3>2. CASE S = {}
      BY <1>1, <2>1, <2>2, <2>3, <3>2, TailConnects DEF Fresh
    <3>3. CASE S # {}
      BY <1>1, <2>1, <2>2, <2>3, <2>10, <3>3, TailConnects DEF Fresh
    <3> QED
      BY <3>1, <3>2, <3>3
  <2> QED
    BY <2>1, <2>9, <2>11
<1>8. CASE TimerFires
  <2>1. jobs' = Append(jobs, Job("connect", {})) /\ pool' = pool
    BY <1>8 DEF TimerFires, poolVars
  <2> QED
    BY <1>3, <2>1
<1>9. CASE BinanceSettled \/ NoteActivity \/ TickerStall
  BY <1>3, <1>9 DEF BinanceSettled, NoteActivity, TickerStall, poolVars, roomVars
<1>10. CASE CandleStall
  BY <1>1, <1>3, <1>10 DEF CandleStall, Throws
<1>11. CASE BinanceException
  <2>1. pool' = <<>> /\ (jobs' = jobs \/ jobs' = Append(jobs, Job("connect", {})))
    BY <1>11 DEF BinanceException, BinanceStops, BinanceInit
  <2> QED
    BY <1>1, <1>2, <2>1, DialledMore
<1>12. CASE \E i \in DOMAIN pool : BinanceSocketDrops(i)
  <2>1. PICK i \in DOMAIN pool : BinanceSocketDrops(i)
    BY <1>12
  <2>2. jobs' = jobs /\ pool' = [pool EXCEPT ![i].topics = {}]
    BY <2>1 DEF BinanceSocketDrops, roomVars
  <2> DEFINE c == [pool[i] EXCEPT !.topics = {}]
  <2>3. /\ c \in Clients /\ pool' = [pool EXCEPT ![i] = c]
        /\ c.id = pool[i].id /\ c.count = pool[i].count
        /\ c.topics \subseteq pool[i].topics
    <3>1. pool[i] \in Clients
      BY <1>1, ClientType
    <3> QED
      BY <2>2, <3>1 DEF Clients
  <2> HIDE DEF c
  <2>4. Shrinks(pool, pool')
    BY <1>1, <2>3, ClientChanges DEF Shrinks
  <2> QED
    BY <1>1, <1>2, <2>2, <2>4, DialledMore
<1>13. ~\E i \in DOMAIN inits : TRUE
  BY <1>1
<1> QED
  <2>1. CASE MutexStep
    BY <1>1, <1>6, <1>7, <2>1
       DEF MutexStep, BybitConnects, OkxConnect, OkxFlush, OkxSubscribes,
           BitgetConnect, BitgetFlush, BitgetSubscribes, KucoinFlush,
           KucoinSubscribes
  <2>2. CASE Exception
    BY <1>1, <1>9, <1>11, <1>12, <1>13, <2>2
       DEF Exception, BybitException, OkxException, BitgetException,
           KucoinError, KucoinSubscribeFails, GoesSilent
  <2>3. CASE WatchdogStep
    BY <1>10, <2>3 DEF WatchdogStep, CheckClientStalls
  <2>4. CASE BybitRetryTimer
    BY <1>1, <2>4 DEF BybitRetryTimer
  <2>5. CASE \E i \in DOMAIN pool : DropRejectedTopic(i)
    BY <2>5 DEF DropRejectedTopic
  <2> QED
    BY <1>4, <1>5, <1>8, <1>9, <1>13, <2>1, <2>2, <2>3, <2>4, <2>5 DEF Next

\* A room of Binance streams on one socket only, whatever restarts fall into
\* the seconds a dial takes and however many chunks it has.
THEOREM OneSocketOnly == Spec => []OneSocketPerRoom
<1>1. Init => Inv /\ Dialled
  <2> SUFFICES ASSUME Init, venue = "binance"
               PROVE  OneDials(jobs) /\ Apart(pool) /\ Fresh(jobs, pool)
    BY InitInv DEF Dialled
  <2>1. pool = <<>>
    BY DEF Init
  <2>2. jobs = <<>> \/ jobs = <<Job("connect", {})>>
    BY DEF Init
  <2>3. CASE jobs = <<>>
    BY <2>1, <2>3 DEF OneDials, Apart, Fresh
  <2>4. CASE jobs = <<Job("connect", {})>>
    BY <2>1, <2>4 DEF OneDials, Apart, Fresh
  <2> QED
    BY <2>2, <2>3, <2>4
<1>2. (Inv /\ Dialled) /\ [Next]_vars => (Inv /\ Dialled)'
  BY NextInv, DialledKept
<1>3. Inv /\ Dialled => OneSocketPerRoom
  <2> SUFFICES ASSUME Inv, Dialled, venue = "binance", NEW t \in rooms
               PROVE  Cardinality(On(t)) <= 1
    BY DEF OneSocketPerRoom
  <2>1. \A i, j \in On(t) : i = j
    BY DEF Dialled, Apart, On
  <2> QED
    BY <2>1, AtMostOne
<1> QED
  BY <1>1, <1>2, <1>3, PTL DEF Spec

=============================================================================
