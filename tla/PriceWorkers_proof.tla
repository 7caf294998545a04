------------------------- MODULE PriceWorkers_proof -------------------------
(***************************************************************************)
(* Proofs about PriceWorkers.  The invariant says that the state has its   *)
(* type and that every slot is well owned; it is inductive as it stands,   *)
(* because each operation of a slot keeps it (the lemmas on slots) and     *)
(* every action changes connectors through those operations only.  That a  *)
(* room once asked for stays served follows from it with one more lemma    *)
(* per operation: the threads that run go on, with their rooms.            *)
(***************************************************************************)
EXTENDS PriceWorkers, TLAPS

-----------------------------------------------------------------------------
(* Threads.                                                                 *)

\* A new thread runs, and is listened to.
LEMMA NewThreadType ==
    /\ NewThread \in Thread /\ Running(NewThread)
    /\ NewThread.heard = TRUE /\ NewThread.state = "running"
BY WorkersAssumption DEF NewThread, Thread, Running

\* The end of a thread keeps who listens to it.
LEMMA EndedType ==
    ASSUME NEW t \in Thread, NEW state \in {"dying", "gone"}
    PROVE  /\ Ended(t, state) \in Thread
           /\ Ended(t, state).state = state
           /\ Ended(t, state).heard = t.heard
           /\ ~Running(Ended(t, state))
<1>1. Ended(t, state) = [NewThread EXCEPT !.state = state, !.heard = t.heard]
  BY DEF Ended
<1>2. NewThread \in Thread /\ t.heard \in BOOLEAN
  BY NewThreadType DEF Thread
<1>3. Ended(t, state) \in Thread /\ Ended(t, state).state = state
      /\ Ended(t, state).heard = t.heard
  BY <1>1, <1>2 DEF Thread
<1> QED BY <1>3 DEF Running

\* Removing the listeners changes nothing else.
LEMMA UnheardType ==
    ASSUME NEW t \in Thread
    PROVE  /\ [t EXCEPT !.heard = FALSE] \in Thread
           /\ [t EXCEPT !.heard = FALSE].heard = FALSE
           /\ [t EXCEPT !.heard = FALSE].state = t.state
BY DEF Thread

\* A rebuild in the thread keeps its state and, with a shared map, its rooms.
LEMMA RebuiltType ==
    ASSUME NEW t \in Thread, NEW f
    PROVE  /\ Rebuilt(t, f) \in Thread
           /\ Rebuilt(t, f).state = t.state /\ Rebuilt(t, f).heard = t.heard
           /\ f \in Shared => Rooms(Rebuilt(t, f)) = Rooms(t)
BY DEF Rebuilt, Rooms, Thread

\* A request adds its room to those of the thread and takes none away.
LEMMA HandlesType ==
    ASSUME NEW t \in Thread, NEW f, NEW v \in Variants
    PROVE  /\ Handles(t, f, v) \in Thread
           /\ Handles(t, f, v).state = t.state
           /\ Handles(t, f, v).heard = t.heard
           /\ v \in Rooms(Handles(t, f, v))
           /\ Rooms(t) \subseteq Rooms(Handles(t, f, v))
BY DEF Handles, Rooms, Thread

-----------------------------------------------------------------------------
(* Slots.                                                                   *)

\* A slot with one thread replaced, as a record.
LEMMA SlotUpdate ==
    ASSUME NEW s \in Slot, NEW n, NEW t
    PROVE  [s EXCEPT !.threads[n] = t]
                = [entry |-> s.entry, threads |-> [s.threads EXCEPT ![n] = t]]
<1> DEFINE T == [s.threads EXCEPT ![n] = t]
<1>1. s = [entry |-> s.entry, threads |-> s.threads]
  BY DEF Slot
<1>2. [s EXCEPT !.threads[n] = t] = [s EXCEPT !.threads = T]
  OBVIOUS
<1> HIDE DEF T
<1>3. [s EXCEPT !.threads = T] = [entry |-> s.entry, threads |-> T]
  BY <1>1
<1> QED BY <1>2, <1>3 DEF T

\* Well typed and well owned.
GoodSlot(s) == s \in Slot /\ SlotOK(s)

\* The slot of a family without a worker.
LEMMA EmptyGood == GoodSlot(Empty)
BY DEF GoodSlot, Empty, Slot, SlotOK

\* initWorker: the new thread is the one under the entry, and heard.
LEMMA InitWorkerGood ==
    ASSUME NEW s, GoodSlot(s)
    PROVE  GoodSlot(InitWorker(s))
<1>1. CASE s.entry # 0
  BY <1>1 DEF InitWorker
<1>2. CASE s.entry = 0
  <2> DEFINE r == InitWorker(s)
             n == Len(s.threads) + 1
  <2>1. s.threads \in Seq(Thread) /\ Len(s.threads) \in Nat
    BY DEF GoodSlot, Slot
  <2>2. r = [entry |-> n, threads |-> Append(s.threads, NewThread)]
    BY <1>2 DEF InitWorker
  <2>3. r \in Slot
    BY <2>1, <2>2, NewThreadType DEF Slot
  <2>4. /\ DOMAIN r.threads = 1..n
        /\ r.threads[n] = NewThread
        /\ \A i \in DOMAIN r.threads : i # n =>
             i \in DOMAIN s.threads /\ r.threads[i] = s.threads[i]
    BY <2>1, <2>2, NewThreadType
  <2>5. \A i \in DOMAIN s.threads : i \in Nat \ {0} /\ ~s.threads[i].heard
    <3>1. \A i \in DOMAIN s.threads : s.threads[i] \in Thread /\ i \in Nat \ {0}
      BY <2>1
    <3> QED BY <3>1, <1>2 DEF GoodSlot, SlotOK, Thread
  <2>6. \A i \in DOMAIN s.threads : ~Running(s.threads[i])
    BY <1>2, <2>5 DEF GoodSlot, SlotOK
  <2>7. SlotOK(r)
    <3>1. r.entry = n /\ n \in 0..Len(r.threads)
      BY <2>1, <2>2
    <3>2. ASSUME NEW i \in DOMAIN r.threads
          PROVE  /\ i = r.entry <=> r.threads[i].heard
                 /\ Running(r.threads[i]) => i = r.entry
                 /\ r.threads[i].state = "gone" => i # r.entry
      <4>1. CASE i = n
        BY <4>1, <3>1, <2>4, NewThreadType
      <4>2. CASE i # n
        BY <4>2, <3>1, <2>4, <2>5, <2>6
      <4> QED BY <4>1, <4>2
    <3> QED BY <3>1, <3>2 DEF SlotOK
  <2> QED BY <2>3, <2>7 DEF GoodSlot
<1> QED BY <1>1, <1>2

\* A thread of a good slot is replaced by t.
LEMMA ReplaceGood ==
    ASSUME NEW s, GoodSlot(s), NEW n \in DOMAIN s.threads, NEW t \in Thread,
           t.heard = s.threads[n].heard,
           Running(t) => Running(s.threads[n]),
           t.state = "gone" => n # s.entry
    PROVE  GoodSlot([s EXCEPT !.threads[n] = t])
<1> DEFINE r == [s EXCEPT !.threads[n] = t]
<1>1. s \in Slot /\ s.threads \in Seq(Thread)
  BY DEF GoodSlot, Slot
<1>2. r.entry = s.entry /\ r.threads = [s.threads EXCEPT ![n] = t] /\ r \in Slot
  BY <1>1 DEF Slot
<1>3. /\ DOMAIN r.threads = DOMAIN s.threads /\ Len(r.threads) = Len(s.threads)
      /\ r.threads[n] = t
      /\ \A i \in DOMAIN s.threads : i # n => r.threads[i] = s.threads[i]
  BY <1>1, <1>2
<1>4. ASSUME NEW i \in DOMAIN r.threads
      PROVE  /\ i = r.entry <=> r.threads[i].heard
             /\ Running(r.threads[i]) => i = r.entry
             /\ r.threads[i].state = "gone" => i # r.entry
  <2>1. CASE i = n
    BY <2>1, <1>2, <1>3 DEF GoodSlot, SlotOK
  <2>2. CASE i # n
    BY <2>2, <1>2, <1>3 DEF GoodSlot, SlotOK
  <2> QED BY <2>1, <2>2
<1>5. SlotOK(r)
  BY <1>2, <1>3, <1>4 DEF GoodSlot, SlotOK
<1> QED BY <1>2, <1>5 DEF GoodSlot

\* An entry names a thread.
LEMMA EntryInDomain ==
    ASSUME NEW s, GoodSlot(s), s.entry # 0
    PROVE  s.entry \in DOMAIN s.threads /\ s.threads[s.entry] \in Thread
BY DEF GoodSlot, Slot, SlotOK

\* The thread that no entry names any more has lost its listeners.
LEMMA DropGood ==
    ASSUME NEW s, GoodSlot(s), NEW n \in DOMAIN s.threads, NEW t \in Thread,
           ~t.heard, ~Running(t), NEW e \in {0, s.entry},
           e = s.entry => n # s.entry, e = 0 => n = s.entry \/ s.entry = 0
    PROVE  GoodSlot([entry |-> e, threads |-> [s.threads EXCEPT ![n] = t]])
<1> DEFINE r == [entry |-> e, threads |-> [s.threads EXCEPT ![n] = t]]
<1>1. s \in Slot /\ s.threads \in Seq(Thread) /\ s.entry \in 0..Len(s.threads)
  BY DEF GoodSlot, Slot, SlotOK
<1>2. /\ DOMAIN r.threads = DOMAIN s.threads /\ Len(r.threads) = Len(s.threads)
      /\ r.threads[n] = t /\ r.threads \in Seq(Thread)
      /\ \A i \in DOMAIN s.threads : i # n => r.threads[i] = s.threads[i]
      /\ \A i \in DOMAIN s.threads : i \in Nat \ {0}
  BY <1>1
<1>3. ASSUME NEW i \in DOMAIN r.threads
      PROVE  /\ i = r.entry <=> r.threads[i].heard
             /\ Running(r.threads[i]) => i = r.entry
             /\ r.threads[i].state = "gone" => i # r.entry
  <2>1. CASE i = n
    BY <2>1, <1>2
  <2>2. CASE i # n
    BY <2>2, <1>2 DEF GoodSlot, SlotOK
  <2> QED BY <2>1, <2>2
<1>4. SlotOK(r)
  BY <1>1, <1>2, <1>3 DEF SlotOK
<1> QED BY <1>1, <1>2, <1>4 DEF GoodSlot, Slot

\* terminateFamily: no entry, and nobody listens to the dying thread.
LEMMA TerminateGood ==
    ASSUME NEW s, GoodSlot(s), s.entry # 0
    PROVE  GoodSlot(TerminateFamily(s))
<1> DEFINE t == [Ended(s.threads[s.entry], "dying") EXCEPT !.heard = FALSE]
<1>1. t \in Thread /\ t.heard = FALSE /\ t.state = "dying"
  BY EntryInDomain, EndedType, UnheardType
<1>2. TerminateFamily(s) = [entry |-> 0, threads |-> [s.threads EXCEPT ![s.entry] = t]]
  BY DEF TerminateFamily
<1>3. s.entry \in DOMAIN s.threads /\ 0 \in {0, s.entry}
  BY EntryInDomain
<1> HIDE DEF t
<1>4. ~t.heard /\ ~Running(t)
  BY <1>1 DEF Running
<1>5. GoodSlot([entry |-> 0, threads |-> [s.threads EXCEPT ![s.entry] = t]])
  BY <1>1, <1>3, <1>4, DropGood
<1> QED BY <1>2, <1>5

\* reconcileWorkers, for one family.
LEMMA ReconcileGood ==
    ASSUME NEW s, GoodSlot(s), NEW needed
    PROVE  GoodSlot(ReconcileSlot(s, needed))
BY InitWorkerGood, TerminateGood DEF ReconcileSlot

\* stop: the dying thread keeps its entry and its listeners.
LEMMA StopGood ==
    ASSUME NEW s, GoodSlot(s)
    PROVE  GoodSlot(StopSlot(s))
<1>1. CASE s.entry = 0
  BY <1>1 DEF StopSlot
<1>2. CASE s.entry # 0
  <2> DEFINE t == Ended(s.threads[s.entry], "dying")
  <2>1. s.entry \in DOMAIN s.threads /\ s.threads[s.entry] \in Thread
    BY <1>2, EntryInDomain
  <2>2. t \in Thread /\ t.heard = s.threads[s.entry].heard /\ ~Running(t)
        /\ t.state = "dying"
    BY <2>1, EndedType
  <2>3. StopSlot(s) = [s EXCEPT !.threads[s.entry] = t]
    BY <1>2 DEF StopSlot
  <2> QED BY <2>1, <2>2, <2>3, ReplaceGood
<1> QED BY <1>1, <1>2

\* The exit handler: the entry goes to the successor, if anybody listened.
LEMMA ExitGood ==
    ASSUME NEW s, GoodSlot(s), NEW n \in DOMAIN s.threads
    PROVE  GoodSlot(ExitSlot(s, n))
<1> DEFINE t == [Ended(s.threads[n], "gone") EXCEPT !.heard = FALSE]
<1>1. s \in Slot /\ s.threads \in Seq(Thread) /\ s.threads[n] \in Thread
  BY DEF GoodSlot, Slot
<1>2. t \in Thread /\ t.heard = FALSE /\ t.state = "gone"
  BY <1>1, EndedType, UnheardType
<1> HIDE DEF t
<1> DEFINE ended == [s EXCEPT !.threads[n] = t]
<1>3. ended = [entry |-> s.entry, threads |-> [s.threads EXCEPT ![n] = t]]
  BY <1>1, SlotUpdate
<1> HIDE DEF ended
<1>4. [ended EXCEPT !.entry = 0]
        = [entry |-> 0, threads |-> [s.threads EXCEPT ![n] = t]]
  <2> DEFINE T == [s.threads EXCEPT ![n] = t]
  <2>1. ended = [entry |-> s.entry, threads |-> T]
    BY <1>3
  <2> HIDE DEF T
  <2>2. [ended EXCEPT !.entry = 0] = [entry |-> 0, threads |-> T]
    BY <2>1
  <2> QED BY <2>2 DEF T
<1>5. ExitSlot(s, n) = IF s.threads[n].heard
                       THEN InitWorker([ended EXCEPT !.entry = 0]) ELSE ended
  BY DEF ExitSlot, t, ended
<1>6. n = s.entry <=> s.threads[n].heard
  BY DEF GoodSlot, SlotOK
<1>7. CASE s.threads[n].heard
  <2>1. GoodSlot([ended EXCEPT !.entry = 0])
    <3>1. ~t.heard /\ ~Running(t) /\ 0 \in {0, s.entry} /\ 0 # s.entry
      BY <1>2, <1>6, <1>7 DEF Running, GoodSlot, Slot
    <3>2. GoodSlot([entry |-> 0, threads |-> [s.threads EXCEPT ![n] = t]])
      BY <1>2, <1>6, <1>7, <3>1, DropGood
    <3> QED BY <1>4, <3>2
  <2> QED BY <1>5, <1>7, <2>1, InitWorkerGood
<1>8. CASE ~s.threads[n].heard
  <2>1. GoodSlot(ended)
    <3>1. ~t.heard /\ ~Running(t) /\ s.entry \in {0, s.entry}
      BY <1>2 DEF Running
    <3>2. s.entry = 0 => n = s.entry \/ s.entry = 0
      OBVIOUS
    <3> QED BY <1>2, <1>3, <1>6, <1>8, <3>1, <3>2, DropGood
  <2> QED BY <1>5, <1>8, <2>1
<1> QED BY <1>7, <1>8

-----------------------------------------------------------------------------
(* Connectors.                                                              *)

GoodConnector(c) == c \in Connector /\ \A f \in Families : SlotOK(c.slots[f])

\* The slots of a good connector.
LEMMA SlotsGood ==
    ASSUME NEW c, GoodConnector(c), NEW f \in Families
    PROVE  GoodSlot(c.slots[f])
BY DEF GoodConnector, GoodSlot, Connector

\* constructor and init.
LEMMA NewConnectorGood == GoodConnector(NewConnector)
<1>1. \A f \in Families :
        GoodSlot(IF Needed(cache, f) THEN InitWorker(Empty) ELSE Empty)
  BY EmptyGood, InitWorkerGood
<1> QED BY <1>1 DEF GoodConnector, GoodSlot, NewConnector, Connector

\* The exit of the process.
LEMMA DiedGood ==
    ASSUME NEW c, GoodConnector(c)
    PROVE  GoodConnector(Died(c)) /\ ~Died(c).alive
BY EmptyGood DEF GoodConnector, GoodSlot, Died, Connector

\* stop, for every family.
LEMMA StoppedGood ==
    ASSUME NEW c, GoodConnector(c)
    PROVE  GoodConnector(Stopped(c))
<1> DEFINE S == [f \in Families |-> StopSlot(c.slots[f])]
<1>1. \A f \in Families : GoodSlot(StopSlot(c.slots[f]))
  BY SlotsGood, StopGood
<1>2. S \in [Families -> Slot] /\ \A f \in Families : SlotOK(S[f])
  BY <1>1 DEF GoodSlot
<1>3. Stopped(c) = [c EXCEPT !.beacon = FALSE, !.slots = S]
  BY DEF Stopped
<1> HIDE DEF S
<1> QED BY <1>2, <1>3 DEF GoodConnector, Connector

\* reconcileWorkers, for every family.
LEMMA ReconciledGood ==
    ASSUME NEW c, GoodConnector(c), NEW config
    PROVE  GoodConnector([c EXCEPT !.slots =
               [f \in Families |-> ReconcileSlot(@[f], Needed(config, f))]])
<1> DEFINE S == [f \in Families |-> ReconcileSlot(c.slots[f], Needed(config, f))]
<1>1. \A f \in Families :
        GoodSlot(ReconcileSlot(c.slots[f], Needed(config, f)))
  BY SlotsGood, ReconcileGood
<1>2. S \in [Families -> Slot] /\ \A f \in Families : SlotOK(S[f])
  BY <1>1 DEF GoodSlot
<1>3. [c EXCEPT !.slots =
           [f \in Families |-> ReconcileSlot(@[f], Needed(config, f))]]
        = [c EXCEPT !.slots = S]
  OBVIOUS
<1> HIDE DEF S
<1>4. GoodConnector([c EXCEPT !.slots = S])
  BY <1>2 DEF GoodConnector, Connector
<1> QED BY <1>3, <1>4

\* A connector with one slot replaced.
LEMMA WithSlotGood ==
    ASSUME NEW c, GoodConnector(c), NEW f \in Families, NEW s, GoodSlot(s)
    PROVE  GoodConnector([c EXCEPT !.slots[f] = s])
<1> DEFINE S == [c.slots EXCEPT ![f] = s]
<1>1. S \in [Families -> Slot] /\ \A h \in Families : SlotOK(S[h])
  BY DEF GoodConnector, GoodSlot, Connector
<1>2. [c EXCEPT !.slots[f] = s] = [c EXCEPT !.slots = S]
  OBVIOUS
<1> HIDE DEF S
<1>3. GoodConnector([c EXCEPT !.slots = S])
  BY <1>1 DEF GoodConnector, Connector
<1> QED BY <1>2, <1>3

\* A connector after its announcement.
LEMMA FlagsGood ==
    ASSUME NEW c, GoodConnector(c), NEW b \in BOOLEAN, NEW d \in BOOLEAN
    PROVE  /\ GoodConnector([c EXCEPT !.announced = b, !.beacon = d])
           /\ [c EXCEPT !.announced = b, !.beacon = d].slots = c.slots
           /\ [c EXCEPT !.announced = b, !.beacon = d].alive = c.alive
BY DEF GoodConnector, Connector

-----------------------------------------------------------------------------
(* Type and ownership.                                                      *)

AllGood(cs) == cs \in Seq(Connector) /\ \A g \in DOMAIN cs : GoodConnector(cs[g])

\* The inductive invariant.
Inv == TypeOK /\ AllGood(connectors)

\* What the invariant says of threads and listeners.
LEMMA AllGoodOwned == AllGood(connectors) => NoOrphanThread
BY DEF AllGood, GoodConnector, NoOrphanThread

\* Every connector replaced by a good one.
LEMMA EachGood ==
    ASSUME NEW cs, AllGood(cs), NEW ds, ds = [g \in DOMAIN cs |-> ds[g]],
           \A g \in DOMAIN cs : GoodConnector(ds[g])
    PROVE  AllGood(ds) /\ Len(ds) = Len(cs) /\ DOMAIN ds = DOMAIN cs
<1>1. DOMAIN cs = 1..Len(cs) /\ Len(cs) \in Nat
  BY DEF AllGood
<1>2. \A g \in 1..Len(cs) : ds[g] \in Connector
  BY <1>1 DEF GoodConnector
<1>3. ds \in Seq(Connector) /\ Len(ds) = Len(cs) /\ DOMAIN ds = DOMAIN cs
  BY <1>1, <1>2
<1> QED BY <1>3 DEF AllGood

\* One more connector.
LEMMA AppendGood ==
    ASSUME NEW cs, AllGood(cs), NEW c, GoodConnector(c)
    PROVE  AllGood(Append(cs, c)) /\ Len(Append(cs, c)) = Len(cs) + 1
<1>1. cs \in Seq(Connector) /\ c \in Connector
  BY DEF AllGood, GoodConnector
<1>2. Append(cs, c) \in Seq(Connector) /\ Len(Append(cs, c)) = Len(cs) + 1
  BY <1>1
<1>3. ASSUME NEW g \in DOMAIN Append(cs, c)
      PROVE  GoodConnector(Append(cs, c)[g])
  <2>1. g \in 1..(Len(cs) + 1) /\ Len(cs) \in Nat
    BY <1>1, <1>2
  <2>2. CASE g = Len(cs) + 1
    BY <1>1, <2>2
  <2>3. CASE g \in 1..Len(cs)
    <3>1. Append(cs, c)[g] = cs[g] /\ g \in DOMAIN cs
      BY <1>1, <2>3
    <3> QED BY <3>1 DEF AllGood
  <2> QED BY <2>1, <2>2, <2>3
<1> QED BY <1>2, <1>3 DEF AllGood

\* One connector replaced.
LEMMA OneGood ==
    ASSUME AllGood(connectors), NEW g \in DOMAIN connectors,
           NEW c, GoodConnector(c)
    PROVE  /\ AllGood([connectors EXCEPT ![g] = c])
           /\ Len([connectors EXCEPT ![g] = c]) = Len(connectors)
<1>1. connectors \in Seq(Connector) /\ c \in Connector
  BY DEF AllGood, GoodConnector
<1>2. /\ [connectors EXCEPT ![g] = c] \in Seq(Connector)
      /\ Len([connectors EXCEPT ![g] = c]) = Len(connectors)
      /\ DOMAIN [connectors EXCEPT ![g] = c] = DOMAIN connectors
  BY <1>1
<1> QED BY <1>1, <1>2 DEF AllGood

\* One thread of a connector becomes t.
LEMMA BecomesGood ==
    ASSUME AllGood(connectors), NEW g \in DOMAIN connectors,
           NEW f \in Families, NEW n \in DOMAIN Threads(g, f),
           NEW t \in Thread, t.heard = Threads(g, f)[n].heard,
           Running(t) => Running(Threads(g, f)[n]),
           t.state = "gone" => n # connectors[g].slots[f].entry,
           connectors' = [connectors EXCEPT ![g].slots[f].threads[n] = t]
    PROVE  AllGood(connectors') /\ Len(connectors') = Len(connectors)
<1> DEFINE s == [connectors[g].slots[f] EXCEPT !.threads[n] = t]
           c == [connectors[g] EXCEPT !.slots[f] = s]
<1>1. GoodConnector(connectors[g])
  BY DEF AllGood
<1>2. GoodSlot(connectors[g].slots[f])
  BY <1>1, SlotsGood
<1>3. GoodSlot(s)
  BY <1>2, ReplaceGood DEF Threads
<1>4. connectors' = [connectors EXCEPT ![g] = c]
  OBVIOUS
<1> HIDE DEF s
<1>5. GoodConnector(c)
  BY <1>1, <1>3, WithSlotGood
<1> HIDE DEF c
<1>6. /\ AllGood([connectors EXCEPT ![g] = c])
      /\ Len([connectors EXCEPT ![g] = c]) = Len(connectors)
  BY <1>5, OneGood
<1> QED BY <1>4, <1>6

\* Threads are well typed.
LEMMA ThreadType ==
    ASSUME AllGood(connectors), NEW g \in DOMAIN connectors,
           NEW f \in Families, NEW n \in DOMAIN Threads(g, f)
    PROVE  Threads(g, f)[n] \in Thread
<1>1. GoodSlot(connectors[g].slots[f])
  BY SlotsGood DEF AllGood
<1> QED BY <1>1 DEF GoodSlot, Slot, Threads

\* The end of a thread, seen from the list of connectors.
LEMMA ExitsGood ==
    ASSUME AllGood(connectors), NEW g \in DOMAIN connectors,
           NEW f \in Families, NEW n \in DOMAIN Threads(g, f),
           connectors' = [connectors EXCEPT ![g].slots[f] = ExitSlot(@, n)]
    PROVE  AllGood(connectors') /\ Len(connectors') = Len(connectors)
<1> DEFINE s == ExitSlot(connectors[g].slots[f], n)
           c == [connectors[g] EXCEPT !.slots[f] = s]
<1>1. GoodConnector(connectors[g]) /\ GoodSlot(connectors[g].slots[f])
  BY SlotsGood DEF AllGood
<1>2. GoodSlot(s)
  BY <1>1, ExitGood DEF Threads
<1>3. connectors' = [connectors EXCEPT ![g] = c]
  OBVIOUS
<1> HIDE DEF s
<1>4. GoodConnector(c)
  BY <1>1, <1>2, WithSlotGood
<1> HIDE DEF c
<1>5. /\ AllGood([connectors EXCEPT ![g] = c])
      /\ Len([connectors EXCEPT ![g] = c]) = Len(connectors)
  BY <1>4, OneGood
<1> QED BY <1>3, <1>5

\* What a thread becomes in the steps that leave it running.
LEMMA ThreadSteps ==
    ASSUME NEW t \in Thread, NEW k \in Feeds
    PROVE  /\ [t EXCEPT !.asleep = TRUE] \in Thread
           /\ [t EXCEPT !.asleep = FALSE] \in Thread
           /\ NoteData(t, k) \in Thread
           /\ NoteStall(t, k).stalls[k] < Threshold => NoteStall(t, k) \in Thread
<1>1. t.stalls \in [Feeds -> 0..Threshold] /\ Threshold \in Nat
  BY WorkersAssumption DEF Thread
<1>2. /\ [t EXCEPT !.asleep = TRUE] \in Thread
      /\ [t EXCEPT !.asleep = FALSE] \in Thread
  BY DEF Thread
<1>3. ASSUME NEW n \in 0..Threshold
      PROVE  [t EXCEPT !.stalls[k] = n] \in Thread
  <2>1. [t.stalls EXCEPT ![k] = n] \in [Feeds -> 0..Threshold]
    BY <1>1
  <2> QED BY <2>1 DEF Thread
<1>4. NoteData(t, k) = [t EXCEPT !.stalls[k] = 0]
  BY DEF NoteData
<1>5. /\ NoteStall(t, k) = [t EXCEPT !.stalls[k] = t.stalls[k] + 1]
      /\ NoteStall(t, k).stalls[k] = t.stalls[k] + 1
  BY <1>1 DEF NoteStall, Thread
<1>6. 0 \in 0..Threshold /\ t.stalls[k] \in Nat
  BY <1>1
<1>7. t.stalls[k] + 1 < Threshold => t.stalls[k] + 1 \in 0..Threshold
  BY <1>1, <1>6
<1> QED BY <1>2, <1>3, <1>4, <1>5, <1>6, <1>7

-----------------------------------------------------------------------------
(* The steps.                                                               *)

\* The process starts without connectors.
LEMMA InitInv == Init => Inv
<1> SUFFICES ASSUME Init PROVE Inv
  OBVIOUS
<1>1. stored \in Configs /\ cache \in Configs /\ reads \in Seq(Configs)
  BY DEF Init, Configs
<1>2. connectors = <<>> /\ Len(connectors) = 0 /\ AllGood(connectors)
  BY DEF Init, AllGood
<1>3. locked \in BOOLEAN /\ loss \in BOOLEAN
  BY DEF Init
<1>4. retry \in 0..(RetryCount - 1) /\ faults \in 0..MaxFaults /\ changes \in 0..MaxChanges
  BY WorkersAssumption DEF Init
<1>5. /\ phase \in {"sync", "start", "run"} /\ requests \subseteq Variants
      /\ stream \in 0..Len(connectors) /\ boot \in 0..Len(connectors)
  BY <1>2 DEF Init
<1> QED BY <1>1, <1>2, <1>3, <1>4, <1>5 DEF Inv, TypeOK, AllGood

\* The process goes down with everything in it.
LEMMA ExitsInv ==
    ASSUME Inv, ProcessExits, UNCHANGED <<stored, changes, requests, boot>>,
           faults' \in 0..MaxFaults
    PROVE  Inv'
<1>1. AllGood(connectors') /\ Len(connectors') = Len(connectors)
  <2>1. \A g \in DOMAIN connectors : GoodConnector(Died(connectors[g]))
    BY DiedGood DEF Inv, AllGood
  <2> QED BY <2>1, EachGood DEF Inv, ProcessExits
<1>2. stored' \in Configs /\ cache' \in Configs /\ reads' \in Seq(Configs)
  <2>1. stored \in Configs /\ stored' = stored /\ {} \in Configs
    BY DEF Inv, TypeOK, Configs
  <2> QED BY <2>1 DEF ProcessExits
<1>3. locked' \in BOOLEAN /\ loss' \in BOOLEAN
  BY DEF ProcessExits
<1>4. Len(connectors) \in Nat /\ retry' \in 0..(RetryCount - 1)
  BY WorkersAssumption DEF Inv, AllGood, ProcessExits
<1>5. /\ phase' \in {"sync", "start", "run"} /\ requests' \subseteq Variants
      /\ changes' \in 0..MaxChanges
      /\ stream' \in 0..Len(connectors') /\ boot' \in 0..Len(connectors')
  BY <1>1, <1>4 DEF Inv, TypeOK, ProcessExits
<1> QED BY <1>1, <1>2, <1>3, <1>4, <1>5 DEF Inv, TypeOK, AllGood

\* stop and getStream of index.price.ts.
LEMMA RebuildInv ==
    ASSUME Inv, RebuildStream
    PROVE  /\ AllGood(connectors') /\ Len(connectors') = Len(connectors) + 1
<1> DEFINE ds == [g \in DOMAIN connectors |->
                      IF g = stream THEN Stopped(connectors[g])
                      ELSE connectors[g]]
<1>1. \A g \in DOMAIN connectors : GoodConnector(ds[g])
  BY StoppedGood DEF Inv, AllGood
<1>2. AllGood(ds) /\ Len(ds) = Len(connectors)
  <2>1. ds = [g \in DOMAIN connectors |-> ds[g]]
    OBVIOUS
  <2> HIDE DEF ds
  <2> QED BY <1>1, <2>1, EachGood DEF Inv
<1>3. connectors' = Append(ds, NewConnector)
  BY DEF RebuildStream
<1> HIDE DEF ds
<1> QED BY <1>2, <1>3, NewConnectorGood, AppendGood

\* A retry rebuilds or exits; the counter stays below the limit.
LEMMA RetryInv ==
    ASSUME Inv, RetryOrExit, UNCHANGED <<stored, changes, requests, boot>>,
           faults' \in 0..MaxFaults
    PROVE  Inv'
<1>1. CASE ProcessExits
  BY <1>1, ExitsInv
<1>2. CASE /\ retry' = 1 \/ (retry > 0 /\ retry + 1 < RetryCount /\ retry' = retry + 1)
           /\ RebuildStream
           /\ locked' = FALSE
  <2>1. AllGood(connectors') /\ Len(connectors') = Len(connectors) + 1
    BY <1>2, RebuildInv
  <2>2. Len(connectors) \in Nat
    BY DEF Inv, AllGood
  <2>3. retry' \in 0..(RetryCount - 1)
    BY <1>2, WorkersAssumption DEF Inv, TypeOK
  <2>4. locked' \in BOOLEAN /\ loss' \in BOOLEAN
    BY <1>2 DEF RebuildStream
  <2>5. /\ stored' \in Configs /\ cache' \in Configs /\ reads' \in Seq(Configs)
        /\ phase' \in {"sync", "start", "run"} /\ requests' \subseteq Variants
        /\ changes' \in 0..MaxChanges
        /\ stream' \in 0..Len(connectors') /\ boot' \in 0..Len(connectors')
    BY <1>2, <2>1, <2>2 DEF Inv, TypeOK, RebuildStream
  <2> QED BY <2>1, <2>3, <2>4, <2>5 DEF Inv, TypeOK, AllGood
<1> QED BY <1>1, <1>2 DEF RetryOrExit

\* The switch and the reads of it.
LEMMA AdminInv ==
    ASSUME Inv,
           (\E config \in Configs : AdminSaves(config)) \/ Refresh
    PROVE  Inv'
<1>1. ASSUME NEW config \in Configs, AdminSaves(config)
      PROVE  Inv'
  BY <1>1, WorkersAssumption DEF AdminSaves, Inv, TypeOK, AllGood, fatalVars, askVars
<1>2. CASE Refresh
  BY <1>2 DEF Refresh, Inv, TypeOK, AllGood, fatalVars, askVars
<1> QED BY <1>1, <1>2

\* What a read found is applied, and the listeners run.
LEMMA AppliedInv ==
    ASSUME Inv, reads # <<>>, NEW config \in Configs, Apply(config),
           faults' \in 0..MaxFaults
    PROVE  Inv'
<1>1. /\ Tail(reads) \in Seq(Configs) /\ phase' \in {"sync", "start", "run"}
  BY DEF Apply, Synced, Inv, TypeOK
<1>2. AllGood(connectors') /\ Len(connectors') = Len(connectors)
  <2>1. CASE config = cache
    BY <2>1 DEF Apply, Inv
  <2>2. CASE config # cache
    <3> DEFINE ds == Reconciled(config)
    <3>1. ASSUME NEW g \in DOMAIN connectors
          PROVE  GoodConnector(ds[g])
      <4>1. GoodConnector(connectors[g])
        BY DEF Inv, AllGood
      <4> QED BY <4>1, ReconciledGood DEF Reconciled
    <3>2. ds = [g \in DOMAIN connectors |-> ds[g]]
      BY DEF Reconciled
    <3>3. connectors' = ds
      BY <2>2 DEF Apply
    <3> HIDE DEF ds
    <3> QED BY <3>1, <3>2, <3>3, EachGood DEF Inv
  <2> QED BY <2>1, <2>2
<1> QED BY <1>1, <1>2 DEF Apply, Inv, TypeOK, AllGood, fatalVars

\* A read that answers, or fails and is taken for an absent key.
LEMMA ApplyInv ==
    ASSUME Inv, ApplyRead \/ ReadFails
    PROVE  Inv'
<1>1. CASE ApplyRead
  <2>1. Head(reads) \in Configs /\ reads # <<>> /\ faults' \in 0..MaxFaults
    BY <1>1 DEF ApplyRead, Inv, TypeOK
  <2> QED BY <1>1, <2>1, AppliedInv DEF ApplyRead
<1>2. CASE ReadFails
  <2>1. {} \in Configs /\ reads # <<>> /\ faults' \in 0..MaxFaults
    BY <1>2, WorkersAssumption DEF ReadFails, Configs, Inv, TypeOK
  <2> QED BY <1>2, <2>1, AppliedInv DEF ReadFails
<1> QED BY <1>1, <1>2

\* The steps of index.price.ts.
LEMMA MainInv ==
    ASSUME Inv,
           MainStarts \/ FatalError \/ Got403 \/ Wakes \/ Restarts
    PROVE  Inv'
<1>0. Len(connectors) \in Nat
  BY DEF Inv, AllGood
<1>1. CASE MainStarts
  <2>1. AllGood(connectors') /\ Len(connectors') = Len(connectors) + 1
    BY <1>1, NewConnectorGood, AppendGood DEF MainStarts, Inv
  <2> QED BY <1>0, <1>1, <2>1 DEF MainStarts, Inv, TypeOK, AllGood, askVars
<1>2. CASE FatalError
  <2>1. faults' \in 0..MaxFaults
    BY <1>2, WorkersAssumption DEF FatalError, Inv, TypeOK
  <2> QED BY <1>2, <2>1, RetryInv DEF FatalError
<1>3. CASE Got403
  BY <1>3, WorkersAssumption DEF Got403, Inv, TypeOK, AllGood, configVars, askVars
<1>4. CASE Wakes
  BY <1>4, RetryInv DEF Wakes, Inv, TypeOK
<1>5. CASE Restarts
  <2>1. faults' \in 0..MaxFaults
    BY <1>5, WorkersAssumption DEF Restarts, Inv, TypeOK
  <2> QED BY <1>5, <2>1, ExitsInv DEF Restarts
<1> QED BY <1>1, <1>2, <1>3, <1>4, <1>5

\* The part of the type the consumer has to do with.
AskOK ==
    requests \subseteq Variants /\ boot \in 0..Len(connectors) /\ loss \in BOOLEAN

\* A consumer that hears a boot id.
LEMMA HearsOK ==
    ASSUME Inv, NEW g \in 1..Len(connectors), Hears(g),
           Len(connectors') = Len(connectors)
    PROVE  AskOK'
<1>1. requests \subseteq Variants /\ boot \in 0..Len(connectors) /\ loss \in BOOLEAN
  BY DEF Inv, TypeOK
<1>2. requests' \subseteq Variants
  BY <1>1 DEF Hears, askVars
<1>3. boot' \in 0..Len(connectors')
  BY <1>1 DEF Hears, askVars
<1>4. loss' \in BOOLEAN
  <2>1. CASE boot = g
    BY <1>1, <2>1 DEF Hears, askVars
  <2>2. CASE boot # g
    BY <2>2 DEF Hears
  <2> QED BY <2>1, <2>2
<1> QED BY <1>2, <1>3, <1>4 DEF AskOK

\* The announcement and the beacon.
LEMMA BootInv ==
    ASSUME Inv, NEW g \in DOMAIN connectors, AnnounceBoot(g) \/ Beacon(g)
    PROVE  Inv'
<1>0. g \in 1..Len(connectors) /\ Len(connectors) \in Nat
  BY DEF Inv, AllGood
<1>1. CASE AnnounceBoot(g)
  <2> DEFINE c == [connectors[g] EXCEPT !.announced = TRUE, !.beacon = TRUE]
  <2>1. GoodConnector(c)
    BY FlagsGood DEF Inv, AllGood
  <2>2. connectors' = [connectors EXCEPT ![g] = c]
    BY <1>1 DEF AnnounceBoot
  <2> HIDE DEF c
  <2>3. AllGood(connectors') /\ Len(connectors') = Len(connectors)
    BY <2>1, <2>2, OneGood DEF Inv
  <2>4. AskOK'
    <3>1. CASE Hears(g)
      BY <1>0, <2>3, <3>1, HearsOK
    <3>2. CASE UNCHANGED askVars
      BY <2>3, <3>2 DEF AskOK, Inv, TypeOK, askVars
    <3> QED BY <1>1, <3>1, <3>2 DEF AnnounceBoot
  <2>5. faults' \in 0..MaxFaults
    BY <1>1, WorkersAssumption DEF AnnounceBoot, Inv, TypeOK
  <2> QED BY <1>1, <2>3, <2>4, <2>5
          DEF AnnounceBoot, AskOK, Inv, TypeOK, AllGood, configVars, fatalVars
<1>2. CASE Beacon(g)
  <2>1. AskOK'
    <3>1. Hears(g) /\ connectors' = connectors
      BY <1>2 DEF Beacon
    <3> QED BY <1>0, <3>1, HearsOK
  <2> QED BY <1>2, <2>1
          DEF Beacon, AskOK, Inv, TypeOK, AllGood, configVars, fatalVars
<1> QED BY <1>1, <1>2

\* A request is taken from the queue.
LEMMA RequestInv ==
    ASSUME Inv, NEW v \in Variants, TakesRequest(v)
    PROVE  Inv'
<1>1. PICK g \in Alive : SubscribeCandle(v, g)
  BY DEF TakesRequest
<1> DEFINE f == FamilyOf[v]
           s == connectors[g].slots[f]
<1>2. g \in DOMAIN connectors /\ f \in Families
  BY WorkersAssumption DEF Alive
<1>3. AllGood(connectors') /\ Len(connectors') = Len(connectors)
  <2>1. CASE Enabled(v) /\ s.entry # 0 /\ Running(s.threads[s.entry])
    <3>1. GoodSlot(s)
      BY <1>2, SlotsGood DEF Inv, AllGood
    <3>2. s.entry \in DOMAIN Threads(g, f)
      BY <2>1, <3>1, EntryInDomain DEF Threads
    <3> DEFINE t == Handles(Threads(g, f)[s.entry], f, v)
    <3>3. Threads(g, f)[s.entry] \in Thread
      BY <1>2, <3>2, ThreadType DEF Inv
    <3>4. /\ t \in Thread /\ t.heard = Threads(g, f)[s.entry].heard
          /\ t.state = Threads(g, f)[s.entry].state
      BY <3>3, HandlesType
    <3>5. t.state = "running"
      BY <2>1, <3>4 DEF Running, Threads
    <3>6. connectors' = [connectors EXCEPT ![g].slots[f].threads[s.entry] = t]
      BY <1>1, <2>1 DEF SubscribeCandle, Threads
    <3> HIDE DEF t
    <3> QED BY <1>2, <3>2, <3>4, <3>5, <3>6, BecomesGood DEF Inv, Running
  <2>2. CASE ~(Enabled(v) /\ s.entry # 0 /\ Running(s.threads[s.entry]))
    BY <1>1, <2>2 DEF SubscribeCandle, Inv
  <2> QED BY <2>1, <2>2
<1>4. loss' \in BOOLEAN
  BY <1>1 DEF SubscribeCandle, Inv, TypeOK
<1> QED BY <1>3, <1>4 DEF TakesRequest, Inv, TypeOK, AllGood, configVars, fatalVars

\* What the steps of threads leave alone is typed as before.
LEMMA RestInv ==
    ASSUME Inv, AllGood(connectors'), Len(connectors') = Len(connectors),
           UNCHANGED <<configVars, fatalVars, requests, boot>>,
           loss' \in BOOLEAN, faults' \in 0..MaxFaults
    PROVE  Inv'
BY DEF Inv, TypeOK, AllGood, configVars, fatalVars

\* The steps of a thread.
LEMMA ThreadInv ==
    ASSUME Inv, NEW g \in DOMAIN connectors, NEW f \in Families,
           NEW n \in DOMAIN Threads(g, f),
           \/ ThreadStep(g, f, n) \/ ThreadFault(g, f, n)
           \/ \E k \in Feeds : Data(g, f, n, k)
    PROVE  Inv'
<1> DEFINE t == Threads(g, f)[n]
<1>1. t \in Thread /\ AllGood(connectors) /\ loss \in BOOLEAN
      /\ faults \in 0..MaxFaults
  BY ThreadType DEF Inv, TypeOK
<1>2. faults < MaxFaults /\ faults' = faults + 1 => faults' \in 0..MaxFaults
  BY <1>1, WorkersAssumption
<1> HIDE DEF t
\* A running thread becomes u, which runs or dies.
<1>3. ASSUME NEW u \in Thread, u.heard = t.heard, Running(t),
             u.state \in {"running", "dying"}, Becomes(g, f, n, u)
      PROVE  AllGood(connectors') /\ Len(connectors') = Len(connectors)
  <2>1. u.state # "gone" /\ u.heard = Threads(g, f)[n].heard
        /\ Running(Threads(g, f)[n])
    BY <1>3 DEF t
  <2>2. connectors' = [connectors EXCEPT ![g].slots[f].threads[n] = u]
    BY <1>3 DEF Becomes
  <2> QED BY <1>1, <2>1, <2>2, BecomesGood
<1>4. Running(t) => t.state = "running"
  BY DEF Running
<1>5. CASE ThreadExits(g, f, n)
  <2>1. AllGood(connectors') /\ Len(connectors') = Len(connectors)
    BY <1>1, <1>5, ExitsGood DEF ThreadExits
  <2>2. loss' \in BOOLEAN /\ faults' \in 0..MaxFaults
    BY <1>1, <1>5 DEF ThreadExits, askVars
  <2> QED BY <1>5, <2>1, <2>2, RestInv DEF ThreadExits, askVars
\* A rebuild of the thread, possibly after a change u of it.
<1>6. ASSUME NEW u \in Thread, u.heard = t.heard, u.state = t.state, Running(t),
             RebuildThread(g, f, n, u)
      PROVE  /\ AllGood(connectors') /\ Len(connectors') = Len(connectors)
             /\ loss' \in BOOLEAN
  <2>1. /\ Rebuilt(u, f) \in Thread /\ Rebuilt(u, f).heard = t.heard
        /\ Rebuilt(u, f).state = "running"
    BY <1>4, <1>6, RebuiltType
  <2>2. Becomes(g, f, n, Rebuilt(u, f)) /\ loss' \in BOOLEAN
    BY <1>6 DEF RebuildThread
  <2> QED BY <1>3, <1>6, <2>1, <2>2
<1>7. CASE ThreadWakes(g, f, n)
  <2> DEFINE u == [t EXCEPT !.asleep = FALSE]
  <2>1. Running(t) /\ RebuildThread(g, f, n, u)
    BY <1>7 DEF ThreadWakes, Up, t
  <2>2. u \in Thread /\ u.heard = t.heard /\ u.state = t.state
    BY <1>1 DEF Thread
  <2> HIDE DEF u
  <2>3. AllGood(connectors') /\ Len(connectors') = Len(connectors) /\ loss' \in BOOLEAN
    BY <1>6, <2>1, <2>2
  <2> QED BY <1>1, <1>7, <2>3, RestInv DEF ThreadWakes
<1>8. CASE Crash(g, f, n)
  <2>1. Running(t) /\ Becomes(g, f, n, Ended(t, "dying")) /\ loss' \in BOOLEAN
    BY <1>8 DEF Crash, Up, t
  <2>2. AllGood(connectors') /\ Len(connectors') = Len(connectors)
    BY <1>1, <1>3, <2>1, EndedType
  <2> QED BY <1>2, <1>8, <2>1, <2>2, RestInv DEF Crash
<1>9. CASE ThreadError(g, f, n)
  <2>1. Running(t)
    BY <1>9 DEF ThreadError, Up, t
  <2>2. CASE RebuildThread(g, f, n, Threads(g, f)[n])
    <3>1. RebuildThread(g, f, n, t)
      BY <2>2 DEF t
    <3>2. AllGood(connectors') /\ Len(connectors') = Len(connectors) /\ loss' \in BOOLEAN
      BY <1>1, <1>6, <2>1, <3>1
    <3> QED BY <1>2, <1>9, <3>2, RestInv DEF ThreadError
  <2>3. CASE /\ Becomes(g, f, n, [Threads(g, f)[n] EXCEPT !.asleep = TRUE])
             /\ UNCHANGED loss
    <3> DEFINE u == [t EXCEPT !.asleep = TRUE]
    <3>1. u \in Thread /\ u.heard = t.heard /\ u.state = t.state
      BY <1>1 DEF Thread
    <3>2. Becomes(g, f, n, u)
      BY <2>3 DEF t
    <3> HIDE DEF u
    <3>3. AllGood(connectors') /\ Len(connectors') = Len(connectors)
      BY <1>3, <1>4, <2>1, <3>1, <3>2
    <3>4. loss' \in BOOLEAN
      BY <1>1, <2>3
    <3> QED BY <1>2, <1>9, <3>3, <3>4, RestInv DEF ThreadError
  <2> QED BY <1>9, <2>2, <2>3 DEF ThreadError
<1>10. ASSUME NEW k \in Feeds, FeedDies(g, f, n, k)
       PROVE  Inv'
  <2>1. PICK u : /\ u \in {[t EXCEPT !.bad = @ \cup {k}],
                          [t EXCEPT !.bad = @ \cup {k}, !.stopped = @ \cup {k}]}
                 /\ Becomes(g, f, n, u)
    BY <1>10 DEF FeedDies, t
  <2>2. Running(t)
    BY <1>10 DEF FeedDies, Up, t
  <2>3. u \in Thread /\ u.heard = t.heard /\ u.state = t.state
    <3>1. t.bad \cup {k} \in SUBSET Feeds /\ t.stopped \cup {k} \in SUBSET Feeds
      BY <1>1 DEF Thread
    <3>2. CASE u = [t EXCEPT !.bad = @ \cup {k}]
      BY <1>1, <3>1, <3>2 DEF Thread
    <3>3. CASE u = [t EXCEPT !.bad = @ \cup {k}, !.stopped = @ \cup {k}]
      BY <1>1, <3>1, <3>3 DEF Thread
    <3> QED BY <2>1, <3>2, <3>3
  <2>4. AllGood(connectors') /\ Len(connectors') = Len(connectors)
    BY <1>3, <1>4, <2>1, <2>2, <2>3
  <2>5. loss' \in BOOLEAN
    BY <1>1, <1>10 DEF FeedDies, askVars
  <2> QED BY <1>2, <1>10, <2>4, <2>5, RestInv DEF FeedDies, askVars
<1>11. ASSUME NEW k \in Feeds, Data(g, f, n, k)
       PROVE  Inv'
  <2>1. /\ NoteData(t, k) \in Thread /\ NoteData(t, k).heard = t.heard
        /\ NoteData(t, k).state = t.state
    BY <1>1, ThreadSteps DEF NoteData, Thread
  <2>2. Running(t) /\ Becomes(g, f, n, NoteData(t, k))
    BY <1>11 DEF Data, Up, t
  <2>3. AllGood(connectors') /\ Len(connectors') = Len(connectors)
    BY <1>3, <1>4, <2>1, <2>2
  <2>4. loss' \in BOOLEAN /\ faults' \in 0..MaxFaults
    BY <1>1, <1>11 DEF Data, askVars
  <2> QED BY <1>11, <2>3, <2>4, RestInv DEF Data, askVars
<1>12. ASSUME NEW k \in Feeds, Stall(g, f, n, k)
       PROVE  Inv'
  <2>1. Running(t) /\ faults' = faults
    BY <1>12 DEF Stall, Up, t
  <2>2. CASE NoteStall(t, k).stalls[k] >= Threshold
    <3>1. Becomes(g, f, n, Ended(t, "dying")) /\ loss' \in BOOLEAN
      BY <1>12, <2>2 DEF Stall, t
    <3>2. AllGood(connectors') /\ Len(connectors') = Len(connectors)
      BY <1>1, <1>3, <2>1, <3>1, EndedType
    <3> QED BY <1>1, <1>12, <2>1, <3>1, <3>2, RestInv DEF Stall
  <2>3. CASE ~(NoteStall(t, k).stalls[k] >= Threshold)
    <3>1. NoteStall(t, k).stalls[k] < Threshold
      <4>1. NoteStall(t, k).stalls[k] = t.stalls[k] + 1 /\ t.stalls[k] \in Nat
        BY <1>1 DEF NoteStall, Thread
      <4> QED BY <2>3, <4>1, WorkersAssumption
    <3>2. /\ NoteStall(t, k) \in Thread /\ NoteStall(t, k).heard = t.heard
          /\ NoteStall(t, k).state = t.state
      BY <1>1, <3>1, ThreadSteps DEF NoteStall, Thread
    <3>3. RebuildThread(g, f, n, NoteStall(t, k))
      BY <1>12, <2>3 DEF Stall, t
    <3>4. AllGood(connectors') /\ Len(connectors') = Len(connectors) /\ loss' \in BOOLEAN
      BY <1>6, <2>1, <3>2, <3>3
    <3> QED BY <1>1, <1>12, <2>1, <3>4, RestInv DEF Stall
  <2> QED BY <2>2, <2>3
<1> QED BY <1>5, <1>7, <1>8, <1>9, <1>10, <1>11, <1>12 DEF ThreadStep, ThreadFault

\* The invariant is inductive.
LEMMA NextInv == Inv /\ [Next]_vars => Inv'
<1> SUFFICES ASSUME Inv, [Next]_vars PROVE Inv'
  OBVIOUS
<1>1. CASE UNCHANGED vars
  <2>1. AllGood(connectors') /\ Len(connectors') = Len(connectors)
    BY <1>1 DEF Inv, vars
  <2>2. loss' \in BOOLEAN /\ faults' \in 0..MaxFaults
    BY <1>1 DEF Inv, TypeOK, vars, askVars
  <2> QED BY <1>1, <2>1, <2>2, RestInv DEF vars, askVars
<1>2. CASE Next
  BY <1>2, AdminInv, ApplyInv, MainInv, BootInv, RequestInv, ThreadInv DEF Next
<1> QED BY <1>1, <1>2

\* The price process is well typed: the counters of index.price.ts and of the
\* stalls stay below the limits that exit, and every boot id a consumer acted
\* on belongs to a Connector of this service.
THEOREM WorkersTypeCorrect == Spec => []TypeOK
<1>1. Spec => []Inv
  BY InitInv, NextInv, PTL DEF Spec
<1>2. Inv => TypeOK
  BY DEF Inv
<1> QED BY <1>1, <1>2, PTL

\* initWorker, terminateFamily, stop and the exit handlers keep one thread per
\* entry and its listeners on it, for every number of families, rebuilds,
\* crashes and switches of the admin config.
THEOREM ThreadsAreOwned == Spec => []NoOrphanThread
<1>1. Spec => []Inv
  BY InitInv, NextInv, PTL DEF Spec
<1>2. Inv => NoOrphanThread
  BY AllGoodOwned DEF Inv
<1> QED BY <1>1, <1>2, PTL

-----------------------------------------------------------------------------
(* Rooms.  A step that loses nothing keeps every running thread and its      *)
(* rooms, or takes a request to a running thread.                            *)

KeepsSlot(s, r) ==
    \A n \in DOMAIN s.threads :
        Running(s.threads[n]) =>
            /\ n \in DOMAIN r.threads /\ Running(r.threads[n])
            /\ Rooms(s.threads[n]) \subseteq Rooms(r.threads[n])

Keeps(c, d) ==
    /\ c.alive => d.alive
    /\ \A f \in Families : KeepsSlot(c.slots[f], d.slots[f])

AllKept ==
    \A g \in DOMAIN connectors :
        g \in DOMAIN connectors' /\ Keeps(connectors[g], connectors'[g])

\* A served room stays served when threads and rooms are kept.
LEMMA ServedKept ==
    ASSUME AllKept, NEW v \in Variants, Served(v)
    PROVE  Served(v)'
<1> DEFINE f == FamilyOf[v]
<1>1. f \in Families
  BY WorkersAssumption
<1>0. PICK g \in Alive : \E n \in DOMAIN Threads(g, f) :
          Running(Threads(g, f)[n]) /\ v \in Rooms(Threads(g, f)[n])
  BY DEF Served
<1>2. PICK n \in DOMAIN Threads(g, f) :
          Running(Threads(g, f)[n]) /\ v \in Rooms(Threads(g, f)[n])
  BY <1>0
<1>3. /\ g \in DOMAIN connectors' /\ connectors'[g].alive
      /\ KeepsSlot(connectors[g].slots[f], connectors'[g].slots[f])
  BY <1>1, <1>2 DEF AllKept, Keeps, Alive
<1>4. /\ n \in DOMAIN connectors'[g].slots[f].threads
      /\ Running(connectors'[g].slots[f].threads[n])
      /\ v \in Rooms(connectors'[g].slots[f].threads[n])
  BY <1>2, <1>3 DEF KeepsSlot, Threads
<1> QED BY <1>3, <1>4 DEF Served, Alive, Threads

\* initWorker keeps the threads that run.
LEMMA InitWorkerKeeps ==
    ASSUME NEW s, GoodSlot(s)
    PROVE  KeepsSlot(s, InitWorker(s))
<1>1. s.threads \in Seq(Thread)
  BY DEF GoodSlot, Slot
<1>2. CASE s.entry # 0
  BY <1>2 DEF InitWorker, KeepsSlot
<1>3. CASE s.entry = 0
  <2>1. InitWorker(s).threads = Append(s.threads, NewThread)
    BY <1>3 DEF InitWorker
  <2>2. \A n \in DOMAIN s.threads : /\ n \in DOMAIN Append(s.threads, NewThread)
                                    /\ Append(s.threads, NewThread)[n] = s.threads[n]
    BY <1>1, NewThreadType
  <2> QED BY <2>1, <2>2 DEF KeepsSlot
<1> QED BY <1>2, <1>3

\* So does a thread replaced by one that runs with its rooms.
LEMMA ReplaceKeeps ==
    ASSUME NEW s \in Slot, NEW n \in DOMAIN s.threads, NEW t,
           Running(s.threads[n]) =>
               Running(t) /\ Rooms(s.threads[n]) \subseteq Rooms(t),
           NEW r, r.threads = [s.threads EXCEPT ![n] = t]
    PROVE  KeepsSlot(s, r)
<1>1. DOMAIN r.threads = DOMAIN s.threads
  BY DEF Slot
<1>2. ASSUME NEW i \in DOMAIN s.threads, Running(s.threads[i])
      PROVE  Running(r.threads[i]) /\ Rooms(s.threads[i]) \subseteq Rooms(r.threads[i])
  <2>1. CASE i = n
    <3>1. r.threads[i] = t
      BY <2>1
    <3> QED BY <1>2, <2>1, <3>1
  <2>2. CASE i # n
    <3>1. r.threads[i] = s.threads[i]
      BY <2>2
    <3> QED BY <1>2, <3>1
  <2> QED BY <2>1, <2>2
<1> QED BY <1>1, <1>2 DEF KeepsSlot

\* The end of one thread takes no other along.
LEMMA ExitKeeps ==
    ASSUME NEW s, GoodSlot(s), NEW n \in DOMAIN s.threads, ~Running(s.threads[n])
    PROVE  KeepsSlot(s, ExitSlot(s, n))
<1> DEFINE t == [Ended(s.threads[n], "gone") EXCEPT !.heard = FALSE]
<1>1. s \in Slot /\ s.threads[n] \in Thread
  BY DEF GoodSlot, Slot
<1>2. t \in Thread /\ t.heard = FALSE /\ t.state = "gone"
  BY <1>1, EndedType, UnheardType
<1> DEFINE ended == [s EXCEPT !.threads[n] = t]
           base == [entry |-> 0, threads |-> [s.threads EXCEPT ![n] = t]]
<1>3. ExitSlot(s, n) = IF s.threads[n].heard
                       THEN InitWorker([ended EXCEPT !.entry = 0]) ELSE ended
  BY DEF ExitSlot
<1> HIDE DEF t
<1>4. /\ ended = [entry |-> s.entry, threads |-> [s.threads EXCEPT ![n] = t]]
      /\ ended.threads = [s.threads EXCEPT ![n] = t]
  BY <1>1, SlotUpdate
<1> HIDE DEF ended
<1>5. [ended EXCEPT !.entry = 0] = base
  <2> DEFINE T == [s.threads EXCEPT ![n] = t]
  <2>1. ended = [entry |-> s.entry, threads |-> T]
    BY <1>4
  <2> HIDE DEF T
  <2>2. [ended EXCEPT !.entry = 0] = [entry |-> 0, threads |-> T]
    BY <2>1
  <2> QED BY <2>2 DEF T
<1>6. n = s.entry <=> s.threads[n].heard
  BY DEF GoodSlot, SlotOK
<1>7. CASE ~s.threads[n].heard
  <2>1. KeepsSlot(s, ended)
    BY <1>1, <1>4, ReplaceKeeps
  <2> QED BY <1>3, <1>7, <2>1
<1>8. CASE s.threads[n].heard
  <2>1. base.threads = [s.threads EXCEPT ![n] = t]
    OBVIOUS
  <2>2. GoodSlot(base)
    <3>1. ~t.heard /\ ~Running(t) /\ 0 \in {0, s.entry} /\ 0 # s.entry
      BY <1>2, <1>6, <1>8 DEF Running, GoodSlot, Slot
    <3> QED BY <1>2, <1>6, <1>8, <3>1, DropGood
  <2> HIDE DEF base
  <2>3. KeepsSlot(s, base)
    BY <1>1, <2>1, ReplaceKeeps
  <2>4. KeepsSlot(base, InitWorker(base))
    BY <2>2, InitWorkerKeeps
  <2>5. KeepsSlot(s, InitWorker(base))
    BY <2>3, <2>4 DEF KeepsSlot
  <2> QED BY <1>3, <1>5, <1>8, <2>5
<1> QED BY <1>7, <1>8

\* Keeping the threads of one slot keeps all threads.
LEMMA WithSlotKeeps ==
    ASSUME AllGood(connectors), NEW g \in DOMAIN connectors,
           NEW f \in Families, NEW s, KeepsSlot(connectors[g].slots[f], s),
           connectors' = [connectors EXCEPT ![g] = [@ EXCEPT !.slots[f] = s]]
    PROVE  AllKept
<1>1. ASSUME NEW h \in DOMAIN connectors, NEW e \in Families
      PROVE  KeepsSlot(connectors[h].slots[e], connectors'[h].slots[e])
  <2>1. connectors[h] \in Connector
    BY DEF AllGood, GoodConnector
  <2>2. CASE h # g
    <3>1. connectors'[h] = connectors[h]
      BY <2>2
    <3> QED BY <3>1 DEF KeepsSlot
  <2>3. CASE h = g
    <3>1. connectors'[h] = [connectors[h] EXCEPT !.slots[f] = s]
      BY <2>3
    <3>2. connectors'[h].slots[e] = IF e = f THEN s ELSE connectors[h].slots[e]
      BY <2>1, <3>1 DEF Connector
    <3> QED BY <2>3, <3>2 DEF KeepsSlot
  <2> QED BY <2>2, <2>3
<1>2. \A h \in DOMAIN connectors : h \in DOMAIN connectors'
  OBVIOUS
<1>3. ASSUME NEW h \in DOMAIN connectors
      PROVE  connectors[h].alive => connectors'[h].alive
  <2>1. CASE h # g
    <3>1. connectors'[h] = connectors[h]
      BY <2>1
    <3> QED BY <3>1
  <2>2. CASE h = g
    <3>1. connectors'[h] = [connectors[h] EXCEPT !.slots[f] = s]
      BY <2>2
    <3>2. connectors[h] \in Connector
      BY DEF AllGood, GoodConnector
    <3>3. connectors'[h].alive = connectors[h].alive
      BY <3>1, <3>2 DEF Connector
    <3> QED BY <3>3
  <2> QED BY <2>1, <2>2
<1> QED BY <1>1, <1>2, <1>3 DEF AllKept, Keeps

\* A step of one thread keeps the others.
LEMMA BecomesKeeps ==
    ASSUME AllGood(connectors), NEW g \in DOMAIN connectors,
           NEW f \in Families, NEW n \in DOMAIN Threads(g, f), NEW t,
           Running(Threads(g, f)[n]) =>
               Running(t) /\ Rooms(Threads(g, f)[n]) \subseteq Rooms(t),
           connectors' = [connectors EXCEPT ![g].slots[f].threads[n] = t]
    PROVE  AllKept
<1> DEFINE s == [connectors[g].slots[f] EXCEPT !.threads[n] = t]
<1>1. connectors[g].slots[f] \in Slot
  BY SlotsGood DEF AllGood, GoodSlot
<1>2. s.threads = [connectors[g].slots[f].threads EXCEPT ![n] = t]
  BY <1>1 DEF Slot
<1>3. connectors' = [connectors EXCEPT ![g] = [@ EXCEPT !.slots[f] = s]]
  OBVIOUS
<1> HIDE DEF s
<1>4. KeepsSlot(connectors[g].slots[f], s)
  BY <1>1, <1>2, ReplaceKeeps DEF Threads
<1> QED BY <1>3, <1>4, WithSlotKeeps

-----------------------------------------------------------------------------

\* A step that keeps threads, requests and the boot keeps the promise, and so
\* does one that says it lost something.
LEMMA KeptAsked ==
    ASSUME AskedIsServed, AllKept, UNCHANGED <<requests, boot>>, loss => loss'
    PROVE  AskedIsServed'
BY ServedKept DEF AskedIsServed

\* A step that says it lost something owes nothing.
LEMMA LostAsked ==
    ASSUME loss'
    PROVE  AskedIsServed'
BY DEF AskedIsServed

\* No change keeps everything.
LEMMA UnchangedKept ==
    ASSUME connectors' = connectors
    PROVE  AllKept
BY DEF AllKept, Keeps, KeepsSlot

\* Steps of the process.
LEMMA ProcessAsked ==
    ASSUME Inv, AskedIsServed,
           \/ \E config \in Configs : AdminSaves(config)
           \/ Refresh \/ ApplyRead \/ ReadFails
           \/ MainStarts \/ FatalError \/ Got403 \/ Wakes \/ Restarts
    PROVE  AskedIsServed'
<1>1. CASE \/ \E config \in Configs : AdminSaves(config)
           \/ Refresh \/ Got403
  <2>1. connectors' = connectors /\ UNCHANGED askVars
    BY <1>1 DEF AdminSaves, Refresh, Got403
  <2>2. loss => loss'
    BY <2>1 DEF askVars
  <2> QED BY <2>1, <2>2, UnchangedKept, KeptAsked DEF askVars
<1>2. CASE ApplyRead \/ ReadFails
  <2>1. PICK config : Apply(config)
    BY <1>2 DEF ApplyRead, ReadFails
  <2>2. CASE config = cache
    <3>1. /\ connectors' = connectors /\ UNCHANGED <<requests, boot>>
          /\ (loss => loss')
      BY <2>1, <2>2 DEF Apply
    <3> QED BY <3>1, UnchangedKept, KeptAsked
  <2>3. CASE config # cache
    <3>1. loss'
      BY <2>1, <2>3 DEF Apply
    <3> QED BY <3>1, LostAsked
  <2> QED BY <2>2, <2>3
<1>3. CASE MainStarts
  <2>1. connectors' = Append(connectors, NewConnector) /\ UNCHANGED <<requests, boot>>
    BY <1>3 DEF MainStarts, askVars
  <2>2. loss => loss'
    BY <1>3 DEF MainStarts, askVars
  <2>3. connectors \in Seq(Connector) /\ NewConnector \in Connector
    BY NewConnectorGood DEF Inv, AllGood, GoodConnector
  <2>4. \A g \in DOMAIN connectors : /\ g \in DOMAIN connectors'
                                     /\ connectors'[g] = connectors[g]
    BY <2>1, <2>3
  <2>5. AllKept
    BY <2>4 DEF AllKept, Keeps, KeepsSlot
  <2> QED BY <2>1, <2>2, <2>5, KeptAsked
<1>4. CASE FatalError \/ Wakes \/ Restarts
  <2>1. loss'
    BY <1>4 DEF FatalError, Wakes, Restarts, RetryOrExit, ProcessExits, RebuildStream
  <2> QED BY <2>1, LostAsked
<1> QED BY <1>1, <1>2, <1>3, <1>4

\* A consumer that learns a boot asks for every room.
LEMMA HearsAsked ==
    ASSUME AskedIsServed, AllKept, NEW g, Hears(g)
    PROVE  AskedIsServed'
<1>1. CASE boot = g
  <2>1. UNCHANGED <<requests, boot>>
    BY <1>1 DEF Hears, askVars
  <2>2. loss => loss'
    BY <1>1 DEF Hears, askVars
  <2> QED BY <2>1, <2>2, KeptAsked
<1>2. CASE boot # g
  BY <1>2 DEF Hears, AskedIsServed
<1> QED BY <1>1, <1>2

\* The announcement and the beacon.
LEMMA BootAsked ==
    ASSUME Inv, AskedIsServed, NEW g \in DOMAIN connectors,
           AnnounceBoot(g) \/ Beacon(g)
    PROVE  AskedIsServed'
<1>1. CASE AnnounceBoot(g)
  <2> DEFINE c == [connectors[g] EXCEPT !.announced = TRUE, !.beacon = TRUE]
  <2>1. connectors' = [connectors EXCEPT ![g] = c]
    BY <1>1 DEF AnnounceBoot
  <2>2. c.slots = connectors[g].slots /\ c.alive = connectors[g].alive
    BY FlagsGood DEF Inv, AllGood
  <2> HIDE DEF c
  <2>3. ASSUME NEW h \in DOMAIN connectors
        PROVE  /\ h \in DOMAIN connectors'
               /\ connectors'[h].slots = connectors[h].slots
               /\ connectors'[h].alive = connectors[h].alive
    <3>1. CASE h = g
      BY <2>1, <2>2, <3>1
    <3>2. CASE h # g
      BY <2>1, <3>2
    <3> QED BY <3>1, <3>2
  <2>4. AllKept
    BY <2>3 DEF AllKept, Keeps, KeepsSlot
  <2>5. CASE Hears(g)
    BY <2>4, <2>5, HearsAsked
  <2>6. CASE UNCHANGED askVars
    <3>1. UNCHANGED <<requests, boot>> /\ (loss => loss')
      BY <2>6 DEF askVars
    <3> QED BY <2>4, <3>1, KeptAsked
  <2> QED BY <1>1, <2>5, <2>6 DEF AnnounceBoot
<1>2. CASE Beacon(g)
  <2>1. Hears(g) /\ connectors' = connectors
    BY <1>2 DEF Beacon
  <2> QED BY <2>1, UnchangedKept, HearsAsked
<1> QED BY <1>1, <1>2

\* A request reaches a running thread, or is lost for want of one.
LEMMA RequestAsked ==
    ASSUME Inv, AskedIsServed, NEW v \in Variants, TakesRequest(v)
    PROVE  AskedIsServed'
<1>1. PICK g \in Alive : SubscribeCandle(v, g)
  BY DEF TakesRequest
<1> DEFINE f == FamilyOf[v]
           s == connectors[g].slots[f]
<1>2. g \in DOMAIN connectors /\ f \in Families /\ connectors[g].alive
  BY WorkersAssumption DEF Alive
<1>3. CASE Enabled(v) /\ s.entry # 0 /\ Running(s.threads[s.entry])
  <2>1. GoodSlot(s)
    BY <1>2, SlotsGood DEF Inv, AllGood
  <2>2. s.entry \in DOMAIN Threads(g, f)
    BY <1>3, <2>1, EntryInDomain DEF Threads
  <2> DEFINE old == Threads(g, f)[s.entry]
             t == Handles(old, f, v)
  <2>3. old \in Thread /\ Running(old)
    BY <1>2, <1>3, <2>2, ThreadType DEF Inv, Threads
  <2>4. /\ Running(t) /\ Rooms(old) \subseteq Rooms(t) /\ v \in Rooms(t)
    BY <2>3, HandlesType DEF Running
  <2>5. connectors' = [connectors EXCEPT ![g].slots[f].threads[s.entry] = t]
    BY <1>1, <1>3 DEF SubscribeCandle, Threads
  <2>6. /\ UNCHANGED boot /\ requests' = requests \ {v} /\ (loss => loss')
    BY <1>1, <1>3 DEF SubscribeCandle, TakesRequest
  <2>7. Served(v)'
    <3>1. /\ g \in DOMAIN connectors' /\ connectors'[g].alive
          /\ connectors'[g].slots[f].threads
                = [connectors[g].slots[f].threads EXCEPT ![s.entry] = t]
      <4>1. connectors[g] \in Connector
        BY <1>2 DEF Inv, AllGood, GoodConnector
      <4> HIDE DEF t, s
      <4>2. connectors'[g] = [connectors[g] EXCEPT !.slots[f].threads[s.entry] = t]
        BY <1>2, <2>5
      <4>3. connectors[g].slots \in [Families -> Slot] /\ connectors[g].slots[f] \in Slot
        BY <1>2, <4>1 DEF Connector
      <4> QED BY <1>2, <2>5, <4>1, <4>2, <4>3 DEF Connector, Slot
    <3>2. /\ s.entry \in DOMAIN connectors'[g].slots[f].threads
          /\ connectors'[g].slots[f].threads[s.entry] = t
      BY <2>2, <3>1 DEF Threads
    <3> HIDE DEF t, s
    <3> QED BY <1>2, <2>4, <3>1, <3>2 DEF Served, Alive, Threads
  <2> HIDE DEF t
  <2>8. AllKept
    BY <1>2, <2>2, <2>4, <2>5, BecomesKeeps DEF Inv
  <2>9. ASSUME boot' # 0 /\ ~loss', NEW w \in Variants
        PROVE  w \in requests' \/ Served(w)'
    <3>1. w \in requests \/ Served(w)
      BY <2>6, <2>9 DEF AskedIsServed
    <3>2. CASE w = v
      BY <2>7, <3>2
    <3>3. CASE w # v /\ w \in requests
      BY <2>6, <3>3
    <3>4. CASE Served(w)
      BY <2>8, <3>4, ServedKept
    <3> QED BY <3>1, <3>2, <3>3, <3>4
  <2> QED BY <2>9 DEF AskedIsServed
<1>4. CASE ~(Enabled(v) /\ s.entry # 0 /\ Running(s.threads[s.entry]))
  <2>1. loss'
    BY <1>1, <1>4 DEF SubscribeCandle
  <2> QED BY <2>1, LostAsked
<1> QED BY <1>3, <1>4

\* Rooms and liveliness of a thread do not depend on sleep, feeds and stalls.
LEMMA SameRooms ==
    ASSUME NEW t \in Thread, NEW k \in Feeds, NEW b
    PROVE  /\ Rooms([t EXCEPT !.asleep = b]) = Rooms(t)
           /\ Rooms(NoteData(t, k)) = Rooms(t)
           /\ Rooms(NoteStall(t, k)) = Rooms(t)
           /\ [t EXCEPT !.asleep = b].state = t.state
           /\ NoteData(t, k).state = t.state
           /\ NoteStall(t, k).state = t.state
BY DEF Rooms, NoteData, NoteStall, Thread

\* Steps of threads.
LEMMA ThreadAsked ==
    ASSUME Inv, AskedIsServed, NEW g \in DOMAIN connectors, NEW f \in Families,
           NEW n \in DOMAIN Threads(g, f),
           \/ ThreadStep(g, f, n) \/ ThreadFault(g, f, n)
           \/ \E k \in Feeds : Data(g, f, n, k)
    PROVE  AskedIsServed'
<1> DEFINE t == Threads(g, f)[n]
<1>1. t \in Thread /\ AllGood(connectors)
  BY ThreadType DEF Inv
<1> HIDE DEF t
\* The thread becomes u, with its rooms.
<1>2. ASSUME NEW u, u.state = t.state, Rooms(t) \subseteq Rooms(u),
             Becomes(g, f, n, u), UNCHANGED <<requests, boot>>, loss => loss'
      PROVE  AskedIsServed'
  <2>1. Running(Threads(g, f)[n]) =>
            Running(u) /\ Rooms(Threads(g, f)[n]) \subseteq Rooms(u)
    BY <1>2 DEF t, Running
  <2>2. connectors' = [connectors EXCEPT ![g].slots[f].threads[n] = u]
    BY <1>2 DEF Becomes
  <2>3. AllKept
    BY <1>1, <2>1, <2>2, BecomesKeeps
  <2> QED BY <1>2, <2>3, KeptAsked
\* The connector of the thread, changed to u, is rebuilt.
<1>3. ASSUME NEW u, u.state = t.state, Rooms(u) = Rooms(t), u \in Thread,
             RebuildThread(g, f, n, u), UNCHANGED <<requests, boot>>
      PROVE  AskedIsServed'
  <2>1. CASE f \in Shared
    <3>1. Rebuilt(u, f).state = t.state /\ Rooms(t) \subseteq Rooms(Rebuilt(u, f))
      BY <1>3, <2>1, RebuiltType
    <3>2. Becomes(g, f, n, Rebuilt(u, f)) /\ (loss => loss')
      BY <1>3 DEF RebuildThread
    <3> QED BY <1>2, <1>3, <3>1, <3>2
  <2>2. CASE f \notin Shared
    <3>1. loss'
      BY <1>3, <2>2 DEF RebuildThread
    <3> QED BY <3>1, LostAsked
  <2> QED BY <2>1, <2>2
<1>4. CASE ThreadExits(g, f, n)
  <2> DEFINE s == connectors[g].slots[f]
             r == ExitSlot(s, n)
  <2>1. GoodSlot(s) /\ n \in DOMAIN s.threads
    BY <1>1, SlotsGood DEF AllGood, Threads
  <2>2. ~Running(s.threads[n])
    BY <1>4 DEF ThreadExits, Running, Threads
  <2>3. KeepsSlot(s, r)
    BY <2>1, <2>2, ExitKeeps
  <2>4. connectors' = [connectors EXCEPT ![g] = [@ EXCEPT !.slots[f] = r]]
    BY <1>4 DEF ThreadExits
  <2> HIDE DEF r
  <2>5. AllKept
    BY <1>1, <2>3, <2>4, WithSlotKeeps
  <2>6. UNCHANGED <<requests, boot>> /\ (loss => loss')
    BY <1>4 DEF ThreadExits, askVars
  <2> QED BY <2>5, <2>6, KeptAsked
<1>5. CASE Crash(g, f, n)
  <2>1. loss'
    BY <1>5 DEF Crash
  <2> QED BY <2>1, LostAsked
<1>6. CASE ThreadError(g, f, n)
  <2>1. UNCHANGED <<requests, boot>>
    BY <1>6 DEF ThreadError
  <2>2. CASE RebuildThread(g, f, n, Threads(g, f)[n])
    BY <1>1, <1>3, <2>1, <2>2 DEF t
  <2>3. CASE /\ Becomes(g, f, n, [Threads(g, f)[n] EXCEPT !.asleep = TRUE])
             /\ UNCHANGED loss
    <3> DEFINE u == [t EXCEPT !.asleep = TRUE]
    <3>1. u.state = t.state /\ Rooms(u) = Rooms(t)
      BY <1>1 DEF Rooms, Thread
    <3>2. Becomes(g, f, n, u) /\ (loss => loss')
      BY <2>3 DEF t
    <3> HIDE DEF u
    <3> QED BY <1>2, <2>1, <3>1, <3>2
  <2> QED BY <1>6, <2>2, <2>3 DEF ThreadError
<1>7. CASE ThreadWakes(g, f, n)
  <2> DEFINE u == [t EXCEPT !.asleep = FALSE]
  <2>1. u \in Thread /\ u.state = t.state /\ Rooms(u) = Rooms(t)
    BY <1>1 DEF Rooms, Thread
  <2>2. RebuildThread(g, f, n, u) /\ UNCHANGED <<requests, boot>>
    BY <1>7 DEF ThreadWakes, t
  <2> HIDE DEF u
  <2> QED BY <1>3, <2>1, <2>2
<1>8. ASSUME NEW k \in Feeds, FeedDies(g, f, n, k)
      PROVE  AskedIsServed'
  <2>1. PICK u : /\ u \in {[t EXCEPT !.bad = @ \cup {k}],
                          [t EXCEPT !.bad = @ \cup {k}, !.stopped = @ \cup {k}]}
                 /\ Becomes(g, f, n, u)
    BY <1>8 DEF FeedDies, t
  <2>2. u.state = t.state /\ Rooms(t) \subseteq Rooms(u)
    BY <1>1, <2>1 DEF Rooms, Thread
  <2>3. UNCHANGED <<requests, boot>> /\ (loss => loss')
    BY <1>8 DEF FeedDies, askVars
  <2> QED BY <1>2, <2>1, <2>2, <2>3
<1>9. ASSUME NEW k \in Feeds, Data(g, f, n, k)
      PROVE  AskedIsServed'
  <2>1. NoteData(t, k).state = t.state /\ Rooms(NoteData(t, k)) = Rooms(t)
    BY <1>1, SameRooms
  <2>2. /\ Becomes(g, f, n, NoteData(t, k)) /\ UNCHANGED <<requests, boot>>
        /\ (loss => loss')
    BY <1>9 DEF Data, askVars, t
  <2> QED BY <1>2, <2>1, <2>2
<1>10. ASSUME NEW k \in Feeds, Stall(g, f, n, k)
       PROVE  AskedIsServed'
  <2>1. CASE NoteStall(t, k).stalls[k] >= Threshold
    <3>1. loss'
      BY <1>10, <2>1 DEF Stall, t
    <3> QED BY <3>1, LostAsked
  <2>2. CASE ~(NoteStall(t, k).stalls[k] >= Threshold)
    <3>1. NoteStall(t, k).stalls[k] < Threshold
      <4>1. NoteStall(t, k).stalls[k] = t.stalls[k] + 1 /\ t.stalls[k] \in Nat
        BY <1>1 DEF NoteStall, Thread
      <4> QED BY <2>2, <4>1, WorkersAssumption
    <3>2. /\ NoteStall(t, k) \in Thread /\ NoteStall(t, k).state = t.state
          /\ Rooms(NoteStall(t, k)) = Rooms(t)
      BY <1>1, <3>1, ThreadSteps, SameRooms
    <3>3. RebuildThread(g, f, n, NoteStall(t, k)) /\ UNCHANGED <<requests, boot>>
      BY <1>10, <2>2 DEF Stall, t
    <3> QED BY <1>3, <3>2, <3>3
  <2> QED BY <2>1, <2>2
<1> QED BY <1>4, <1>5, <1>6, <1>7, <1>8, <1>9, <1>10 DEF ThreadStep, ThreadFault

\* Every step keeps the promise.
LEMMA NextAsked == Inv /\ AskedIsServed /\ [Next]_vars => AskedIsServed'
<1> SUFFICES ASSUME Inv, AskedIsServed, [Next]_vars PROVE AskedIsServed'
  OBVIOUS
<1>1. CASE UNCHANGED vars
  <2>1. /\ connectors' = connectors /\ UNCHANGED <<requests, boot>>
        /\ (loss => loss')
    BY <1>1 DEF vars, askVars
  <2> QED BY <2>1, UnchangedKept, KeptAsked
<1>2. CASE Next
  BY <1>2, ProcessAsked, BootAsked, RequestAsked, ThreadAsked DEF Next
<1> QED BY <1>1, <1>2

\* Rebuilds, sleeps, stalls, exits of other threads and late answers of Redis
\* lose no room a consumer asked for since it acted on the last boot id.
THEOREM AskedStaysServed == Spec => []AskedIsServed
<1>1. Spec => []Inv
  BY InitInv, NextInv, PTL DEF Spec
<1>2. Init => AskedIsServed
  BY DEF Init, AskedIsServed
<1> QED BY <1>1, <1>2, NextAsked, PTL DEF Spec
=============================================================================
