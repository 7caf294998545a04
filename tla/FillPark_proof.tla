--------------------------- MODULE FillPark_proof ----------------------------
(***************************************************************************)
(* What FillPark keeps for every number of orders, fills and retries and   *)
(* for every cap.  The invariant that carries everything is the typing of  *)
(* the ladder plus WaitingHasNoFills: an order in its grace window has     *)
(* nothing in the buffer.  It is what makes an overflow start the ladder   *)
(* of the evicted order without reporting it, so that parking one order    *)
(* never pays off another.                                                 *)
(***************************************************************************)
EXTENDS FillPark, SequenceTheorems, LeastElement

Inv == TypeOK /\ WaitingHasNoFills

-----------------------------------------------------------------------------
(* Operators.                                                                *)

\* The fills i..j of a message are a sequence of fills, empty past the end.
LEMMA ChunkType ==
    ASSUME NEW i \in Nat \ {0}, NEW j \in 0..NFills, i <= j + 1
    PROVE  Chunk(i, j) \in Seq(1..NFills)
<1>1. j - i + 1 \in Nat
  BY ParkAssumption
<1>2. \A n \in 1..(j - i + 1) : i + n - 1 \in 1..NFills
  BY ParkAssumption
<1> DEFINE f(n) == i + n - 1
<1>3. \A n \in 1..(j - i + 1) : f(n) \in 1..NFills
  BY <1>2
<1> HIDE DEF f
<1>4. [n \in 1..(j - i + 1) |-> f(n)] \in Seq(1..NFills)
  BY <1>1, <1>3, IsASeq
<1> QED
  BY <1>4 DEF Chunk, f

\* A message that delivers something starts with its first fill.
LEMMA ChunkHead ==
    ASSUME NEW i \in 1..NFills, NEW j \in 1..NFills, i <= j
    PROVE  Head(Chunk(i, j)) \in 1..NFills
<1>1. Chunk(i, j)[1] = i
  BY ParkAssumption DEF Chunk
<1> QED
  BY <1>1

\* Every step of the ladder keeps the typing of the map.
LEMMA UnlessType ==
    ASSUME NEW o \in Orders, NEW n \in 0..RestRetries, NEW st \in Steps,
           TypeOK
    PROVE  Unless(o, At(st, n)) \in [at : Steps, attempt : 0..RestRetries]
BY ParkAssumption DEF Unless, At, Free, Steps

-----------------------------------------------------------------------------
(* The invariant.                                                            *)

\* Nothing is parked at first.
LEMMA InitInv == Init => Inv
BY ParkAssumption
   DEF Init, Inv, TypeOK, WaitingHasNoFills, Waiting, AtBackoff, Free, At, Told,
       Steps, Sources

\* Answering from the buffer leaves the reports and the buffer well typed.
LEMMA EmitFromBufferType ==
    ASSUME TypeOK, NEW S \in SUBSET Orders, EmitFromBuffer(S)
    PROVE  /\ buffer' \in [Orders -> Seq(1..NFills)]
           /\ report' \in [Orders -> [by : Sources, fills : Seq(1..NFills)]]
           /\ emitted' \in [Orders -> Nat]
           /\ \A o \in Orders : buffer[o] = <<>> => buffer'[o] = <<>>
<1>1. \A o \in Orders : buffer[o] \in Seq(1..NFills) /\ emitted[o] \in Nat
  BY DEF TypeOK
<1>2. <<>> \in Seq(1..NFills)
  OBVIOUS
<1>3. \A o \in Orders : Told("buffer", buffer[o])
                          \in [by : Sources, fills : Seq(1..NFills)]
  BY <1>1 DEF Told, Sources
<1>4. buffer' \in [Orders -> Seq(1..NFills)]
  BY <1>1, <1>2 DEF EmitFromBuffer
<1>5. \A o \in Orders : buffer[o] = <<>> => buffer'[o] = <<>>
  BY DEF EmitFromBuffer
<1>6. report' \in [Orders -> [by : Sources, fills : Seq(1..NFills)]]
  <2>1. \A o \in Orders : report[o] \in [by : Sources, fills : Seq(1..NFills)]
    BY DEF TypeOK
  <2> QED
    BY <1>3, <2>1 DEF EmitFromBuffer
<1>7. emitted' \in [Orders -> Nat]
  BY <1>1 DEF EmitFromBuffer
<1> QED
  BY <1>4, <1>5, <1>6, <1>7

\* A report of one order leaves the reports well typed.
LEMMA EmitType ==
    ASSUME TypeOK, NEW o \in Orders, NEW by \in Sources,
           NEW fs \in Seq(1..NFills), Emit(o, by, fs)
    PROVE  /\ report' \in [Orders -> [by : Sources, fills : Seq(1..NFills)]]
           /\ emitted' \in [Orders -> Nat]
<1>1. Told(by, fs) \in [by : Sources, fills : Seq(1..NFills)]
  BY DEF Told
<1> QED
  BY <1>1 DEF TypeOK, Emit

\* Fills that arrive wake the order if it waits, and are kept otherwise.
LEMMA IngestInv ==
    ASSUME Inv, NEW o \in Orders,
           NEW fs \in Seq(1..NFills), Head(fs) \in 1..NFills,
           NEW rest \in Seq(1..NFills), Ingest(o, fs, rest)
    PROVE  /\ park' \in [Orders -> [at : Steps, attempt : 0..RestRetries]]
           /\ buffer' \in [Orders -> Seq(1..NFills)]
           /\ report' \in [Orders -> [by : Sources, fills : Seq(1..NFills)]]
           /\ emitted' \in [Orders -> Nat]
           /\ \A v \in Orders : AtBackoff(v)' => park'[v].attempt < RestRetries
           /\ WaitingHasNoFills'
<1>1. CASE Waiting(o)
  <2>1. Append(buffer[o], Head(fs)) \in Seq(1..NFills)
    BY AppendProperties DEF Inv, TypeOK
  <2>2. Emit(o, "buffer", Append(buffer[o], Head(fs)))
    BY <1>1 DEF Ingest
  <2>3. /\ report' \in [Orders -> [by : Sources, fills : Seq(1..NFills)]]
        /\ emitted' \in [Orders -> Nat]
    BY <2>1, <2>2, EmitType DEF Inv, Sources
  <2>4. /\ park' = [park EXCEPT ![o] = Free]
        /\ buffer' = [buffer EXCEPT ![o] = rest]
    BY <1>1 DEF Ingest
  <2>5. Free \in [at : Steps, attempt : 0..RestRetries] /\ Free.at = "free"
    BY ParkAssumption DEF Free, At, Steps
  <2>6. \A v \in Orders \ {o} : park'[v] = park[v] /\ buffer'[v] = buffer[v]
    BY <2>4 DEF Inv, TypeOK
  <2>7. park'[o].at = "free"
    BY <2>4, <2>5 DEF Inv, TypeOK
  <2> QED
    BY <2>3, <2>4, <2>5, <2>6, <2>7
       DEF Inv, TypeOK, WaitingHasNoFills, Waiting, AtBackoff
<1>2. CASE ~Waiting(o)
  <2>1. buffer[o] \o fs \in Seq(1..NFills)
    BY ConcatProperties DEF Inv, TypeOK
  <2>2. /\ buffer' = [buffer EXCEPT ![o] = @ \o fs]
        /\ UNCHANGED <<park, report, emitted>>
    BY <1>2 DEF Ingest
  <2> QED
    BY <1>2, <2>1, <2>2
       DEF Inv, TypeOK, WaitingHasNoFills, Waiting, AtBackoff
<1> QED
  BY <1>1, <1>2

\* A step of the ladder that looks into the buffer on its way.
LEMMA ResolveInv ==
    ASSUME Inv, NEW o \in Orders, NEW n \in 0..RestRetries,
           Resolve(o, At("lookup", n))
    PROVE  Inv'
<1>1. /\ buffer' \in [Orders -> Seq(1..NFills)]
      /\ report' \in [Orders -> [by : Sources, fills : Seq(1..NFills)]]
      /\ emitted' \in [Orders -> Nat]
      /\ \A v \in Orders : buffer[v] = <<>> => buffer'[v] = <<>>
  BY EmitFromBufferType DEF Inv, Resolve
<1>2. /\ park' = [park EXCEPT ![o] = Unless(o, At("lookup", n))]
      /\ UNCHANGED <<before, boundVars>>
  BY DEF Resolve
<1>3. Unless(o, At("lookup", n)) \in [at : Steps, attempt : 0..RestRetries]
  BY UnlessType DEF Inv, Steps
<1>4. Unless(o, At("lookup", n)).at \in {"free", "lookup"}
  BY DEF Unless, At, Free
<1> QED
  BY <1>1, <1>2, <1>3, <1>4
     DEF Inv, TypeOK, WaitingHasNoFills, Waiting, AtBackoff, boundVars

\* A new order is parked with nothing buffered; an evicted one leaves its
\* grace window.
LEMMA ParkInv ==
    ASSUME Inv, NEW o \in Orders, Park(o)
    PROVE  Inv'
<1>1. Evicted \in SUBSET Orders
  BY DEF Evicted
<1>2. /\ buffer' \in [Orders -> Seq(1..NFills)]
      /\ report' \in [Orders -> [by : Sources, fills : Seq(1..NFills)]]
      /\ emitted' \in [Orders -> Nat]
      /\ \A v \in Orders : buffer[v] = <<>> => buffer'[v] = <<>>
  BY <1>1, EmitFromBufferType DEF Inv, Park
<1>3. park' = [v \in Orders |->
                 IF v = o THEN Grace
                 ELSE IF v \in Evicted THEN Unless(v, At("lookup", 1))
                 ELSE park[v]]
  BY DEF Park
<1>4. Grace \in [at : Steps, attempt : 0..RestRetries] /\ Grace.at = "waiting"
  BY ParkAssumption DEF Grace, At, Steps
<1>5. \A v \in Orders :
        /\ Unless(v, At("lookup", 1)) \in [at : Steps, attempt : 0..RestRetries]
        /\ Unless(v, At("lookup", 1)).at \in {"free", "lookup"}
  BY UnlessType, ParkAssumption DEF Inv, Steps, Unless, At, Free
<1>6. park' \in [Orders -> [at : Steps, attempt : 0..RestRetries]]
  BY <1>3, <1>4, <1>5 DEF Inv, TypeOK
<1>7. \A v \in Orders : AtBackoff(v)' => park'[v].attempt < RestRetries
  BY <1>3, <1>4, <1>5 DEF Inv, TypeOK, AtBackoff
<1>8. WaitingHasNoFills'
  <2> SUFFICES ASSUME NEW v \in Orders, park'[v].at = "waiting"
               PROVE  buffer'[v] = <<>>
    BY DEF WaitingHasNoFills, Waiting
  <2>1. CASE v = o
    BY <1>2, <2>1 DEF Park
  <2>2. CASE v # o
    BY <1>2, <1>3, <1>5, <2>2 DEF Inv, WaitingHasNoFills, Waiting
  <2> QED
    BY <2>1, <2>2
<1>9. before' \in [Orders -> SUBSET Orders]
  BY DEF Park, Inv, TypeOK
<1>10. delivered' \in [Orders -> 0..NFills] /\ snapshots' \in 0..MaxSnapshots
  BY DEF Park, Inv, TypeOK
<1>11. frames' \in 0..MaxFrames
  BY ParkAssumption DEF Park, Frame, Inv, TypeOK
<1> QED
  BY <1>2, <1>6, <1>7, <1>8, <1>9, <1>10, <1>11 DEF Inv, TypeOK

\* Every step keeps the invariant.
LEMMA NextInv == Inv /\ [Next]_vars => Inv'
<1> SUFFICES ASSUME Inv, [Next]_vars
             PROVE  Inv'
  OBVIOUS
<1> USE ParkAssumption
<1>0. <<>> \in Seq(1..NFills)
  OBVIOUS
<1>1. ASSUME NEW o \in Orders, ReportFilled(o)
      PROVE  Inv'
  <2>1. Told("update", buffer[o]) \in [by : Sources, fills : Seq(1..NFills)]
    BY DEF Told, Inv, TypeOK, Sources
  <2> QED
    BY <1>0, <1>1, <2>1, SMTT(60)
       DEF ReportFilled, Frame, Inv, TypeOK, WaitingHasNoFills, Waiting,
           AtBackoff, parkVars
<1>2. ASSUME NEW o \in Orders, RefreshParked(o)
      PROVE  Inv'
  BY <1>2 DEF RefreshParked, Frame, Inv, TypeOK, WaitingHasNoFills, Waiting,
              AtBackoff, parkVars, bookVars
<1>3. ASSUME NEW o \in Orders, Park(o)
      PROVE  Inv'
  BY <1>3, ParkInv
<1>4. ASSUME NEW o \in Orders, NEW i \in 1..NFills, NEW j \in 1..NFills,
             LiveFills(o, i, j)
      PROVE  Inv'
  <2>1. i <= j
    BY <1>4 DEF LiveFills
  <2>2. Chunk(i, j) \in Seq(1..NFills) /\ Chunk(i + 1, j) \in Seq(1..NFills)
    BY <2>1, ChunkType
  <2>3. Head(Chunk(i, j)) \in 1..NFills
    BY <2>1, ChunkHead
  <2>4. Ingest(o, Chunk(i, j), Chunk(i + 1, j))
    BY <1>4 DEF LiveFills
  <2>5. /\ delivered' = [delivered EXCEPT ![o] = j]
        /\ UNCHANGED <<before, frames, snapshots>>
    BY <1>4 DEF LiveFills
  <2>6. delivered' \in [Orders -> 0..NFills]
    BY <2>5 DEF Inv, TypeOK
  <2> QED
    BY <2>2, <2>3, <2>4, <2>5, <2>6, IngestInv DEF Inv, TypeOK
<1>5. ASSUME NEW o \in Orders, SnapshotFills(o)
      PROVE  Inv'
  <2>1. Chunk(1, NFills) \in Seq(1..NFills)
    BY ChunkType
  <2>2. Head(Chunk(1, NFills)) \in 1..NFills
    BY ChunkHead
  <2>3. Ingest(o, Chunk(1, NFills), <<>>)
    BY <1>5 DEF SnapshotFills
  <2>4. /\ snapshots' \in 0..MaxSnapshots
        /\ UNCHANGED <<before, delivered, frames>>
    BY <1>5 DEF SnapshotFills, Inv, TypeOK
  <2> QED
    BY <1>0, <2>1, <2>2, <2>3, <2>4, IngestInv DEF Inv, TypeOK
<1>6. ASSUME NEW o \in Orders, FillsExpire(o)
      PROVE  Inv'
  BY <1>0, <1>6 DEF FillsExpire, Inv, TypeOK, WaitingHasNoFills, Waiting,
                    AtBackoff, parkVars, boundVars
<1>7. ASSUME NEW o \in Orders, GraceExpires(o)
      PROVE  Inv'
  BY <1>7, ResolveInv DEF GraceExpires
<1>8. ASSUME NEW o \in Orders, BackoffEnds(o)
      PROVE  Inv'
  <2>1. park[o].attempt + 1 \in 0..RestRetries
    BY <1>8 DEF BackoffEnds, Inv, TypeOK
  <2> QED
    BY <1>8, <2>1, ResolveInv DEF BackoffEnds
<1>9. ASSUME NEW o \in Orders, LookupFinds(o)
      PROVE  Inv'
  <2>1. /\ report' \in [Orders -> [by : Sources, fills : Seq(1..NFills)]]
        /\ emitted' \in [Orders -> Nat]
    BY <1>0, <1>9, EmitType DEF LookupFinds, Inv, Sources
  <2>2. Free \in [at : Steps, attempt : 0..RestRetries] /\ Free.at = "free"
    BY DEF Free, At, Steps
  <2> QED
    BY <1>9, <2>1, <2>2
       DEF LookupFinds, Inv, TypeOK, WaitingHasNoFills, Waiting, AtBackoff,
           boundVars
<1>10. ASSUME NEW o \in Orders, LookupFails(o)
       PROVE  Inv'
  BY <1>10 DEF LookupFails, Inv, TypeOK, WaitingHasNoFills, Waiting, AtBackoff,
               AtLookup, Steps, bookVars, boundVars
<1>11. ASSUME NEW o \in Orders, LookupsSpent(o)
       PROVE  Inv'
  <2>1. Free \in [at : Steps, attempt : 0..RestRetries] /\ Free.at = "free"
    BY DEF Free, At, Steps
  <2>2. /\ buffer' \in [Orders -> Seq(1..NFills)]
        /\ report' \in [Orders -> [by : Sources, fills : Seq(1..NFills)]]
        /\ emitted' \in [Orders -> Nat]
        /\ \A v \in Orders : buffer[v] = <<>> => buffer'[v] = <<>>
    <3>1. CASE buffer[o] # <<>>
      BY <1>11, <3>1, EmitFromBufferType DEF LookupsSpent, Inv
    <3>2. CASE buffer[o] = <<>>
      BY <1>0, <1>11, <3>2, EmitType DEF LookupsSpent, Inv, TypeOK, Sources
    <3> QED
      BY <3>1, <3>2
  <2>3. park' = [park EXCEPT ![o] = Free] /\ UNCHANGED <<before, boundVars>>
    BY <1>11 DEF LookupsSpent
  <2> QED
    BY <2>1, <2>2, <2>3
       DEF Inv, TypeOK, WaitingHasNoFills, Waiting, AtBackoff, boundVars
<1>12. CASE UNCHANGED vars
  BY <1>12 DEF Inv, TypeOK, WaitingHasNoFills, Waiting, AtBackoff, vars,
               parkVars, bookVars, boundVars
<1> QED
  BY <1>1, <1>2, <1>3, <1>4, <1>5, <1>6, <1>7, <1>8, <1>9, <1>10, <1>11, <1>12
     DEF Next

\* FillPark is well typed: in particular nobody backs off after the last
\* attempt, so the ladder ends.
THEOREM ParkTypeCorrect == Spec => []TypeOK
<1>1. Inv => TypeOK
  BY DEF Inv
<1> QED
  BY <1>1, InitInv, NextInv, PTL DEF Spec

\* No order sits out its grace window while its fills are in the buffer,
\* whatever the order in which the two channels deliver.
THEOREM FillsNeverWait == Spec => []WaitingHasNoFills
<1>1. Inv => WaitingHasNoFills
  BY DEF Inv
<1> QED
  BY <1>1, InitInv, NextInv, PTL DEF Spec

-----------------------------------------------------------------------------
(* The cap.                                                                  *)

ParkedOnes  == {o \in Orders : Parked(o)}
WaitingOnes == {o \in Orders : Waiting(o)}

\* What before says of the parked orders is the order in which they came.
Ordered ==
    /\ \A v \in Orders : v \notin before[v]
    /\ \A u, w, v \in Orders :
         /\ Parked(u) /\ Parked(w) /\ Parked(v)
         /\ u \in before[w] /\ w \in before[v]
         => u \in before[v]

\* Counted: finitely many orders are parked, in an order, and those that wait
\* keep to the cap.
Counted == IsFiniteSet(ParkedOnes) /\ Ordered /\ WaitingBounded

\* Of finitely many waiting orders one came first: the one with the fewest
\* waiting orders before it.
LEMMA OldestWaits ==
    ASSUME Counted, WaitingOnes # {}
    PROVE  \E v \in WaitingOnes : \A w \in before[v] : ~(w \in WaitingOnes)
<1> DEFINE Ahead(v) == {w \in WaitingOnes : w \in before[v]}
           n == [v \in WaitingOnes |-> Cardinality(Ahead(v))]
<1>1. IsFiniteSet(WaitingOnes)
  <2>1. WaitingOnes \in SUBSET ParkedOnes
    BY DEF WaitingOnes, ParkedOnes, Waiting, Parked
  <2> QED
    BY <2>1, FS_Subset DEF Counted
<1>2. \A v \in WaitingOnes : IsFiniteSet(Ahead(v)) /\ Cardinality(Ahead(v)) \in Nat
  <2> TAKE v \in WaitingOnes
  <2>1. Ahead(v) \in SUBSET WaitingOnes
    OBVIOUS
  <2> HIDE DEF Ahead
  <2> QED
    BY <1>1, <2>1, FS_Subset, FS_CardinalityType
<1>3. PICK v \in WaitingOnes : \A w \in WaitingOnes : n[v] <= n[w]
  <2>1. \A v \in WaitingOnes : n[v] \in Nat
    BY <1>2
  <2> HIDE DEF n
  <2> QED
    BY <2>1, LeastValue
<1>4. ASSUME NEW w \in before[v], w \in WaitingOnes PROVE FALSE
  <2>1. /\ v \in Orders /\ Parked(v) /\ w \in Orders /\ Parked(w)
        /\ \A u \in WaitingOnes : u \in Orders /\ Parked(u)
    BY <1>4 DEF WaitingOnes, Waiting, Parked
  <2>2. Ahead(w) \in SUBSET Ahead(v)
    BY <1>4, <2>1 DEF Counted, Ordered
  <2>3. w \in Ahead(v) /\ w \notin Ahead(w)
    BY <1>4, <2>1 DEF Counted, Ordered
  <2>4. n[v] <= n[w] /\ n[v] = Cardinality(Ahead(v)) /\ n[w] = Cardinality(Ahead(w))
    BY <1>3, <1>4
  <2>5. /\ IsFiniteSet(Ahead(v)) /\ Cardinality(Ahead(v)) \in Nat
        /\ Cardinality(Ahead(w)) \in Nat
    BY <1>2, <1>4
  <2> HIDE DEF n, Ahead
  <2>6. /\ Cardinality(Ahead(w)) <= Cardinality(Ahead(v))
        /\ Cardinality(Ahead(v)) = Cardinality(Ahead(w)) => Ahead(v) = Ahead(w)
    BY <2>2, <2>5, FS_Subset
  <2>7. Cardinality(Ahead(v)) = Cardinality(Ahead(w))
    BY <2>4, <2>5, <2>6
  <2> QED
    BY <2>3, <2>6, <2>7
<1> QED
  BY <1>3, <1>4

\* A step that parks and wakes nobody.
LEMMA FewerCounted ==
    ASSUME Counted, before' = before,
           \A v \in Orders : /\ Parked(v)' => Parked(v)
                             /\ Waiting(v)' => Waiting(v)
    PROVE  Counted'
<1>1. ParkedOnes' \in SUBSET ParkedOnes /\ WaitingOnes' \in SUBSET WaitingOnes
  BY DEF ParkedOnes, WaitingOnes
<1>2. IsFiniteSet(ParkedOnes')
  BY <1>1, FS_Subset DEF Counted
<1>3. Ordered'
  BY DEF Counted, Ordered
<1>4. WaitingOnes \in SUBSET ParkedOnes
  BY DEF WaitingOnes, ParkedOnes, Waiting, Parked
<1>5. IsFiniteSet(WaitingOnes)
  BY <1>4, FS_Subset DEF Counted
<1>6. /\ Cardinality(WaitingOnes') <= Cardinality(WaitingOnes)
      /\ Cardinality(WaitingOnes') \in Nat /\ Cardinality(WaitingOnes) \in Nat
  BY <1>1, <1>5, FS_Subset, FS_CardinalityType
<1>7. Cardinality(WaitingOnes) <= MaxSize
  BY DEF Counted, WaitingBounded, WaitingOnes
<1>8. Cardinality(WaitingOnes') <= MaxSize
  BY <1>6, <1>7, ParkAssumption
<1> QED
  BY <1>2, <1>3, <1>8 DEF Counted, WaitingBounded, WaitingOnes

\* An order is parked: there was room for it, or the oldest that waits makes
\* room, or nobody waits at all.
LEMMA ParkCounted ==
    ASSUME Inv, Counted, NEW o \in Orders, Park(o)
    PROVE  Counted'
<1>1. /\ park' = [v \in Orders |->
                    IF v = o THEN Grace
                    ELSE IF v \in Evicted THEN Unless(v, At("lookup", 1))
                    ELSE park[v]]
      /\ before' = [v \in Orders |-> IF v = o THEN ParkedOnes
                                     ELSE before[v] \ {o}]
      /\ ~Parked(o)
  BY DEF Park, ParkedOnes
<1>2. \A v \in Orders : Unless(v, At("lookup", 1)).at # "waiting"
  BY DEF Unless, Free, At
<1>3. \A v \in Evicted : Parked(v) /\ Waiting(v) /\ v \in Orders
  BY DEF Evicted, Waiting, Parked
<1>4. \A v \in Orders : /\ Parked(v)' => Parked(v) \/ v = o
                        /\ Waiting(v)' => (Waiting(v) /\ v \notin Evicted) \/ v = o
  BY <1>1, <1>2, <1>3 DEF Parked, Waiting
<1>5. IsFiniteSet(ParkedOnes')
  <2>1. ParkedOnes' \in SUBSET (ParkedOnes \cup {o})
    BY <1>4 DEF ParkedOnes
  <2>2. IsFiniteSet(ParkedOnes \cup {o})
    BY FS_AddElement DEF Counted
  <2> QED
    BY <2>1, <2>2, FS_Subset
<1>6. Ordered'
  <2>1. ASSUME NEW v \in Orders PROVE v \notin before'[v]
    BY <1>1 DEF Counted, Ordered, ParkedOnes
  <2>2. ASSUME NEW u \in Orders, NEW w \in Orders, NEW v \in Orders,
               Parked(u)', Parked(w)', Parked(v)',
               u \in before'[w], w \in before'[v]
        PROVE  u \in before'[v]
    <3>1. w # o
      BY <1>1, <2>2 DEF ParkedOnes
    <3>2. u # o /\ u \in before[w] /\ Parked(u) /\ Parked(w)
      BY <1>1, <1>4, <2>2, <3>1
    <3>3. CASE v = o
      BY <1>1, <3>2, <3>3 DEF ParkedOnes
    <3>4. CASE v # o
      BY <1>1, <1>4, <2>2, <3>2, <3>4 DEF Counted, Ordered
    <3> QED
      BY <3>3, <3>4
  <2> QED
    BY <2>1, <2>2 DEF Ordered
<1>7. /\ IsFiniteSet(ParkedOnes) /\ IsFiniteSet(WaitingOnes)
      /\ Cardinality(WaitingOnes) <= Cardinality(ParkedOnes)
      /\ Cardinality(WaitingOnes) <= MaxSize
      /\ Cardinality(ParkedOnes) \in Nat /\ Cardinality(WaitingOnes) \in Nat
  <2>1. WaitingOnes \in SUBSET ParkedOnes
    BY DEF WaitingOnes, ParkedOnes, Waiting, Parked
  <2> QED
    BY <2>1, FS_Subset, FS_CardinalityType
       DEF Counted, WaitingBounded, WaitingOnes
<1> DEFINE Stay == {v \in WaitingOnes : v \notin Evicted}
<1>8. IsFiniteSet(Stay) /\ Cardinality(Stay) \in Nat /\ Cardinality(Stay) < MaxSize
  <2>1. Stay \in SUBSET WaitingOnes
    OBVIOUS
  <2>2. /\ IsFiniteSet(Stay) /\ Cardinality(Stay) \in Nat
        /\ Cardinality(Stay) <= Cardinality(WaitingOnes)
        /\ Cardinality(Stay) = Cardinality(WaitingOnes) => Stay = WaitingOnes
    <3> HIDE DEF Stay
    <3> QED
      BY <1>7, <2>1, FS_Subset, FS_CardinalityType
  <2>3. CASE Cardinality(ParkedOnes) < MaxSize
    <3> HIDE DEF Stay
    <3> QED
      BY <1>7, <2>2, <2>3, ParkAssumption
  <2>4. CASE ~(Cardinality(ParkedOnes) < MaxSize) /\ WaitingOnes # {}
    <3>1. PICK v \in WaitingOnes : \A w \in before[v] : w \notin WaitingOnes
      BY <2>4, OldestWaits
    <3>2. before[v] \subseteq Orders
      BY DEF Inv, TypeOK, WaitingOnes
    <3>3. v \in Evicted
      BY <2>4, <3>1, <3>2 DEF Evicted, WaitingOnes, ParkedOnes
    <3>4. Stay # WaitingOnes
      BY <3>3
    <3> HIDE DEF Stay
    <3> QED
      BY <1>7, <2>2, <3>4, ParkAssumption
  <2>5. CASE WaitingOnes = {}
    <3>1. Stay = {}
      BY <2>5
    <3>2. Cardinality(Stay) = 0
      BY <3>1, FS_EmptySet
    <3> HIDE DEF Stay
    <3> QED
      BY <2>2, <3>2, ParkAssumption
  <2> QED
    BY <2>3, <2>4, <2>5
<1>9. WaitingOnes' \in SUBSET (Stay \cup {o})
  BY <1>4 DEF WaitingOnes
<1> HIDE DEF Stay
<1>10. /\ IsFiniteSet(Stay \cup {o})
       /\ Cardinality(Stay \cup {o}) <= Cardinality(Stay) + 1
       /\ Cardinality(Stay \cup {o}) \in Nat
  <2>1. /\ IsFiniteSet(Stay \cup {o})
        /\ Cardinality(Stay \cup {o}) = IF o \in Stay THEN Cardinality(Stay)
                                       ELSE Cardinality(Stay) + 1
    BY <1>8, FS_AddElement, Zenon
  <2>2. Cardinality(Stay \cup {o}) \in {Cardinality(Stay), Cardinality(Stay) + 1}
    BY <2>1, Zenon
  <2> QED
    BY <1>8, <2>1, <2>2
<1>11. /\ Cardinality(WaitingOnes') <= Cardinality(Stay \cup {o})
       /\ Cardinality(WaitingOnes') \in Nat
  BY <1>9, <1>10, FS_Subset, FS_CardinalityType
<1>12. Cardinality(WaitingOnes') <= MaxSize
  BY <1>8, <1>10, <1>11, ParkAssumption
<1> QED
  BY <1>5, <1>6, <1>12 DEF Counted, WaitingBounded, WaitingOnes

\* Every step but a park only takes orders from where they are.
LEMMA NextCounted == Inv /\ Counted /\ [Next]_vars => Counted'
<1> SUFFICES ASSUME Inv, Counted, [Next]_vars PROVE Counted'
  OBVIOUS
<1>0. Free.at = "free"
  BY DEF Free, At
<1>1. ASSUME NEW o \in Orders, Park(o) PROVE Counted'
  BY <1>1, ParkCounted
<1>2. ASSUME UNCHANGED <<park, before>> PROVE Counted'
  BY <1>2, FewerCounted DEF Parked, Waiting
<1>3. ASSUME NEW o \in Orders, NEW p, park' = [park EXCEPT ![o] = p],
             p.at # "waiting", p.at # "free" => Parked(o), before' = before
      PROVE  Counted'
  BY <1>3, FewerCounted DEF Inv, TypeOK, Parked, Waiting
<1>4. ASSUME NEW o \in Orders, NEW fs, NEW rest, Ingest(o, fs, rest),
             before' = before
      PROVE  Counted'
  BY <1>0, <1>2, <1>3, <1>4 DEF Ingest
<1>5. ASSUME NEW o \in Orders, NEW n, Resolve(o, At("lookup", n)), Parked(o)
      PROVE  Counted'
  <2>1. At("lookup", n).at = "lookup"
    BY DEF At
  <2>2. /\ park' = [park EXCEPT ![o] = Unless(o, At("lookup", n))]
        /\ before' = before
    BY <1>5 DEF Resolve
  <2>3. Unless(o, At("lookup", n)).at \in {"free", "lookup"}
    BY <1>0, <2>1 DEF Unless
  <2> QED
    BY <1>3, <1>5, <2>2, <2>3
<1>6. ASSUME NEW o \in Orders, LookupFinds(o) \/ LookupsSpent(o) PROVE Counted'
  BY <1>0, <1>3, <1>6 DEF LookupFinds, LookupsSpent
<1>7. ASSUME NEW o \in Orders, LookupFails(o) PROVE Counted'
  <2>1. /\ park' = [park EXCEPT ![o] = [park[o] EXCEPT !.at = "backoff"]]
        /\ Parked(o) /\ before' = before
    BY <1>7 DEF LookupFails, AtLookup, Parked
  <2>2. [park[o] EXCEPT !.at = "backoff"].at = "backoff"
    BY DEF Inv, TypeOK
  <2> QED
    BY <1>3, <2>1, <2>2
<1>8. ASSUME NEW o \in Orders, GraceExpires(o) \/ BackoffEnds(o) PROVE Counted'
  BY <1>5, <1>8 DEF GraceExpires, BackoffEnds, Waiting, AtBackoff, Parked
<1> QED
  BY <1>1, <1>2, <1>4, <1>6, <1>7, <1>8
     DEF Next, vars, parkVars, ReportFilled, RefreshParked, LiveFills,
         SnapshotFills, FillsExpire

LEMMA InitCounted == Init => Counted
<1> SUFFICES ASSUME Init PROVE Counted
  OBVIOUS
<1>1. ParkedOnes = {} /\ WaitingOnes = {}
  BY DEF Init, ParkedOnes, WaitingOnes, Parked, Waiting, Free, At
<1>2. IsFiniteSet({}) /\ Cardinality({}) = 0
  BY FS_EmptySet
<1>3. Ordered
  BY DEF Init, Ordered
<1>4. WaitingBounded
  <2>1. Cardinality(WaitingOnes) = 0
    BY <1>1, <1>2
  <2>2. 0 <= MaxSize
    BY ParkAssumption
  <2> QED
    BY <2>1, <2>2 DEF WaitingBounded, WaitingOnes
<1> QED
  BY <1>1, <1>2, <1>3, <1>4 DEF Counted

\* However full the map, no more orders than the cap sit in their grace
\* window: an overflow always finds a waiting order that came before all
\* others, if any waits, and takes that one.
THEOREM CapOnWaiting == Spec => []WaitingBounded
<1>1. Counted => WaitingBounded
  BY DEF Counted
<1> QED
  BY <1>1, InitInv, NextInv, InitCounted, NextCounted, PTL DEF Spec

-----------------------------------------------------------------------------
(* One report per park.                                                      *)

\* An order that leaves the map with one report is what EmitOnce calls Emit.
LEMMA AnswerIsEmit ==
    ASSUME TypeOK, NEW o \in Orders, Parked(o),
           park' = [park EXCEPT ![o] = Free],
           emitted' = [emitted EXCEPT ![o] = @ + 1]
    PROVE  Promise!Emit(o)
<1>1. \A v \in Orders : Parked(v)' <=> Parked(v) /\ v # o
  BY DEF TypeOK, Parked, Free, At
<1>2. {v \in Orders : Parked(v)}' = {v \in Orders : Parked(v)} \ {o}
  BY <1>1
<1> QED
  BY <1>2 DEF Promise!Emit

\* A step that parks and frees nobody and reports nothing is invisible.
LEMMA MoveIsStutter ==
    ASSUME \A v \in Orders : Parked(v)' <=> Parked(v), emitted' = emitted
    PROVE  UNCHANGED Promise!vars
BY DEF Promise!vars

\* Looking into an empty buffer reports nothing.
LEMMA EmptyReportsNothing ==
    ASSUME TypeOK, NEW S \in SUBSET Orders, EmitFromBuffer(S),
           \A v \in S : buffer[v] = <<>>
    PROVE  emitted' = emitted
BY DEF EmitFromBuffer, TypeOK

\* Looking into a full one is the order's report.
LEMMA FullReports ==
    ASSUME TypeOK, NEW o \in Orders, EmitFromBuffer({o}), buffer[o] # <<>>
    PROVE  emitted' = [emitted EXCEPT ![o] = @ + 1]
BY DEF EmitFromBuffer, TypeOK

\* A step of the ladder either reports the order and frees it or moves it on.
LEMMA ResolveImplements ==
    ASSUME Inv, NEW o \in Orders, Parked(o), NEW n, Resolve(o, At("lookup", n))
    PROVE  Promise!Emit(o) \/ UNCHANGED Promise!vars
<1>1. CASE buffer[o] # <<>>
  <2>1. emitted' = [emitted EXCEPT ![o] = @ + 1]
    BY <1>1, FullReports DEF Resolve, Inv
  <2>2. park' = [park EXCEPT ![o] = Free]
    BY <1>1 DEF Resolve, Unless
  <2> QED
    BY <2>1, <2>2, AnswerIsEmit DEF Inv
<1>2. CASE buffer[o] = <<>>
  <2>1. emitted' = emitted
    BY <1>2, EmptyReportsNothing DEF Resolve, Inv
  <2>2. park' = [park EXCEPT ![o] = At("lookup", n)]
    BY <1>2 DEF Resolve, Unless
  <2>3. \A v \in Orders : Parked(v)' <=> Parked(v)
    BY <2>2 DEF Parked, At, Inv, TypeOK
  <2> QED
    BY <2>1, <2>3, MoveIsStutter
<1> QED
  BY <1>1, <1>2

\* Fills that arrive report the order if it waits, and are invisible otherwise.
LEMMA IngestImplements ==
    ASSUME Inv, NEW o \in Orders, NEW fs, NEW rest, Ingest(o, fs, rest)
    PROVE  Promise!Emit(o) \/ UNCHANGED Promise!vars
<1>1. CASE Waiting(o)
  BY <1>1, AnswerIsEmit DEF Ingest, Emit, Inv, Waiting, Parked
<1>2. CASE ~Waiting(o)
  BY <1>2, MoveIsStutter DEF Ingest, Parked
<1> QED
  BY <1>1, <1>2

\* Parking an order owes it a report and pays nobody: an evicted order has
\* nothing in the buffer, so it only starts its ladder.
LEMMA ParkImplements ==
    ASSUME Inv, NEW o \in Orders, Park(o)
    PROVE  Promise!Owe(o)
<1>1. \A v \in Evicted : v \in Orders /\ Waiting(v) /\ buffer[v] = <<>>
  BY DEF Evicted, Inv, WaitingHasNoFills
<1>2. emitted' = emitted
  BY <1>1, EmptyReportsNothing DEF Park, Inv
<1>3. \A v \in Evicted : Unless(v, At("lookup", 1)).at # "free" /\ Parked(v)
  BY <1>1 DEF Unless, At, Waiting, Parked
<1>4. ~Parked(o) /\ Grace.at # "free"
  BY DEF Park, Grace, At
<1>5. \A v \in Orders : Parked(v)' <=> Parked(v) \/ v = o
  BY <1>3, <1>4 DEF Park, Parked
<1>6. {v \in Orders : Parked(v)}' = {v \in Orders : Parked(v)} \cup {o}
  BY <1>5
<1> QED
  BY <1>2, <1>4, <1>6 DEF Promise!Owe

\* Every step owes one report, pays one or is invisible.
LEMMA NextImplements ==
    ASSUME Inv, [Next]_vars
    PROVE  [Promise!Next]_(Promise!vars)
<1>1. ASSUME NEW o \in Orders, ReportFilled(o) \/ RefreshParked(o) \/ FillsExpire(o)
      PROVE  UNCHANGED Promise!vars
  BY <1>1, MoveIsStutter
     DEF ReportFilled, RefreshParked, FillsExpire, parkVars, bookVars, Parked
<1>2. ASSUME NEW o \in Orders, NEW i \in 1..NFills, NEW j \in 1..NFills,
             LiveFills(o, i, j)
      PROVE  Promise!Emit(o) \/ UNCHANGED Promise!vars
  BY <1>2, IngestImplements DEF LiveFills
<1>3. ASSUME NEW o \in Orders, SnapshotFills(o)
      PROVE  Promise!Emit(o) \/ UNCHANGED Promise!vars
  BY <1>3, IngestImplements DEF SnapshotFills
<1>4. ASSUME NEW o \in Orders, GraceExpires(o) \/ BackoffEnds(o)
      PROVE  Promise!Emit(o) \/ UNCHANGED Promise!vars
  <2>1. Parked(o)
    BY <1>4 DEF GraceExpires, BackoffEnds, Waiting, AtBackoff, Parked
  <2> QED
    BY <1>4, <2>1, ResolveImplements DEF GraceExpires, BackoffEnds
<1>5. ASSUME NEW o \in Orders, LookupFinds(o)
      PROVE  Promise!Emit(o)
  BY <1>5, AnswerIsEmit DEF LookupFinds, Emit, Inv, AtLookup, Parked
<1>6. ASSUME NEW o \in Orders, LookupFails(o)
      PROVE  UNCHANGED Promise!vars
  <2>1. \A v \in Orders : Parked(v)' <=> Parked(v)
    BY <1>6 DEF LookupFails, AtLookup, Parked, Inv, TypeOK
  <2> QED
    BY <1>6, <2>1, MoveIsStutter DEF LookupFails, bookVars
<1>7. ASSUME NEW o \in Orders, LookupsSpent(o)
      PROVE  Promise!Emit(o)
  <2>1. Parked(o) /\ park' = [park EXCEPT ![o] = Free]
    BY <1>7 DEF LookupsSpent, AtLookup, Parked
  <2>2. emitted' = [emitted EXCEPT ![o] = @ + 1]
    BY <1>7, FullReports DEF LookupsSpent, Emit, Inv
  <2> QED
    BY <2>1, <2>2, AnswerIsEmit DEF Inv
<1>8. ASSUME NEW o \in Orders, Park(o)
      PROVE  Promise!Owe(o)
  BY <1>8, ParkImplements
<1>9. CASE UNCHANGED vars
  BY <1>9, MoveIsStutter DEF vars, parkVars, bookVars, Parked
<1> QED
  BY <1>1, <1>2, <1>3, <1>4, <1>5, <1>6, <1>7, <1>8, <1>9
     DEF Next, Promise!Next

\* The resolver implements EmitOnce: each park is answered by at most one
\* report, and no report of the resolver comes without a park.
THEOREM ParkEmitsOnce == Spec => EmitsOnce
<1>1. Init => Promise!Init
  BY DEF Init, Promise!Init, Parked, Free, At
<1>2. Inv /\ [Next]_vars => [Promise!Next]_(Promise!vars)
  BY NextImplements
<1> QED
  BY <1>1, <1>2, InitInv, NextInv, PTL DEF Spec, EmitsOnce, Promise!Spec
=============================================================================
