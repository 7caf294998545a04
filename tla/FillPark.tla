------------------------------ MODULE FillPark ------------------------------
(***************************************************************************)
(* Joining Hyperliquid's two channels (utils/hyperliquidFillPark.ts and    *)
(* its callers in userStream.ts).  orderUpdates says that an order is      *)
(* filled, userFills says at which price; either may come first, late or   *)
(* never.  A FILLED update without fills is parked until the fills arrive, *)
(* or a REST lookup answers, or every lookup is spent.                     *)
(***************************************************************************)
EXTENDS Naturals, Sequences, FiniteSets

CONSTANTS
    Orders,       \* client order ids
    NFills,       \* every order is filled in the fills 1..NFills
    MaxSize,      \* cap on parked orders (maxSize)
    RestRetries,  \* REST attempts before the limit price (restRetries)
    MaxFrames,    \* bound on FILLED updates
    MaxSnapshots  \* bound on reconnects that replay fills

ASSUME ParkAssumption ==
    /\ NFills \in Nat \ {0}
    /\ MaxSize \in Nat \ {0}
    /\ RestRetries \in Nat \ {0}
    /\ MaxFrames \in Nat /\ MaxSnapshots \in Nat

VARIABLES
    park,       \* the resolver's map: where each order stands
    before,     \* orders that were parked when the order was
    buffer,     \* hyperliquidExpirableMap: fills seen, in arrival order
    delivered,  \* highest fill of the order the live channel is past
    report,     \* the order's last execution report
    emitted,    \* reports emitted by the resolver
    frames,     \* FILLED updates so far
    snapshots   \* replays so far

parkVars  == <<park, before>>
bookVars  == <<buffer, report, emitted>>
boundVars == <<delivered, frames, snapshots>>
vars == <<parkVars, bookVars, boundVars>>

\* An order is free, waits for its fills under the grace timer, or climbs the
\* REST ladder: lookup n is out, or the backoff after it runs.
At(step, n) == [at |-> step, attempt |-> n]
Free        == At("free", 0)
Grace       == At("waiting", 0)

Parked(o)  == park[o].at # "free"
Waiting(o) == park[o].at = "waiting"
AtLookup(o)  == park[o].at = "lookup"
AtBackoff(o) == park[o].at = "backoff"

Told(by, fs) == [by |-> by, fills |-> fs]

Init ==
    /\ park = [o \in Orders |-> Free]
    /\ before = [o \in Orders |-> {}]
    /\ buffer = [o \in Orders |-> <<>>]
    /\ delivered = [o \in Orders |-> 0]
    /\ report = [o \in Orders |-> Told("none", <<>>)]
    /\ emitted = [o \in Orders |-> 0]
    /\ frames = 0
    /\ snapshots = 0

-----------------------------------------------------------------------------
(* Emitting.                                                                 *)

\* The resolver's one report of a parked order.
Emit(o, by, fs) ==
    /\ report' = [report EXCEPT ![o] = Told(by, fs)]
    /\ emitted' = [emitted EXCEPT ![o] = @ + 1]

\* emitFromBuffer for each order of S that has fills.
EmitFromBuffer(S) ==
    LET T == {o \in S : buffer[o] # <<>>} IN
    /\ buffer' = [o \in Orders |-> IF o \in T THEN <<>> ELSE buffer[o]]
    /\ report' = [o \in Orders |-> IF o \in T THEN Told("buffer", buffer[o])
                                   ELSE report[o]]
    /\ emitted' = [o \in Orders |-> IF o \in T THEN emitted[o] + 1
                                    ELSE emitted[o]]

\* Where an order goes that looks into its buffer on its way to step p.
Unless(o, p) == IF buffer[o] # <<>> THEN Free ELSE p

-----------------------------------------------------------------------------
(* orderUpdates: a FILLED update of o (prepareHyperliquidOrder).             *)

Frame == frames < MaxFrames /\ frames' = frames + 1

\* The fills are there: report, whether or not the order is parked.
ReportFilled(o) ==
    /\ Frame
    /\ buffer[o] # <<>>
    /\ report' = [report EXCEPT ![o] = Told("update", buffer[o])]
    /\ buffer' = [buffer EXCEPT ![o] = <<>>]
    /\ UNCHANGED <<parkVars, emitted, delivered, snapshots>>

\* Already parked: the newer update replaces the one that will be replayed.
RefreshParked(o) ==
    /\ Frame
    /\ buffer[o] = <<>> /\ Parked(o)
    /\ UNCHANGED <<parkVars, bookVars, delivered, snapshots>>

\* At the cap, the oldest order not yet resolving is resolved at once.
\* Mutant: the oldest order, resolving or not.
EvictFirst == {v \in Orders : Parked(v) /\ \A w \in before[v] : ~Parked(w)}
Evicted ==
    IF Cardinality({o \in Orders : Parked(o)}) < MaxSize THEN {}
    ELSE {v \in Orders : Waiting(v) /\ \A w \in before[v] : ~Waiting(w)}

Park(o) ==
    /\ Frame
    /\ buffer[o] = <<>> /\ ~Parked(o)
    /\ park' = [v \in Orders |->
                  IF v = o THEN Grace
                  ELSE IF v \in Evicted THEN Unless(v, At("lookup", 1))
                  ELSE park[v]]
    /\ before' = [v \in Orders |-> IF v = o THEN {w \in Orders : Parked(w)}
                                   ELSE before[v] \ {o}]
    /\ EmitFromBuffer(Evicted)
    /\ UNCHANGED <<delivered, snapshots>>

-----------------------------------------------------------------------------
(* userFills (ingestUserFills).                                              *)

\* Fills fs of o arrive.  The first one wakes a waiting order, which reports
\* what is buffered by then; rest is what the message adds after that.
\* Mutant: nobody is woken.
IngestOnly(o, fs, rest) ==
    /\ buffer' = [buffer EXCEPT ![o] = @ \o fs]
    /\ UNCHANGED <<park, report, emitted>>
Ingest(o, fs, rest) ==
    IF Waiting(o)
    THEN /\ park' = [park EXCEPT ![o] = Free]
         /\ Emit(o, "buffer", Append(buffer[o], Head(fs)))
         /\ buffer' = [buffer EXCEPT ![o] = rest]
    ELSE /\ buffer' = [buffer EXCEPT ![o] = @ \o fs]
         /\ UNCHANGED <<park, report, emitted>>

\* The fills i..j, in the order they executed.
Chunk(i, j) == [n \in 1..(j - i + 1) |-> i + n - 1]

\* A live message.  What it skips is lost on the live channel.
LiveFills(o, i, j) ==
    /\ delivered[o] < i /\ i <= j
    /\ delivered' = [delivered EXCEPT ![o] = j]
    /\ Ingest(o, Chunk(i, j), Chunk(i + 1, j))
    /\ UNCHANGED <<before, frames, snapshots>>

\* A reconnect replays every fill; only parked orders take them, and an order
\* that the first one unparks takes no more.
SnapshotFills(o) ==
    /\ snapshots < MaxSnapshots
    /\ snapshots' = snapshots + 1
    /\ Parked(o)
    /\ Ingest(o, Chunk(1, NFills), <<>>)
    /\ UNCHANGED <<before, delivered, frames>>

\* The buffer forgets the order's fills.
FillsExpire(o) ==
    /\ buffer[o] # <<>>
    /\ buffer' = [buffer EXCEPT ![o] = <<>>]
    /\ UNCHANGED <<parkVars, report, emitted, boundVars>>

-----------------------------------------------------------------------------
(* resolve: the ladder of a parked order.                                    *)

Resolve(o, p) ==
    /\ EmitFromBuffer({o})
    /\ park' = [park EXCEPT ![o] = Unless(o, p)]
    /\ UNCHANGED <<before, boundVars>>

GraceExpires(o) == Waiting(o) /\ Resolve(o, At("lookup", 1))

LookupFinds(o) ==
    /\ AtLookup(o)
    /\ Emit(o, "rest", <<>>)
    /\ park' = [park EXCEPT ![o] = Free]
    /\ UNCHANGED <<before, buffer, boundVars>>

\* The lookup answers nothing or throws, and attempts are left.
\* Mutant: nobody counts them.
LookupRepeats(o) ==
    /\ AtLookup(o)
    /\ park' = [park EXCEPT ![o].at = "backoff"]
    /\ UNCHANGED <<before, bookVars, boundVars>>
LookupFails(o) ==
    /\ AtLookup(o)
    /\ park[o].attempt < RestRetries
    /\ park' = [park EXCEPT ![o].at = "backoff"]
    /\ UNCHANGED <<before, bookVars, boundVars>>

\* Mutant: the attempt is not counted.
RetryForEver(o) == AtBackoff(o) /\ Resolve(o, At("lookup", park[o].attempt))
BackoffEnds(o)  == AtBackoff(o) /\ Resolve(o, At("lookup", park[o].attempt + 1))

\* The last lookup failed too: the fills that came meanwhile, or the limit
\* price.
LookupsSpent(o) ==
    /\ AtLookup(o)
    /\ park[o].attempt = RestRetries
    /\ park' = [park EXCEPT ![o] = Free]
    /\ IF buffer[o] # <<>> THEN EmitFromBuffer({o})
       ELSE Emit(o, "limit", <<>>) /\ UNCHANGED buffer
    /\ UNCHANGED <<before, boundVars>>

-----------------------------------------------------------------------------

Next == \E o \in Orders :
    \/ ReportFilled(o) \/ RefreshParked(o) \/ Park(o)
    \/ \E i, j \in 1..NFills : LiveFills(o, i, j)
    \/ SnapshotFills(o) \/ FillsExpire(o)
    \/ GraceExpires(o) \/ BackoffEnds(o)
    \/ LookupFinds(o) \/ LookupFails(o) \/ LookupsSpent(o)

Spec == Init /\ [][Next]_vars

\* Node fires the timers of the grace and of the backoff, and the REST client
\* settles every lookup.
Fairness == \A o \in Orders :
    /\ WF_vars(GraceExpires(o))
    /\ WF_vars(BackoffEnds(o))
    /\ WF_vars(LookupFinds(o) \/ LookupFails(o) \/ LookupsSpent(o))

LiveSpec == Spec /\ Fairness

-----------------------------------------------------------------------------
(* Properties.                                                               *)

Steps   == {"free", "waiting", "lookup", "backoff"}
Sources == {"none", "update", "buffer", "rest", "limit"}

TypeOK ==
    /\ park \in [Orders -> [at : Steps, attempt : 0..RestRetries]]
    /\ before \in [Orders -> SUBSET Orders]
    /\ buffer \in [Orders -> Seq(1..NFills)]
    /\ delivered \in [Orders -> 0..NFills]
    /\ report \in [Orders -> [by : Sources, fills : Seq(1..NFills)]]
    /\ emitted \in [Orders -> Nat]
    /\ frames \in 0..MaxFrames
    /\ snapshots \in 0..MaxSnapshots
    /\ \A o \in Orders : AtBackoff(o) => park[o].attempt < RestRetries

\* Fills that have arrived never sit in the buffer while the order they belong
\* to waits out its grace window (docstring of ingestUserFills).
WaitingHasNoFills == \A o \in Orders : Waiting(o) => buffer[o] = <<>>

\* Whatever is resolving, no more orders wait than the cap allows: an overflow
\* takes a waiting order, never one that resolves already (lines 164-167).
WaitingBounded == Cardinality({o \in Orders : Waiting(o)}) <= MaxSize

\* Each park is answered by exactly one report, and it is answered, whichever
\* of timer, fills, lookup and overflow come first.
Promise == INSTANCE EmitOnce WITH owed <- {o \in Orders : Parked(o)}
EmitsOnce == Promise!Spec
EmitsAtLast == Promise!LiveSpec

\* A report priced from the buffer prices all the fills that arrived with the
\* one that woke the order: "it resolves immediately with the real price"
\* (docstring of ingestUserFills).
PricedByAllFills == [][\A o \in Orders :
    Parked(o) /\ report'[o] # report[o] /\ report'[o].by = "buffer"
        => buffer'[o] = <<>>]_vars

\* "late-arriving fills always win on price" (CHANGELOG.md:335): a report
\* priced by fills is not followed by one at the limit price.
LateFillsWin == [][\A o \in Orders :
    report'[o] # report[o] /\ report'[o].by = "limit"
        => report[o].by \notin {"update", "buffer"}]_vars
=============================================================================
