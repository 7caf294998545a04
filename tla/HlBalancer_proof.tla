-------------------------- MODULE HlBalancer_proof ---------------------------
(***************************************************************************)
(* What HlBalancer keeps for every set of accounts and workers and for     *)
(* every bound.  The inductive invariant Inv has four parts, each of them  *)
(* inductive given the ones before: types; a retry that waits for the      *)
(* mutex or holds it belongs to a running pass (RetryInv), which is why    *)
(* the pass that must stop or go on is there when its answer comes; a      *)
(* request whose answer is waited for belongs to the open that holds the   *)
(* mutex (AskInv), so an answer never meets an idle mutex; and a worker    *)
(* counts only accounts it holds (CapInv), so an open that joins a counted *)
(* account takes no more room.  SureInv comes on top of Inv where accounts *)
(* have one bot and nothing but a close takes an assignment away (Lone).   *)
(***************************************************************************)
EXTENDS HlBalancer, SequenceTheorems, FiniteSetTheorems, TLAPS

\* The retry that waits for the mutex or holds it belongs to a running pass.
RetryOwned ==
    RetryRuns \/ (\E i \in DOMAIN queue : RetryQueued(i)) =>
        retry \in Passes /\ retry.busy /\ retry.left # <<>>

\* A request whose answer is waited for belongs to the open that holds the mutex,
\* and there is one.
AskedIsOut == \A w \in Workers : \A i \in DOMAIN inbox[w] : inbox[w][i].asks =>
    /\ routing # Idle /\ routing.target = w /\ routing.reply = "none"
    /\ \A j \in DOMAIN inbox[w] : inbox[w][j].asks => i = j

\* An open that has no target yet has no answer.
FreshReply == routing # Idle /\ routing.target = Nobody => routing.reply = "none"

-----------------------------------------------------------------------------
(* Sequences.                                                                *)

\* What is left of a sequence without one of its elements.
LEMMA RemoveAtFacts ==
    ASSUME NEW S, NEW s \in Seq(S), NEW i \in 1..Len(s)
    PROVE  /\ RemoveAt(s, i) \in Seq(S)
           /\ Len(RemoveAt(s, i)) = Len(s) - 1
           /\ \A j \in 1..(Len(s) - 1) :
                 RemoveAt(s, i)[j] = IF j < i THEN s[j] ELSE s[j + 1]
<1>1. SubSeq(s, 1, i - 1) \in Seq(S) /\ Len(SubSeq(s, 1, i - 1)) = i - 1
      /\ \A j \in 1..(i - 1) : SubSeq(s, 1, i - 1)[j] = s[j]
  BY SubSeqProperties
<1>2. SubSeq(s, i + 1, Len(s)) \in Seq(S)
      /\ Len(SubSeq(s, i + 1, Len(s))) = Len(s) - i
      /\ \A j \in 1..(Len(s) - i) : SubSeq(s, i + 1, Len(s))[j] = s[i + j]
  BY SubSeqProperties
<1> DEFINE a == SubSeq(s, 1, i - 1)
           b == SubSeq(s, i + 1, Len(s))
<1>3. RemoveAt(s, i) = a \o b
  BY DEF RemoveAt
<1>4. /\ a \o b \in Seq(S)
      /\ Len(a \o b) = Len(a) + Len(b)
      /\ \A j \in 1..(Len(a) + Len(b)) :
            (a \o b)[j] = IF j <= Len(a) THEN a[j] ELSE b[j - Len(a)]
  BY <1>1, <1>2, ConcatProperties
<1>5. /\ Len(a) = i - 1 /\ Len(b) = Len(s) - i
      /\ \A j \in 1..(i - 1) : a[j] = s[j]
      /\ \A j \in 1..(Len(s) - i) : b[j] = s[i + j]
  BY <1>1, <1>2
<1> HIDE DEF a, b
<1>6. ASSUME NEW j \in 1..(Len(s) - 1)
      PROVE  (a \o b)[j] = IF j < i THEN s[j] ELSE s[j + 1]
  BY <1>4, <1>5
<1> QED
  BY <1>3, <1>4, <1>5, <1>6

\* Taking a kept open out leaves kept opens.
LEMMA WithoutType ==
    ASSUME NEW u \in Uuids, refused \in Seq(Payloads)
    PROVE  Without(u) \in Seq(Payloads)
<1>1. CASE Kept(u)
  <2>1. PlaceOf(u) \in 1..Len(refused)
    BY <1>1 DEF Kept, PlaceOf
  <2> QED
    BY <1>1, <2>1, RemoveAtFacts DEF Without
<1> QED
  BY <1>1 DEF Without

\* Keeping an open replaces a payload or adds one.
LEMMA KeepType ==
    ASSUME NEW u \in Uuids, NEW load \in Nat, refused \in Seq(Payloads)
    PROVE  Keep(u, load) \in Seq(Payloads)
<1> DEFINE p == [uuid |-> u, load |-> load]
<1>1. p \in Payloads
  BY DEF Payloads
<1>2. CASE Kept(u)
  <2>1. PlaceOf(u) \in 1..Len(refused)
    BY <1>2 DEF Kept, PlaceOf
  <2>2. [refused EXCEPT ![PlaceOf(u)] = p] \in Seq(Payloads)
    BY <1>1, <2>1, ExceptSeq
  <2> QED
    BY <1>2, <2>2 DEF Keep
<1>3. CASE ~Kept(u)
  <2>1. Append(refused, p) \in Seq(Payloads)
    BY <1>1, AppendProperties
  <2> QED
    BY <1>3, <2>1 DEF Keep
<1> QED
  BY <1>2, <1>3

\* Nobody's answer leaves the inboxes as they are, but for the flag.
LEMMA UnaskedType ==
    ASSUME inbox \in [Workers -> Seq(Messages)]
    PROVE  Unasked \in [Workers -> Seq(Messages)]
<1> SUFFICES ASSUME NEW w \in Workers
             PROVE  [i \in DOMAIN inbox[w] |-> [inbox[w][i] EXCEPT !.asks = FALSE]]
                       \in Seq(Messages)
  BY DEF Unasked
<1>1. Len(inbox[w]) \in Nat /\ DOMAIN inbox[w] = 1..Len(inbox[w])
  OBVIOUS
<1>2. \A m \in Messages : [m EXCEPT !.asks = FALSE] \in Messages
  BY DEF Messages
<1> DEFINE f(i) == [inbox[w][i] EXCEPT !.asks = FALSE]
<1>3. \A i \in 1..Len(inbox[w]) : f(i) \in Messages
  <2>1. \A i \in 1..Len(inbox[w]) : inbox[w][i] \in Messages
    BY <1>1
  <2> QED
    BY <1>2, <2>1
<1> HIDE DEF f
<1>4. [i \in 1..Len(inbox[w]) |-> f(i)] \in Seq(Messages)
  BY <1>1, <1>3, IsASeq
<1> QED
  BY <1>1, <1>4 DEF f

-----------------------------------------------------------------------------
(* Types.                                                                    *)

\* Reconciling leaves every account with a worker or with nobody.
LEMMA ReconcileWithType ==
    ASSUME TypeOK, NEW w \in Workers, ReconcileWith(w)
    PROVE  /\ assign' \in [Uuids -> Workers \cup {Nobody}]
           /\ stored' \in [Uuids -> Workers \cup {Nobody}]
<1>1. assign' \in [Uuids -> Workers \cup {Nobody}]
  BY DEF TypeOK, ReconcileWith, Reconciled, mapVars
<1>2. stored' \in [Uuids -> Workers \cup {Nobody}]
  BY <1>1 DEF TypeOK, ReconcileWith, mapVars
<1> QED
  BY <1>1, <1>2

\* A bot opens.
LEMMA OpenType ==
    ASSUME TypeOK, RetryOwned, AskedIsOut, NEW u \in Uuids, Open(u)
    PROVE  TypeOK'
<1>1. Request("open", u, sent + 1, "bot") \in Requests
  BY DEF TypeOK, Request, Requests
<1>2. queue' \in Seq(Requests)
  BY <1>1, AppendProperties DEF TypeOK, Open
<1>3. wanted' \in [Uuids -> Nat] /\ sent' \in Nat
  BY DEF TypeOK, Open
<1> QED
  BY <1>1, <1>2, <1>3
     DEF TypeOK, Open, mapVars, refuseVars, seenVars, keyVars, workerVars, botVars,
         boundVars

\* A bot closes.
LEMMA CloseType ==
    ASSUME TypeOK, RetryOwned, AskedIsOut, NEW u \in Uuids, Close(u)
    PROVE  TypeOK'
<1>1. Request("close", u, 0, "bot") \in Requests
  BY DEF Request, Requests
<1>2. queue' \in Seq(Requests)
  BY <1>1, AppendProperties DEF TypeOK, Close
<1>3. wanted' \in [Uuids -> Nat]
  BY DEF TypeOK, Close
<1>4. refused' \in Seq(Payloads)
  BY WithoutType DEF TypeOK, Close
<1> QED
  BY <1>1, <1>2, <1>3, <1>4
     DEF TypeOK, Close, mapVars, refuseVars, seenVars, keyVars, workerVars, botVars,
         boundVars

\* Bots send their opens again.
LEMMA ResendType ==
    ASSUME TypeOK, RetryOwned, AskedIsOut, NEW u \in Uuids, Resend(u)
    PROVE  TypeOK'
<1>1. Request("open", u, sent, "bot") \in Requests
  BY DEF TypeOK, Request, Requests
<1>2. wanted[u] \in Nat
  BY DEF TypeOK
<1>3. [i \in 1..wanted[u] |-> Request("open", u, sent, "bot")] \in Seq(Requests)
  <2> DEFINE f(i) == Request("open", u, sent, "bot")
  <2>1. \A i \in 1..wanted[u] : f(i) \in Requests
    BY <1>1
  <2> HIDE DEF f
  <2>2. [i \in 1..wanted[u] |-> f(i)] \in Seq(Requests)
    BY <1>2, <2>1, IsASeq
  <2> QED
    BY <2>2 DEF f
<1>4. queue' \in Seq(Requests)
  BY <1>3, ConcatProperties DEF TypeOK, Resend
<1> QED
  BY <1>1, <1>2, <1>3, <1>4
     DEF TypeOK, Resend, mapVars, refuseVars, seenVars, keyVars, workerVars, botVars,
         boundVars

\* The head of the queue takes the mutex.
LEMMA RouteOpenType ==
    ASSUME TypeOK, RetryOwned, AskedIsOut, RouteOpen
    PROVE  TypeOK'
<1>1. Head(queue) \in Requests /\ Tail(queue) \in Seq(Requests)
  BY DEF TypeOK, RouteOpen, Granted
<1>2. routing' \in Routings
  BY <1>1 DEF RouteOpen, Requests, Routings
<1>3. queue' \in Seq(Requests)
  BY <1>1 DEF RouteOpen
<1> QED
  BY <1>1, <1>2, <1>3
     DEF TypeOK, RouteOpen, mapVars, refuseVars, seenVars, keyVars, workerVars, botVars,
         boundVars

\* A target is assigned and asked.
LEMMA AskType ==
    ASSUME TypeOK, RetryOwned, AskedIsOut, Ask
    PROVE  TypeOK'
<1>1. routing \in Routings
  BY DEF TypeOK, Ask
<1>2. \A w \in Targets(routing) : w \in Workers
  <2>1. assign[routing.uuid] \in Workers \cup {Nobody}
    BY <1>1 DEF TypeOK, Routings
  <2>2. LeastLoaded(routing.tried) \subseteq Workers
    BY DEF LeastLoaded, Takers
  <2> QED
    BY <2>1, <2>2 DEF Targets
<1>3. PICK w \in Workers : /\ assign' = [assign EXCEPT ![routing.uuid] = w]
                         /\ inbox' = [inbox EXCEPT ![w] = Append(@,
                               [op |-> "open", uuid |-> routing.uuid, asks |-> TRUE])]
                         /\ routing' = [routing EXCEPT !.target = w]
  BY <1>2 DEF Ask
<1>4. assign' \in [Uuids -> Workers \cup {Nobody}]
  BY <1>3 DEF TypeOK
<1>5. routing' \in Routings
  BY <1>1, <1>3 DEF Routings
<1>6. [op |-> "open", uuid |-> routing.uuid, asks |-> TRUE] \in Messages
  BY <1>1 DEF Routings, Messages
<1>7. inbox' \in [Workers -> Seq(Messages)]
  <2>1. Append(inbox[w], [op |-> "open", uuid |-> routing.uuid, asks |-> TRUE])
          \in Seq(Messages)
    BY <1>6, AppendProperties DEF TypeOK
  <2> QED
    BY <1>3, <2>1 DEF TypeOK
<1> QED
  BY <1>1, <1>2, <1>3, <1>4, <1>5, <1>6, <1>7
     DEF TypeOK, Ask, mapVars, refuseVars, seenVars, keyVars, workerVars, botVars,
         boundVars

\* An open nobody takes is kept.
LEMMA KeepRefusedType ==
    ASSUME TypeOK, RetryOwned, AskedIsOut, KeepRefused
    PROVE  TypeOK'
<1>1. routing.uuid \in Uuids /\ routing.load \in Nat
  BY DEF TypeOK, KeepRefused, Routings
<1>2. refused' \in Seq(Payloads)
  BY <1>1, KeepType DEF TypeOK, KeepRefused
<1>3. retry' \in {Idle} \cup Passes
  BY DEF TypeOK, KeepRefused, PassStops
<1> QED
  BY <1>1, <1>2, <1>3
     DEF TypeOK, KeepRefused, mapVars, refuseVars, seenVars, keyVars, workerVars, botVars,
         boundVars

\* An open the worker took is stored.
LEMMA RouteAcceptedType ==
    ASSUME TypeOK, RetryOwned, AskedIsOut, RouteAccepted
    PROVE  TypeOK'
<1>1. routing \in Routings
  BY DEF TypeOK, RouteAccepted
<1>2. refused' \in Seq(Payloads)
  BY <1>1, WithoutType DEF TypeOK, RouteAccepted, Routings
<1>3. stored' \in [Uuids -> Workers \cup {Nobody}]
  BY <1>1 DEF TypeOK, RouteAccepted, Routings
<1>4. retry' \in {Idle} \cup Passes
  <2>1. CASE routing.by = "retry"
    <3>1. retry \in Passes /\ retry.left # <<>>
      BY <2>1 DEF RetryOwned, RetryRuns, RouteAccepted
    <3>2. Tail(retry.left) \in Seq(Payloads)
      BY <3>1 DEF Passes
    <3> QED
      BY <2>1, <3>1, <3>2 DEF RouteAccepted, PassGoesOn, Passes
  <2> QED
    BY <2>1 DEF TypeOK, RouteAccepted
<1> QED
  BY <1>1, <1>2, <1>3, <1>4
     DEF TypeOK, RouteAccepted, mapVars, refuseVars, seenVars, keyVars, workerVars, botVars,
         boundVars

\* A refusal takes the assignment back.
LEMMA RouteRefusedType ==
    ASSUME TypeOK, RetryOwned, AskedIsOut, RouteRefused
    PROVE  TypeOK'
<1>1. routing \in Routings
  BY DEF TypeOK, RouteRefused
<1>2. assign' \in [Uuids -> Workers \cup {Nobody}]
  BY DEF TypeOK, RouteRefused
<1>3. routing' \in Routings
  BY <1>1 DEF RouteRefused, Routings
<1>4. inbox' \in [Workers -> Seq(Messages)]
  BY UnaskedType DEF TypeOK, RouteRefused
<1> QED
  BY <1>1, <1>2, <1>3, <1>4
     DEF TypeOK, RouteRefused, mapVars, refuseVars, seenVars, keyVars, workerVars, botVars,
         boundVars

\* A close goes where its account is assigned.
LEMMA RouteCloseType ==
    ASSUME TypeOK, RetryOwned, AskedIsOut, RouteClose
    PROVE  TypeOK'
<1>1. Head(queue) \in Requests /\ Tail(queue) \in Seq(Requests)
  BY DEF TypeOK, RouteClose, Granted
<1>2. Head(queue).uuid \in Uuids
  BY <1>1 DEF Requests
<1>3. refused' \in Seq(Payloads)
  BY <1>2, WithoutType DEF TypeOK, RouteClose
<1>4. assign' \in [Uuids -> Workers \cup {Nobody}] /\ stored' \in [Uuids -> Workers \cup {Nobody}]
  BY <1>2 DEF TypeOK, RouteClose, mapVars
<1>5. inbox' \in [Workers -> Seq(Messages)]
  <2> DEFINE m == [op |-> "close", uuid |-> Head(queue).uuid, asks |-> FALSE]
  <2>1. m \in Messages
    BY <1>2 DEF Messages
  <2>2. \A w \in Workers : Append(inbox[w], m) \in Seq(Messages)
    BY <2>1, AppendProperties DEF TypeOK
  <2> QED
    <3>1. CASE assign[Head(queue).uuid] = Nobody
      BY <3>1 DEF TypeOK, RouteClose
    <3>2. CASE assign[Head(queue).uuid] # Nobody
      <4>1. inbox' = [inbox EXCEPT ![assign[Head(queue).uuid]] = Append(@, m)]
        BY <3>2 DEF RouteClose
      <4> HIDE DEF m
      <4> QED
        BY <2>2, <4>1 DEF TypeOK
    <3> QED
      BY <3>1, <3>2
<1> QED
  BY <1>1, <1>2, <1>3, <1>4, <1>5
     DEF TypeOK, RouteClose, mapVars, refuseVars, seenVars, keyVars, workerVars, botVars,
         boundVars

\* The pass asks for the mutex or passes over an open.
LEMMA RetryNextType ==
    ASSUME TypeOK, RetryOwned, AskedIsOut, RetryNext
    PROVE  TypeOK'
<1>1. retry \in Passes
  BY DEF TypeOK, RetryNext
<1>2. retry.left # <<>> => Head(retry.left) \in Payloads /\ Tail(retry.left) \in Seq(Payloads)
  BY <1>1 DEF Passes
<1>3. retry' \in {Idle} \cup Passes
  BY <1>1, <1>2 DEF RetryNext, Passes
<1>4. queue' \in Seq(Requests)
  <2>1. CASE retry.left = <<>>
    BY <2>1 DEF TypeOK, RetryNext
  <2>2. CASE retry.left # <<>>
    <3> DEFINE e == Head(retry.left)
    <3>1. Request("open", e.uuid, e.load, "retry") \in Requests
      BY <1>2, <2>2 DEF Payloads, Request, Requests
    <3>2. Append(queue, Request("open", e.uuid, e.load, "retry")) \in Seq(Requests)
      BY <3>1, AppendProperties DEF TypeOK
    <3> QED
      BY <2>2, <3>2 DEF TypeOK, RetryNext
  <2> QED
    BY <2>1, <2>2
<1> QED
  BY <1>1, <1>2, <1>3, <1>4
     DEF TypeOK, RetryNext, mapVars, refuseVars, seenVars, keyVars, workerVars, botVars,
         boundVars

\* A tick starts.
LEMMA TickStartsType ==
    ASSUME TypeOK, RetryOwned, AskedIsOut, TickStarts
    PROVE  TypeOK'
<1>1. tick' \in Ticks
  BY DEF TickStarts, Ticks
<1> QED
  BY <1>1
     DEF TypeOK, TickStarts, mapVars, refuseVars, seenVars, keyVars, workerVars, botVars,
         boundVars

\* A tick finds no heartbeat.
LEMMA LookDeadType ==
    ASSUME TypeOK, RetryOwned, AskedIsOut, NEW w \in Workers, LookDead(w)
    PROVE  TypeOK'
<1>1. tick \in Ticks
  BY DEF TypeOK, LookDead, Look
<1>2. tick' \in Ticks
  BY <1>1 DEF LookDead, Ticks
<1>3. assign' \in [Uuids -> Workers \cup {Nobody}] /\ stored' \in [Uuids -> Workers \cup {Nobody}]
  BY DEF TypeOK, LookDead, mapVars
<1>4. workerBoot' \subseteq Workers /\ lastBoot' \subseteq Workers /\ reopen' \subseteq Uuids
  BY DEF TypeOK, LookDead, Lost
<1> QED
  BY <1>1, <1>2, <1>3, <1>4
     DEF TypeOK, LookDead, mapVars, refuseVars, seenVars, keyVars, workerVars, botVars,
         boundVars

\* A tick finds a heartbeat.
LEMMA LookAliveType ==
    ASSUME TypeOK, RetryOwned, AskedIsOut, NEW w \in Workers, LookAlive(w)
    PROVE  TypeOK'
<1>1. tick \in Ticks
  BY DEF TypeOK, LookAlive, Look
<1>2. tick' \in Ticks
  BY <1>1 DEF LookAlive, Ticks
<1>3. capSeen' \in [Workers -> Nat]
  BY DEF TypeOK, LookAlive
<1>4. workerBoot' \subseteq Workers /\ lastBoot' \subseteq Workers
  BY DEF TypeOK, LookAlive
<1> QED
  BY <1>1, <1>2, <1>3, <1>4
     DEF TypeOK, LookAlive, mapVars, refuseVars, seenVars, keyVars, workerVars, botVars,
         boundVars

\* A tick reconciles.
LEMMA ReconcileType ==
    ASSUME TypeOK, RetryOwned, AskedIsOut, NEW w \in Workers, Reconcile(w)
    PROVE  TypeOK'
<1>1. tick' \in Ticks
  BY DEF TypeOK, Reconcile, Ticks
<1>2. assign' \in [Uuids -> Workers \cup {Nobody}] /\ stored' \in [Uuids -> Workers \cup {Nobody}]
  BY ReconcileWithType DEF TypeOK, Reconcile
<1> QED
  BY <1>1, <1>2
     DEF TypeOK, Reconcile, mapVars, refuseVars, seenVars, keyVars, workerVars, botVars,
         boundVars

\* A tick ends and may start a pass.
LEMMA TickEndsType ==
    ASSUME TypeOK, RetryOwned, AskedIsOut, TickEnds
    PROVE  TypeOK'
<1>1. retry' \in {Idle} \cup Passes
  BY DEF TypeOK, TickEnds, Passes
<1> QED
  BY <1>1
     DEF TypeOK, TickEnds, mapVars, refuseVars, seenVars, keyVars, workerVars, botVars,
         boundVars

\* The start reconciles.
LEMMA InitReconcilesType ==
    ASSUME TypeOK, RetryOwned, AskedIsOut, NEW w \in Workers, InitReconciles(w)
    PROVE  TypeOK'
<1>1. tick' \in Ticks
  BY DEF TypeOK, InitReconciles, Initialising, Ticks
<1>2. assign' \in [Uuids -> Workers \cup {Nobody}] /\ stored' \in [Uuids -> Workers \cup {Nobody}]
  BY ReconcileWithType DEF TypeOK, InitReconciles
<1> QED
  BY <1>1, <1>2
     DEF TypeOK, InitReconciles, mapVars, refuseVars, seenVars, keyVars, workerVars, botVars,
         boundVars

\* The start ends.
LEMMA InitEndsType ==
    ASSUME TypeOK, RetryOwned, AskedIsOut, InitEnds
    PROVE  TypeOK'
BY BalancerAssumption
   DEF TypeOK, InitEnds, mapVars, refuseVars, seenVars,
       keyVars, workerVars, botVars, boundVars

\* A worker answers an open.
LEMMA WorkerHandlesOpenType ==
    ASSUME TypeOK, RetryOwned, AskedIsOut, NEW w \in Workers, WorkerHandlesOpen(w)
    PROVE  TypeOK'
<1>1. Head(inbox[w]) \in Messages /\ Tail(inbox[w]) \in Seq(Messages)
  BY DEF TypeOK, WorkerHandlesOpen
<1>2. Head(inbox[w]).uuid \in Uuids
  BY <1>1 DEF Messages
<1>3. inbox' \in [Workers -> Seq(Messages)]
  BY <1>1 DEF TypeOK, WorkerHandlesOpen
<1>4. Append(accepted[w], Head(inbox[w]).uuid) \in Seq(Uuids)
  BY <1>2, AppendProperties DEF TypeOK
<1>5. accepted' \in [Workers -> Seq(Uuids)]
  BY <1>4 DEF TypeOK, WorkerHandlesOpen
<1>6. routing' \in {Idle} \cup Routings
  <2>1. CASE Head(inbox[w]).asks
    <3>1. inbox[w][1] = Head(inbox[w]) /\ 1 \in DOMAIN inbox[w]
      BY DEF TypeOK, WorkerHandlesOpen
    <3>2. routing \in Routings
      BY <2>1, <3>1 DEF TypeOK, AskedIsOut
    <3> QED
      BY <2>1, <3>2 DEF WorkerHandlesOpen, Routings
  <2> QED
    BY <2>1 DEF TypeOK, WorkerHandlesOpen
<1> QED
  BY <1>1, <1>2, <1>3, <1>4, <1>5, <1>6
     DEF TypeOK, WorkerHandlesOpen, mapVars, refuseVars, seenVars, keyVars, workerVars, botVars,
         boundVars

\* A worker closes.
LEMMA WorkerHandlesCloseType ==
    ASSUME TypeOK, RetryOwned, AskedIsOut, NEW w \in Workers, WorkerHandlesClose(w)
    PROVE  TypeOK'
<1>1. Tail(inbox[w]) \in Seq(Messages) /\ Head(inbox[w]).uuid \in Uuids
  <2>1. inbox[w] \in Seq(Messages) /\ inbox[w] # <<>>
    BY DEF TypeOK, WorkerHandlesClose
  <2>2. Head(inbox[w]) \in Messages /\ Tail(inbox[w]) \in Seq(Messages)
    BY <2>1
  <2> QED
    BY <2>2 DEF Messages
<1>2. inbox' \in [Workers -> Seq(Messages)]
  BY <1>1 DEF TypeOK, WorkerHandlesClose
<1>3. count' \in [Workers -> [Uuids -> Nat]]
  <2> DEFINE u == Head(inbox[w]).uuid
  <2>1. count[w][u] \in Nat
    BY <1>1 DEF TypeOK
  <2>2. CASE count[w][u] = 0
    BY <2>2 DEF TypeOK, WorkerHandlesClose, NotCounted, workerVars
  <2>3. CASE count[w][u] # 0
    <3>1. count' = [count EXCEPT ![w][u] = @ - 1]
      BY <2>3 DEF WorkerHandlesClose, NotCounted
    <3>2. count[w][u] - 1 \in Nat
      BY <2>1, <2>3
    <3> HIDE DEF u
    <3> QED
      BY <3>1, <3>2 DEF TypeOK
  <2> QED
    BY <2>2, <2>3
<1>4. users' \in [Workers -> SUBSET Uuids]
  <2> DEFINE u == Head(inbox[w]).uuid
  <2>1. \/ users' = users
        \/ users' = [users EXCEPT ![w] = @ \ {u}]
    BY DEF WorkerHandlesClose
  <2> HIDE DEF u
  <2> QED
    BY <2>1, ZenonT(60) DEF TypeOK
<1> QED
  BY <1>1, <1>2, <1>3, <1>4
     DEF TypeOK, WorkerHandlesClose, mapVars, refuseVars, seenVars, keyVars, workerVars, botVars,
         boundVars

\* An accepted open gets its turn.
LEMMA WorkerOpensType ==
    ASSUME TypeOK, RetryOwned, AskedIsOut, NEW w \in Workers, WorkerOpens(w)
    PROVE  TypeOK'
<1>1. Tail(accepted[w]) \in Seq(Uuids) /\ Head(accepted[w]) \in Uuids
  BY DEF TypeOK, WorkerOpens
<1>2. accepted' \in [Workers -> Seq(Uuids)]
  BY <1>1 DEF TypeOK, WorkerOpens
<1>3. count' \in [Workers -> [Uuids -> Nat]] /\ users' \in [Workers -> SUBSET Uuids]
  <2> DEFINE u == Head(accepted[w])
  <2>1. /\ \/ count' = [count EXCEPT ![w][u] = @ + 1]
           \/ count' = count
        /\ \/ users' = [users EXCEPT ![w] = @ \cup {u}]
           \/ users' = [users EXCEPT ![w] = @ \ {u}]
    BY DEF WorkerOpens
  <2>2. u \in Uuids
    BY <1>1
  <2> HIDE DEF u
  <2>3. /\ count \in [Workers -> [Uuids -> Nat]]
        /\ users \in [Workers -> SUBSET Uuids]
    BY DEF TypeOK
  <2>4. count' \in [Workers -> [Uuids -> Nat]]
    <3>1. count[w][u] + 1 \in Nat
      BY <2>2, <2>3
    <3>2. CASE count' = [count EXCEPT ![w][u] = @ + 1]
      BY <2>3, <3>1, <3>2
    <3> QED
      BY <2>1, <2>3, <3>2
  <2>5. users' \in [Workers -> SUBSET Uuids]
    <3>1. CASE users' = [users EXCEPT ![w] = @ \cup {u}]
      BY <2>2, <2>3, <3>1
    <3>2. CASE users' = [users EXCEPT ![w] = @ \ {u}]
      BY <2>3, <3>2
    <3> QED
      BY <2>1, <3>1, <3>2
  <2> QED
    BY <2>4, <2>5
<1> QED
  BY <1>1, <1>2, <1>3
     DEF TypeOK, WorkerOpens, mapVars, refuseVars, seenVars, keyVars, workerVars, botVars,
         boundVars

\* A worker publishes its keys.
LEMMA WorkerPublishesType ==
    ASSUME TypeOK, RetryOwned, AskedIsOut, NEW w \in Workers, WorkerPublishes(w)
    PROVE  TypeOK'
BY BalancerAssumption
   DEF TypeOK, WorkerPublishes, mapVars, refuseVars, seenVars,
       keyVars, workerVars, botVars, boundVars

\* A cap rises.
LEMMA CapRisesType ==
    ASSUME TypeOK, RetryOwned, AskedIsOut, NEW w \in Workers, CapRises(w)
    PROVE  TypeOK'
<1>1. cap' \in [Workers -> Nat] /\ raises' \in Nat
  BY DEF TypeOK, CapRises
<1> QED
  BY <1>1
     DEF TypeOK, CapRises, mapVars, refuseVars, seenVars, keyVars, workerVars, botVars,
         boundVars

\* A worker crashes.
LEMMA WorkerCrashesType ==
    ASSUME TypeOK, RetryOwned, AskedIsOut, NEW w \in Workers, WorkerCrashes(w)
    PROVE  TypeOK'
BY BalancerAssumption
   DEF TypeOK, WorkerCrashes, mapVars, refuseVars, seenVars,
       keyVars, workerVars, botVars, boundVars

\* Keys expire.
LEMMA KeysExpireType ==
    ASSUME TypeOK, RetryOwned, AskedIsOut, NEW w \in Workers, KeysExpire(w)
    PROVE  TypeOK'
BY BalancerAssumption
   DEF TypeOK, KeysExpire, mapVars, refuseVars, seenVars,
       keyVars, workerVars, botVars, boundVars

\* A worker boots.
LEMMA WorkerBootsType ==
    ASSUME TypeOK, RetryOwned, AskedIsOut, NEW w \in Workers, WorkerBoots(w)
    PROVE  TypeOK'
BY BalancerAssumption
   DEF TypeOK, WorkerBoots, mapVars, refuseVars, seenVars,
       keyVars, workerVars, botVars, boundVars

\* The balancer restarts.
LEMMA BalancerRestartsType ==
    ASSUME TypeOK, RetryOwned, AskedIsOut, BalancerRestarts
    PROVE  TypeOK'
<1>1. BotRequests \in Seq(Requests)
  <2> DEFINE retries == {i \in DOMAIN queue : queue[i].by = "retry"}
  <2>1. CASE retries = {}
    BY <2>1 DEF TypeOK, BotRequests
  <2>2. CASE retries # {}
    <3>1. (CHOOSE i \in retries : TRUE) \in 1..Len(queue)
      BY <2>2 DEF TypeOK
    <3>2. RemoveAt(queue, CHOOSE i \in retries : TRUE) \in Seq(Requests)
      BY <3>1, RemoveAtFacts DEF TypeOK
    <3> QED
      BY <2>2, <3>2 DEF BotRequests
  <2> QED
    BY <2>1, <2>2
<1>2. queue' \in Seq(Requests)
  <2>1. CASE routing # Idle /\ routing.by = "bot"
    <3>1. Request("open", routing.uuid, routing.load, "bot") \in Requests
      BY <2>1 DEF TypeOK, Routings, Request, Requests
    <3>2. <<Request("open", routing.uuid, routing.load, "bot")>> \in Seq(Requests)
      BY <3>1
    <3>3. <<Request("open", routing.uuid, routing.load, "bot")>> \o BotRequests
             \in Seq(Requests)
      BY <1>1, <3>2, ConcatProperties
    <3> QED
      BY <2>1, <3>3 DEF BalancerRestarts
  <2> QED
    BY <1>1, <2>1 DEF BalancerRestarts
<1>3. capSeen' \in [Workers -> Nat]
  BY BalancerAssumption DEF TypeOK, BalancerRestarts
<1>4. tick' \in Ticks
  BY DEF BalancerRestarts, Ticks
<1>5. inbox' \in [Workers -> Seq(Messages)]
  BY UnaskedType DEF TypeOK, BalancerRestarts
<1>6. restarts' \in Nat /\ refused' \in Seq(Payloads)
  BY DEF TypeOK, BalancerRestarts
<1> QED
  BY <1>1, <1>2, <1>3, <1>4, <1>5, <1>6
     DEF TypeOK, BalancerRestarts, mapVars, refuseVars, seenVars, keyVars, workerVars, botVars,
         boundVars

-----------------------------------------------------------------------------
(* The pass over refused opens.                                              *)

RetryInv == RetryOwned /\ OneRetryAtATime

\* What a bot adds to the queue is no retry.
LEMMA OpenRetry ==
    ASSUME TypeOK, RetryInv, NEW u \in Uuids, Open(u)
    PROVE  RetryInv'
<1> DEFINE r == Request("open", u, sent + 1, "bot")
<1>1. queue' = Append(queue, r) /\ r.by = "bot" /\ UNCHANGED <<routing, retry>>
  BY DEF Open, refuseVars, Request
<1>2. queue \in Seq(Requests)
  BY DEF TypeOK
<1> HIDE DEF r
<1>3. \A i \in DOMAIN queue' : RetryQueued(i)' => i \in DOMAIN queue /\ RetryQueued(i)
  BY <1>1, <1>2 DEF RetryQueued
<1> QED
  BY <1>1, <1>3 DEF RetryInv, RetryOwned, OneRetryAtATime, RetryRuns

\* A close takes no retry out of the queue.
LEMMA CloseRetry ==
    ASSUME TypeOK, RetryInv, NEW u \in Uuids, Close(u)
    PROVE  RetryInv'
<1> DEFINE r == Request("close", u, 0, "bot")
<1>1. /\ queue' = queue \/ queue' = Append(queue, r)
      /\ r.by = "bot" /\ UNCHANGED <<routing, retry>>
  BY DEF Close, refuseVars, Request
<1>2. queue \in Seq(Requests)
  BY DEF TypeOK
<1> HIDE DEF r
<1>3. \A i \in DOMAIN queue' : RetryQueued(i)' => i \in DOMAIN queue /\ RetryQueued(i)
  BY <1>1, <1>2 DEF RetryQueued
<1> QED
  BY <1>1, <1>3 DEF RetryInv, RetryOwned, OneRetryAtATime, RetryRuns

\* Opens that are sent again are the bots', not retries.
LEMMA ResendRetry ==
    ASSUME TypeOK, RetryInv, NEW u \in Uuids, Resend(u)
    PROVE  RetryInv'
<1> DEFINE r == Request("open", u, sent, "bot")
           q == [i \in 1..wanted[u] |-> r]
<1>1. queue' = queue \o q /\ UNCHANGED <<routing, retry>>
  BY DEF Resend, refuseVars
<1>2. queue \in Seq(Requests) /\ wanted[u] \in Nat /\ r.by = "bot"
  BY DEF TypeOK, Request
<1>3. r \in Requests
  BY DEF TypeOK, Request, Requests
<1> HIDE DEF r
<1>4. q \in Seq(Requests) /\ Len(q) = wanted[u] /\ \A i \in 1..wanted[u] : q[i] = r
  BY <1>2, <1>3
<1> HIDE DEF q
<1>5. \A i \in DOMAIN queue' : RetryQueued(i)' => i \in DOMAIN queue /\ RetryQueued(i)
  <2>1. /\ queue \o q \in Seq(Requests)
        /\ Len(queue \o q) = Len(queue) + Len(q)
        /\ \A i \in 1..(Len(queue) + Len(q)) : (queue \o q)[i] =
              IF i <= Len(queue) THEN queue[i] ELSE q[i - Len(queue)]
    BY <1>2, <1>4, ConcatProperties
  <2>2. ASSUME NEW i \in DOMAIN queue', RetryQueued(i)'
        PROVE  i \in DOMAIN queue /\ RetryQueued(i)
    <3>1. i \in 1..(Len(queue) + Len(q)) /\ queue'[i].by = "retry"
      BY <1>1, <1>2, <1>4, <2>1, <2>2 DEF RetryQueued
    <3>2. CASE i <= Len(queue)
      BY <1>1, <1>2, <2>1, <3>1, <3>2 DEF RetryQueued
    <3>3. CASE ~(i <= Len(queue))
      <4>1. i - Len(queue) \in 1..wanted[u] /\ queue'[i] = q[i - Len(queue)]
        BY <1>1, <1>2, <1>4, <2>1, <3>1, <3>3
      <4> QED
        BY <1>2, <1>4, <3>1, <4>1
    <3> QED
      BY <3>2, <3>3
  <2> QED
    BY <2>2
<1> QED
  BY <1>1, <1>5 DEF RetryInv, RetryOwned, OneRetryAtATime, RetryRuns

\* The head of the queue moves on to hold the mutex.
LEMMA RouteOpenRetry ==
    ASSUME TypeOK, RetryInv, RouteOpen
    PROVE  RetryInv'
<1>1. /\ queue \in Seq(Requests) /\ queue # <<>> /\ queue' = Tail(queue)
      /\ routing = Idle /\ UNCHANGED retry /\ routing'.by = queue[1].by
  BY DEF TypeOK, RouteOpen, Granted, refuseVars
<1>2. \A i \in DOMAIN queue' : i + 1 \in DOMAIN queue /\ queue'[i] = queue[i + 1]
  BY <1>1
<1>3. \A i \in DOMAIN queue' : RetryQueued(i)' => RetryQueued(i + 1)
  BY <1>2 DEF RetryQueued
<1>4. 1 \in DOMAIN queue /\ (RetryRuns' => RetryQueued(1))
  BY <1>1 DEF RetryRuns, RetryQueued
<1>5. RetryOwned'
  BY <1>1, <1>2, <1>3, <1>4 DEF RetryInv, RetryOwned
<1>6. ASSUME NEW i \in DOMAIN queue', RetryQueued(i)'
      PROVE  ~RetryRuns' /\ \A j \in DOMAIN queue' : RetryQueued(j)' => i = j
  <2>1. i + 1 \in DOMAIN queue /\ RetryQueued(i + 1)
    BY <1>2, <1>3, <1>6
  <2>2. \A j \in DOMAIN queue : RetryQueued(j) => i + 1 = j
    BY <2>1 DEF RetryInv, OneRetryAtATime
  <2>3. i \in Nat \ {0} /\ DOMAIN queue' \subseteq Nat
    BY <1>1
  <2>4. ~RetryRuns'
    BY <1>4, <2>2, <2>3
  <2>5. \A j \in DOMAIN queue' : RetryQueued(j)' => i = j
    BY <1>2, <1>3, <2>2, <2>3
  <2> QED
    BY <2>4, <2>5
<1>7. OneRetryAtATime'
  BY <1>6 DEF OneRetryAtATime
<1> QED
  BY <1>5, <1>7 DEF RetryInv

\* Who holds the mutex stays the same.
LEMMA AskRetry ==
    ASSUME TypeOK, RetryInv, Ask
    PROVE  RetryInv'
<1>1. routing # Idle /\ routing \in Routings
      /\ \E w \in Targets(routing) : routing' = [routing EXCEPT !.target = w]
  BY DEF TypeOK, Ask
<1>2. routing'.by = routing.by /\ UNCHANGED <<queue, retry>>
  BY <1>1 DEF Ask, Routings, refuseVars
<1> QED
  BY <1>1, <1>2 DEF RetryInv, RetryOwned, OneRetryAtATime, RetryRuns, RetryQueued

\* Trying the next worker keeps the open that holds the mutex.
LEMMA RouteRefusedRetry ==
    ASSUME TypeOK, RetryInv, RouteRefused
    PROVE  RetryInv'
<1>1. routing # Idle /\ routing \in Routings
  BY DEF TypeOK, RouteRefused
<1>2. routing'.by = routing.by /\ UNCHANGED <<queue, retry>>
  BY <1>1 DEF RouteRefused, Routings, refuseVars
<1> QED
  BY <1>1, <1>2 DEF RetryInv, RetryOwned, OneRetryAtATime, RetryRuns, RetryQueued

\* An answer to the open that holds the mutex does not change whose it is.
LEMMA WorkerHandlesOpenRetry ==
    ASSUME TypeOK, AskedIsOut, RetryInv, NEW w \in Workers, WorkerHandlesOpen(w)
    PROVE  RetryInv'
<1>1. UNCHANGED <<queue, retry>>
  BY DEF WorkerHandlesOpen, refuseVars
<1>2. CASE routing' = routing
  BY <1>1, <1>2 DEF RetryInv, RetryOwned, OneRetryAtATime, RetryRuns, RetryQueued
<1>3. CASE routing' # routing
  <2>1. Head(inbox[w]).asks
    BY <1>3 DEF WorkerHandlesOpen
  <2>2. inbox[w][1] = Head(inbox[w]) /\ 1 \in DOMAIN inbox[w]
    BY DEF TypeOK, WorkerHandlesOpen
  <2>3. routing # Idle /\ routing \in Routings
    BY <2>1, <2>2 DEF TypeOK, AskedIsOut
  <2>4. routing'.by = routing.by
    BY <2>1, <2>3 DEF WorkerHandlesOpen, Routings
  <2> QED
    BY <1>1, <2>3, <2>4
       DEF RetryInv, RetryOwned, OneRetryAtATime, RetryRuns, RetryQueued
<1> QED
  BY <1>2, <1>3

\* The pass ends with the retry that was refused: no other was queued.
LEMMA KeepRefusedRetry ==
    ASSUME TypeOK, RetryInv, KeepRefused
    PROVE  RetryInv'
<1>1. routing' = Idle /\ UNCHANGED queue
  BY DEF KeepRefused
<1>2. CASE RetryRuns
  <2>1. \A i \in DOMAIN queue : ~RetryQueued(i)
    BY <1>2 DEF RetryInv, OneRetryAtATime
  <2> QED
    BY <1>1, <2>1 DEF RetryInv, RetryOwned, OneRetryAtATime, RetryRuns, RetryQueued
<1>3. CASE ~RetryRuns
  <2>1. UNCHANGED retry
    BY <1>3 DEF KeepRefused, RetryRuns
  <2> QED
    BY <1>1, <2>1 DEF RetryInv, RetryOwned, OneRetryAtATime, RetryRuns, RetryQueued
<1> QED
  BY <1>2, <1>3

\* A retry that was taken gives the mutex back and the pass goes on.
LEMMA RouteAcceptedRetry ==
    ASSUME TypeOK, RetryInv, RouteAccepted
    PROVE  RetryInv'
<1>1. routing' = Idle /\ UNCHANGED queue
  BY DEF RouteAccepted
<1>2. CASE RetryRuns
  <2>1. \A i \in DOMAIN queue : ~RetryQueued(i)
    BY <1>2 DEF RetryInv, OneRetryAtATime
  <2> QED
    BY <1>1, <2>1 DEF RetryInv, RetryOwned, OneRetryAtATime, RetryRuns, RetryQueued
<1>3. CASE ~RetryRuns
  <2>1. UNCHANGED retry
    BY <1>3 DEF RouteAccepted, RetryRuns
  <2> QED
    BY <1>1, <2>1 DEF RetryInv, RetryOwned, OneRetryAtATime, RetryRuns, RetryQueued
<1> QED
  BY <1>2, <1>3

\* A close leaves the queue.
LEMMA RouteCloseRetry ==
    ASSUME TypeOK, RetryInv, RouteClose
    PROVE  RetryInv'
<1>1. /\ queue \in Seq(Requests) /\ queue # <<>> /\ queue' = Tail(queue)
      /\ UNCHANGED <<routing, retry>>
  BY DEF TypeOK, RouteClose, Granted
<1>2. \A i \in DOMAIN queue' : i + 1 \in DOMAIN queue /\ queue'[i] = queue[i + 1]
  BY <1>1
<1>3. \A i \in DOMAIN queue' : RetryQueued(i)' => RetryQueued(i + 1)
  BY <1>2 DEF RetryQueued
<1>4. RetryOwned'
  BY <1>1, <1>2, <1>3 DEF RetryInv, RetryOwned, RetryRuns
<1>5. ASSUME NEW i \in DOMAIN queue', RetryQueued(i)',
             NEW j \in DOMAIN queue', RetryQueued(j)'
      PROVE  i = j
  <2>1. i + 1 = j + 1
    BY <1>2, <1>3, <1>5 DEF RetryInv, OneRetryAtATime
  <2> QED
    BY <1>1, <2>1
<1>6. OneRetryAtATime'
  BY <1>1, <1>2, <1>3, <1>5 DEF RetryInv, OneRetryAtATime, RetryRuns
<1> QED
  BY <1>4, <1>6 DEF RetryInv

\* The pass asks only when it waits for nothing.
LEMMA RetryNextRetry ==
    ASSUME TypeOK, RetryInv, RetryNext
    PROVE  RetryInv'
<1>1. retry \in Passes /\ ~retry.busy /\ queue \in Seq(Requests)
  BY DEF TypeOK, RetryNext
<1>2. ~RetryRuns /\ \A i \in DOMAIN queue : ~RetryQueued(i)
  BY <1>1 DEF RetryInv, RetryOwned
<1>3. UNCHANGED routing
  BY DEF RetryNext
<1>4. CASE UNCHANGED queue
  BY <1>2, <1>3, <1>4 DEF RetryInv, RetryOwned, OneRetryAtATime, RetryRuns, RetryQueued
<1>5. CASE queue' # queue
  <2> DEFINE e == Head(retry.left)
  <2>1. /\ retry.left # <<>> /\ retry' = [retry EXCEPT !.busy = TRUE]
        /\ queue' = Append(queue, Request("open", e.uuid, e.load, "retry"))
    BY <1>5 DEF RetryNext
  <2>2. retry' \in Passes /\ retry'.busy /\ retry'.left # <<>>
    BY <1>1, <2>1 DEF Passes
  <2>3. \A i \in DOMAIN queue' : RetryQueued(i)' => i = Len(queue) + 1
    <3>1. \A i \in DOMAIN queue' : \/ i \in DOMAIN queue /\ queue'[i] = queue[i]
                                   \/ i = Len(queue) + 1
      BY <1>1, <2>1
    <3> QED
      BY <1>2, <3>1 DEF RetryQueued
  <2>4. RetryOwned'
    BY <2>2 DEF RetryOwned
  <2>5. OneRetryAtATime'
    BY <1>2, <1>3, <2>3 DEF OneRetryAtATime, RetryRuns
  <2> QED
    BY <2>4, <2>5 DEF RetryInv
<1> QED
  BY <1>4, <1>5

\* A pass starts when none runs.
LEMMA TickEndsRetry ==
    ASSUME TypeOK, RetryInv, TickEnds
    PROVE  RetryInv'
<1>1. UNCHANGED <<queue, routing>>
  BY DEF TickEnds
<1>2. CASE retry = Idle
  <2>1. ~RetryRuns /\ \A i \in DOMAIN queue : ~RetryQueued(i)
    BY <1>2, BalancerAssumption DEF RetryInv, RetryOwned
  <2> QED
    BY <1>1, <2>1 DEF RetryInv, RetryOwned, OneRetryAtATime, RetryRuns, RetryQueued
<1>3. CASE retry # Idle
  <2>1. UNCHANGED retry
    BY <1>3 DEF TickEnds, Retrying
  <2> QED
    BY <1>1, <2>1 DEF RetryInv, RetryOwned, OneRetryAtATime, RetryRuns, RetryQueued
<1> QED
  BY <1>2, <1>3

\* A restart leaves no retry behind.
LEMMA BalancerRestartsRetry ==
    ASSUME TypeOK, RetryInv, BalancerRestarts
    PROVE  RetryInv'
<1> DEFINE retries == {i \in DOMAIN queue : queue[i].by = "retry"}
<1>1. queue \in Seq(Requests)
  BY DEF TypeOK
<1>2. /\ BotRequests \in Seq(Requests)
      /\ \A i \in DOMAIN BotRequests : BotRequests[i].by # "retry"
  <2>1. CASE retries = {}
    BY <1>1, <2>1 DEF BotRequests
  <2>2. CASE retries # {}
    <3> DEFINE k == CHOOSE i \in retries : TRUE
    <3>1. k \in retries
      BY <2>2
    <3>2. k \in 1..Len(queue) /\ RetryQueued(k)
      BY <1>1, <3>1 DEF RetryQueued
    <3>3. \A i \in DOMAIN queue : queue[i].by = "retry" => i = k
      BY <1>1, <3>2 DEF RetryInv, OneRetryAtATime, RetryQueued
    <3>4. BotRequests = RemoveAt(queue, k)
      BY <2>2 DEF BotRequests
    <3> HIDE DEF k
    <3>5. /\ RemoveAt(queue, k) \in Seq(Requests)
          /\ Len(RemoveAt(queue, k)) = Len(queue) - 1
          /\ \A j \in 1..(Len(queue) - 1) :
                RemoveAt(queue, k)[j] = IF j < k THEN queue[j] ELSE queue[j + 1]
      BY <1>1, <3>2, RemoveAtFacts
    <3>6. ASSUME NEW j \in DOMAIN BotRequests
          PROVE  BotRequests[j].by # "retry"
      <4>1. j \in 1..(Len(queue) - 1)
        BY <1>1, <3>4, <3>5
      <4>2. CASE j < k
        BY <1>1, <3>3, <3>4, <3>5, <4>1, <4>2
      <4>3. CASE ~(j < k)
        <5>1. j + 1 \in DOMAIN queue /\ j + 1 # k
          BY <1>1, <3>2, <4>1, <4>3
        <5>2. BotRequests[j] = queue[j + 1]
          BY <3>4, <3>5, <4>1, <4>3
        <5> QED
          BY <3>3, <5>1, <5>2
      <4> QED
        BY <4>2, <4>3
    <3> QED
      BY <3>4, <3>5, <3>6
  <2> QED
    BY <2>1, <2>2
<1>3. \A i \in DOMAIN queue' : ~RetryQueued(i)'
  <2>1. CASE routing # Idle /\ routing.by = "bot"
    <3> DEFINE r == Request("open", routing.uuid, routing.load, "bot")
    <3>1. r \in Requests /\ r.by = "bot"
      BY <2>1 DEF TypeOK, Routings, Request, Requests
    <3>2. queue' = <<r>> \o BotRequests
      BY <2>1 DEF BalancerRestarts
    <3> HIDE DEF r
    <3>3. <<r>> \in Seq(Requests) /\ Len(<<r>>) = 1 /\ <<r>>[1] = r
      BY <3>1
    <3>4. /\ queue' \in Seq(Requests) /\ Len(queue') = 1 + Len(BotRequests)
          /\ \A i \in 1..(1 + Len(BotRequests)) :
                queue'[i] = IF i <= 1 THEN <<r>>[i] ELSE BotRequests[i - 1]
      BY <1>2, <3>2, <3>3, ConcatProperties
    <3> QED
      BY <1>2, <3>1, <3>3, <3>4 DEF RetryQueued
  <2>2. CASE ~(routing # Idle /\ routing.by = "bot")
    <3>1. queue' = BotRequests
      BY <2>2 DEF BalancerRestarts
    <3> QED
      BY <1>2, <3>1 DEF RetryQueued
  <2> QED
    BY <2>1, <2>2
<1>4. ~RetryRuns'
  BY DEF BalancerRestarts, RetryRuns
<1> QED
  BY <1>3, <1>4 DEF RetryInv, RetryOwned, OneRetryAtATime

-----------------------------------------------------------------------------
(* The request whose answer is waited for.                                   *)

AskInv == AskedIsOut /\ FreshReply

\* While no target is asked nobody waits for an answer.
LEMMA NobodyAsked ==
    ASSUME TypeOK, AskedIsOut,
           routing = Idle \/ routing.target = Nobody \/ routing.reply # "none"
    PROVE  \A w \in Workers : \A i \in DOMAIN inbox[w] : ~inbox[w][i].asks
BY BalancerAssumption DEF AskedIsOut

\* Nobody waits for the answer to a request of Unasked.
LEMMA UnaskedAsksNothing ==
    ASSUME TypeOK
    PROVE  \A w \in Workers : \A i \in DOMAIN Unasked[w] : ~Unasked[w][i].asks
<1> SUFFICES ASSUME NEW w \in Workers, NEW i \in DOMAIN Unasked[w]
             PROVE  ~Unasked[w][i].asks
  OBVIOUS
<1>1. Unasked[w] = [j \in DOMAIN inbox[w] |-> [inbox[w][j] EXCEPT !.asks = FALSE]]
  BY DEF Unasked
<1>2. i \in DOMAIN inbox[w] /\ inbox[w] \in Seq(Messages)
  BY <1>1 DEF TypeOK
<1>3. inbox[w][i] \in Messages /\ Unasked[w][i] = [inbox[w][i] EXCEPT !.asks = FALSE]
  BY <1>1, <1>2
<1> QED
  BY <1>3 DEF Messages

\* The mutex changes hands while nobody waits.
LEMMA RouteOpenAsked ==
    ASSUME TypeOK, AskInv, RouteOpen
    PROVE  AskInv'
<1>1. routing = Idle /\ UNCHANGED inbox /\ routing'.reply = "none"
  BY DEF RouteOpen, Granted
<1>2. \A w \in Workers : \A i \in DOMAIN inbox'[w] : ~inbox'[w][i].asks
  BY <1>1, NobodyAsked DEF AskInv
<1> QED
  BY <1>1, <1>2 DEF AskInv, AskedIsOut, FreshReply

\* The target's new request is the only one that asks.
LEMMA AskAsked ==
    ASSUME TypeOK, AskInv, Ask
    PROVE  AskInv'
<1>1. /\ routing # Idle /\ routing \in Routings
      /\ routing.target = Nobody /\ routing.reply = "none"
  BY DEF TypeOK, Ask, AskInv, FreshReply
<1> DEFINE m == [op |-> "open", uuid |-> routing.uuid, asks |-> TRUE]
<1>2. PICK w \in Targets(routing) :
        /\ inbox' = [inbox EXCEPT ![w] = Append(@, m)]
        /\ routing' = [routing EXCEPT !.target = w]
  BY DEF Ask
<1>3. w \in Workers
  <2>1. assign[routing.uuid] \in Workers \cup {Nobody}
    BY <1>1 DEF TypeOK, Routings
  <2> QED
    BY <2>1 DEF Targets, LeastLoaded, Takers
<1>4. /\ routing' \in Routings
      /\ routing'.target = w /\ routing'.reply = "none"
  BY <1>1, <1>2, <1>3 DEF Routings
<1>5. m \in Messages /\ m.asks
  BY <1>1 DEF Routings, Messages
<1>6. \A v \in Workers : \A i \in DOMAIN inbox[v] : ~inbox[v][i].asks
  BY <1>1, NobodyAsked DEF AskInv
<1>7. /\ inbox[w] \in Seq(Messages) /\ inbox'[w] = Append(inbox[w], m)
      /\ \A v \in Workers \ {w} : inbox'[v] = inbox[v]
  BY <1>2, <1>3 DEF TypeOK
<1> HIDE DEF m
<1>8. \A i \in DOMAIN inbox'[w] :
        \/ i \in DOMAIN inbox[w] /\ inbox'[w][i] = inbox[w][i]
        \/ i = Len(inbox[w]) + 1
  BY <1>5, <1>7
<1>9. \A i \in DOMAIN inbox'[w] : inbox'[w][i].asks => i = Len(inbox[w]) + 1
  BY <1>3, <1>6, <1>8
<1>10. \A v \in Workers \ {w} : \A i \in DOMAIN inbox'[v] : ~inbox'[v][i].asks
  BY <1>6, <1>7
<1>11. routing' # Idle /\ routing'.target # Nobody
  BY <1>3, <1>4, BalancerAssumption
<1> QED
  BY <1>4, <1>9, <1>10, <1>11 DEF AskInv, AskedIsOut, FreshReply

\* The answer ends the wait.
LEMMA WorkerHandlesOpenAsked ==
    ASSUME TypeOK, AskInv, NEW w \in Workers, WorkerHandlesOpen(w)
    PROVE  AskInv'
<1>1. /\ inbox[w] \in Seq(Messages) /\ inbox[w] # <<>>
      /\ inbox' = [inbox EXCEPT ![w] = Tail(@)]
      /\ Head(inbox[w]) = inbox[w][1] /\ 1 \in DOMAIN inbox[w]
  BY DEF TypeOK, WorkerHandlesOpen
<1>2. \A i \in DOMAIN inbox'[w] : /\ i + 1 \in DOMAIN inbox[w] /\ i + 1 # 1
                                  /\ inbox'[w][i] = inbox[w][i + 1]
  <2>1. inbox'[w] = Tail(inbox[w])
    BY <1>1 DEF TypeOK
  <2>2. /\ Tail(inbox[w]) \in Seq(Messages) /\ Len(Tail(inbox[w])) = Len(inbox[w]) - 1
        /\ \A i \in 1..(Len(inbox[w]) - 1) : Tail(inbox[w])[i] = inbox[w][i + 1]
    BY <1>1
  <2>3. DOMAIN inbox'[w] = 1..(Len(inbox[w]) - 1) /\ Len(inbox[w]) \in Nat
    <3>1. \A s \in Seq(Messages) : DOMAIN s = 1..Len(s) /\ Len(s) \in Nat
      OBVIOUS
    <3> QED
      BY <1>1, <2>1, <2>2, <3>1
  <2> QED
    BY <1>1, <2>1, <2>2, <2>3
<1>3. \A v \in Workers \ {w} : inbox'[v] = inbox[v]
  BY <1>1 DEF TypeOK
<1>4. CASE inbox[w][1].asks
  <2>1. routing # Idle /\ routing \in Routings /\ routing.target = w
    BY <1>1, <1>4 DEF TypeOK, AskInv, AskedIsOut
  <2>2. \A i \in DOMAIN inbox[w] : inbox[w][i].asks => i = 1
    BY <1>1, <1>4 DEF AskInv, AskedIsOut
  <2>3. \A v \in Workers \ {w} : \A i \in DOMAIN inbox[v] : ~inbox[v][i].asks
    BY <2>1 DEF AskInv, AskedIsOut
  <2>4. \A v \in Workers : \A i \in DOMAIN inbox'[v] : ~inbox'[v][i].asks
    BY <1>2, <1>3, <2>2, <2>3
  <2>5. routing'.target = w
    BY <1>1, <1>4, <2>1 DEF WorkerHandlesOpen, Routings
  <2> QED
    BY <2>4, <2>5, BalancerAssumption DEF AskInv, AskedIsOut, FreshReply
<1>5. CASE ~inbox[w][1].asks
  <2>1. UNCHANGED routing
    BY <1>1, <1>5 DEF WorkerHandlesOpen
  <2>2. ASSUME NEW v \in Workers, NEW i \in DOMAIN inbox'[v], inbox'[v][i].asks
        PROVE  /\ routing # Idle /\ routing.target = v /\ routing.reply = "none"
               /\ \A j \in DOMAIN inbox'[v] : inbox'[v][j].asks => i = j
    <3>1. CASE v # w
      BY <1>3, <2>2, <3>1 DEF AskInv, AskedIsOut
    <3>2. CASE v = w
      <4>1. i + 1 \in DOMAIN inbox[w] /\ inbox[w][i + 1].asks /\ i \in Nat
        BY <1>1, <1>2, <2>2, <3>2 DEF TypeOK
      <4>2. \A j \in DOMAIN inbox[w] : inbox[w][j].asks => i + 1 = j
        BY <4>1 DEF AskInv, AskedIsOut
      <4>3. ASSUME NEW j \in DOMAIN inbox'[w], inbox'[w][j].asks
            PROVE  i = j
        <5>1. i + 1 = j + 1
          BY <1>2, <4>2, <4>3
        <5>2. inbox'[w] = Tail(inbox[w])
          BY <1>1 DEF TypeOK
        <5>3. j \in Nat
          BY <1>1, <5>2
        <5> QED
          BY <4>1, <5>1, <5>3
      <4> QED
        BY <3>2, <4>1, <4>3 DEF AskInv, AskedIsOut
    <3> QED
      BY <3>1, <3>2
  <2>3. AskedIsOut'
    BY <2>1, <2>2 DEF AskedIsOut
  <2> QED
    BY <2>1, <2>3 DEF AskInv, FreshReply
<1> QED
  BY <1>4, <1>5

\* A worker's close takes one request away.
LEMMA WorkerHandlesCloseAsked ==
    ASSUME TypeOK, AskInv, NEW w \in Workers, WorkerHandlesClose(w)
    PROVE  AskInv'
<1>1. /\ inbox[w] \in Seq(Messages) /\ inbox[w] # <<>>
      /\ inbox'[w] = Tail(inbox[w]) /\ UNCHANGED routing
      /\ \A v \in Workers \ {w} : inbox'[v] = inbox[v]
  BY DEF TypeOK, WorkerHandlesClose
<1>2. \A i \in DOMAIN inbox'[w] : /\ i + 1 \in DOMAIN inbox[w] /\ i \in Nat
                                  /\ inbox'[w][i] = inbox[w][i + 1]
  BY <1>1
<1>3. ASSUME NEW v \in Workers, NEW i \in DOMAIN inbox'[v], inbox'[v][i].asks
      PROVE  /\ routing # Idle /\ routing.target = v /\ routing.reply = "none"
             /\ \A j \in DOMAIN inbox'[v] : inbox'[v][j].asks => i = j
  <2>1. CASE v # w
    BY <1>1, <1>3, <2>1 DEF AskInv, AskedIsOut
  <2>2. CASE v = w
    <3>1. i + 1 \in DOMAIN inbox[w] /\ inbox[w][i + 1].asks
      BY <1>2, <1>3, <2>2
    <3>2. \A j \in DOMAIN inbox[w] : inbox[w][j].asks => i + 1 = j
      BY <3>1 DEF AskInv, AskedIsOut
    <3>3. \A j \in DOMAIN inbox'[w] : inbox'[w][j].asks => i + 1 = j + 1
      BY <1>2, <3>2
    <3>4. \A j \in DOMAIN inbox'[w] : inbox'[w][j].asks => i = j
      BY <1>2, <1>3, <2>2, <3>3
    <3> QED
      BY <2>2, <3>1, <3>4 DEF AskInv, AskedIsOut
  <2> QED
    BY <2>1, <2>2
<1> QED
  BY <1>1, <1>3 DEF AskInv, AskedIsOut, FreshReply

\* An answered, refused or unroutable open leaves nobody waiting.
LEMMA RouteAcceptedAsked ==
    ASSUME TypeOK, AskInv, RouteAccepted
    PROVE  AskInv'
<1>1. routing.reply # "none" /\ routing' = Idle /\ UNCHANGED inbox
  BY DEF RouteAccepted
<1> QED
  BY <1>1, NobodyAsked DEF AskInv, AskedIsOut, FreshReply

\* An open that is kept was waiting for no answer.
LEMMA KeepRefusedAsked ==
    ASSUME TypeOK, AskInv, KeepRefused
    PROVE  AskInv'
<1>1. routing.target = Nobody /\ routing' = Idle /\ UNCHANGED inbox
  BY DEF KeepRefused
<1> QED
  BY <1>1, NobodyAsked DEF AskInv, AskedIsOut, FreshReply

\* After a refusal nobody waits for an answer.
LEMMA RouteRefusedAsked ==
    ASSUME TypeOK, AskInv, RouteRefused
    PROVE  AskInv'
<1>1. routing \in Routings /\ inbox' = Unasked
  BY DEF TypeOK, RouteRefused
<1>2. routing'.reply = "none"
  BY <1>1 DEF RouteRefused, Routings
<1> QED
  BY <1>1, <1>2, UnaskedAsksNothing DEF AskInv, AskedIsOut, FreshReply

\* A new balancer process waits for no answer of the old one.
LEMMA BalancerRestartsAsked ==
    ASSUME TypeOK, AskInv, BalancerRestarts
    PROVE  AskInv'
<1>1. routing' = Idle /\ inbox' = Unasked
  BY DEF BalancerRestarts
<1> QED
  BY <1>1, UnaskedAsksNothing DEF AskInv, AskedIsOut, FreshReply

\* A forwarded close asks nothing.
LEMMA RouteCloseAsked ==
    ASSUME TypeOK, AskInv, RouteClose
    PROVE  AskInv'
<1>1. routing = Idle /\ UNCHANGED routing
  BY DEF RouteClose, Granted
<1>2. \A w \in Workers : \A i \in DOMAIN inbox[w] : ~inbox[w][i].asks
  BY <1>1, NobodyAsked DEF AskInv
<1> DEFINE u == Head(queue).uuid
           m == [op |-> "close", uuid |-> u, asks |-> FALSE]
<1>3. inbox' = inbox \/ inbox' = [inbox EXCEPT ![assign[u]] = Append(@, m)]
  BY DEF RouteClose
<1>4. m \in Messages /\ ~m.asks
  <2>1. Head(queue) \in Requests
    BY DEF TypeOK, RouteClose, Granted
  <2> QED
    BY <2>1 DEF Requests, Messages
<1> HIDE DEF m, u
<1>5. ASSUME NEW w \in Workers, NEW i \in DOMAIN inbox'[w]
      PROVE  ~inbox'[w][i].asks
  <2>1. inbox[w] \in Seq(Messages)
    BY DEF TypeOK
  <2>2. inbox'[w] = inbox[w] \/ inbox'[w] = Append(inbox[w], m)
    BY <1>3 DEF TypeOK
  <2>3. CASE inbox'[w] = inbox[w]
    BY <1>2, <1>5, <2>3
  <2>4. CASE inbox'[w] = Append(inbox[w], m)
    <3>1. \/ i \in DOMAIN inbox[w] /\ inbox'[w][i] = inbox[w][i]
          \/ inbox'[w][i] = m
      BY <1>4, <1>5, <2>1, <2>4
    <3> QED
      BY <1>2, <1>4, <3>1
  <2> QED
    BY <2>2, <2>3, <2>4
<1> QED
  BY <1>1, <1>5 DEF AskInv, AskedIsOut, FreshReply

-----------------------------------------------------------------------------
(* The cap of a worker.                                                      *)

\* A worker that counts an account holds it.
CountedIsHeld ==
    \A w \in Workers : \A u \in Uuids : count[w][u] > 0 => u \in users[w]

CapInv == CountedIsHeld /\ WorkerWithinCap

\* Sets of accounts are finite, and so are their cardinalities.
LEMMA HeldFinite ==
    ASSUME TypeOK, NEW w \in Workers, NEW S, S \subseteq users[w]
    PROVE  /\ IsFiniteSet(users[w]) /\ IsFiniteSet(S)
           /\ Cardinality(users[w]) \in Nat /\ Cardinality(S) \in Nat
           /\ Cardinality(S) <= Cardinality(users[w])
<1>1. IsFiniteSet(Uuids) /\ users[w] \subseteq Uuids
  BY BalancerAssumption DEF TypeOK
<1>2. IsFiniteSet(users[w])
  BY <1>1, FS_Subset
<1> QED
  BY <1>2, FS_Subset, FS_CardinalityType

\* An account that finds room beside the others fits.
LEMMA OneMoreFits ==
    ASSUME TypeOK, NEW w \in Workers, NEW u, RoomFor(w, u)
    PROVE  Cardinality(users[w] \cup {u}) <= cap[w]
<1>1. IsFiniteSet(users[w] \ {u}) /\ Cardinality(users[w] \ {u}) \in Nat
  BY HeldFinite
<1>2. /\ IsFiniteSet((users[w] \ {u}) \cup {u})
      /\ Cardinality((users[w] \ {u}) \cup {u}) = Cardinality(users[w] \ {u}) + 1
  BY <1>1, FS_AddElement
<1>3. (users[w] \ {u}) \cup {u} = users[w] \cup {u}
  OBVIOUS
<1>4. Cardinality(users[w] \cup {u}) = Cardinality(users[w] \ {u}) + 1
  BY <1>2, <1>3
<1> QED
  BY <1>1, <1>4 DEF RoomFor, TypeOK

\* Joining adds nobody, connecting needs room, leaving removes.
LEMMA WorkerOpensCap ==
    ASSUME TypeOK, CapInv, NEW w \in Workers, WorkerOpens(w)
    PROVE  CapInv'
<1> DEFINE u == Head(accepted[w])
<1>1. u \in Uuids
  BY DEF TypeOK, WorkerOpens
<1>2. /\ UNCHANGED cap
      /\ \A v \in Workers \ {w} : users'[v] = users[v] /\ count'[v] = count[v]
  BY DEF WorkerOpens, TypeOK
<1>3. \/ /\ count[w][u] > 0 \/ RoomFor(w, u)
         /\ count' = [count EXCEPT ![w][u] = @ + 1]
         /\ users' = [users EXCEPT ![w] = @ \cup {u}]
      \/ /\ RoomFor(w, u) /\ count' = count
         /\ users' = [users EXCEPT ![w] = @ \cup {u}]
      \/ /\ count[w][u] = 0 /\ count' = count
         /\ users' = [users EXCEPT ![w] = @ \ {u}]
  BY DEF WorkerOpens
<1> HIDE DEF u
<1>4. /\ count \in [Workers -> [Uuids -> Nat]] /\ users \in [Workers -> SUBSET Uuids]
      /\ cap \in [Workers -> Nat]
  BY DEF TypeOK
<1>5. \/ users'[w] = users[w] \cup {u} /\ (count[w][u] > 0 \/ RoomFor(w, u))
      \/ users'[w] = users[w] \ {u}
  BY <1>3, <1>4
<1>6. Cardinality(users'[w]) <= cap[w]
  <2>1. CASE users'[w] = users[w] \cup {u} /\ RoomFor(w, u)
    BY <2>1, OneMoreFits
  <2>2. CASE users'[w] = users[w] \cup {u} /\ count[w][u] > 0
    <3>1. users'[w] = users[w]
      BY <1>1, <2>2 DEF CapInv, CountedIsHeld
    <3> QED
      BY <3>1 DEF CapInv, WorkerWithinCap
  <2>3. CASE users'[w] = users[w] \ {u}
    <3>1. /\ Cardinality(users[w] \ {u}) <= Cardinality(users[w])
          /\ Cardinality(users[w] \ {u}) \in Nat /\ Cardinality(users[w]) \in Nat
      BY HeldFinite
    <3> QED
      BY <1>4, <2>3, <3>1 DEF CapInv, WorkerWithinCap
  <2> QED
    BY <1>5, <2>1, <2>2, <2>3
<1>7. ASSUME NEW x \in Uuids, count'[w][x] > 0
      PROVE  x \in users'[w]
  <2>1. CASE x = u
    BY <1>1, <1>3, <1>4, <1>7, <2>1
  <2>2. CASE x # u
    <3>1. count'[w][x] = count[w][x]
      BY <1>1, <1>3, <1>4, <2>2
    <3> QED
      BY <1>5, <1>7, <2>2, <3>1 DEF CapInv, CountedIsHeld
  <2> QED
    BY <2>1, <2>2
<1> QED
  BY <1>2, <1>6, <1>7 DEF CapInv, CountedIsHeld, WorkerWithinCap

\* The last close takes the account away with its count.
LEMMA WorkerHandlesCloseCap ==
    ASSUME TypeOK, CapInv, NEW w \in Workers, WorkerHandlesClose(w)
    PROVE  CapInv'
<1> DEFINE u == Head(inbox[w]).uuid
<1>1. UNCHANGED cap
  BY DEF WorkerHandlesClose
<1>2. CASE NotCounted(w, u)
  <2>1. UNCHANGED <<users, count>>
    BY <1>2 DEF WorkerHandlesClose
  <2> QED
    BY <1>1, <2>1 DEF CapInv, CountedIsHeld, WorkerWithinCap
<1>3. CASE ~NotCounted(w, u)
  <2>1. /\ count' = [count EXCEPT ![w][u] = @ - 1]
        /\ users' = IF count[w][u] > 1 THEN users
                    ELSE [users EXCEPT ![w] = @ \ {u}]
    BY <1>3 DEF WorkerHandlesClose
  <2>2. u \in Uuids
    <3>1. Head(inbox[w]) \in Messages
      BY DEF TypeOK, WorkerHandlesClose
    <3> QED
      BY <3>1 DEF Messages
  <2> HIDE DEF u
  <2>3. /\ count \in [Workers -> [Uuids -> Nat]] /\ users \in [Workers -> SUBSET Uuids]
        /\ cap \in [Workers -> Nat]
    BY DEF TypeOK
  <2>4. \A v \in Workers \ {w} : users'[v] = users[v] /\ count'[v] = count[v]
    BY <2>1, <2>3
  <2>5. users'[w] \subseteq users[w]
    BY <2>1, <2>3
  <2>6. Cardinality(users'[w]) <= cap[w]
    <3>1. /\ Cardinality(users'[w]) <= Cardinality(users[w])
          /\ Cardinality(users'[w]) \in Nat /\ Cardinality(users[w]) \in Nat
      BY <2>5, HeldFinite
    <3> QED
      BY <2>3, <3>1 DEF CapInv, WorkerWithinCap
  <2>7. ASSUME NEW x \in Uuids, count'[w][x] > 0
        PROVE  x \in users'[w]
    <3>1. CASE x = u
      <4>1. count[w][u] \in Nat /\ count'[w][u] = count[w][u] - 1
        BY <2>1, <2>2, <2>3
      <4>2. count[w][u] > 1 /\ users' = users
        BY <2>1, <2>7, <3>1, <4>1
      <4> QED
        BY <2>2, <3>1, <4>1, <4>2 DEF CapInv, CountedIsHeld
    <3>2. CASE x # u
      <4>1. count'[w][x] = count[w][x] /\ (x \in users[w] => x \in users'[w])
        BY <2>1, <2>2, <2>3, <3>2
      <4> QED
        BY <2>7, <4>1 DEF CapInv, CountedIsHeld
    <3> QED
      BY <3>1, <3>2
  <2> QED
    BY <1>1, <2>4, <2>6, <2>7 DEF CapInv, CountedIsHeld, WorkerWithinCap
<1> QED
  BY <1>2, <1>3

\* A higher cap admits what a lower one does.
LEMMA CapRisesCap ==
    ASSUME TypeOK, CapInv, NEW w \in Workers, CapRises(w)
    PROVE  CapInv'
<1>1. /\ UNCHANGED <<users, count>>
      /\ \A v \in Workers : cap[v] \in Nat /\ cap'[v] >= cap[v] /\ cap'[v] \in Nat
  BY DEF CapRises, TypeOK
<1>2. \A v \in Workers : Cardinality(users[v]) \in Nat
  BY HeldFinite
<1> QED
  BY <1>1, <1>2 DEF CapInv, CountedIsHeld, WorkerWithinCap

\* A dead worker holds nothing.
LEMMA WorkerCrashesCap ==
    ASSUME TypeOK, CapInv, NEW w \in Workers, WorkerCrashes(w)
    PROVE  CapInv'
<1>1. /\ UNCHANGED cap /\ cap[w] \in Nat
      /\ users'[w] = {} /\ \A u \in Uuids : count'[w][u] = 0
      /\ \A v \in Workers \ {w} : users'[v] = users[v] /\ count'[v] = count[v]
  BY DEF WorkerCrashes, TypeOK
<1>2. Cardinality(users'[w]) = 0
  BY <1>1, FS_EmptySet
<1>3. CountedIsHeld'
  BY <1>1 DEF CapInv, CountedIsHeld
<1>4. \A v \in Workers : Cardinality(users'[v]) <= cap'[v]
  BY <1>1, <1>2 DEF CapInv, WorkerWithinCap
<1> QED
  BY <1>3, <1>4 DEF CapInv, WorkerWithinCap

-----------------------------------------------------------------------------
(* The invariant.                                                            *)

\* RetryInv and AskInv are what the types of the pass and of an answer rest on.
Inv == TypeOK /\ RetryInv /\ AskInv /\ CapInv

\* Nothing is routed, kept or held at first.
LEMMA InitInv == Init => Inv
<1> SUFFICES ASSUME Init PROVE Inv
  OBVIOUS
<1>1. TypeOK
  BY BalancerAssumption DEF Init, TypeOK
<1>2. RetryInv
  BY DEF Init, RetryInv, RetryOwned, OneRetryAtATime, RetryRuns
<1>3. AskInv
  BY DEF Init, AskInv, AskedIsOut, FreshReply
<1>4. CapInv
  <2>1. \A w \in Workers : users[w] = {} /\ cap[w] = BaseCap
    BY DEF Init
  <2> QED
    BY <2>1, FS_EmptySet, BalancerAssumption
       DEF Init, CapInv, CountedIsHeld, WorkerWithinCap
<1> QED
  BY <1>1, <1>2, <1>3, <1>4 DEF Inv

\* No step breaks a type.
LEMMA TypeStep ==
    ASSUME TypeOK, RetryInv, AskInv, [Next]_vars
    PROVE  TypeOK'
<1>1. ASSUME NEW u \in Uuids, Open(u)
      PROVE  TypeOK'
  BY <1>1, OpenType DEF RetryInv, AskInv
<1>2. ASSUME NEW u \in Uuids, Close(u)
      PROVE  TypeOK'
  BY <1>2, CloseType DEF RetryInv, AskInv
<1>3. ASSUME NEW u \in Uuids, Resend(u)
      PROVE  TypeOK'
  BY <1>3, ResendType DEF RetryInv, AskInv
<1>4. CASE RouteOpen
  BY <1>4, RouteOpenType DEF RetryInv, AskInv
<1>5. CASE Ask
  BY <1>5, AskType DEF RetryInv, AskInv
<1>6. CASE KeepRefused
  BY <1>6, KeepRefusedType DEF RetryInv, AskInv
<1>7. CASE RouteAccepted
  BY <1>7, RouteAcceptedType DEF RetryInv, AskInv
<1>8. CASE RouteRefused
  BY <1>8, RouteRefusedType DEF RetryInv, AskInv
<1>9. CASE RouteClose
  BY <1>9, RouteCloseType DEF RetryInv, AskInv
<1>10. CASE RetryNext
  BY <1>10, RetryNextType DEF RetryInv, AskInv
<1>11. CASE TickStarts
  BY <1>11, TickStartsType DEF RetryInv, AskInv
<1>12. ASSUME NEW w \in Workers, LookDead(w)
       PROVE  TypeOK'
  BY <1>12, LookDeadType DEF RetryInv, AskInv
<1>13. ASSUME NEW w \in Workers, LookAlive(w)
       PROVE  TypeOK'
  BY <1>13, LookAliveType DEF RetryInv, AskInv
<1>14. ASSUME NEW w \in Workers, Reconcile(w)
       PROVE  TypeOK'
  BY <1>14, ReconcileType DEF RetryInv, AskInv
<1>15. CASE TickEnds
  BY <1>15, TickEndsType DEF RetryInv, AskInv
<1>16. ASSUME NEW w \in Workers, InitReconciles(w)
       PROVE  TypeOK'
  BY <1>16, InitReconcilesType DEF RetryInv, AskInv
<1>17. CASE InitEnds
  BY <1>17, InitEndsType DEF RetryInv, AskInv
<1>18. ASSUME NEW w \in Workers, WorkerHandlesOpen(w)
       PROVE  TypeOK'
  BY <1>18, WorkerHandlesOpenType DEF RetryInv, AskInv
<1>19. ASSUME NEW w \in Workers, WorkerHandlesClose(w)
       PROVE  TypeOK'
  BY <1>19, WorkerHandlesCloseType DEF RetryInv, AskInv
<1>20. ASSUME NEW w \in Workers, WorkerOpens(w)
       PROVE  TypeOK'
  BY <1>20, WorkerOpensType DEF RetryInv, AskInv
<1>21. ASSUME NEW w \in Workers, WorkerPublishes(w)
       PROVE  TypeOK'
  BY <1>21, WorkerPublishesType DEF RetryInv, AskInv
<1>22. ASSUME NEW w \in Workers, CapRises(w)
       PROVE  TypeOK'
  BY <1>22, CapRisesType DEF RetryInv, AskInv
<1>23. ASSUME NEW w \in Workers, WorkerCrashes(w)
       PROVE  TypeOK'
  BY <1>23, WorkerCrashesType DEF RetryInv, AskInv
<1>24. ASSUME NEW w \in Workers, KeysExpire(w)
       PROVE  TypeOK'
  BY <1>24, KeysExpireType DEF RetryInv, AskInv
<1>25. ASSUME NEW w \in Workers, WorkerBoots(w)
       PROVE  TypeOK'
  BY <1>25, WorkerBootsType DEF RetryInv, AskInv
<1>26. CASE BalancerRestarts
  BY <1>26, BalancerRestartsType DEF RetryInv, AskInv
<1>27. CASE UNCHANGED vars
  BY <1>27 DEF vars, TypeOK,
     mapVars, refuseVars, seenVars, keyVars,
     workerVars, botVars, boundVars
<1> QED
  BY <1>1, <1>2, <1>3, <1>4, <1>5, <1>6, <1>7, <1>8, <1>9, <1>10, <1>11,
     <1>12, <1>13, <1>14, <1>15, <1>16, <1>17, <1>18, <1>19, <1>20,
     <1>21, <1>22, <1>23, <1>24, <1>25, <1>26, <1>27
     DEF Next, BalancerStep, TickStep, WorkerHandles

\* Retries of the pass come one at a time.
LEMMA RetryStep ==
    ASSUME TypeOK, RetryInv, AskInv, [Next]_vars
    PROVE  RetryInv'
<1>1. ASSUME NEW u \in Uuids, Open(u)
      PROVE  RetryInv'
  BY <1>1, OpenRetry DEF AskInv
<1>2. ASSUME NEW u \in Uuids, Close(u)
      PROVE  RetryInv'
  BY <1>2, CloseRetry DEF AskInv
<1>3. ASSUME NEW u \in Uuids, Resend(u)
      PROVE  RetryInv'
  BY <1>3, ResendRetry DEF AskInv
<1>4. CASE RouteOpen
  BY <1>4, RouteOpenRetry DEF AskInv
<1>5. CASE Ask
  BY <1>5, AskRetry DEF AskInv
<1>6. CASE KeepRefused
  BY <1>6, KeepRefusedRetry DEF AskInv
<1>7. CASE RouteAccepted
  BY <1>7, RouteAcceptedRetry DEF AskInv
<1>8. CASE RouteRefused
  BY <1>8, RouteRefusedRetry DEF AskInv
<1>9. CASE RouteClose
  BY <1>9, RouteCloseRetry DEF AskInv
<1>10. CASE RetryNext
  BY <1>10, RetryNextRetry DEF AskInv
<1>11. CASE TickStarts
  BY <1>11 DEF TickStarts, RetryInv, RetryOwned, OneRetryAtATime, RetryRuns,
     RetryQueued, mapVars, refuseVars, seenVars, keyVars,
     workerVars, botVars, boundVars
<1>12. ASSUME NEW w \in Workers, LookDead(w)
       PROVE  RetryInv'
  BY <1>12 DEF LookDead, RetryInv, RetryOwned, OneRetryAtATime, RetryRuns,
     RetryQueued, mapVars, refuseVars, seenVars, keyVars,
     workerVars, botVars, boundVars
<1>13. ASSUME NEW w \in Workers, LookAlive(w)
       PROVE  RetryInv'
  BY <1>13 DEF LookAlive, RetryInv, RetryOwned, OneRetryAtATime, RetryRuns,
     RetryQueued, mapVars, refuseVars, seenVars, keyVars,
     workerVars, botVars, boundVars
<1>14. ASSUME NEW w \in Workers, Reconcile(w)
       PROVE  RetryInv'
  BY <1>14 DEF Reconcile, RetryInv, RetryOwned, OneRetryAtATime, RetryRuns,
     RetryQueued, mapVars, refuseVars, seenVars, keyVars,
     workerVars, botVars, boundVars
<1>15. CASE TickEnds
  BY <1>15, TickEndsRetry DEF AskInv
<1>16. ASSUME NEW w \in Workers, InitReconciles(w)
       PROVE  RetryInv'
  BY <1>16 DEF InitReconciles, RetryInv, RetryOwned, OneRetryAtATime, RetryRuns,
     RetryQueued, mapVars, refuseVars, seenVars, keyVars,
     workerVars, botVars, boundVars
<1>17. CASE InitEnds
  BY <1>17 DEF InitEnds, RetryInv, RetryOwned, OneRetryAtATime, RetryRuns,
     RetryQueued, mapVars, refuseVars, seenVars, keyVars,
     workerVars, botVars, boundVars
<1>18. ASSUME NEW w \in Workers, WorkerHandlesOpen(w)
       PROVE  RetryInv'
  BY <1>18, WorkerHandlesOpenRetry DEF AskInv
<1>19. ASSUME NEW w \in Workers, WorkerHandlesClose(w)
       PROVE  RetryInv'
  BY <1>19 DEF WorkerHandlesClose, RetryInv, RetryOwned, OneRetryAtATime, RetryRuns,
     RetryQueued, mapVars, refuseVars, seenVars, keyVars,
     workerVars, botVars, boundVars
<1>20. ASSUME NEW w \in Workers, WorkerOpens(w)
       PROVE  RetryInv'
  BY <1>20 DEF WorkerOpens, RetryInv, RetryOwned, OneRetryAtATime, RetryRuns,
     RetryQueued, mapVars, refuseVars, seenVars, keyVars,
     workerVars, botVars, boundVars
<1>21. ASSUME NEW w \in Workers, WorkerPublishes(w)
       PROVE  RetryInv'
  BY <1>21 DEF WorkerPublishes, RetryInv, RetryOwned, OneRetryAtATime, RetryRuns,
     RetryQueued, mapVars, refuseVars, seenVars, keyVars,
     workerVars, botVars, boundVars
<1>22. ASSUME NEW w \in Workers, CapRises(w)
       PROVE  RetryInv'
  BY <1>22 DEF CapRises, RetryInv, RetryOwned, OneRetryAtATime, RetryRuns,
     RetryQueued, mapVars, refuseVars, seenVars, keyVars,
     workerVars, botVars, boundVars
<1>23. ASSUME NEW w \in Workers, WorkerCrashes(w)
       PROVE  RetryInv'
  BY <1>23 DEF WorkerCrashes, RetryInv, RetryOwned, OneRetryAtATime, RetryRuns,
     RetryQueued, mapVars, refuseVars, seenVars, keyVars,
     workerVars, botVars, boundVars
<1>24. ASSUME NEW w \in Workers, KeysExpire(w)
       PROVE  RetryInv'
  BY <1>24 DEF KeysExpire, RetryInv, RetryOwned, OneRetryAtATime, RetryRuns,
     RetryQueued, mapVars, refuseVars, seenVars, keyVars,
     workerVars, botVars, boundVars
<1>25. ASSUME NEW w \in Workers, WorkerBoots(w)
       PROVE  RetryInv'
  BY <1>25 DEF WorkerBoots, RetryInv, RetryOwned, OneRetryAtATime, RetryRuns,
     RetryQueued, mapVars, refuseVars, seenVars, keyVars,
     workerVars, botVars, boundVars
<1>26. CASE BalancerRestarts
  BY <1>26, BalancerRestartsRetry DEF AskInv
<1>27. CASE UNCHANGED vars
  BY <1>27 DEF vars, RetryInv, RetryOwned, OneRetryAtATime, RetryRuns,
     RetryQueued, mapVars, refuseVars, seenVars, keyVars,
     workerVars, botVars, boundVars
<1> QED
  BY <1>1, <1>2, <1>3, <1>4, <1>5, <1>6, <1>7, <1>8, <1>9, <1>10, <1>11,
     <1>12, <1>13, <1>14, <1>15, <1>16, <1>17, <1>18, <1>19, <1>20,
     <1>21, <1>22, <1>23, <1>24, <1>25, <1>26, <1>27
     DEF Next, BalancerStep, TickStep, WorkerHandles

\* An answer is waited for by the open that asked.
LEMMA AskStep ==
    ASSUME TypeOK, AskInv, [Next]_vars
    PROVE  AskInv'
<1>1. ASSUME NEW u \in Uuids, Open(u)
      PROVE  AskInv'
  BY <1>1 DEF Open, AskInv, AskedIsOut, FreshReply,
     mapVars, refuseVars, seenVars, keyVars,
     workerVars, botVars, boundVars
<1>2. ASSUME NEW u \in Uuids, Close(u)
      PROVE  AskInv'
  BY <1>2 DEF Close, AskInv, AskedIsOut, FreshReply,
     mapVars, refuseVars, seenVars, keyVars,
     workerVars, botVars, boundVars
<1>3. ASSUME NEW u \in Uuids, Resend(u)
      PROVE  AskInv'
  BY <1>3 DEF Resend, AskInv, AskedIsOut, FreshReply,
     mapVars, refuseVars, seenVars, keyVars,
     workerVars, botVars, boundVars
<1>4. CASE RouteOpen
  BY <1>4, RouteOpenAsked
<1>5. CASE Ask
  BY <1>5, AskAsked
<1>6. CASE KeepRefused
  BY <1>6, KeepRefusedAsked
<1>7. CASE RouteAccepted
  BY <1>7, RouteAcceptedAsked
<1>8. CASE RouteRefused
  BY <1>8, RouteRefusedAsked
<1>9. CASE RouteClose
  BY <1>9, RouteCloseAsked
<1>10. CASE RetryNext
  BY <1>10 DEF RetryNext, AskInv, AskedIsOut, FreshReply,
     mapVars, refuseVars, seenVars, keyVars,
     workerVars, botVars, boundVars
<1>11. CASE TickStarts
  BY <1>11 DEF TickStarts, AskInv, AskedIsOut, FreshReply,
     mapVars, refuseVars, seenVars, keyVars,
     workerVars, botVars, boundVars
<1>12. ASSUME NEW w \in Workers, LookDead(w)
       PROVE  AskInv'
  BY <1>12 DEF LookDead, AskInv, AskedIsOut, FreshReply,
     mapVars, refuseVars, seenVars, keyVars,
     workerVars, botVars, boundVars
<1>13. ASSUME NEW w \in Workers, LookAlive(w)
       PROVE  AskInv'
  BY <1>13 DEF LookAlive, AskInv, AskedIsOut, FreshReply,
     mapVars, refuseVars, seenVars, keyVars,
     workerVars, botVars, boundVars
<1>14. ASSUME NEW w \in Workers, Reconcile(w)
       PROVE  AskInv'
  BY <1>14 DEF Reconcile, AskInv, AskedIsOut, FreshReply,
     mapVars, refuseVars, seenVars, keyVars,
     workerVars, botVars, boundVars
<1>15. CASE TickEnds
  BY <1>15 DEF TickEnds, AskInv, AskedIsOut, FreshReply,
     mapVars, refuseVars, seenVars, keyVars,
     workerVars, botVars, boundVars
<1>16. ASSUME NEW w \in Workers, InitReconciles(w)
       PROVE  AskInv'
  BY <1>16 DEF InitReconciles, AskInv, AskedIsOut, FreshReply,
     mapVars, refuseVars, seenVars, keyVars,
     workerVars, botVars, boundVars
<1>17. CASE InitEnds
  BY <1>17 DEF InitEnds, AskInv, AskedIsOut, FreshReply,
     mapVars, refuseVars, seenVars, keyVars,
     workerVars, botVars, boundVars
<1>18. ASSUME NEW w \in Workers, WorkerHandlesOpen(w)
       PROVE  AskInv'
  BY <1>18, WorkerHandlesOpenAsked
<1>19. ASSUME NEW w \in Workers, WorkerHandlesClose(w)
       PROVE  AskInv'
  BY <1>19, WorkerHandlesCloseAsked
<1>20. ASSUME NEW w \in Workers, WorkerOpens(w)
       PROVE  AskInv'
  BY <1>20 DEF WorkerOpens, AskInv, AskedIsOut, FreshReply,
     mapVars, refuseVars, seenVars, keyVars,
     workerVars, botVars, boundVars
<1>21. ASSUME NEW w \in Workers, WorkerPublishes(w)
       PROVE  AskInv'
  BY <1>21 DEF WorkerPublishes, AskInv, AskedIsOut, FreshReply,
     mapVars, refuseVars, seenVars, keyVars,
     workerVars, botVars, boundVars
<1>22. ASSUME NEW w \in Workers, CapRises(w)
       PROVE  AskInv'
  BY <1>22 DEF CapRises, AskInv, AskedIsOut, FreshReply,
     mapVars, refuseVars, seenVars, keyVars,
     workerVars, botVars, boundVars
<1>23. ASSUME NEW w \in Workers, WorkerCrashes(w)
       PROVE  AskInv'
  BY <1>23 DEF WorkerCrashes, AskInv, AskedIsOut, FreshReply,
     mapVars, refuseVars, seenVars, keyVars,
     workerVars, botVars, boundVars
<1>24. ASSUME NEW w \in Workers, KeysExpire(w)
       PROVE  AskInv'
  BY <1>24 DEF KeysExpire, AskInv, AskedIsOut, FreshReply,
     mapVars, refuseVars, seenVars, keyVars,
     workerVars, botVars, boundVars
<1>25. ASSUME NEW w \in Workers, WorkerBoots(w)
       PROVE  AskInv'
  BY <1>25 DEF WorkerBoots, AskInv, AskedIsOut, FreshReply,
     mapVars, refuseVars, seenVars, keyVars,
     workerVars, botVars, boundVars
<1>26. CASE BalancerRestarts
  BY <1>26, BalancerRestartsAsked
<1>27. CASE UNCHANGED vars
  BY <1>27 DEF vars, AskInv, AskedIsOut, FreshReply,
     mapVars, refuseVars, seenVars, keyVars,
     workerVars, botVars, boundVars
<1> QED
  BY <1>1, <1>2, <1>3, <1>4, <1>5, <1>6, <1>7, <1>8, <1>9, <1>10, <1>11,
     <1>12, <1>13, <1>14, <1>15, <1>16, <1>17, <1>18, <1>19, <1>20,
     <1>21, <1>22, <1>23, <1>24, <1>25, <1>26, <1>27
     DEF Next, BalancerStep, TickStep, WorkerHandles

\* A worker keeps within its cap.
LEMMA CapStep ==
    ASSUME TypeOK, CapInv, [Next]_vars
    PROVE  CapInv'
<1>1. ASSUME NEW u \in Uuids, Open(u)
      PROVE  CapInv'
  BY <1>1 DEF Open, CapInv, CountedIsHeld, WorkerWithinCap,
     mapVars, refuseVars, seenVars, keyVars,
     workerVars, botVars, boundVars
<1>2. ASSUME NEW u \in Uuids, Close(u)
      PROVE  CapInv'
  BY <1>2 DEF Close, CapInv, CountedIsHeld, WorkerWithinCap,
     mapVars, refuseVars, seenVars, keyVars,
     workerVars, botVars, boundVars
<1>3. ASSUME NEW u \in Uuids, Resend(u)
      PROVE  CapInv'
  BY <1>3 DEF Resend, CapInv, CountedIsHeld, WorkerWithinCap,
     mapVars, refuseVars, seenVars, keyVars,
     workerVars, botVars, boundVars
<1>4. CASE RouteOpen
  BY <1>4 DEF RouteOpen, CapInv, CountedIsHeld, WorkerWithinCap,
     mapVars, refuseVars, seenVars, keyVars,
     workerVars, botVars, boundVars
<1>5. CASE Ask
  BY <1>5 DEF Ask, CapInv, CountedIsHeld, WorkerWithinCap,
     mapVars, refuseVars, seenVars, keyVars,
     workerVars, botVars, boundVars
<1>6. CASE KeepRefused
  BY <1>6 DEF KeepRefused, CapInv, CountedIsHeld, WorkerWithinCap,
     mapVars, refuseVars, seenVars, keyVars,
     workerVars, botVars, boundVars
<1>7. CASE RouteAccepted
  BY <1>7 DEF RouteAccepted, CapInv, CountedIsHeld, WorkerWithinCap,
     mapVars, refuseVars, seenVars, keyVars,
     workerVars, botVars, boundVars
<1>8. CASE RouteRefused
  BY <1>8 DEF RouteRefused, CapInv, CountedIsHeld, WorkerWithinCap,
     mapVars, refuseVars, seenVars, keyVars,
     workerVars, botVars, boundVars
<1>9. CASE RouteClose
  BY <1>9 DEF RouteClose, CapInv, CountedIsHeld, WorkerWithinCap,
     mapVars, refuseVars, seenVars, keyVars,
     workerVars, botVars, boundVars
<1>10. CASE RetryNext
  BY <1>10 DEF RetryNext, CapInv, CountedIsHeld, WorkerWithinCap,
     mapVars, refuseVars, seenVars, keyVars,
     workerVars, botVars, boundVars
<1>11. CASE TickStarts
  BY <1>11 DEF TickStarts, CapInv, CountedIsHeld, WorkerWithinCap,
     mapVars, refuseVars, seenVars, keyVars,
     workerVars, botVars, boundVars
<1>12. ASSUME NEW w \in Workers, LookDead(w)
       PROVE  CapInv'
  BY <1>12 DEF LookDead, CapInv, CountedIsHeld, WorkerWithinCap,
     mapVars, refuseVars, seenVars, keyVars,
     workerVars, botVars, boundVars
<1>13. ASSUME NEW w \in Workers, LookAlive(w)
       PROVE  CapInv'
  BY <1>13 DEF LookAlive, CapInv, CountedIsHeld, WorkerWithinCap,
     mapVars, refuseVars, seenVars, keyVars,
     workerVars, botVars, boundVars
<1>14. ASSUME NEW w \in Workers, Reconcile(w)
       PROVE  CapInv'
  BY <1>14 DEF Reconcile, CapInv, CountedIsHeld, WorkerWithinCap,
     mapVars, refuseVars, seenVars, keyVars,
     workerVars, botVars, boundVars
<1>15. CASE TickEnds
  BY <1>15 DEF TickEnds, CapInv, CountedIsHeld, WorkerWithinCap,
     mapVars, refuseVars, seenVars, keyVars,
     workerVars, botVars, boundVars
<1>16. ASSUME NEW w \in Workers, InitReconciles(w)
       PROVE  CapInv'
  BY <1>16 DEF InitReconciles, CapInv, CountedIsHeld, WorkerWithinCap,
     mapVars, refuseVars, seenVars, keyVars,
     workerVars, botVars, boundVars
<1>17. CASE InitEnds
  BY <1>17 DEF InitEnds, CapInv, CountedIsHeld, WorkerWithinCap,
     mapVars, refuseVars, seenVars, keyVars,
     workerVars, botVars, boundVars
<1>18. ASSUME NEW w \in Workers, WorkerHandlesOpen(w)
       PROVE  CapInv'
  BY <1>18 DEF WorkerHandlesOpen, CapInv, CountedIsHeld, WorkerWithinCap,
     mapVars, refuseVars, seenVars, keyVars,
     workerVars, botVars, boundVars
<1>19. ASSUME NEW w \in Workers, WorkerHandlesClose(w)
       PROVE  CapInv'
  BY <1>19, WorkerHandlesCloseCap
<1>20. ASSUME NEW w \in Workers, WorkerOpens(w)
       PROVE  CapInv'
  BY <1>20, WorkerOpensCap
<1>21. ASSUME NEW w \in Workers, WorkerPublishes(w)
       PROVE  CapInv'
  BY <1>21 DEF WorkerPublishes, CapInv, CountedIsHeld, WorkerWithinCap,
     mapVars, refuseVars, seenVars, keyVars,
     workerVars, botVars, boundVars
<1>22. ASSUME NEW w \in Workers, CapRises(w)
       PROVE  CapInv'
  BY <1>22, CapRisesCap
<1>23. ASSUME NEW w \in Workers, WorkerCrashes(w)
       PROVE  CapInv'
  BY <1>23, WorkerCrashesCap
<1>24. ASSUME NEW w \in Workers, KeysExpire(w)
       PROVE  CapInv'
  BY <1>24 DEF KeysExpire, CapInv, CountedIsHeld, WorkerWithinCap,
     mapVars, refuseVars, seenVars, keyVars,
     workerVars, botVars, boundVars
<1>25. ASSUME NEW w \in Workers, WorkerBoots(w)
       PROVE  CapInv'
  BY <1>25 DEF WorkerBoots, CapInv, CountedIsHeld, WorkerWithinCap,
     mapVars, refuseVars, seenVars, keyVars,
     workerVars, botVars, boundVars
<1>26. CASE BalancerRestarts
  BY <1>26 DEF BalancerRestarts, CapInv, CountedIsHeld, WorkerWithinCap,
     mapVars, refuseVars, seenVars, keyVars,
     workerVars, botVars, boundVars
<1>27. CASE UNCHANGED vars
  BY <1>27 DEF vars, CapInv, CountedIsHeld, WorkerWithinCap,
     mapVars, refuseVars, seenVars, keyVars,
     workerVars, botVars, boundVars
<1> QED
  BY <1>1, <1>2, <1>3, <1>4, <1>5, <1>6, <1>7, <1>8, <1>9, <1>10, <1>11,
     <1>12, <1>13, <1>14, <1>15, <1>16, <1>17, <1>18, <1>19, <1>20,
     <1>21, <1>22, <1>23, <1>24, <1>25, <1>26, <1>27
     DEF Next, BalancerStep, TickStep, WorkerHandles

\* The invariant is inductive.
LEMMA InvStep == Inv /\ [Next]_vars => Inv'
BY TypeStep, RetryStep, AskStep, CapStep DEF Inv

\* Every reachable state satisfies it.
LEMMA Invariance == Spec => []Inv
BY InitInv, InvStep, PTL DEF Spec

-----------------------------------------------------------------------------
(* No open is forgotten.                                                     *)

\* One bot per account, no boot epochs in Redis and no restart of the balancer.
Lone == MaxBots <= 1 /\ BootKeys = {} /\ MaxRestarts = 0

\* The queue q holds an open of u behind place i; and every close in it whose
\* account is wanted by then has one.
OpenBehind(q, i, u) ==
    \E j \in 1..Len(q) : i < j /\ q[j].op = "open" /\ q[j].uuid = u
Reopened(q, wants) ==
    \A i \in 1..Len(q) : q[i].op = "close" /\ wants[q[i].uuid] > 0
        => OpenBehind(q, i, q[i].uuid)

\* The balancer itself has the account's open: it is queued, being routed,
\* kept or assigned.
Sure(u) ==
    \/ OpenBehind(queue, 0, u)
    \/ routing # Idle /\ routing.uuid = u
    \/ Kept(u)
    \/ assign[u] # Nobody

\* Without epochs and restarts the tick takes no assignment away.
Undisturbed ==
    /\ workerBoot = {} /\ (tick # Idle => ~tick.init /\ tick.at = Nobody)

\* The open that was sent to a worker is assigned to it for the time being.
Provisional ==
    routing # Idle /\ routing.target # Nobody => assign[routing.uuid] = routing.target

SureInv ==
    /\ Undisturbed /\ Provisional /\ Reopened(queue, wanted)
    /\ \A u \in Uuids : wanted[u] <= 1 /\ (wanted[u] > 0 => Sure(u))

\* The queue grows by a request: an open covers the closes before it, a close
\* comes when nobody wants the account any more.
LEMMA ReopenedAppend ==
    ASSUME NEW q \in Seq(Requests), NEW e \in Requests,
           NEW wants \in [Uuids -> Nat], NEW then \in [Uuids -> Nat],
           Reopened(q, wants),
           \A u \in Uuids : then[u] > 0 => wants[u] > 0 \/ (e.op = "open" /\ e.uuid = u),
           e.op = "close" => then[e.uuid] = 0
    PROVE  /\ Reopened(Append(q, e), then)
           /\ \A u \in Uuids : OpenBehind(q, 0, u) => OpenBehind(Append(q, e), 0, u)
           /\ e.op = "open" => OpenBehind(Append(q, e), 0, e.uuid)
<1> DEFINE p == Append(q, e)
<1>1. /\ Len(q) \in Nat /\ Len(p) = Len(q) + 1 /\ p[Len(q) + 1] = e
      /\ \A i \in 1..Len(q) : p[i] = q[i] /\ q[i] \in Requests
  BY AppendProperties
<1> HIDE DEF p
<1>2. \A i \in 0..Len(q), u \in Uuids : OpenBehind(q, i, u) => OpenBehind(p, i, u)
  BY <1>1 DEF OpenBehind
<1>3. e.op = "open" => \A i \in 0..Len(q) : OpenBehind(p, i, e.uuid)
  BY <1>1 DEF OpenBehind
<1>4. ASSUME NEW i \in 1..Len(p), p[i].op = "close", then[p[i].uuid] > 0
      PROVE  OpenBehind(p, i, p[i].uuid)
  <2>1. i # Len(q) + 1
    BY <1>1, <1>4
  <2>2. i \in 1..Len(q) /\ p[i] = q[i] /\ q[i].uuid \in Uuids
    BY <1>1, <2>1, SMTT(60) DEF Requests
  <2>3. CASE wants[q[i].uuid] > 0
    BY <1>2, <1>4, <2>2, <2>3 DEF Reopened
  <2>4. CASE e.op = "open" /\ e.uuid = q[i].uuid
    BY <1>3, <2>2, <2>4
  <2> QED BY <1>4, <2>2, <2>3, <2>4
<1>5. 0 \in 0..Len(q)
  BY <1>1
<1> QED BY <1>2, <1>3, <1>4, <1>5 DEF Reopened, p

\* Opens that are sent again change nothing for the closes before them.
LEMMA ReopenedConcat ==
    ASSUME NEW q \in Seq(Requests), NEW s \in Seq(Requests),
           NEW wants, Reopened(q, wants),
           \A i \in 1..Len(s) : s[i].op = "open"
    PROVE  /\ Reopened(q \o s, wants)
           /\ \A u \in Uuids : OpenBehind(q, 0, u) => OpenBehind(q \o s, 0, u)
<1> DEFINE p == q \o s
<1>1. /\ Len(q) \in Nat /\ Len(s) \in Nat /\ Len(p) = Len(q) + Len(s)
      /\ \A i \in 1..Len(p) : p[i] = IF i <= Len(q) THEN q[i] ELSE s[i - Len(q)]
  BY ConcatProperties
<1> HIDE DEF p
<1>2. \A u : \A i \in 0..Len(q) : OpenBehind(q, i, u) => OpenBehind(p, i, u)
  BY <1>1 DEF OpenBehind
<1>3. ASSUME NEW i \in 1..Len(p), p[i].op = "close", wants[p[i].uuid] > 0
      PROVE  OpenBehind(p, i, p[i].uuid)
  <2>1. i \in 1..Len(q) /\ p[i] = q[i]
    <3>1. CASE i > Len(q)
      <4>1. i - Len(q) \in 1..Len(s) /\ p[i] = s[i - Len(q)]
        BY <1>1, <3>1
      <4> QED BY <1>3, <4>1
    <3> QED BY <1>1, <3>1
  <2> QED BY <1>2, <1>3, <2>1 DEF Reopened
<1>4. 0 \in 0..Len(q)
  BY <1>1
<1> QED BY <1>2, <1>3, <1>4 DEF Reopened, p

\* The oldest request leaves the queue.
LEMMA ReopenedTail ==
    ASSUME NEW q \in Seq(Requests), q # <<>>, NEW wants, Reopened(q, wants)
    PROVE  /\ Reopened(Tail(q), wants)
           /\ \A u : OpenBehind(q, 0, u) =>
                 \/ Head(q).op = "open" /\ Head(q).uuid = u
                 \/ OpenBehind(Tail(q), 0, u)
           /\ Head(q).op = "close" /\ wants[Head(q).uuid] > 0
                 => OpenBehind(Tail(q), 0, Head(q).uuid)
<1> DEFINE p == Tail(q)
<1>1. /\ Len(q) \in Nat \ {0} /\ Len(p) = Len(q) - 1 /\ Head(q) = q[1]
      /\ \A i \in 1..Len(p) : p[i] = q[i + 1]
  BY HeadTailProperties, EmptySeq
<1> HIDE DEF p
<1>2. ASSUME NEW i \in 0..Len(p), NEW u, OpenBehind(q, i + 1, u)
      PROVE  OpenBehind(p, i, u)
  <2>1. PICK j \in 1..Len(q) : i + 1 < j /\ q[j].op = "open" /\ q[j].uuid = u
    BY <1>2 DEF OpenBehind
  <2>2. j - 1 \in 1..Len(p) /\ i < j - 1 /\ p[j - 1] = q[j]
    BY <1>1, <2>1
  <2> QED BY <2>1, <2>2 DEF OpenBehind
<1>3. ASSUME NEW i \in 1..Len(p), p[i].op = "close", wants[p[i].uuid] > 0
      PROVE  OpenBehind(p, i, p[i].uuid)
  <2>1. i + 1 \in 1..Len(q) /\ p[i] = q[i + 1] /\ i \in 0..Len(p)
    BY <1>1
  <2>2. OpenBehind(q, i + 1, q[i + 1].uuid)
    BY <1>3, <2>1 DEF Reopened
  <2> QED BY <1>2, <2>1, <2>2
<1>4. ASSUME NEW u, OpenBehind(q, 0, u)
      PROVE  \/ Head(q).op = "open" /\ Head(q).uuid = u
             \/ OpenBehind(p, 0, u)
  <2>1. PICK j \in 1..Len(q) : q[j].op = "open" /\ q[j].uuid = u
    BY <1>4 DEF OpenBehind
  <2>2. j # 1 => OpenBehind(q, 1, u)
    BY <2>1 DEF OpenBehind
  <2>3. 0 \in 0..Len(p) /\ 0 + 1 = 1
    BY <1>1
  <2>4. OpenBehind(q, 1, u) => OpenBehind(p, 0, u)
    BY <1>2, <2>3
  <2> QED BY <1>1, <2>1, <2>2, <2>4
<1>5. Head(q).op = "close" /\ wants[Head(q).uuid] > 0 => OpenBehind(p, 0, Head(q).uuid)
  <2>1. 0 \in 0..Len(p) /\ 0 + 1 = 1 /\ 1 \in 1..Len(q)
    BY <1>1
  <2> QED BY <1>1, <1>2, <2>1 DEF Reopened
<1> QED BY <1>3, <1>4, <1>5 DEF Reopened, p

\* Keeping an open loses no other; forgetting one loses only that.
LEMMA KeepKept ==
    ASSUME NEW u \in Uuids, NEW load \in Nat, refused \in Seq(Payloads),
           refused' = Keep(u, load)
    PROVE  Kept(u)' /\ \A v : Kept(v) => Kept(v)'
<1> DEFINE e == [uuid |-> u, load |-> load]
<1>1. Len(refused) \in Nat /\ DOMAIN refused = 1..Len(refused)
  OBVIOUS
<1>2. CASE Kept(u)
  <2>1. PlaceOf(u) \in 1..Len(refused) /\ refused[PlaceOf(u)].uuid = u
    BY <1>1, <1>2 DEF Kept, PlaceOf
  <2>2. refused' = [refused EXCEPT ![PlaceOf(u)] = e]
    BY <1>2 DEF Keep
  <2>3. DOMAIN refused' = 1..Len(refused)
    BY <1>1, <2>2
  <2>4. \A i \in 1..Len(refused) : refused'[i].uuid = refused[i].uuid
    BY <1>1, <2>1, <2>2
  <2> QED BY <1>1, <1>2, <2>3, <2>4 DEF Kept
<1>3. CASE ~Kept(u)
  <2>1. refused' = Append(refused, e)
    BY <1>3 DEF Keep
  <2>2. e.uuid = u
    OBVIOUS
  <2> HIDE DEF e
  <2>3. /\ DOMAIN refused' = 1..(Len(refused) + 1)
        /\ refused'[Len(refused) + 1] = e
        /\ \A i \in 1..Len(refused) : refused'[i] = refused[i]
    BY <1>1, <2>1
  <2>4. Len(refused) + 1 \in 1..(Len(refused) + 1)
    BY <1>1
  <2>5. Kept(u)'
    BY <2>2, <2>3, <2>4 DEF Kept
  <2>6. \A v : Kept(v) => Kept(v)'
    BY <1>1, <2>3 DEF Kept
  <2> QED BY <2>5, <2>6
<1> QED BY <1>2, <1>3

LEMMA WithoutKept ==
    ASSUME NEW u \in Uuids, refused \in Seq(Payloads), refused' = Without(u)
    PROVE  \A v : v # u /\ Kept(v) => Kept(v)'
<1>1. Len(refused) \in Nat /\ DOMAIN refused = 1..Len(refused)
  OBVIOUS
<1>2. CASE Kept(u)
  <2> DEFINE p == PlaceOf(u)
  <2>1. p \in 1..Len(refused) /\ refused[p].uuid = u
    BY <1>1, <1>2 DEF Kept, PlaceOf
  <2> HIDE DEF p
  <2>2. refused' = RemoveAt(refused, p)
    BY <1>2 DEF Without, p
  <2>3. /\ refused' \in Seq(Payloads) /\ Len(refused') = Len(refused) - 1
        /\ \A j \in 1..(Len(refused) - 1) :
              refused'[j] = IF j < p THEN refused[j] ELSE refused[j + 1]
    BY <2>1, <2>2, RemoveAtFacts
  <2>4. DOMAIN refused' = 1..(Len(refused) - 1)
    BY <2>3
  <2>5. ASSUME NEW v, v # u, NEW i \in DOMAIN refused, refused[i].uuid = v
        PROVE  \E j \in DOMAIN refused' : refused'[j].uuid = v
    <3>1. CASE i < p
      <4>1. i \in 1..(Len(refused) - 1) /\ refused'[i] = refused[i]
        BY <1>1, <2>1, <2>3, <3>1
      <4> QED BY <2>4, <2>5, <4>1
    <3>2. CASE i > p
      <4>1. i - 1 \in 1..(Len(refused) - 1) /\ ~(i - 1 < p) /\ i - 1 + 1 = i
        BY <1>1, <2>1, <3>2
      <4>2. refused'[i - 1] = refused[i]
        BY <2>3, <4>1
      <4> QED BY <2>4, <2>5, <4>1, <4>2
    <3>3. i # p
      BY <2>1, <2>5
    <3> QED BY <1>1, <2>1, <3>1, <3>2, <3>3
  <2> QED BY <2>5 DEF Kept
<1>3. CASE ~Kept(u)
  BY <1>3 DEF Without, Kept
<1> QED BY <1>2, <1>3

\* A step that leaves queue, mutex, kept opens and assignments alone.
LEMMA SureKept ==
    ASSUME SureInv, Undisturbed', UNCHANGED <<queue, refused, assign, wanted>>,
           routing' # Idle <=> routing # Idle,
           routing # Idle => /\ routing'.uuid = routing.uuid
                             /\ routing'.target = routing.target
    PROVE  SureInv'
  BY DEF SureInv, Sure, Provisional, Kept

\* The step adds a request to the queue.
LEMMA SureAppend ==
    ASSUME TypeOK, SureInv, NEW e \in Requests, queue' = Append(queue, e),
           wanted' \in [Uuids -> Nat], \A u \in Uuids : wanted'[u] <= 1,
           \A u \in Uuids : wanted'[u] > 0 =>
              \/ wanted[u] > 0 /\ (Kept(u) => Kept(u)')
              \/ e.op = "open" /\ e.uuid = u,
           e.op = "close" => wanted'[e.uuid] = 0,
           UNCHANGED <<assign, routing, tick, workerBoot>>
    PROVE  SureInv'
<1>1. /\ Reopened(queue', wanted')
      /\ \A u \in Uuids : OpenBehind(queue, 0, u) => OpenBehind(queue', 0, u)
      /\ e.op = "open" => OpenBehind(queue', 0, e.uuid)
  <2>1. /\ queue \in Seq(Requests) /\ wanted \in [Uuids -> Nat]
        /\ Reopened(queue, wanted)
        /\ \A u \in Uuids : wanted'[u] > 0 => wanted[u] > 0 \/ (e.op = "open" /\ e.uuid = u)
    BY DEF TypeOK, SureInv
  <2> QED BY <2>1, ReopenedAppend
<1>2. Undisturbed' /\ Provisional'
  BY DEF SureInv, Undisturbed, Provisional
<1>3. ASSUME NEW u \in Uuids, wanted'[u] > 0 PROVE Sure(u)'
  BY <1>1, <1>3 DEF SureInv, Sure
<1> QED BY <1>1, <1>2, <1>3 DEF SureInv

LEMMA OpenSure ==
    ASSUME TypeOK, Lone, SureInv, NEW u \in Uuids, Open(u)
    PROVE  SureInv'
<1> DEFINE e == Request("open", u, sent + 1, "bot")
<1>1. e \in Requests /\ e.op = "open" /\ e.uuid = u
  BY DEF TypeOK, Request, Requests
<1>2. queue' = Append(queue, e) /\ UNCHANGED <<assign, routing, tick, workerBoot, refused>>
  BY DEF Open, mapVars, seenVars, refuseVars
<1>3. /\ wanted' \in [Uuids -> Nat] /\ wanted[u] < 1
      /\ \A v \in Uuids : wanted'[v] = IF v = u THEN wanted[u] + 1 ELSE wanted[v]
  BY BalancerAssumption DEF TypeOK, Open, Lone
<1>4. \A v \in Uuids : wanted'[v] <= 1
  <2>1. \A v \in Uuids : wanted[v] \in Nat /\ wanted[v] <= 1
    BY DEF SureInv, TypeOK
  <2> QED BY <1>3, <2>1
<1>5. \A v \in Uuids : wanted'[v] > 0 => \/ wanted[v] > 0 /\ (Kept(v) => Kept(v)')
                                         \/ e.op = "open" /\ e.uuid = v
  BY <1>1, <1>2, <1>3 DEF Kept
<1> HIDE DEF e
<1> QED BY <1>1, <1>2, <1>3, <1>4, <1>5, SureAppend

LEMMA CloseSure ==
    ASSUME TypeOK, SureInv, NEW u \in Uuids, Close(u)
    PROVE  SureInv'
<1> DEFINE e == Request("close", u, 0, "bot")
<1>1. e \in Requests /\ e.op = "close" /\ e.uuid = u
  BY DEF TypeOK, Request, Requests
<1>2. UNCHANGED <<assign, routing, tick, workerBoot>> /\ refused' = Without(u)
  BY DEF Close, mapVars, seenVars
<1>3. /\ wanted' \in [Uuids -> Nat] /\ wanted'[u] = 0
      /\ \A v \in Uuids : v # u => wanted'[v] = wanted[v]
  BY DEF TypeOK, Close, SureInv
<1>4. \A v \in Uuids : wanted'[v] <= 1
  <2>1. \A v \in Uuids : wanted[v] \in Nat /\ wanted[v] <= 1
    BY DEF SureInv, TypeOK
  <2> QED BY <1>3, <2>1
<1>5. \A v \in Uuids : wanted'[v] > 0 => wanted[v] > 0 /\ (Kept(v) => Kept(v)')
  <2>1. \A v : v # u /\ Kept(v) => Kept(v)'
    BY <1>2, WithoutKept DEF TypeOK
  <2> QED BY <1>3, <2>1
<1>6. CASE queue' = Append(queue, e)
  <2> HIDE DEF e
  <2> QED BY <1>1, <1>2, <1>3, <1>4, <1>5, <1>6, SureAppend
<1>7. CASE queue' = queue
  <2>1. Undisturbed' /\ Provisional'
    BY <1>2 DEF SureInv, Undisturbed, Provisional
  <2>2. Reopened(queue, wanted')
    <3>1. \A i \in 1..Len(queue) : queue[i] \in Requests
      BY DEF TypeOK
    <3>2. \A i \in 1..Len(queue) : queue[i].uuid \in Uuids
      BY <3>1 DEF Requests
    <3> QED BY <1>5, <3>2 DEF SureInv, Reopened
  <2>3. ASSUME NEW v \in Uuids, wanted'[v] > 0 PROVE Sure(v)'
    BY <1>2, <1>5, <1>7, <2>3 DEF SureInv, Sure
  <2> QED BY <1>4, <1>7, <2>1, <2>2, <2>3 DEF SureInv
<1>8. queue' = queue \/ queue' = Append(queue, e)
  BY DEF Close
<1> QED BY <1>6, <1>7, <1>8

LEMMA ResendSure ==
    ASSUME TypeOK, SureInv, NEW u \in Uuids, Resend(u)
    PROVE  SureInv'
<1> DEFINE s == [i \in 1..wanted[u] |-> Request("open", u, sent, "bot")]
<1>1. s \in Seq(Requests) /\ \A i \in 1..Len(s) : s[i].op = "open"
  <2>1. Request("open", u, sent, "bot") \in Requests /\ wanted[u] \in Nat
    BY DEF TypeOK, Request, Requests
  <2>2. Request("open", u, sent, "bot").op = "open"
    BY DEF Request
  <2> DEFINE e == Request("open", u, sent, "bot")
  <2> HIDE DEF e
  <2>3. [i \in 1..wanted[u] |-> e] \in Seq(Requests)
    BY <2>1, IsASeq DEF e
  <2>4. Len([i \in 1..wanted[u] |-> e]) = wanted[u]
    BY <2>1, <2>3
  <2> QED BY <2>2, <2>3, <2>4 DEF e
<1>2. queue' = queue \o s /\ UNCHANGED <<assign, routing, tick, workerBoot, refused, wanted>>
  BY DEF Resend, mapVars, seenVars, refuseVars
<1> HIDE DEF s
<1>3. /\ Reopened(queue', wanted)
      /\ \A v \in Uuids : OpenBehind(queue, 0, v) => OpenBehind(queue', 0, v)
  BY <1>1, <1>2, ReopenedConcat DEF TypeOK, SureInv
<1>4. Undisturbed' /\ Provisional'
  BY <1>2 DEF SureInv, Undisturbed, Provisional
<1> QED BY <1>2, <1>3, <1>4 DEF SureInv, Sure, Kept

LEMMA RetryNextSure ==
    ASSUME TypeOK, SureInv, RetryNext
    PROVE  SureInv'
<1>1. UNCHANGED <<assign, routing, tick, workerBoot, refused, wanted>>
  BY DEF RetryNext, mapVars, seenVars, botVars
<1>2. CASE queue' = queue
  BY <1>1, <1>2, SureKept DEF SureInv, Undisturbed
<1>3. CASE queue' # queue
  <2> DEFINE p == Head(retry.left)
             e == Request("open", p.uuid, p.load, "retry")
  <2>1. retry # Idle /\ retry.left # <<>> /\ queue' = Append(queue, e)
    BY <1>3 DEF RetryNext
  <2>2. p \in Payloads
    BY <2>1 DEF TypeOK, Passes
  <2>3. e \in Requests /\ e.op = "open"
    BY <2>2 DEF Payloads, Request, Requests
  <2>4. wanted' \in [Uuids -> Nat] /\ \A v \in Uuids : wanted'[v] <= 1
    BY <1>1 DEF TypeOK, SureInv
  <2>5. \A v \in Uuids : wanted'[v] > 0 => wanted[v] > 0 /\ (Kept(v) => Kept(v)')
    BY <1>1 DEF Kept
  <2> HIDE DEF e
  <2> QED BY <1>1, <2>1, <2>3, <2>4, <2>5, SureAppend
<1> QED BY <1>2, <1>3

LEMMA RouteOpenSure ==
    ASSUME TypeOK, SureInv, RouteOpen
    PROVE  SureInv'
<1>1. /\ queue \in Seq(Requests) /\ queue # <<>> /\ queue' = Tail(queue)
      /\ Head(queue).op = "open" /\ Reopened(queue, wanted)
  BY DEF RouteOpen, Granted, TypeOK, SureInv
<1>2. /\ Reopened(queue', wanted)
      /\ \A u : OpenBehind(queue, 0, u) => Head(queue).uuid = u \/ OpenBehind(queue', 0, u)
  BY <1>1, ReopenedTail
<1>3. /\ routing' # Idle /\ routing'.uuid = Head(queue).uuid /\ routing'.target = Nobody
      /\ routing = Idle
  <2>1. routing' \in Routings
    <3>1. Head(queue) \in Requests
      BY <1>1
    <3> QED BY <3>1 DEF RouteOpen, Requests, Routings
  <2> QED BY <2>1, BalancerAssumption DEF RouteOpen, Granted
<1>4. UNCHANGED <<assign, tick, workerBoot, refused, wanted>>
  BY DEF RouteOpen, mapVars, seenVars, botVars, refuseVars
<1>5. Undisturbed' /\ Provisional'
  BY <1>3, <1>4 DEF SureInv, Undisturbed, Provisional
<1>6. ASSUME NEW u \in Uuids, wanted'[u] > 0 PROVE Sure(u)'
  BY <1>2, <1>3, <1>4, <1>6 DEF SureInv, Sure, Kept
<1> QED BY <1>2, <1>4, <1>5, <1>6 DEF SureInv

LEMMA AskSure ==
    ASSUME TypeOK, SureInv, Ask
    PROVE  SureInv'
<1>1. routing \in Routings /\ routing.uuid \in Uuids
  BY DEF TypeOK, Ask, Routings
<1>2. PICK w : /\ w \in Targets(routing)
               /\ assign' = [assign EXCEPT ![routing.uuid] = w]
               /\ routing' = [routing EXCEPT !.target = w]
  BY DEF Ask
<1>3. w \in Workers
  <2>1. assign[routing.uuid] \in Workers \cup {Nobody}
    BY <1>1 DEF TypeOK
  <2> QED BY <1>2, <2>1 DEF Targets, LeastLoaded, Takers
<1>4. /\ routing' \in Routings /\ routing' # Idle /\ routing'.uuid = routing.uuid
      /\ routing'.target = w
  BY <1>1, <1>2, <1>3, BalancerAssumption DEF Routings
<1>5. /\ assign'[routing.uuid] = w /\ w # Nobody
      /\ \A u \in Uuids : u # routing.uuid => assign'[u] = assign[u]
  BY <1>1, <1>2, <1>3, BalancerAssumption DEF TypeOK
<1>6. UNCHANGED <<queue, tick, workerBoot, refused, wanted>>
  BY DEF Ask, seenVars, botVars, refuseVars
<1>7. Undisturbed' /\ Provisional'
  BY <1>4, <1>5, <1>6 DEF SureInv, Undisturbed, Provisional
<1>8. ASSUME NEW u \in Uuids, wanted'[u] > 0 PROVE Sure(u)'
  BY <1>4, <1>5, <1>6, <1>8 DEF SureInv, Sure, Kept
<1> QED BY <1>6, <1>7, <1>8 DEF SureInv

LEMMA RouteRefusedSure ==
    ASSUME TypeOK, SureInv, RouteRefused
    PROVE  SureInv'
<1>1. routing \in Routings /\ routing.uuid \in Uuids /\ routing.target \in Workers
  BY DEF TypeOK, RouteRefused, Routings
<1>2. /\ routing' \in Routings /\ routing'.uuid = routing.uuid /\ routing'.target = Nobody
  BY <1>1 DEF RouteRefused, Routings
<1>3. routing' # Idle
  BY <1>2, BalancerAssumption
<1>4. \A u \in Uuids : u # routing.uuid => assign'[u] = assign[u]
  BY <1>1 DEF TypeOK, RouteRefused
<1>5. UNCHANGED <<queue, tick, workerBoot, refused, wanted>>
  BY DEF RouteRefused, seenVars, botVars, refuseVars
<1>6. Undisturbed' /\ Provisional'
  BY <1>2, <1>5 DEF SureInv, Undisturbed, Provisional
<1>7. ASSUME NEW u \in Uuids, wanted'[u] > 0 PROVE Sure(u)'
  BY <1>2, <1>3, <1>4, <1>5, <1>7 DEF SureInv, Sure, Kept
<1> QED BY <1>5, <1>6, <1>7 DEF SureInv

LEMMA KeepRefusedSure ==
    ASSUME TypeOK, SureInv, KeepRefused
    PROVE  SureInv'
<1>1. routing \in Routings /\ routing.uuid \in Uuids /\ routing.load \in Nat
  BY DEF TypeOK, KeepRefused, Routings
<1>2. PICK q \in Uuids : q = routing.uuid
  BY <1>1
<1>3. Kept(q)' /\ \A v : Kept(v) => Kept(v)'
  <2>1. refused \in Seq(Payloads) /\ refused' = Keep(q, routing.load)
    BY <1>2 DEF KeepRefused, TypeOK
  <2> QED BY <1>1, <2>1, KeepKept
<1>4. UNCHANGED <<queue, assign, tick, workerBoot, wanted>> /\ routing' = Idle
  BY DEF KeepRefused, seenVars, botVars, mapVars
<1>5. Undisturbed' /\ Provisional'
  BY <1>4 DEF SureInv, Undisturbed, Provisional
<1>6. ASSUME NEW u \in Uuids, wanted'[u] > 0 PROVE Sure(u)'
  BY <1>2, <1>3, <1>4, <1>6 DEF SureInv, Sure
<1> QED BY <1>4, <1>5, <1>6 DEF SureInv

LEMMA RouteAcceptedSure ==
    ASSUME TypeOK, FreshReply, SureInv, RouteAccepted
    PROVE  SureInv'
<1>1. routing \in Routings /\ routing.uuid \in Uuids /\ routing.target \in Workers
  BY DEF TypeOK, FreshReply, RouteAccepted, Routings
<1>2. assign[routing.uuid] # Nobody
  BY <1>1, BalancerAssumption DEF SureInv, Provisional, RouteAccepted
<1>3. \A v : v # routing.uuid /\ Kept(v) => Kept(v)'
  BY <1>1, WithoutKept DEF RouteAccepted, TypeOK
<1>4. UNCHANGED <<queue, assign, tick, workerBoot, wanted>> /\ routing' = Idle
  BY DEF RouteAccepted, seenVars, botVars
<1>5. Undisturbed' /\ Provisional'
  BY <1>4 DEF SureInv, Undisturbed, Provisional
<1>6. ASSUME NEW u \in Uuids, wanted'[u] > 0 PROVE Sure(u)'
  BY <1>2, <1>3, <1>4, <1>6 DEF SureInv, Sure
<1> QED BY <1>4, <1>5, <1>6 DEF SureInv

\* A close of an account that is wanted again has its open behind it.
LEMMA RouteCloseSure ==
    ASSUME TypeOK, SureInv, RouteClose
    PROVE  SureInv'
<1> DEFINE c == Head(queue).uuid
<1>1. /\ queue \in Seq(Requests) /\ queue # <<>> /\ queue' = Tail(queue)
      /\ Head(queue).op = "close" /\ Reopened(queue, wanted) /\ c \in Uuids
  <2>1. queue \in Seq(Requests) /\ queue # <<>>
    BY DEF RouteClose, Granted, TypeOK
  <2>2. Head(queue) \in Requests
    BY <2>1
  <2>3. c \in Uuids
    BY <2>2 DEF Requests
  <2> QED BY <2>1, <2>3 DEF RouteClose, Granted, SureInv
<1>2. /\ Reopened(queue', wanted)
      /\ \A u : OpenBehind(queue, 0, u) => OpenBehind(queue', 0, u)
      /\ wanted[c] > 0 => OpenBehind(queue', 0, c)
  BY <1>1, ReopenedTail
<1>3. UNCHANGED <<tick, workerBoot, wanted>> /\ routing' = Idle /\ refused' = Without(c)
  BY DEF RouteClose, Granted, seenVars, botVars
<1>4. \A v : v # c /\ Kept(v) => Kept(v)'
  BY <1>1, <1>3, WithoutKept DEF TypeOK
<1>5. \A u \in Uuids : u # c => assign'[u] = assign[u]
  BY DEF RouteClose, mapVars, TypeOK
<1>6. Undisturbed' /\ Provisional' /\ routing = Idle
  BY <1>3 DEF SureInv, Undisturbed, Provisional, RouteClose, Granted
<1> HIDE DEF c
<1>7. ASSUME NEW u \in Uuids, wanted'[u] > 0 PROVE Sure(u)'
  BY <1>2, <1>3, <1>4, <1>5, <1>6, <1>7 DEF SureInv, Sure
<1> QED BY <1>2, <1>3, <1>6, <1>7 DEF SureInv

LEMMA WorkerHandlesOpenSure ==
    ASSUME TypeOK, AskInv, SureInv, NEW w \in Workers, WorkerHandlesOpen(w)
    PROVE  SureInv'
<1>1. UNCHANGED <<queue, refused, assign, wanted, tick, workerBoot>>
  BY DEF WorkerHandlesOpen, mapVars, refuseVars, seenVars, botVars
<1>2. Undisturbed'
  BY <1>1 DEF SureInv, Undisturbed
<1>3. CASE routing' = routing
  BY <1>1, <1>2, <1>3, SureKept
<1>4. CASE Head(inbox[w]).asks
  <2>1. inbox[w] \in Seq(Messages) /\ inbox[w] # <<>>
    BY DEF TypeOK, WorkerHandlesOpen
  <2>2. 1 \in DOMAIN inbox[w] /\ Head(inbox[w]) = inbox[w][1]
    BY <2>1
  <2>3. routing # Idle /\ routing \in Routings
    BY <1>4, <2>2 DEF AskInv, AskedIsOut, TypeOK
  <2>4. PICK a \in {"yes", "no"} : routing' = [routing EXCEPT !.reply = a]
    BY <1>4 DEF WorkerHandlesOpen
  <2>5. /\ routing' \in Routings /\ routing'.uuid = routing.uuid
        /\ routing'.target = routing.target
    BY <2>3, <2>4 DEF Routings
  <2>6. routing' # Idle
    BY <2>5, BalancerAssumption
  <2> QED BY <1>1, <1>2, <2>3, <2>5, <2>6, SureKept
<1> QED BY <1>3, <1>4 DEF WorkerHandlesOpen

\* The balancer keeps every open that is wanted.
LEMMA SureStep ==
    ASSUME Inv, Lone, SureInv, [Next]_vars
    PROVE  SureInv'
<1> USE DEF Inv
<1>1. ASSUME NEW u \in Uuids, Open(u) \/ Close(u) \/ Resend(u)
      PROVE  SureInv'
  BY <1>1, OpenSure, CloseSure, ResendSure
<1>2. CASE RouteOpen \/ Ask \/ KeepRefused \/ RouteRefused \/ RouteClose \/ RetryNext
  BY <1>2, RouteOpenSure, AskSure, KeepRefusedSure, RouteRefusedSure, RouteCloseSure,
     RetryNextSure
<1>3. CASE RouteAccepted
  BY <1>3, RouteAcceptedSure DEF AskInv
<1>4. ASSUME TickStarts \/ TickEnds \/ \E w \in Workers : LookDead(w) \/ LookAlive(w)
      PROVE  SureInv'
  <2>1. UNCHANGED <<queue, refused, assign, wanted, routing>> /\ Undisturbed'
    <3>1. CASE TickStarts
      BY <3>1, BalancerAssumption DEF TickStarts, mapVars, refuseVars, seenVars, botVars, SureInv, Undisturbed
    <3>2. CASE TickEnds
      BY <3>2 DEF TickEnds, mapVars, refuseVars, seenVars, botVars, SureInv, Undisturbed
    <3>3. ASSUME NEW w \in Workers, LookDead(w)
          PROVE  UNCHANGED <<queue, refused, assign, wanted, routing>> /\ Undisturbed'
      <4>1. w \notin workerBoot /\ tick # Idle /\ tick.at = Nobody /\ ~tick.init /\ tick \in Ticks
        BY <3>3 DEF LookDead, Look, SureInv, Undisturbed, TypeOK
      <4>2. tick'.at = Nobody /\ ~tick'.init
        BY <3>3, <4>1 DEF LookDead, Ticks
      <4> QED BY <3>3, <4>1, <4>2 DEF LookDead, mapVars, refuseVars, SureInv, Undisturbed
    <3>4. ASSUME NEW w \in Workers, LookAlive(w)
          PROVE  UNCHANGED <<queue, refused, assign, wanted, routing>> /\ Undisturbed'
      <4>1. BootKeys = {} /\ tick # Idle /\ ~tick.init /\ tick \in Ticks
        BY <3>4 DEF LookAlive, Look, Lone, TypeOK
      <4>2. tick'.at = Nobody /\ ~tick'.init
        BY <3>4, <4>1 DEF LookAlive, Ticks
      <4> QED BY <3>4, <4>1, <4>2 DEF LookAlive, mapVars, refuseVars, botVars, SureInv, Undisturbed
    <3> QED BY <1>4, <3>1, <3>2, <3>3, <3>4
  <2> QED BY <2>1, SureKept
<1>5. /\ ~BalancerRestarts /\ ~InitEnds
      /\ \A w \in Workers : ~Reconcile(w) /\ ~InitReconciles(w)
  BY BalancerAssumption, SMTT(60)
     DEF Lone, TypeOK, BalancerRestarts, InitEnds, InitReconciles, Initialising,
         Reconcile, SureInv, Undisturbed
<1>6. ASSUME NEW w \in Workers, WorkerHandlesOpen(w)
      PROVE  SureInv'
  BY <1>6, WorkerHandlesOpenSure
<1>7. ASSUME NEW w \in Workers,
             \/ WorkerHandlesClose(w) \/ WorkerOpens(w) \/ WorkerPublishes(w)
             \/ CapRises(w) \/ WorkerCrashes(w) \/ KeysExpire(w) \/ WorkerBoots(w)
      PROVE  SureInv'
  <2>1. UNCHANGED <<queue, refused, assign, wanted, routing, tick, workerBoot>>
    BY <1>7 DEF WorkerHandlesClose, WorkerOpens, WorkerPublishes, CapRises,
       WorkerCrashes, KeysExpire, WorkerBoots, mapVars, refuseVars, seenVars, botVars
  <2> QED BY <2>1, SureKept DEF SureInv, Undisturbed
<1>8. CASE UNCHANGED vars
  BY <1>8, SureKept DEF vars, mapVars, refuseVars, seenVars, botVars, SureInv, Undisturbed
<1> QED BY <1>1, <1>2, <1>3, <1>4, <1>5, <1>6, <1>7, <1>8
     DEF Next, BalancerStep, TickStep, WorkerHandles

-----------------------------------------------------------------------------
(* Theorems.                                                                 *)

\* Every reachable state of the balancer and its workers is well typed.
THEOREM BalancerTypeCorrect == Spec => []TypeOK
<1>1. Inv => TypeOK
  BY DEF Inv
<1> QED
  BY <1>1, Invariance, PTL

\* However ticks, passes and routes interleave, one pass over the refused opens
\* runs, and it asks for the mutex once at a time.
THEOREM OnePassAtATime == Spec => []OneRetryAtATime
<1>1. Inv => OneRetryAtATime
  BY DEF Inv, RetryInv
<1> QED
  BY <1>1, Invariance, PTL

\* Whatever the balancer believes and however many opens a worker accepted
\* before their turn, it holds no more accounts than its cap.
THEOREM CapHolds == Spec => []WorkerWithinCap
<1>1. Inv => WorkerWithinCap
  BY DEF Inv, CapInv
<1> QED
  BY <1>1, Invariance, PTL

\* With one bot per account, workers without boot epochs and no restart of the
\* balancer, every account its bot wants is queued, being routed, kept or
\* assigned, whatever workers crash, refuse, boot and let time out.
THEOREM NothingForgotten == Spec => (Lone => []NoOpenForgotten)
<1>1. Init /\ Lone => SureInv
  <2> SUFFICES ASSUME Init PROVE SureInv
    OBVIOUS
  <2> QED BY DEF Init, SureInv, Undisturbed, Provisional, Reopened
<1>2. (Inv /\ Lone /\ SureInv) /\ [Next]_vars => (Inv /\ Lone /\ SureInv)'
  BY InvStep, SureStep DEF Lone
<1>3. Inv /\ SureInv => NoOpenForgotten
  <2> SUFFICES ASSUME Inv, SureInv, NEW u \in Uuids, wanted[u] > 0
               PROVE  Handled(u)
    BY DEF NoOpenForgotten
  <2>1. Sure(u) /\ queue \in Seq(Requests)
    BY DEF SureInv, Inv, TypeOK
  <2> QED BY <2>1 DEF Sure, OpenBehind, Handled
<1> QED BY <1>1, <1>2, <1>3, InitInv, PTL DEF Spec

=============================================================================
