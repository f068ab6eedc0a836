----------------------------- MODULE HermesProofs -----------------------------
(***************************************************************************)
(* Proofs about Hermes and the heartbeats below it, for any finite set of  *)
(* workers, any services, any hash of the rows and any bounds.             *)
(***************************************************************************)
EXTENDS Hermes, FiniteSetTheorems, TLAPS

(***************************************************************************)
(* filter_thread_work: two workers that saw the same rows have disjoint    *)
(* shares.                                                                 *)
(***************************************************************************)
\* A worker's place among those seen is the number of smaller ones, so two of
\* them have different places.
LEMMA PlacesDiffer ==
  ASSUME NEW S \in SUBSET Nat, IsFiniteSet(S), NEW v \in S, NEW w \in S, v < w
  PROVE  Cardinality({u \in S : u < v}) # Cardinality({u \in S : u < w})
  <1> DEFINE low == {u \in S : u < v}
             high == {u \in S : u < w}
  <1>1. \A u \in S : u \in Nat
    OBVIOUS
  <1>2. \A u \in S : u < v => u < w
    BY <1>1
  <1>3. ~(v < v)
    BY <1>1
  <1>4. low \subseteq high /\ high \subseteq S
    BY <1>2
  <1>5. low # high
    BY <1>3
  <1> HIDE DEF low, high
  <1>6. IsFiniteSet(high)
    BY <1>4, FS_Subset
  <1>7. Cardinality(low) # Cardinality(high)
    BY <1>4, <1>5, <1>6, FS_Subset
  <1> QED
    BY <1>7 DEF low, high

\* Where two workers are seen nobody is alone.
LEMMA TwoAreSeen ==
  ASSUME NEW S, IsFiniteSet(S), NEW v \in S, NEW w \in S, v # w
  PROVE  Cardinality(S) - 1 > 0
  <1>1. IsFiniteSet({v, w}) /\ Cardinality({v, w}) = 2
    <2>1. IsFiniteSet({v}) /\ Cardinality({v}) = 1
      BY FS_Singleton
    <2>2. {v, w} = {v} \cup {w} /\ w \notin {v}
      OBVIOUS
    <2> QED
      BY <2>1, <2>2, FS_AddElement
  <1>2. {v, w} \subseteq S
    OBVIOUS
  <1>3. 2 <= Cardinality(S)
    BY <1>1, <1>2, FS_Subset
  <1>4. Cardinality(S) \in Nat
    BY FS_CardinalityType
  <1> QED
    BY <1>3, <1>4

\* No row is assigned to two workers of one view.
LEMMA SharesAreDisjoint ==
  ASSUME NEW v \in Workers, NEW w \in Workers, v # w, NEW a \in Views, NEW b \in Views,
         a.seen = b.seen, v \in a.seen, w \in a.seen, NEW h \in Nat
  PROVE  ~(Assigned(a, v, h) /\ Assigned(b, w, h))
  <1> DEFINE S == a.seen
  <1>1. S \in SUBSET Nat /\ S \subseteq Workers /\ v \in Nat /\ w \in Nat
    BY HeartbeatAssumption DEF Views
  <1>2. IsFiniteSet(S)
    BY <1>1, HeartbeatAssumption, FS_Subset
  <1>3. Cardinality(S) - 1 > 0
    BY <1>2, TwoAreSeen
  <1>4. Cardinality({u \in S : u < v}) # Cardinality({u \in S : u < w})
    <2>1. CASE v < w
      BY <2>1, <1>1, <1>2, PlacesDiffer
    <2>2. CASE w < v
      <3>1. Cardinality({u \in S : u < w}) # Cardinality({u \in S : u < v})
        BY <2>2, <1>1, <1>2, PlacesDiffer
      <3> QED
        BY <3>1
    <2> QED
      BY <2>1, <2>2, <1>1
  <1> QED
    BY <1>3, <1>4 DEF Assigned

(***************************************************************************)
(* The workers' views and their batches.                                   *)
(***************************************************************************)
\* A worker runs exactly while its process does, and is in its own view.  The
\* rows of its batch exist or were archived, and fell to it in the view it
\* still has: the view changes only between two iterations.
Sharing ==
  /\ \A w \in Workers : w \in alive <=> pc[w] # "down"
  /\ \A w \in Workers : pc[w] # "down" => w \in view[w].seen
  /\ \A w \in Workers : job[w].batch \subseteq DOMAIN service
  /\ \A w \in Workers : \A i \in job[w].batch : Assigned(view[w], w, Hash[i])

\* A renewal keeps the types of rows and views, and puts the worker in its own.
LEMMA LiveTyped ==
  ASSUME HeartbeatTypeOK, NEW w \in Workers, NEW rows \in [Workers -> Ages \cup {NoBeat}],
         LiveOn(w, rows)
  PROVE  /\ beat' \in [Workers -> Ages \cup {NoBeat}]
         /\ view' \in [Workers -> Views]
         /\ w \in view'[w].seen
         /\ \A v \in Workers : v # w => view'[v] = view[v]
  <1>1. 0 \in Ages /\ 0 \in 0 .. Renewal + 1
    BY HeartbeatAssumption DEF Ages
  <1>2. [seen |-> NotOld(rows) \cup {w}, age |-> 0] \in Views
    BY <1>1 DEF Views, NotOld
  <1>3. view' = [view EXCEPT ![w] = [seen |-> NotOld(rows) \cup {w}, age |-> 0]]
    BY DEF LiveOn
  <1>4. beat' \in [Workers -> Ages \cup {NoBeat}]
    BY <1>1 DEF LiveOn
  <1>5. view' \in [Workers -> Views]
    BY <1>2, <1>3 DEF HeartbeatTypeOK
  <1>6. view'[w].seen = NotOld(rows) \cup {w}
    BY <1>3 DEF HeartbeatTypeOK
  <1> QED
    BY <1>3, <1>4, <1>5, <1>6 DEF HeartbeatTypeOK

\* So does the handler, whether or not the renewal was due.
LEMMA HandlerTyped ==
  ASSUME HeartbeatTypeOK, NEW w \in Workers, NEW force \in BOOLEAN, w \in view[w].seen,
         HandlerLive(w, force)
  PROVE  /\ beat' \in [Workers -> Ages \cup {NoBeat}]
         /\ view' \in [Workers -> Views]
         /\ w \in view'[w].seen
         /\ \A v \in Workers : v # w => view'[v] = view[v]
  <1>1. CASE force \/ view[w].age > Renewal
    <2>1. LiveOn(w, beat)
      BY <1>1 DEF HandlerLive
    <2>2. beat \in [Workers -> Ages \cup {NoBeat}]
      BY DEF HeartbeatTypeOK
    <2> QED
      BY <2>1, <2>2, LiveTyped
  <1>2. CASE ~(force \/ view[w].age > Renewal)
    BY <1>2 DEF HandlerLive, HeartbeatTypeOK
  <1> QED
    BY <1>1, <1>2

\* Time passes without changing what a worker has seen.
LEMMA AgeTyped ==
  ASSUME HeartbeatTypeOK, Age
  PROVE  HeartbeatTypeOK' /\ \A w \in Workers : view'[w].seen = view[w].seen
  <1>1. \A w \in Workers : Older(beat[w], Expiration) \in Ages \cup {NoBeat}
    BY HeartbeatAssumption DEF HeartbeatTypeOK, Older, Ages, NoBeat
  <1>2. \A w \in Workers : Older(view[w].age, Renewal) \in 0 .. Renewal + 1
    BY HeartbeatAssumption DEF HeartbeatTypeOK, Older, Views, NoBeat
  <1>3. \A w \in Workers : view'[w] = [view[w] EXCEPT !.age = Older(view[w].age, Renewal)]
    BY DEF Age
  <1>4. \A w \in Workers : view'[w] \in Views /\ view'[w].seen = view[w].seen
    BY <1>2, <1>3 DEF HeartbeatTypeOK, Views
  <1>5. view' \in [Workers -> Views]
    BY <1>4 DEF Age
  <1>6. beat' \in [Workers -> Ages \cup {NoBeat}]
    BY <1>1 DEF Age
  <1> QED
    BY <1>4, <1>5, <1>6 DEF Age, HeartbeatTypeOK

(***************************************************************************)
(* What one operation does, as far as the proofs below need it.            *)
(***************************************************************************)
\* Everything that can happen, one operation of the module at a time.
LEMMA NextCases ==
  ASSUME Next
  PROVE  \/ \E isEmail \in BOOLEAN : AddMessage(isEmail)
         \/ \E list \in (SUBSET Services) \ {{}} : Reconfigure(list)
         \/ \E s \in Services : Outage(s)
         \/ \E s \in Services : Repair(s)
         \/ Tick
         \/ \E w \in Workers :
              \/ Start(w) \/ Settle(w) \/ Retrieve(w) \/ Deliver(w)
              \/ DeleteMessages(w) \/ Stop(w) \/ Crash(w)
  BY DEF Next

\* A query returns only rows of the share it was asked for.
LEMMA RetrievedRows ==
  ASSUME NEW mine
  PROVE  Retrieved(mine) \subseteq mine
  BY DEF Retrieved, Oldest

\* A service accepts only rows that it was sent.
LEMMA OutcomeRows ==
  ASSUME NEW w, NEW s, NEW rows, NEW took \in Outcomes(w, s, rows)
  PROVE  took \subseteq rows
  <1>1. CASE s \in up /\ (s \in job[w].conf \/ s = "email")
    BY <1>1 DEF Outcomes
  <1>2. CASE s \notin up /\ s \notin BulkServices /\ (s \in job[w].conf \/ s = "email")
    BY <1>2 DEF Outcomes
  <1>3. CASE /\ ~(s \in up /\ (s \in job[w].conf \/ s = "email"))
             /\ ~(s \notin up /\ s \notin BulkServices /\ (s \in job[w].conf \/ s = "email"))
    BY <1>3 DEF Outcomes
  <1> QED
    BY <1>1, <1>2, <1>3

\* The rows of the batch for service s.
RowsFor(w, s) == {i \in job[w].batch : service[i] = s}

\* A delivery fails, or one of the services left takes some of its rows.
LEMMA DeliveryCases ==
  ASSUME NEW w \in Workers, Deliver(w)
  PROVE  \/ Abandon(w)
         \/ \E s \in job[w].left : \E took \in SUBSET RowsFor(w, s) : Served(w, s, RowsFor(w, s), took)
  <1>1. PICK s \in First(job[w].left) :
          IF s \in BulkServices /\ s \notin job[w].conf
          THEN Abandon(w)
          ELSE \E took \in Outcomes(w, s, RowsFor(w, s)) : Served(w, s, RowsFor(w, s), took)
    BY DEF Deliver, RowsFor
  <1>2. s \in job[w].left
    BY DEF First
  <1>3. CASE s \in BulkServices /\ s \notin job[w].conf
    BY <1>1, <1>3
  <1>4. CASE ~(s \in BulkServices /\ s \notin job[w].conf)
    <2>1. PICK took \in Outcomes(w, s, RowsFor(w, s)) : Served(w, s, RowsFor(w, s), took)
      BY <1>1, <1>4
    <2>2. took \in SUBSET RowsFor(w, s)
      BY OutcomeRows
    <2> QED
      BY <1>2, <2>1, <2>2
  <1> QED
    BY <1>3, <1>4

\* New rows are numbered after the old ones, which keep their services.
LEMMA RowsAreAppended ==
  ASSUME TypeOK, NEW isEmail \in BOOLEAN, AddMessage(isEmail)
  PROVE  /\ service' \in Seq(Services) /\ Len(service') <= MaxRows
         /\ DOMAIN service \subseteq DOMAIN service'
         /\ \A i \in DOMAIN service : service'[i] = service[i]
  <1>1. PICK rows \in Listings(Takers(isEmail)) :
          /\ Len(service) + Len(rows) <= MaxRows
          /\ service' = service \o rows
    BY DEF AddMessage
  <1>2. Takers(isEmail) \subseteq Services
    BY DEF Takers, TypeOK
  <1>3. IsFiniteSet(Takers(isEmail))
    <2>1. {Order[i] : i \in 1 .. Len(Order)} = {"influx", "elastic", "email", "activemq", "syslog"}
      <3>1. Len(Order) = 5 /\ 1 .. 5 = {1, 2, 3, 4, 5}
        BY DEF Order
      <3> QED
        BY <3>1 DEF Order
    <2>2. IsFiniteSet({"influx", "elastic", "email", "activemq", "syslog"})
      <3>1. IsFiniteSet({"influx"})
        BY FS_Singleton
      <3>2. IsFiniteSet({"influx"} \cup {"elastic"})
        BY <3>1, FS_AddElement
      <3>3. IsFiniteSet({"influx"} \cup {"elastic"} \cup {"email"})
        BY <3>2, FS_AddElement
      <3>4. IsFiniteSet({"influx"} \cup {"elastic"} \cup {"email"} \cup {"activemq"})
        BY <3>3, FS_AddElement
      <3>5. IsFiniteSet({"influx"} \cup {"elastic"} \cup {"email"} \cup {"activemq"} \cup {"syslog"})
        BY <3>4, FS_AddElement
      <3>6. {"influx"} \cup {"elastic"} \cup {"email"} \cup {"activemq"} \cup {"syslog"}
              = {"influx", "elastic", "email", "activemq", "syslog"}
        OBVIOUS
      <3> QED
        BY <3>5, <3>6
    <2> QED
      BY <2>1, <2>2, <1>2, HermesAssumption, FS_Subset
  <1>4. Cardinality(Takers(isEmail)) \in Nat
    BY <1>3, FS_CardinalityType
  <1>5. rows \in [1 .. Cardinality(Takers(isEmail)) -> Services]
    BY <1>2 DEF Listings
  <1>6. rows \in Seq(Services)
    BY <1>4, <1>5
  <1> QED
    BY <1>1, <1>6 DEF TypeOK

(***************************************************************************)
(* Every step keeps the types and the sharing.                             *)
(***************************************************************************)
\* What run_once holds is a job, whatever it retrieves and delivers.
LEMMA RetrievedJob ==
  ASSUME TypeOK, NEW batch \in SUBSET queue
  PROVE  [conf |-> services, left |-> {service[i] : i \in batch}, batch |-> batch, done |-> {}] \in Jobs
  <1>1. DOMAIN service = 1 .. Len(service) /\ Len(service) \in Nat
    BY DEF TypeOK
  <1>2. \A i \in batch : i \in DOMAIN service /\ service[i] \in Services
    BY <1>1 DEF TypeOK
  <1>3. batch \subseteq Rows
    BY <1>1, <1>2, HermesAssumption DEF TypeOK, Rows
  <1> QED
    BY <1>2, <1>3 DEF Jobs, TypeOK

\* An empty job is one.
LEMMA NoJobTyped ==
  NoJob \in Jobs /\ NoJob.batch = {} /\ NoJob.done = {} /\ NoJob.left = {}
  BY DEF NoJob, Jobs

\* The part of TypeOK that a worker's own steps can disturb.
JobsTyped ==
  /\ pc \in [Workers -> {"down", "settling", "idle", "send"}]
  /\ job \in [Workers -> Jobs]
  /\ \A w \in Workers : job[w].done \subseteq job[w].batch
  /\ \A w \in Workers : pc[w] # "send" => job[w] = NoJob

\* Replacing one job by another keeps the jobs typed.
LEMMA JobReplaced ==
  ASSUME TypeOK, NEW w \in Workers, NEW j \in Jobs, NEW step \in {"down", "settling", "idle", "send"},
         j.done \subseteq j.batch, step # "send" => j = NoJob,
         job' = [job EXCEPT ![w] = j], pc' = [pc EXCEPT ![w] = step]
  PROVE  JobsTyped'
  BY DEF TypeOK, JobsTyped

\* A service served: its rows accepted join those to delete.
LEMMA ServedJob ==
  ASSUME TypeOK, NEW w \in Workers, NEW s \in job[w].left, NEW took \in SUBSET RowsFor(w, s),
         pc[w] = "send", Served(w, s, RowsFor(w, s), took)
  PROVE  /\ job'[w].conf = job[w].conf
         /\ job'[w].left = job[w].left \ {s}
         /\ job'[w].batch = job[w].batch
         /\ job'[w].done = job[w].done \cup took
         /\ \A v \in Workers : v # w => job'[v] = job[v]
         /\ JobsTyped'
         /\ accepted' \in [Rows -> 0 .. 2]
  <1>1. job[w] \in Jobs /\ job[w].done \subseteq job[w].batch /\ took \subseteq job[w].batch
    BY DEF TypeOK, RowsFor
  <1>2. job' = [job EXCEPT ![w] = [job[w] EXCEPT !.left = @ \ {s}, !.done = @ \cup took]]
    BY DEF Served
  <1>3. [job[w] EXCEPT !.left = @ \ {s}, !.done = @ \cup took] \in Jobs
    BY <1>1 DEF Jobs
  <1>4. /\ job'[w].conf = job[w].conf
        /\ job'[w].left = job[w].left \ {s}
        /\ job'[w].batch = job[w].batch
        /\ job'[w].done = job[w].done \cup took
        /\ \A v \in Workers : v # w => job'[v] = job[v]
    BY <1>1, <1>2 DEF TypeOK, Jobs
  <1>5. job' \in [Workers -> Jobs]
    BY <1>2, <1>3 DEF TypeOK
  <1>6. JobsTyped'
    BY <1>1, <1>4, <1>5 DEF TypeOK, JobsTyped, Served
  <1>7. accepted' \in [Rows -> 0 .. 2]
    BY DEF Served, TypeOK
  <1> QED
    BY <1>4, <1>6, <1>7

\* What Retrieve does to the worker's job.
LEMMA RetrieveCases ==
  ASSUME TypeOK, Sharing, NEW w \in Workers, Retrieve(w)
  PROVE  \E batch \in SUBSET queue :
           /\ \A i \in batch : Assigned(view'[w], w, Hash[i])
           /\ pc' = [pc EXCEPT ![w] = IF batch = {} THEN "idle" ELSE "send"]
           /\ job' = [job EXCEPT ![w] =
                IF batch = {} THEN NoJob
                ELSE [conf |-> services, left |-> {service[i] : i \in batch}, batch |-> batch, done |-> {}]]
           /\ calm' = (calm /\ batch \cap UNION {job[v].batch : v \in Workers} = {})
  <1> DEFINE mine == {i \in queue : Assigned(view'[w], w, Hash[i])}
  <1>1. Retrieved(mine) \subseteq mine
    BY RetrievedRows
  <1>2. Retrieved(mine) \in SUBSET queue /\ \A i \in Retrieved(mine) : Assigned(view'[w], w, Hash[i])
    BY <1>1
  <1>3. /\ pc' = [pc EXCEPT ![w] = IF Retrieved(mine) = {} THEN "idle" ELSE "send"]
        /\ job' = [job EXCEPT ![w] =
             IF Retrieved(mine) = {} THEN NoJob
             ELSE [conf |-> services, left |-> {service[i] : i \in Retrieved(mine)},
                   batch |-> Retrieved(mine), done |-> {}]]
        /\ calm' = (calm /\ Retrieved(mine) \cap UNION {job[v].batch : v \in Workers} = {})
    BY DEF Retrieve
  <1> HIDE DEF mine
  <1> QED
    BY <1>2, <1>3

\* The steps of the surroundings keep the types.
LEMMA SurroundingsTyped ==
  ASSUME TypeOK,
         \/ \E isEmail \in BOOLEAN : AddMessage(isEmail)
         \/ \E list \in (SUBSET Services) \ {{}} : Reconfigure(list)
         \/ \E s \in Services : Outage(s)
         \/ \E s \in Services : Repair(s)
         \/ Tick
  PROVE  TypeOK'
  <1>1. ASSUME NEW isEmail \in BOOLEAN, AddMessage(isEmail) PROVE TypeOK'
    <2>1. /\ service' \in Seq(Services) /\ Len(service') <= MaxRows
          /\ DOMAIN service \subseteq DOMAIN service'
      BY <1>1, RowsAreAppended
    <2>2. queue' \cup archived' = DOMAIN service' /\ queue' \cap archived' = {}
      BY <1>1, <2>1 DEF TypeOK, AddMessage
    <2> QED
      BY <1>1, <2>1, <2>2 DEF TypeOK, AddMessage, HeartbeatTypeOK, hbVars
  <1>2. ASSUME NEW list \in (SUBSET Services) \ {{}}, Reconfigure(list) PROVE TypeOK'
    BY <1>2, HermesAssumption DEF TypeOK, Reconfigure, Fault, HeartbeatTypeOK, hbVars
  <1>3. ASSUME NEW s \in Services, Outage(s) PROVE TypeOK'
    BY <1>3, HermesAssumption DEF TypeOK, Outage, Fault, HeartbeatTypeOK, hbVars
  <1>4. ASSUME NEW s \in Services, Repair(s) PROVE TypeOK'
    BY <1>4 DEF TypeOK, Repair, HeartbeatTypeOK, hbVars
  <1>5. CASE Tick
    <2>1. HeartbeatTypeOK'
      BY <1>5, AgeTyped DEF Tick, TypeOK
    <2> QED
      BY <1>5, <2>1 DEF TypeOK, Tick
  <1> QED
    BY <1>1, <1>2, <1>3, <1>4, <1>5

\* The part of a worker's step that concerns the heartbeats.
LEMMA HeartbeatsTyped ==
  ASSUME TypeOK, Sharing, NEW w \in Workers,
         Start(w) \/ Settle(w) \/ Retrieve(w) \/ Stop(w) \/ Crash(w)
  PROVE  /\ HeartbeatTypeOK'
         /\ \A v \in Workers : v # w => view'[v] = view[v]
         /\ \A v \in Workers : v \in alive' <=> pc'[v] # "down"
         /\ pc'[w] # "down" => w \in view'[w].seen
  <1>1. CASE Start(w)
    <2>1. SanityCheck(Host[w]) \in [Workers -> Ages \cup {NoBeat}]
      BY DEF SanityCheck, TypeOK, HeartbeatTypeOK
    <2>2. LiveOn(w, SanityCheck(Host[w]))
      BY <1>1 DEF Start, Enter
    <2>3. /\ beat' \in [Workers -> Ages \cup {NoBeat}]
          /\ view' \in [Workers -> Views]
          /\ w \in view'[w].seen
          /\ \A v \in Workers : v # w => view'[v] = view[v]
      BY <2>1, <2>2, LiveTyped DEF TypeOK
    <2>4. alive' \subseteq Workers /\ \A v \in Workers : v \in alive' <=> pc'[v] # "down"
      BY <1>1 DEF Start, Enter, TypeOK, HeartbeatTypeOK, Sharing
    <2> QED
      BY <2>3, <2>4 DEF HeartbeatTypeOK
  <1>2. CASE Settle(w)
    <2>1. w \in view[w].seen
      BY <1>2 DEF Settle, Sharing
    <2>2. /\ beat' \in [Workers -> Ages \cup {NoBeat}]
          /\ view' \in [Workers -> Views]
          /\ w \in view'[w].seen
          /\ \A v \in Workers : v # w => view'[v] = view[v]
      BY <1>2, <2>1, HandlerTyped DEF TypeOK, Settle
    <2>3. alive' \subseteq Workers /\ \A v \in Workers : v \in alive' <=> pc'[v] # "down"
      BY <1>2 DEF Settle, TypeOK, HeartbeatTypeOK, Sharing
    <2> QED
      BY <2>2, <2>3 DEF HeartbeatTypeOK
  <1>3. CASE Retrieve(w)
    <2>1. w \in view[w].seen
      BY <1>3 DEF Retrieve, Sharing
    <2>2. /\ beat' \in [Workers -> Ages \cup {NoBeat}]
          /\ view' \in [Workers -> Views]
          /\ w \in view'[w].seen
          /\ \A v \in Workers : v # w => view'[v] = view[v]
      BY <1>3, <2>1, HandlerTyped DEF TypeOK, Retrieve
    <2>3. alive' = alive /\ \A v \in Workers : pc'[v] # "down" <=> pc[v] # "down"
      BY <1>3 DEF Retrieve, TypeOK
    <2> QED
      BY <2>2, <2>3 DEF HeartbeatTypeOK, TypeOK, Sharing
  <1>4. CASE Stop(w) \/ Crash(w)
    <2>1. Unseen \in Views
      BY HeartbeatAssumption DEF Unseen, Views
    <2>2. /\ alive' = alive \ {w}
          /\ view' = [view EXCEPT ![w] = Unseen]
          /\ pc' = [pc EXCEPT ![w] = "down"]
          /\ beat' \in [Workers -> Ages \cup {NoBeat}]
      BY <1>4 DEF Stop, Crash, Exit, Vanish, TypeOK, HeartbeatTypeOK
    <2>3. view' \in [Workers -> Views]
      BY <2>1, <2>2 DEF TypeOK, HeartbeatTypeOK
    <2> QED
      BY <2>2, <2>3 DEF TypeOK, HeartbeatTypeOK, Sharing
  <1> QED
    BY <1>1, <1>2, <1>3, <1>4

\* A worker's steps keep the types.
LEMMA WorkerTyped ==
  ASSUME TypeOK, Sharing, NEW w \in Workers,
         \/ Start(w) \/ Settle(w) \/ Retrieve(w) \/ Deliver(w)
         \/ DeleteMessages(w) \/ Stop(w) \/ Crash(w)
  PROVE  TypeOK'
  <1> USE DEF mail
  <1>1. CASE Start(w)
    <2>1. HeartbeatTypeOK'
      BY <1>1, HeartbeatsTyped
    <2>2. pc[w] = "down"
      BY <1>1 DEF Start, Enter, Sharing
    <2> QED
      BY <1>1, <2>1, <2>2 DEF TypeOK, Start
  <1>2. CASE Settle(w)
    <2>1. HeartbeatTypeOK'
      BY <1>2, HeartbeatsTyped
    <2> QED
      BY <1>2, <2>1 DEF TypeOK, Settle
  <1>3. CASE Retrieve(w)
    <2>1. HeartbeatTypeOK'
      BY <1>3, HeartbeatsTyped
    <2>2. PICK batch \in SUBSET queue :
            /\ pc' = [pc EXCEPT ![w] = IF batch = {} THEN "idle" ELSE "send"]
            /\ job' = [job EXCEPT ![w] =
                 IF batch = {} THEN NoJob
                 ELSE [conf |-> services, left |-> {service[i] : i \in batch}, batch |-> batch, done |-> {}]]
            /\ calm' = (calm /\ batch \cap UNION {job[v].batch : v \in Workers} = {})
      BY <1>3, RetrieveCases
    <2>3. JobsTyped'
      <3>1. CASE batch = {}
        BY <2>2, <3>1, JobReplaced, NoJobTyped
      <3>2. CASE batch # {}
        BY <2>2, <3>2, JobReplaced, RetrievedJob
      <3> QED
        BY <3>1, <3>2
    <2>4. calm' \in BOOLEAN
      BY <2>2
    <2> QED
      BY <1>3, <2>1, <2>3, <2>4 DEF TypeOK, JobsTyped, Retrieve
  <1>4. CASE Deliver(w)
    <2>1. HeartbeatTypeOK' /\ UNCHANGED <<mail, queue, archived, faults>> /\ pc[w] = "send"
      BY <1>4 DEF Deliver, TypeOK, HeartbeatTypeOK, hbVars
    <2>2. CASE Abandon(w)
      <3>1. JobsTyped'
        BY <2>2, JobReplaced, NoJobTyped DEF Abandon
      <3> QED
        BY <2>1, <2>2, <3>1 DEF TypeOK, JobsTyped, Abandon
    <2>3. ASSUME NEW s \in job[w].left, NEW took \in SUBSET RowsFor(w, s), Served(w, s, RowsFor(w, s), took)
          PROVE TypeOK'
      <3>1. JobsTyped' /\ accepted' \in [Rows -> 0 .. 2]
        BY <2>1, <2>3, ServedJob
      <3> QED
        BY <2>1, <2>3, <3>1 DEF TypeOK, JobsTyped, Served
    <2> QED
      BY <1>4, <2>2, <2>3, DeliveryCases
  <1>5. CASE DeleteMessages(w)
    <2>1. HeartbeatTypeOK'
      BY <1>5 DEF DeleteMessages, TypeOK, HeartbeatTypeOK, hbVars
    <2>2. JobsTyped'
      BY <1>5, JobReplaced, NoJobTyped DEF DeleteMessages
    <2>3. job[w].done \subseteq DOMAIN service
      BY DEF TypeOK, Sharing
    <2>4. queue' \cup archived' = DOMAIN service' /\ queue' \cap archived' = {}
      BY <1>5, <2>3 DEF TypeOK, DeleteMessages
    <2> QED
      BY <1>5, <2>1, <2>2, <2>4 DEF TypeOK, JobsTyped, DeleteMessages
  <1>6. CASE Stop(w)
    <2>1. HeartbeatTypeOK'
      BY <1>6, HeartbeatsTyped
    <2>2. faults' \in 0 .. MaxFaults
      BY <1>6, HermesAssumption DEF Stop, Fault, TypeOK
    <2> QED
      BY <1>6, <2>1, <2>2 DEF TypeOK, Stop
  <1>7. CASE Crash(w)
    <2>1. HeartbeatTypeOK'
      BY <1>7, HeartbeatsTyped
    <2>2. faults' \in 0 .. MaxFaults
      BY <1>7, HermesAssumption DEF Crash, Fault, TypeOK
    <2>3. JobsTyped'
      BY <1>7, JobReplaced, NoJobTyped DEF Crash
    <2> QED
      BY <1>7, <2>1, <2>2, <2>3 DEF TypeOK, JobsTyped, Crash
  <1> QED
    BY <1>1, <1>2, <1>3, <1>4, <1>5, <1>6, <1>7

\* Whether a row falls to a worker depends only on the workers seen.
LEMMA AssignedBySeen ==
  ASSUME NEW a, NEW b, a.seen = b.seen, NEW w, NEW h
  PROVE  Assigned(a, w, h) <=> Assigned(b, w, h)
  BY DEF Assigned

\* The surroundings leave the sharing alone.
LEMMA SurroundingsShare ==
  ASSUME TypeOK, Sharing,
         \/ \E isEmail \in BOOLEAN : AddMessage(isEmail)
         \/ \E list \in (SUBSET Services) \ {{}} : Reconfigure(list)
         \/ \E s \in Services : Outage(s)
         \/ \E s \in Services : Repair(s)
         \/ Tick
  PROVE  Sharing'
  <1>1. ASSUME NEW isEmail \in BOOLEAN, AddMessage(isEmail) PROVE Sharing'
    <2>1. DOMAIN service \subseteq DOMAIN service'
      BY <1>1, RowsAreAppended
    <2> QED
      BY <1>1, <2>1 DEF Sharing, AddMessage, hbVars
  <1>2. ASSUME NEW list \in (SUBSET Services) \ {{}}, Reconfigure(list) PROVE Sharing'
    BY <1>2 DEF Sharing, Reconfigure, hbVars
  <1>3. ASSUME NEW s \in Services, Outage(s) PROVE Sharing'
    BY <1>3 DEF Sharing, Outage, hbVars
  <1>4. ASSUME NEW s \in Services, Repair(s) PROVE Sharing'
    BY <1>4 DEF Sharing, Repair, hbVars
  <1>5. CASE Tick
    <2>1. \A w \in Workers : view'[w].seen = view[w].seen
      BY <1>5, AgeTyped DEF Tick, TypeOK
    <2>2. alive' = alive /\ pc' = pc /\ job' = job /\ service' = service
      BY <1>5 DEF Tick, Age
    <2>3. \A w \in Workers : \A i \in job[w].batch : Assigned(view'[w], w, Hash[i])
      BY <2>1, AssignedBySeen DEF Sharing
    <2> QED
      BY <2>1, <2>2, <2>3 DEF Sharing
  <1> QED
    BY <1>1, <1>2, <1>3, <1>4, <1>5

\* So do the steps of a worker: its view changes only where it holds no rows.
LEMMA WorkerShares ==
  ASSUME TypeOK, Sharing, NEW w \in Workers,
         \/ Start(w) \/ Settle(w) \/ Retrieve(w) \/ Deliver(w)
         \/ DeleteMessages(w) \/ Stop(w) \/ Crash(w)
  PROVE  Sharing'
  <1> USE DEF mail
  <1>1. CASE Start(w) \/ Settle(w) \/ Stop(w) \/ Crash(w)
    <2>1. /\ \A v \in Workers : v # w => view'[v] = view[v]
          /\ \A v \in Workers : v \in alive' <=> pc'[v] # "down"
          /\ pc'[w] # "down" => w \in view'[w].seen
      BY <1>1, HeartbeatsTyped
    <2>2. job'[w] = NoJob /\ \A v \in Workers : v # w => job'[v] = job[v]
      BY <1>1 DEF Start, Enter, Settle, Stop, Crash, Sharing, TypeOK
    <2>3. service' = service /\ \A v \in Workers : v # w => pc'[v] = pc[v]
      BY <1>1 DEF Start, Settle, Stop, Crash, TypeOK
    <2> QED
      BY <2>1, <2>2, <2>3, NoJobTyped DEF Sharing
  <1>2. CASE Retrieve(w)
    <2>1. /\ \A v \in Workers : v # w => view'[v] = view[v]
          /\ \A v \in Workers : v \in alive' <=> pc'[v] # "down"
          /\ pc'[w] # "down" => w \in view'[w].seen
      BY <1>2, HeartbeatsTyped
    <2>2. PICK batch \in SUBSET queue :
            /\ \A i \in batch : Assigned(view'[w], w, Hash[i])
            /\ pc' = [pc EXCEPT ![w] = IF batch = {} THEN "idle" ELSE "send"]
            /\ job' = [job EXCEPT ![w] =
                 IF batch = {} THEN NoJob
                 ELSE [conf |-> services, left |-> {service[i] : i \in batch}, batch |-> batch, done |-> {}]]
      BY <1>2, RetrieveCases
    <2>3. job'[w].batch = batch
      BY <2>2, NoJobTyped DEF TypeOK
    <2>4. \A v \in Workers : v # w => job'[v] = job[v] /\ pc'[v] = pc[v]
      BY <2>2 DEF TypeOK
    <2>5. service' = service /\ batch \subseteq DOMAIN service
      BY <1>2 DEF Retrieve, TypeOK
    <2> QED
      BY <2>1, <2>2, <2>3, <2>4, <2>5 DEF Sharing
  <1>3. CASE Deliver(w)
    <2>1. UNCHANGED <<alive, view, service>> /\ pc[w] = "send"
      BY <1>3 DEF Deliver, hbVars
    <2>2. \A v \in Workers : job'[v].batch \subseteq job[v].batch /\ (pc'[v] = "down" <=> pc[v] = "down")
      <3>1. CASE Abandon(w)
        BY <3>1, <2>1, NoJobTyped DEF Abandon, TypeOK
      <3>2. ASSUME NEW s \in job[w].left, NEW took \in SUBSET RowsFor(w, s), Served(w, s, RowsFor(w, s), took)
            PROVE  \A v \in Workers : job'[v].batch \subseteq job[v].batch /\ (pc'[v] = "down" <=> pc[v] = "down")
        <4>1. job'[w].batch = job[w].batch /\ \A v \in Workers : v # w => job'[v] = job[v]
          BY <2>1, <3>2, ServedJob
        <4> QED
          BY <3>2, <4>1 DEF Served
      <3> QED
        BY <1>3, <3>1, <3>2, DeliveryCases
    <2> QED
      BY <2>1, <2>2 DEF Sharing
  <1>4. CASE DeleteMessages(w)
    <2>1. UNCHANGED <<alive, view, service>>
      BY <1>4 DEF DeleteMessages, hbVars
    <2>2. \A v \in Workers : job'[v].batch \subseteq job[v].batch /\ (pc'[v] = "down" <=> pc[v] = "down")
      BY <1>4, NoJobTyped DEF DeleteMessages, TypeOK
    <2> QED
      BY <2>1, <2>2 DEF Sharing
  <1> QED
    BY <1>1, <1>2, <1>3, <1>4

(***************************************************************************)
(* Acceptance and deletion.                                                *)
(***************************************************************************)
\* Rows to be deleted and rows deleted were accepted, and the service of a row
\* to be deleted is not served again in this iteration.
Taken ==
  /\ \A i \in archived : accepted[i] > 0
  /\ \A w \in Workers : \A i \in job[w].done : accepted[i] > 0 /\ service[i] \notin job[w].left

\* As long as all is calm, batches are disjoint and hold only rows that exist,
\* and a row that was accepted once is archived or about to be.
Calm ==
  /\ \A v, w \in Workers : v # w => job[v].batch \cap job[w].batch = {}
  /\ \A w \in Workers : job[w].batch \subseteq queue
  /\ \A i \in Rows : accepted[i] < 2
  /\ \A i \in Rows : accepted[i] > 0 => i \in archived \/ \E w \in Workers : i \in job[w].done

\* The bookkeeping of deliveries.
Delivering == Taken /\ (calm => Calm)

\* Nothing but deliveries, queries and deletions touches the bookkeeping.
LEMMA SurroundingsDeliver ==
  ASSUME TypeOK, Sharing, Delivering,
         \/ \E isEmail \in BOOLEAN : AddMessage(isEmail)
         \/ \E list \in (SUBSET Services) \ {{}} : Reconfigure(list)
         \/ \E s \in Services : Outage(s)
         \/ \E s \in Services : Repair(s)
         \/ Tick
  PROVE  Delivering'
  <1> USE DEF Delivering, Taken, Calm
  <1>1. ASSUME NEW isEmail \in BOOLEAN, AddMessage(isEmail) PROVE Delivering'
    <2>1. \A i \in DOMAIN service : service'[i] = service[i]
      BY <1>1, RowsAreAppended
    <2>2. \A w \in Workers : job[w].done \subseteq DOMAIN service
      BY DEF TypeOK, Sharing
    <2>3. queue \subseteq queue' /\ UNCHANGED <<archived, accepted, job, calm>>
      BY <1>1 DEF AddMessage
    <2>4. Taken'
      BY <2>1, <2>2, <2>3
    <2>5. calm' => Calm'
      BY <2>3
    <2> QED
      BY <2>4, <2>5
  <1>2. ASSUME NEW list \in (SUBSET Services) \ {{}}, Reconfigure(list) PROVE Delivering'
    BY <1>2 DEF Reconfigure
  <1>3. ASSUME NEW s \in Services, Outage(s) PROVE Delivering'
    BY <1>3 DEF Outage
  <1>4. ASSUME NEW s \in Services, Repair(s) PROVE Delivering'
    BY <1>4 DEF Repair
  <1>5. CASE Tick
    BY <1>5 DEF Tick
  <1> QED
    BY <1>1, <1>2, <1>3, <1>4, <1>5

\* A delivery of a service that is left: none of the rows it takes was accepted
\* before while all is calm, because such a row would be archived, and so not in
\* a batch, or already served by this worker.
LEMMA ServedOnce ==
  ASSUME TypeOK, Sharing, Delivering, NEW w \in Workers, pc[w] = "send",
         UNCHANGED <<queue, archived, service>>,
         NEW s \in job[w].left, NEW took \in SUBSET RowsFor(w, s), Served(w, s, RowsFor(w, s), took)
  PROVE  Delivering'
  <1>1. /\ job'[w].left = job[w].left \ {s}
        /\ job'[w].batch = job[w].batch
        /\ job'[w].done = job[w].done \cup took
        /\ \A v \in Workers : v # w => job'[v] = job[v]
    BY ServedJob
  <1>2. /\ \A i \in took : i \in Rows /\ i \in job[w].batch /\ service[i] = s
        /\ accepted' = [i \in Rows |-> IF i \in took /\ accepted[i] < 2 THEN accepted[i] + 1 ELSE accepted[i]]
        /\ calm' = calm
    BY DEF RowsFor, TypeOK, Jobs, Served
  <1>3. \A i \in Rows : accepted[i] \in 0 .. 2
    BY DEF TypeOK
  <1>4. /\ \A i \in Rows : accepted[i] > 0 => accepted'[i] > 0
        /\ \A i \in took : accepted'[i] > 0
    BY <1>2, <1>3
  <1>5. /\ archived \subseteq Rows
        /\ \A v \in Workers : job[v].done \subseteq Rows
    <2>1. DOMAIN service \subseteq Rows
      BY HermesAssumption DEF TypeOK, Rows
    <2> QED
      BY <2>1 DEF TypeOK, Jobs
  <1>6. Taken'
    <2>1. \A i \in archived' : accepted'[i] > 0
      BY <1>4, <1>5 DEF Delivering, Taken
    <2>2. \A i \in job'[w].done : accepted'[i] > 0 /\ service'[i] \notin job'[w].left
      BY <1>1, <1>2, <1>4, <1>5 DEF Delivering, Taken
    <2>3. \A v \in Workers : v # w => \A i \in job'[v].done : accepted'[i] > 0 /\ service'[i] \notin job'[v].left
      BY <1>1, <1>4, <1>5 DEF Delivering, Taken
    <2> QED
      BY <2>1, <2>2, <2>3 DEF Taken
  <1>7. ASSUME calm' PROVE Calm'
    <2>1. Calm /\ Taken
      BY <1>2, <1>7 DEF Delivering
    <2>2. \A v \in Workers : job'[v].batch = job[v].batch
      BY <1>1
    <2>3. \A i \in took : accepted[i] = 0
      <3> SUFFICES ASSUME NEW i \in took, accepted[i] > 0 PROVE FALSE
        BY <1>2, <1>3
      <3>1. i \in Rows /\ i \in job[w].batch /\ service[i] = s
        BY <1>2
      <3>2. i \notin archived
        BY <2>1, <3>1 DEF Calm, TypeOK
      <3>3. PICK v \in Workers : i \in job[v].done
        BY <2>1, <3>1, <3>2 DEF Calm
      <3>4. v = w
        BY <2>1, <3>1, <3>3 DEF Calm, TypeOK
      <3>5. service[i] \notin job[w].left
        BY <2>1, <3>3, <3>4 DEF Taken
      <3> QED
        BY <3>1, <3>5
    <2>4. \A i \in Rows : accepted'[i] < 2
      BY <1>2, <1>3, <2>1, <2>3 DEF Calm
    <2>5. ASSUME NEW i \in Rows, accepted'[i] > 0
          PROVE  i \in archived' \/ \E v \in Workers : i \in job'[v].done
      <3>1. CASE i \in took
        BY <1>1, <3>1
      <3>2. CASE i \notin took
        <4>1. accepted[i] > 0
          BY <1>2, <2>5, <3>2
        <4>2. i \in archived \/ \E v \in Workers : i \in job[v].done
          BY <4>1, <2>1 DEF Calm
        <4> QED
          BY <4>2, <1>1
      <3> QED
        BY <3>1, <3>2
    <2> QED
      BY <2>1, <2>2, <2>4, <2>5 DEF Calm
  <1> QED
    BY <1>6, <1>7 DEF Delivering

\* The steps of a worker keep the bookkeeping.
LEMMA WorkerDelivers ==
  ASSUME TypeOK, Sharing, Delivering, NEW w \in Workers,
         \/ Start(w) \/ Settle(w) \/ Retrieve(w) \/ Deliver(w)
         \/ DeleteMessages(w) \/ Stop(w) \/ Crash(w)
  PROVE  Delivering'
  <1> USE DEF mail
  <1>1. CASE Start(w) \/ Settle(w) \/ Stop(w)
    <2>1. UNCHANGED <<queue, archived, accepted, service, job, calm>>
      BY <1>1 DEF Start, Settle, Stop
    <2> QED
      BY <2>1 DEF Delivering, Taken, Calm
  <1>2. CASE Crash(w)
    <2>1. UNCHANGED <<archived, accepted, service>> /\ calm' = FALSE
      BY <1>2 DEF Crash
    <2>2. job'[w] = NoJob /\ \A v \in Workers : v # w => job'[v] = job[v]
      BY <1>2 DEF Crash, TypeOK
    <2>3. Taken'
      BY <2>1, <2>2, NoJobTyped DEF Delivering, Taken
    <2> QED
      BY <2>1, <2>3 DEF Delivering
  <1>3. CASE Retrieve(w)
    <2>1. PICK batch \in SUBSET queue :
            /\ job' = [job EXCEPT ![w] =
                 IF batch = {} THEN NoJob
                 ELSE [conf |-> services, left |-> {service[i] : i \in batch}, batch |-> batch, done |-> {}]]
            /\ calm' = (calm /\ batch \cap UNION {job[v].batch : v \in Workers} = {})
      BY <1>3, RetrieveCases
    <2>2. job'[w].batch = batch /\ job'[w].done = {}
      BY <2>1, NoJobTyped DEF TypeOK
    <2>3. \A v \in Workers : v # w => job'[v] = job[v]
      BY <2>1 DEF TypeOK
    <2>4. UNCHANGED <<queue, archived, accepted, service>> /\ job[w].done = {}
      BY <1>3, NoJobTyped DEF Retrieve, TypeOK
    <2>5. Taken'
      BY <2>2, <2>3, <2>4 DEF Delivering, Taken
    <2>6. ASSUME calm' PROVE Calm'
      <3>1. Calm /\ \A v \in Workers : batch \cap job[v].batch = {}
        BY <2>1, <2>6 DEF Delivering
      <3>2. \A u, v \in Workers : u # v => job'[u].batch \cap job'[v].batch = {}
        BY <2>2, <2>3, <3>1 DEF Calm
      <3>3. \A v \in Workers : job'[v].batch \subseteq queue'
        BY <2>2, <2>3, <2>4, <3>1 DEF Calm
      <3>4. \A v \in Workers : job'[v].done = job[v].done
        BY <2>2, <2>3, <2>4
      <3> QED
        BY <2>4, <3>1, <3>2, <3>3, <3>4 DEF Calm
    <2> QED
      BY <2>5, <2>6 DEF Delivering
  <1>4. CASE Deliver(w)
    <2>1. UNCHANGED <<queue, archived, service>> /\ pc[w] = "send"
      BY <1>4 DEF Deliver
    <2>2. CASE Abandon(w)
      <3>1. accepted' = accepted /\ calm' = FALSE
        BY <2>2 DEF Abandon
      <3>2. job'[w] = NoJob /\ \A v \in Workers : v # w => job'[v] = job[v]
        BY <2>2 DEF Abandon, TypeOK
      <3>3. Taken'
        BY <2>1, <3>1, <3>2, NoJobTyped DEF Delivering, Taken
      <3> QED
        BY <3>1, <3>3 DEF Delivering
    <2>3. ASSUME NEW s \in job[w].left, NEW took \in SUBSET RowsFor(w, s), Served(w, s, RowsFor(w, s), took)
          PROVE  Delivering'
      BY <2>1, <2>3, ServedOnce
    <2> QED
      BY <1>4, <2>2, <2>3, DeliveryCases
  <1>5. CASE DeleteMessages(w)
    <2>1. /\ UNCHANGED <<accepted, service, calm>>
          /\ queue' = queue \ job[w].done
          /\ archived' = archived \cup job[w].done
      BY <1>5 DEF DeleteMessages
    <2>2. job'[w] = NoJob /\ \A v \in Workers : v # w => job'[v] = job[v]
      BY <1>5 DEF DeleteMessages, TypeOK
    <2>3. Taken'
      BY <2>1, <2>2, NoJobTyped DEF Delivering, Taken
    <2>4. ASSUME calm' PROVE Calm'
      <3>1. Calm
        BY <2>1, <2>4 DEF Delivering
      <3>2. \A u, v \in Workers : u # v => job'[u].batch \cap job'[v].batch = {}
        BY <2>2, <3>1, NoJobTyped DEF Calm
      <3>3. \A v \in Workers : job'[v].batch \subseteq queue'
        BY <2>1, <2>2, <3>1, NoJobTyped DEF Calm, TypeOK
      <3>4. \A i \in Rows : accepted'[i] > 0 => i \in archived' \/ \E v \in Workers : i \in job'[v].done
        BY <2>1, <2>2, <3>1 DEF Calm
      <3> QED
        BY <2>1, <3>1, <3>2, <3>3, <3>4 DEF Calm
    <2> QED
      BY <2>3, <2>4 DEF Delivering
  <1> QED
    BY <1>1, <1>2, <1>3, <1>4, <1>5

(***************************************************************************)
(* The theorems.                                                           *)
(***************************************************************************)
\* What every state of Hermes satisfies.
HermesInv == TypeOK /\ Sharing /\ Delivering

\* It holds initially,
LEMMA HermesInvInit ==
  ASSUME Init
  PROVE  HermesInv
  <1>1. DOMAIN service = {} /\ service \in Seq(Services) /\ Len(service) = 0
    BY DEF Init
  <1>2. HeartbeatTypeOK
    BY HeartbeatAssumption DEF Init, HeartbeatInit, HeartbeatTypeOK, Unseen, Views, NoBeat
  <1>3. TypeOK
    <2>1. services \in (SUBSET Services) \ {{}} /\ up \subseteq Services /\ byService \in BOOLEAN
      BY HermesAssumption DEF Init
    <2>2. accepted \in [Rows -> 0 .. 2] /\ faults \in 0 .. MaxFaults /\ calm \in BOOLEAN
      BY HermesAssumption DEF Init
    <2>3. queue \cup archived = DOMAIN service /\ queue \cap archived = {} /\ Len(service) <= MaxRows
      BY <1>1, HermesAssumption DEF Init
    <2>4. JobsTyped
      BY NoJobTyped DEF Init, JobsTyped
    <2> QED
      BY <1>1, <1>2, <2>1, <2>2, <2>3, <2>4 DEF TypeOK, JobsTyped
  <1>4. Sharing
    BY NoJobTyped DEF Init, HeartbeatInit, Sharing
  <1>5. Delivering
    BY NoJobTyped DEF Init, Delivering, Taken, Calm
  <1> QED
    BY <1>3, <1>4, <1>5 DEF HermesInv

\* and every step keeps it.
LEMMA HermesInvStep ==
  ASSUME HermesInv, [Next]_vars
  PROVE  HermesInv'
  <1> USE DEF HermesInv
  <1>1. CASE UNCHANGED vars
    <2>1. TypeOK'
      BY <1>1 DEF vars, hbVars, TypeOK, HeartbeatTypeOK
    <2>2. Sharing'
      BY <1>1 DEF vars, hbVars, Sharing
    <2>3. Delivering'
      BY <1>1 DEF vars, Delivering, Taken, Calm
    <2> QED
      BY <2>1, <2>2, <2>3
  <1>2. CASE Next
    <2>1. CASE \/ \E isEmail \in BOOLEAN : AddMessage(isEmail)
               \/ \E list \in (SUBSET Services) \ {{}} : Reconfigure(list)
               \/ \E s \in Services : Outage(s)
               \/ \E s \in Services : Repair(s)
               \/ Tick
      BY <2>1, SurroundingsTyped, SurroundingsShare, SurroundingsDeliver
    <2>2. ASSUME NEW w \in Workers,
                 \/ Start(w) \/ Settle(w) \/ Retrieve(w) \/ Deliver(w)
                 \/ DeleteMessages(w) \/ Stop(w) \/ Crash(w)
          PROVE  HermesInv'
      BY <2>2, WorkerTyped, WorkerShares, WorkerDelivers
    <2> QED
      BY <1>2, <2>1, <2>2, NextCases
  <1> QED
    BY <1>1, <1>2

\* In every state the tables, views and jobs are well typed, batches are shares
\* of the view their worker still has, and deliveries are booked as Delivering
\* says (db_workqueue, run_once, delete_messages).
THEOREM DeliveriesAreBooked == Spec => []HermesInv
  <1>1. Init => HermesInv
    BY HermesInvInit
  <1>2. HermesInv /\ [Next]_vars => HermesInv'
    BY HermesInvStep
  <1> QED
    BY <1>1, <1>2, PTL DEF Spec

\* No message is archived before its service accepted it, and none is accepted
\* twice while no worker crashes, fails or takes a row that another one holds.
THEOREM MessagesAreSentOnce == Spec => []SentOnce
  <1>1. HermesInv => SentOnce
    BY DEF HermesInv, Delivering, Taken, Calm, SentOnce
  <1> QED
    BY <1>1, DeliveriesAreBooked, PTL

\* Two workers whose last renewals saw the same workers hold no common row
\* (live, filter_thread_work).
THEOREM ViewsSplitTheWork == Spec => []SameViewDisjoint
  <1>1. ASSUME HermesInv PROVE SameViewDisjoint
    <2> SUFFICES ASSUME NEW v \in Workers, NEW w \in Workers, v # w, view[v].seen = view[w].seen,
                        NEW i \in job[v].batch, i \in job[w].batch
                 PROVE  FALSE
      BY DEF SameViewDisjoint
    <2> USE <1>1 DEF HermesInv
    <2>1. pc[v] = "send" /\ pc[w] = "send"
      BY NoJobTyped DEF TypeOK
    <2>2. v \in view[v].seen /\ w \in view[v].seen
      BY <2>1 DEF Sharing
    <2>3. view[v] \in Views /\ view[w] \in Views
      BY DEF TypeOK, HeartbeatTypeOK
    <2>4. Hash[i] \in Nat
      BY HermesAssumption DEF TypeOK, Jobs, Rows
    <2>5. Assigned(view[v], v, Hash[i]) /\ Assigned(view[w], w, Hash[i])
      BY DEF Sharing
    <2> QED
      BY <2>2, <2>3, <2>4, <2>5, SharesAreDisjoint
  <1> QED
    BY <1>1, DeliveriesAreBooked, PTL

=============================================================================
