-------------------------------- MODULE Hermes --------------------------------
(***************************************************************************)
(* Event messages and their delivery (core/message.py,                     *)
(* daemons/hermes/hermes.py), by workers that run the loop of db_workqueue *)
(* (daemons/common.py) and share the rows through Heartbeat.               *)
(*                                                                         *)
(* add_messages writes one row for every service of the configuration; a   *)
(* worker reads the rows of its share in one transaction, hands them to    *)
(* the services one after another, and in a second transaction deletes and *)
(* archives those that were accepted.  The row stands for its message: it  *)
(* has a service and a number, in the order of creation.                   *)
(***************************************************************************)
EXTENDS Heartbeat, Sequences

CONSTANTS
  Services,     \* the services the configuration may list
  Bulk,         \* rows that one query returns
  Hash,         \* the hash of the id of each row
  MaxRows,      \* bound: rows created in a behaviour
  MaxFaults     \* bound: crashes, stops, outages and changes of configuration

\* The order in which run_once serves the services.
Order == <<"influx", "elastic", "email", "activemq", "syslog">>

\* Those that take the whole list or nothing, and whose endpoint run_once
\* sets only when the configuration lists the service.
BulkServices == {"influx", "elastic"}

ASSUME HermesAssumption ==
  /\ Services \subseteq {Order[i] : i \in 1 .. Len(Order)} /\ Services # {}
  /\ Bulk \in Nat \ {0}
  /\ MaxRows \in Nat /\ MaxFaults \in Nat
  /\ Hash \in [1 .. MaxRows -> Nat]

Rows == 1 .. MaxRows

VARIABLES
  services,     \* services_list
  byService,    \* query_by_service
  up,           \* the services that accept what they are sent
  queue,        \* messages: the rows that exist, in the order of creation
  service,      \* the service of every row created so far
  archived,     \* messages_history
  accepted,     \* how often each row was accepted by its service, up to 2
  pc,           \* where each worker is
  job,          \* what run_once of each worker holds
  faults,       \* faults so far
  calm          \* no worker crashed, failed or took a row that another holds

vars == <<hbVars, services, byService, up, queue, service, archived, accepted, pc, job, faults, calm>>

\* conf is the services_list that the iteration read, left the services still
\* to serve, batch the rows retrieved, done the list to_delete.
Jobs == [conf : SUBSET Services, left : SUBSET Services, batch : SUBSET Rows, done : SUBSET Rows]
NoJob == [conf |-> {}, left |-> {}, batch |-> {}, done |-> {}]

TypeOK ==
  /\ HeartbeatTypeOK
  /\ services \in (SUBSET Services) \ {{}}
  /\ byService \in BOOLEAN
  /\ up \subseteq Services
  /\ service \in Seq(Services) /\ Len(service) <= MaxRows
  /\ queue \cup archived = DOMAIN service /\ queue \cap archived = {}
  /\ accepted \in [Rows -> 0 .. 2]
  /\ pc \in [Workers -> {"down", "settling", "idle", "send"}]
  /\ job \in [Workers -> Jobs]
  /\ \A w \in Workers : job[w].done \subseteq job[w].batch
  /\ \A w \in Workers : pc[w] # "send" => job[w] = NoJob
  /\ faults \in 0 .. MaxFaults
  /\ calm \in BOOLEAN

Init ==
  /\ HeartbeatInit
  /\ services = Services
  /\ byService \in BOOLEAN
  /\ up = Services
  /\ queue = {}
  /\ service = <<>>
  /\ archived = {}
  /\ accepted = [i \in Rows |-> 0]
  /\ pc = [w \in Workers |-> "down"]
  /\ job = [w \in Workers |-> NoJob]
  /\ faults = 0
  /\ calm = TRUE

Fault == faults < MaxFaults /\ faults' = faults + 1

(***************************************************************************)
(* Producers, and what surrounds the daemon.                               *)
(***************************************************************************)
\* The services of an event: email events go by email and nothing else does.
Takers(isEmail) == services \cap IF isEmail THEN {"email"} ELSE Services \ {"email"}

\* The orders in which services_list may name the services of a set.
Listings(set) ==
  {list \in [1 .. Cardinality(set) -> set] : \A a, b \in DOMAIN list : list[a] = list[b] => a = b}

\* One row for each of them, in the order of the list.
AddMessage(isEmail) ==
  /\ Takers(isEmail) # {}
  /\ \E rows \in Listings(Takers(isEmail)) :
       /\ Len(service) + Len(rows) <= MaxRows
       /\ service' = service \o rows
  /\ queue' = queue \cup (DOMAIN service' \ DOMAIN service)
  /\ UNCHANGED <<hbVars, services, byService, up, archived, accepted, pc, job, faults, calm>>

Reconfigure(list) ==
  /\ Fault
  /\ list # services
  /\ services' = list
  /\ UNCHANGED <<hbVars, byService, up, queue, service, archived, accepted, pc, job, calm>>

Outage(s) ==
  /\ Fault
  /\ up' = up \ {s}
  /\ s \in up
  /\ UNCHANGED <<hbVars, services, byService, queue, service, archived, accepted, pc, job, calm>>

Repair(s) ==
  /\ s \in Services \ up
  /\ up' = up \cup {s}
  /\ UNCHANGED <<hbVars, services, byService, queue, service, archived, accepted, pc, job, faults, calm>>

Tick ==
  /\ Age
  /\ UNCHANGED <<services, byService, up, queue, service, archived, accepted, pc, job, faults, calm>>

(***************************************************************************)
(* The worker: db_workqueue around run_once.                               *)
(***************************************************************************)
mail == <<services, byService, up, service>>

\* With query_by_service at most Bulk rows of every service listed, otherwise
\* at most Bulk rows of all, the oldest first.
Oldest(rows) == {i \in rows : Cardinality({k \in rows : k < i}) < Bulk}

\* Mutant: a query for one service forgets to filter on it.
Retrieved_NoServiceFilter(mine) ==
  IF byService
  THEN UNION {{i \in Oldest(mine) : service[i] = s} : s \in services}
  ELSE Oldest(mine)

Retrieved(mine) ==
  IF byService
  THEN UNION {Oldest({i \in mine : service[i] = s}) : s \in services}
  ELSE Oldest(mine)

Start(w) ==
  /\ Enter(w)
  /\ pc' = [pc EXCEPT ![w] = "settling"]
  /\ UNCHANGED <<mail, queue, archived, accepted, job, faults, calm>>

\* After partition_wait_time the heartbeat is renewed.
Settle(w) ==
  /\ pc[w] = "settling"
  /\ HandlerLive(w, TRUE)
  /\ pc' = [pc EXCEPT ![w] = "idle"]
  /\ UNCHANGED <<alive, mail, queue, archived, accepted, job, faults, calm>>

\* run_once up to its first delivery.  The transaction that reads the rows
\* ends here and with it their locks.
Retrieve(w) ==
  /\ pc[w] = "idle"
  /\ HandlerLive(w, FALSE)
  /\ LET batch == Retrieved({i \in queue : Assigned(view'[w], w, Hash[i])})
         held == UNION {job[v].batch : v \in Workers}
     IN /\ pc' = [pc EXCEPT ![w] = IF batch = {} THEN "idle" ELSE "send"]
        /\ job' = [job EXCEPT ![w] =
             IF batch = {} THEN NoJob
             ELSE [conf |-> services, left |-> {service[i] : i \in batch}, batch |-> batch, done |-> {}]]
        /\ calm' = (calm /\ batch \cap held = {})
  /\ UNCHANGED <<alive, mail, queue, archived, accepted, faults>>

\* The exception reaches db_workqueue, which goes on with the next iteration.
Abandon(w) ==
  /\ pc' = [pc EXCEPT ![w] = "idle"]
  /\ job' = [job EXCEPT ![w] = NoJob]
  /\ calm' = FALSE
  /\ UNCHANGED accepted

\* The lists of rows that service s can come to accept.  A service that is
\* down accepts nothing of a bulk submission, and any part of single ones.
Outcomes(w, s, rows) ==
  CASE s \in up /\ (s \in job[w].conf \/ s = "email") -> {rows}
    [] s \notin up /\ s \notin BulkServices
       /\ (s \in job[w].conf \/ s = "email") -> SUBSET rows
    [] OTHER -> {{}}

\* Mutant: the whole list is deleted, whatever the service took of it.
Served_WholeList(w, s, rows, took) ==
  /\ accepted' = [i \in Rows |-> IF i \in took /\ accepted[i] < 2 THEN accepted[i] + 1 ELSE accepted[i]]
  /\ job' = [job EXCEPT ![w].left = @ \ {s}, ![w].done = @ \cup rows]
  /\ UNCHANGED <<pc, calm>>

Served(w, s, rows, took) ==
  /\ accepted' = [i \in Rows |-> IF i \in took /\ accepted[i] < 2 THEN accepted[i] + 1 ELSE accepted[i]]
  /\ job' = [job EXCEPT ![w].left = @ \ {s}, ![w].done = @ \cup took]
  /\ UNCHANGED <<pc, calm>>

\* The service of a set that Order names first.
First(set) ==
  {s \in set : \E k \in DOMAIN Order : Order[k] = s /\ \A h \in 1 .. k - 1 : Order[h] \notin set}

\* The endpoint of a bulk service that is no longer listed is unbound.
Deliver(w) ==
  /\ pc[w] = "send"
  /\ \E s \in First(job[w].left) :
       LET rows == {i \in job[w].batch : service[i] = s}
       IN IF s \in BulkServices /\ s \notin job[w].conf
          THEN Abandon(w)
          ELSE \E took \in Outcomes(w, s, rows) : Served(w, s, rows, took)
  /\ UNCHANGED <<hbVars, mail, queue, archived, faults>>

\* delete_messages: by id, whether or not the rows still exist.
DeleteMessages(w) ==
  /\ pc[w] = "send" /\ job[w].left = {}
  /\ queue' = queue \ job[w].done
  /\ archived' = archived \cup job[w].done
  /\ pc' = [pc EXCEPT ![w] = "idle"]
  /\ job' = [job EXCEPT ![w] = NoJob]
  /\ UNCHANGED <<hbVars, mail, accepted, faults, calm>>

\* graceful_stop is seen between two iterations.
Stop(w) ==
  /\ Fault
  /\ pc[w] \in {"settling", "idle"}
  /\ Exit(w)
  /\ pc' = [pc EXCEPT ![w] = "down"]
  /\ UNCHANGED <<mail, queue, archived, accepted, job, calm>>

Crash(w) ==
  /\ Fault
  /\ pc[w] # "down"
  /\ Vanish(w)
  /\ pc' = [pc EXCEPT ![w] = "down"]
  /\ job' = [job EXCEPT ![w] = NoJob]
  /\ calm' = FALSE
  /\ UNCHANGED <<mail, queue, archived, accepted>>

Next ==
  \/ \E isEmail \in BOOLEAN : AddMessage(isEmail)
  \/ \E list \in (SUBSET Services) \ {{}} : Reconfigure(list)
  \/ \E s \in Services : Outage(s) \/ Repair(s)
  \/ Tick
  \/ \E w \in Workers :
       Start(w) \/ Settle(w) \/ Retrieve(w) \/ Deliver(w) \/ DeleteMessages(w) \/ Stop(w) \/ Crash(w)

\* Somebody restarts the workers, the operating system schedules them, and
\* time passes.  Nobody has to repair a service.
Fairness ==
  /\ WF_vars(Tick)
  /\ \A w \in Workers :
       /\ WF_vars(Start(w)) /\ WF_vars(Settle(w)) /\ WF_vars(Retrieve(w))
       /\ WF_vars(Deliver(w)) /\ WF_vars(DeleteMessages(w))

Spec == Init /\ [][Next]_vars
FairSpec == Spec /\ Fairness

(***************************************************************************)
(* Properties.                                                             *)
(***************************************************************************)
\* A message leaves the queue only after its service accepted it, whatever
\* crashes, outages and changes of services_list come between the read and
\* the deletion (run_once: to_delete).  And as long as no worker crashes, fails
\* in an iteration or takes a row that another worker still holds, no service
\* gets a message twice: what a delivery accepted is deleted before the row can
\* be retrieved again.
SentOnce ==
  /\ \A i \in archived : accepted[i] > 0
  /\ calm => \A i \in Rows : accepted[i] < 2

\* The promise that db_workqueue can keep: two workers whose last renewals
\* saw the same workers do not hold the same row.
SameViewDisjoint ==
  \A v, w \in Workers :
    v # w /\ view[v].seen = view[w].seen => job[v].batch \cap job[w].batch = {}

\* Every message of a service that works and is listed is delivered in the
\* end: always with query_by_service, where no other service can stand in the
\* way, and otherwise as long as all services work and stay listed.
Blocked(i) ==
  IF byService
  THEN i \in DOMAIN service /\ service[i] \notin up \cap services
  ELSE up # Services \/ services # Services

Delivered == \A i \in Rows : (i \in queue) ~> (i \in archived \/ Blocked(i))

=============================================================================
