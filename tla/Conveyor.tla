------------------------------ MODULE Conveyor ------------------------------
(***************************************************************************)
(* The transfer conveyor for one destination replica: the rows of table    *)
(* requests, the daemons that move them from state to state, and the jobs  *)
(* these submit to the transfer tool (FTS).                                *)
(*                                                                         *)
(* One action is one database transaction or one call of the transfer      *)
(* tool.  Every daemon reads requests in one transaction and acts on them  *)
(* in later ones; what it remembers in between is a variable.  The mark    *)
(* last_processed_by keeps a request from being read twice only for ten    *)
(* minutes, so two workers may hold the same request.                      *)
(*                                                                         *)
(* Abstracted: NO_SOURCES stands also for ONLY_TAPE_SOURCES, which is      *)
(* treated alike; SUSPEND is never set.  Multi-hop paths, staging and bulk *)
(* jobs of several requests are left out.  The rule engine and the reaper  *)
(* are reduced to what they do to this row: want it, cancel, delete.       *)
(***************************************************************************)
EXTENDS Naturals

CONSTANTS
  Preparers, Submitters, Finishers,  \* workers of the three daemons
  InitialStates,    \* QUEUED, or PREPARING where conveyor.use_preparer is set
  RetryLimit,       \* 3 in the code
  RetryMismatches,  \* configuration: retry_protocol_mismatches
  MaxRequests,      \* bound on the request ids given out
  MaxJobs,          \* bound on the jobs submitted
  MaxEvents         \* bound on the number of environment events of each kind

EventKinds == {"want", "crash", "slow", "vanish", "reset"}

ASSUME ConveyorAssumption ==
  /\ InitialStates \subseteq {"PREPARING", "QUEUED"}
  /\ RetryLimit \in Nat \ {0}
  /\ RetryMismatches \in BOOLEAN
  /\ MaxRequests \in Nat /\ MaxJobs \in Nat
  /\ MaxEvents \in [EventKinds -> Nat]

Requests == 1 .. MaxRequests
Jobs == 1 .. MaxJobs
None == 0    \* no request, no external id; as a retry_count, NULL

VARIABLES
  replica,    \* state of the RSEFileAssociation row, or "ABSENT"
  request,    \* request[i]: state, retry_count and external_id of request i
  issued,     \* how many request ids have been given out
  preparing,  \* preparing[p]: the request preparer p holds
  work,       \* work[s]: what submitter s holds and how far it got with it
  batch,      \* batch[f]: a request as finisher f read it
  polling,    \* jobs the poller has asked about and not heard of yet
  job,        \* job[j]: what has become of job j in the transfer tool
  owner,      \* owner[j]: the request job j was submitted for
  gone,       \* jobs the transfer tool does not know (any more)
  launched,   \* how many job ids have been given out
  events,     \* events[k]: environment events of kind k that have happened
  stored,     \* history: the file is on the destination's storage
  late,       \* history: an outcome was applied after its request was archived
  dropped     \* history: the last request was archived without an outcome

rowVars == <<request, issued>>
memoryVars == <<preparing, work, batch, polling>>
toolVars == <<job, owner, gone, launched>>
ghostVars == <<stored, late, dropped>>
vars == <<replica, rowVars, memoryVars, toolVars, events, ghostVars>>

ReplicaStates == {"ABSENT", "COPYING", "AVAILABLE", "UNAVAILABLE"}
Failures == {"FAILED", "LOST", "SUBMISSION_FAILED", "NO_SOURCES", "MISMATCH_SCHEME"}
RequestStates ==
  {"PREPARING", "WAITING", "QUEUED", "SUBMITTING", "SUBMITTED", "DONE"} \cup Failures
JobStates == {"NONE", "ACTIVE", "FINISHED", "FAILED", "EXISTS", "CANCELED"}

Row == [state : RequestStates \cup {"NONE", "ARCHIVED"}, retry_count : Nat,
        external_id : Jobs \cup {None}]
NewRow(s, n) == [state |-> s, retry_count |-> n, external_id |-> None]
Archived == NewRow("ARCHIVED", None)

\* What a submitter and a finisher hold.
Holding == [stage : {"idle", "fetched", "marked", "answered"},
            id : Requests \cup {None}, job : Jobs \cup {None}]
Reading == [id : Requests \cup {None}, state : RequestStates \cup {"NONE"}, retry_count : Nat]
IdleSubmitter == [stage |-> "idle", id |-> None, job |-> None]
IdleFinisher == [id |-> None, state |-> "NONE", retry_count |-> None]

\* Used up one event of kind k.
Happens(k) == events[k] < MaxEvents[k] /\ events' = [events EXCEPT ![k] = @ + 1]

IsLive(row) == row.state \notin {"NONE", "ARCHIVED"}
Live == {i \in Requests : IsLive(request[i])}
Pending == Live # {}
Past == \E i \in Requests : request[i].state = "ARCHIVED"

-----------------------------------------------------------------------------
(***************************************************************************)
(* The rule engine and the reaper.                                         *)
(***************************************************************************)
\* queue_requests: a request for the destination that exists is left alone.
\* The rows are those after the caller's other changes.
Queued_ChecksBefore(rows, n) ==
  IF Pending
  THEN request' = rows /\ issued' = issued
  ELSE /\ issued < MaxRequests
       /\ issued' = issued + 1
       /\ \E s \in InitialStates : request' = [rows EXCEPT ![issued + 1] = NewRow(s, n)]
Queued(rows, n) ==
  IF \E i \in Requests : IsLive(rows[i])
  THEN request' = rows /\ issued' = issued
  ELSE /\ issued < MaxRequests
       /\ issued' = issued + 1
       /\ \E s \in InitialStates : request' = [rows EXCEPT ![issued + 1] = NewRow(s, n)]

\* A rule locks the replica, or its stuck lock is repaired: retry_count is
\* NULL in the first case and 1 in the second.
Want ==
  /\ Happens("want")
  /\ replica \in {"ABSENT", "UNAVAILABLE"}
  /\ replica' = "COPYING"
  /\ \E n \in {None, 1} : Queued(request, n)
  /\ dropped' = FALSE
  /\ UNCHANGED <<memoryVars, toolVars, stored, late>>

\* The transfer tool is asked to cancel the jobs and may fail to.
Cancelled(jobs) ==
  \E cancelled \in SUBSET jobs :
    job' = [j \in Jobs |-> IF j \in cancelled /\ job[j] = "ACTIVE" THEN "CANCELED" ELSE job[j]]

\* The last lock on the replica goes while it is REPLICATING:
\* __delete_lock_and_update_replica, cancel_request_did, cancel_transfers.
Cancel_KeepsRow ==
  /\ replica = "COPYING"
  /\ replica' = "UNAVAILABLE"
  /\ Cancelled({request[i].external_id : i \in Live})
  /\ UNCHANGED <<rowVars, memoryVars, owner, gone, launched, events, ghostVars>>
Cancel ==
  /\ replica = "COPYING"
  /\ replica' = "UNAVAILABLE"
  /\ Cancelled({request[i].external_id : i \in Live})
  /\ request' = [i \in Requests |-> IF i \in Live THEN Archived ELSE request[i]]
  /\ UNCHANGED <<issued, memoryVars, owner, gone, launched, events, ghostVars>>

\* The reaper deletes a replica that nobody locks, file and row.
Reap ==
  /\ replica \in {"AVAILABLE", "UNAVAILABLE"}
  /\ replica' = "ABSENT"
  /\ stored' = FALSE
  /\ UNCHANGED <<rowVars, memoryVars, toolVars, events, late, dropped>>

-----------------------------------------------------------------------------
(***************************************************************************)
(* Preparer and throttler.                                                 *)
(***************************************************************************)
\* transition_request_state: any existing request in any other state; an
\* outcome of a job must come with the request's external id.
Transition_AnyJob(i, new, j) ==
  IF IsLive(request[i]) /\ request[i].state # new
  THEN [request EXCEPT ![i].state = new]
  ELSE request
Transition(i, new, j) ==
  IF /\ IsLive(request[i])
     /\ request[i].state # new
     /\ new \in {"FAILED", "DONE", "LOST"} => request[i].external_id = j
  THEN [request EXCEPT ![i].state = new]
  ELSE request

PrepareFetch(p) ==
  /\ preparing[p] = None
  /\ \E i \in Requests :
       /\ request[i].state = "PREPARING"
       /\ preparing' = [preparing EXCEPT ![p] = i]
  /\ UNCHANGED <<replica, rowVars, work, batch, polling, toolVars, events, ghostVars>>

\* prepare_transfers writes the new state whatever the old one is, if the row
\* still exists; without a path the request is marked.
PrepareHandle(p) ==
  /\ preparing[p] # None
  /\ preparing' = [preparing EXCEPT ![p] = None]
  /\ LET i == preparing[p]
     IN  \/ \E s \in {"QUEUED", "WAITING"} :
              request' = IF IsLive(request[i]) THEN [request EXCEPT ![i].state = s] ELSE request
         \/ \E s \in {"NO_SOURCES", "MISMATCH_SCHEME"} : request' = Transition(i, s, None)
  /\ UNCHANGED <<replica, issued, work, batch, polling, toolVars, events, ghostVars>>

\* The throttler lets a waiting request go ...
Release(i) ==
  /\ request[i].state = "WAITING"
  /\ request' = [request EXCEPT ![i].state = "QUEUED"]
  /\ UNCHANGED <<replica, issued, memoryVars, toolVars, events, ghostVars>>

\* ... or sends it back to the preparer after a day.
ResetStale(i) ==
  /\ Happens("reset")
  /\ request[i].state = "WAITING"
  /\ request' = [request EXCEPT ![i].state = "PREPARING"]
  /\ UNCHANGED <<replica, issued, memoryVars, toolVars, ghostVars>>

-----------------------------------------------------------------------------
(***************************************************************************)
(* Submitter: fetch, find a path, mark SUBMITTING, submit, record.         *)
(***************************************************************************)
SubmitFetch(s) ==
  /\ work[s] = IdleSubmitter
  /\ \E i \in Requests :
       /\ request[i].state = "QUEUED"
       /\ work' = [work EXCEPT ![s] = [stage |-> "fetched", id |-> i, job |-> None]]
  /\ UNCHANGED <<replica, rowVars, preparing, batch, polling, toolVars, events, ghostVars>>

\* No path to the destination was found in what the submitter read.
NoPath(s) ==
  /\ work[s].stage = "fetched"
  /\ work' = [work EXCEPT ![s] = IdleSubmitter]
  /\ \E new \in {"NO_SOURCES", "MISMATCH_SCHEME"} :
       request' = Transition(work[s].id, new, None)
  /\ UNCHANGED <<replica, issued, preparing, batch, polling, toolVars, events, ghostVars>>

\* mark_submitting
MarkSubmitting(s) ==
  /\ work[s].stage = "fetched"
  /\ LET i == work[s].id
     IN  \/ /\ request[i].state = "QUEUED"
            /\ request' = [request EXCEPT ![i].external_id = None, ![i].state = "SUBMITTING"]
            /\ work' = [work EXCEPT ![s].stage = "marked"]
         \/ /\ request[i].state # "QUEUED"
            /\ work' = [work EXCEPT ![s] = IdleSubmitter]
            /\ UNCHANGED request
  /\ UNCHANGED <<replica, issued, preparing, batch, polling, toolVars, events, ghostVars>>

\* An unexpected exception in mark_submitting: nothing was marked.
MarkFails(s) ==
  /\ Happens("crash")
  /\ work[s].stage = "fetched"
  /\ work' = [work EXCEPT ![s] = IdleSubmitter]
  /\ request' = Transition(work[s].id, "SUBMISSION_FAILED", None)
  /\ UNCHANGED <<replica, issued, preparing, batch, polling, toolVars, ghostVars>>

\* The call to the transfer tool: a job is submitted and its id answered; or
\* the answer does not arrive, whether or not there is a job; or the call
\* failed and the id the job would have had is used.
Submit(s) ==
  /\ work[s].stage = "marked"
  /\ \/ /\ launched < MaxJobs
        /\ launched' = launched + 1
        /\ \E answer \in {launched + 1, None} :
             work' = [work EXCEPT ![s].stage = "answered", ![s].job = answer]
        /\ job' = [job EXCEPT ![launched + 1] = "ACTIVE"]
        /\ owner' = [owner EXCEPT ![launched + 1] = work[s].id]
        /\ UNCHANGED <<gone, events>>
     \/ /\ work' = [work EXCEPT ![s].stage = "answered"]
        /\ UNCHANGED <<toolVars, events>>
     \/ /\ Happens("vanish")
        /\ launched < MaxJobs
        /\ launched' = launched + 1
        /\ work' = [work EXCEPT ![s].stage = "answered", ![s].job = launched + 1]
        /\ job' = [job EXCEPT ![launched + 1] = "CANCELED"]
        /\ owner' = [owner EXCEPT ![launched + 1] = work[s].id]
        /\ gone' = gone \cup {launched + 1}
  /\ UNCHANGED <<replica, rowVars, preparing, batch, polling, ghostVars>>

\* set_transfers_state: the answer is recorded if the request still waits for it.
Recorded(i, j) ==
  /\ request[i].state = "SUBMITTING"
  /\ request' = [request EXCEPT ![i].external_id = j,
                   ![i].state = IF j = None THEN "SUBMISSION_FAILED" ELSE "SUBMITTED"]

\* The answer is recorded, or the job that cannot be recorded is cancelled.
Record(s) ==
  /\ work[s].stage = "answered"
  /\ work' = [work EXCEPT ![s] = IdleSubmitter]
  /\ LET i == work[s].id
         j == work[s].job
     IN  \/ Recorded(i, j) /\ UNCHANGED job
         \/ /\ request[i].state # "SUBMITTING"
            /\ Cancelled({j})
            /\ UNCHANGED request
  /\ UNCHANGED <<replica, issued, preparing, batch, polling, owner, gone, launched, events, ghostVars>>

-----------------------------------------------------------------------------
(***************************************************************************)
(* The transfer tool, and its reports through receiver and poller.         *)
(***************************************************************************)
\* A job ends.  EXISTS: it failed because the right file is there already;
\* CANCELED: an operator of the transfer tool cancelled it.
JobEnds(j) ==
  /\ job[j] = "ACTIVE"
  /\ \/ job' = [job EXCEPT ![j] = "FINISHED"] /\ stored' = TRUE
     \/ \E end \in {"FAILED", "CANCELED"} : job' = [job EXCEPT ![j] = end] /\ stored' = stored
     \/ stored /\ job' = [job EXCEPT ![j] = "EXISTS"] /\ stored' = stored
  /\ UNCHANGED <<replica, rowVars, memoryVars, owner, gone, launched, events, late, dropped>>

\* The transfer tool forgets a job; one that was active is not carried out.
Vanish(j) ==
  /\ Happens("vanish")
  /\ job[j] # "NONE"
  /\ job' = [job EXCEPT ![j] = IF @ = "ACTIVE" THEN "CANCELED" ELSE @]
  /\ gone' = gone \cup {j}
  /\ UNCHANGED <<replica, rowVars, memoryVars, owner, launched, ghostVars>>

\* The state a report about a job that has ended stands for.
Outcome == [FINISHED |-> "DONE", EXISTS |-> "DONE", FAILED |-> "FAILED", CANCELED |-> "FAILED"]

\* update_transfer_state: the outcome of a job that has ended reaches the
\* request it was submitted for.
Report(j) == request' = Transition(owner[j], Outcome[job[j]], j)

\* A completion message of job j.  It may arrive at any time after the job
\* ended, several times, or never; the receiver compares the job with the
\* one the request has now.
Receive(j) ==
  /\ job[j] \in {"FINISHED", "FAILED", "EXISTS"}
  /\ request[owner[j]].external_id = j
  /\ Report(j)
  /\ UNCHANGED <<replica, issued, memoryVars, toolVars, events, ghostVars>>

\* The poller reads a SUBMITTED request and asks about its job ...
PollFetch(i) ==
  /\ request[i].state = "SUBMITTED"
  /\ request[i].external_id \notin polling
  /\ polling' = polling \cup {request[i].external_id}
  /\ UNCHANGED <<replica, rowVars, preparing, work, batch, toolVars, events, ghostVars>>

\* ... and applies the answer, if there is one yet, to the request as it read
\* it; by then the request may have another job.
PollAnswer(j) ==
  /\ j \in polling
  /\ polling' = polling \ {j}
  /\ \/ j \in gone /\ request' = Transition(owner[j], "LOST", j)
     \/ j \notin gone /\ job[j] \in DOMAIN Outcome /\ Report(j)
     \/ j \notin gone /\ job[j] = "ACTIVE" /\ UNCHANGED request
  /\ UNCHANGED <<replica, issued, preparing, work, batch, toolVars, events, ghostVars>>

-----------------------------------------------------------------------------
(***************************************************************************)
(* Finisher.                                                               *)
(***************************************************************************)
\* should_retry_request
ShouldRetry_OneMore(state, n) ==
  \/ state = "SUBMITTING"
  \/ /\ state # "NO_SOURCES"
     /\ n = None \/ n <= RetryLimit
     /\ state = "MISMATCH_SCHEME" => RetryMismatches
ShouldRetry(state, n) ==
  \/ state = "SUBMITTING"
  \/ /\ state # "NO_SOURCES"
     /\ n = None \/ n < RetryLimit
     /\ state = "MISMATCH_SCHEME" => RetryMismatches

\* Terminated requests, and those SUBMITTING for two hours: their submitter
\* is gone, or slow.
FinishFetch_OnlyTerminated(f) ==
  /\ batch[f] = IdleFinisher
  /\ \E i \in Requests :
       /\ request[i].state \in Failures \cup {"DONE"}
       /\ batch' = [batch EXCEPT ![f] =
            [id |-> i, state |-> request[i].state, retry_count |-> request[i].retry_count]]
  /\ UNCHANGED <<replica, rowVars, preparing, work, polling, toolVars, events, ghostVars>>
FinishFetch(f) ==
  /\ batch[f] = IdleFinisher
  /\ \E i \in Requests :
       /\ \/ request[i].state \in Failures \cup {"DONE"} /\ UNCHANGED events
          \/ /\ request[i].state = "SUBMITTING"
             /\ IF \E s \in Submitters : work[s].id = i /\ work[s].stage # "fetched"
                THEN Happens("slow") ELSE UNCHANGED events
       /\ batch' = [batch EXCEPT ![f] =
            [id |-> i, state |-> request[i].state, retry_count |-> request[i].retry_count]]
  /\ UNCHANGED <<replica, rowVars, preparing, work, polling, toolVars, ghostVars>>

\* The request as the finisher read it asks for another attempt ...
Retries(f) == batch[f].state # "DONE" /\ ShouldRetry(batch[f].state, batch[f].retry_count)

\* ... then requeue_and_archive reads it again, archives it, and decides again.
NextCount(row) ==
  IF row.retry_count = None THEN 1
  ELSE IF row.state = "SUBMITTING" THEN row.retry_count ELSE row.retry_count + 1
Requeue(f) ==
  LET i == batch[f].id
      row == request[i]
      rows == [request EXCEPT ![i] = Archived]
  IN  /\ batch[f].id # None
      /\ Retries(f)
      /\ batch' = [batch EXCEPT ![f] = IdleFinisher]
      /\ \/ ~IsLive(row) /\ UNCHANGED <<rowVars, dropped>>
         \/ /\ IsLive(row) /\ ShouldRetry(row.state, row.retry_count)
            /\ Queued(rows, NextCount(row))
            /\ UNCHANGED dropped
         \/ /\ IsLive(row) /\ ~ShouldRetry(row.state, row.retry_count)
            /\ request' = rows /\ issued' = issued
            /\ dropped' = TRUE
      /\ UNCHANGED <<replica, preparing, work, polling, toolVars, events, stored, late>>

\* __update_bulk_replicas and __update_replica: the row is updated without a
\* look at the request, which is archived if it is still there.  A row that
\* is gone comes back for the reaper if the file was transferred.
Finish_AlwaysAvailable(f) ==
  LET i == batch[f].id
  IN  /\ batch[f].id # None
      /\ ~Retries(f)
      /\ batch' = [batch EXCEPT ![f] = IdleFinisher]
      /\ replica' = "AVAILABLE"
      /\ request' = IF IsLive(request[i]) THEN [request EXCEPT ![i] = Archived] ELSE request
      /\ late' = (late \/ ~IsLive(request[i]))
      /\ UNCHANGED <<issued, preparing, work, polling, toolVars, events, stored, dropped>>
Finish(f) ==
  LET i == batch[f].id
      done == batch[f].state = "DONE"
  IN  /\ batch[f].id # None
      /\ ~Retries(f)
      /\ batch' = [batch EXCEPT ![f] = IdleFinisher]
      /\ replica' = IF done THEN "AVAILABLE"
                    ELSE IF replica = "ABSENT" THEN "ABSENT" ELSE "UNAVAILABLE"
      /\ request' = IF IsLive(request[i]) THEN [request EXCEPT ![i] = Archived] ELSE request
      /\ late' = (late \/ ~IsLive(request[i]))
      /\ UNCHANGED <<issued, preparing, work, polling, toolVars, events, stored, dropped>>

-----------------------------------------------------------------------------
\* A worker dies, or gives up what it holds on an unexpected exception.
Crash ==
  /\ Happens("crash")
  /\ \/ \E p \in Preparers :
          preparing[p] # None /\ preparing' = [preparing EXCEPT ![p] = None] /\ UNCHANGED <<work, batch, polling>>
     \/ \E s \in Submitters :
          work[s].id # None /\ work' = [work EXCEPT ![s] = IdleSubmitter] /\ UNCHANGED <<preparing, batch, polling>>
     \/ \E f \in Finishers :
          batch[f].id # None /\ batch' = [batch EXCEPT ![f] = IdleFinisher] /\ UNCHANGED <<preparing, work, polling>>
  /\ UNCHANGED <<replica, rowVars, toolVars, ghostVars>>

Init ==
  /\ replica = "ABSENT"
  /\ request = [i \in Requests |-> NewRow("NONE", None)]
  /\ issued = 0
  /\ preparing = [p \in Preparers |-> None]
  /\ work = [s \in Submitters |-> IdleSubmitter]
  /\ batch = [f \in Finishers |-> IdleFinisher]
  /\ polling = {}
  /\ job = [j \in Jobs |-> "NONE"]
  /\ owner = [j \in Jobs |-> None]
  /\ gone = {}
  /\ launched = 0
  /\ events = [k \in EventKinds |-> 0]
  /\ stored = FALSE
  /\ late = FALSE
  /\ dropped = FALSE

Next ==
  \/ Want \/ Cancel \/ Reap \/ Crash
  \/ \E p \in Preparers : PrepareFetch(p) \/ PrepareHandle(p)
  \/ \E i \in Requests : Release(i) \/ ResetStale(i) \/ PollFetch(i)
  \/ \E s \in Submitters : SubmitFetch(s) \/ NoPath(s) \/ MarkSubmitting(s)
                           \/ MarkFails(s) \/ Submit(s) \/ Record(s)
  \/ \E j \in Jobs : JobEnds(j) \/ Vanish(j) \/ Receive(j) \/ PollAnswer(j)
  \/ \E f \in Finishers : FinishFetch(f) \/ Requeue(f) \/ Finish(f)

\* Every daemon keeps polling and carries on with what it holds; a job ends,
\* and the poller hears of it.
Fairness ==
  /\ \A p \in Preparers : WF_vars(PrepareFetch(p) \/ PrepareHandle(p))
  /\ \A i \in Requests : WF_vars(Release(i)) /\ WF_vars(PollFetch(i))
  /\ \A s \in Submitters :
       WF_vars(SubmitFetch(s) \/ NoPath(s) \/ MarkSubmitting(s) \/ Submit(s) \/ Record(s))
  /\ \A j \in Jobs : WF_vars(JobEnds(j)) /\ WF_vars(PollAnswer(j))
  /\ \A f \in Finishers : WF_vars(FinishFetch(f) \/ Requeue(f) \/ Finish(f))

Spec == Init /\ [][Next]_vars
FairSpec == Spec /\ Fairness

-----------------------------------------------------------------------------
(***************************************************************************)
(* Properties.                                                             *)
(***************************************************************************)
\* Every variable has its type.
TypeOK ==
  /\ replica \in ReplicaStates
  /\ request \in [Requests -> Row]
  /\ issued \in 0 .. MaxRequests
  /\ preparing \in [Preparers -> Requests \cup {None}]
  /\ work \in [Submitters -> Holding]
  /\ batch \in [Finishers -> Reading]
  /\ polling \subseteq Jobs
  /\ job \in [Jobs -> JobStates]
  /\ owner \in [Jobs -> Requests \cup {None}]
  /\ gone \subseteq Jobs
  /\ launched \in 0 .. MaxJobs
  /\ events \in [EventKinds -> Nat]
  /\ stored \in BOOLEAN /\ late \in BOOLEAN /\ dropped \in BOOLEAN

\* A replica that is being copied has a request, unless requeue_and_archive
\* dropped it; and never two: queue_requests leaves an existing request alone
\* (core/request.py).
CopyingHasRequest ==
  /\ replica = "COPYING" /\ ~dropped => Pending
  /\ \A i, j \in Live : i = j

\* A request is DONE only if the job it recorded last put the file there, or
\* found it: a report of another job of the request does not count
\* (transition_request_state, the status reports of transfertool/fts3.py).
DoneIsReal ==
  \A i \in Requests : request[i].state = "DONE" =>
    request[i].external_id # None /\ job[request[i].external_id] \in {"FINISHED", "EXISTS"}

\* A replica that the finisher made AVAILABLE is on storage, as long as no
\* outcome was applied after its request was archived (finisher.py,
\* __update_replica, does not look at the request).
AvailableIsStored == replica = "AVAILABLE" /\ ~late => stored

\* No request is tried more often than should_retry_request allows.
RetriesBounded == \A i \in Requests : request[i].retry_count <= RetryLimit

\* What the rule engine relies on.
Promise == INSTANCE Transfers WITH pending <- Pending, past <- Past

\* Every step of the conveyor is a step of what it promises (Transfers): the
\* request of a wanted copy ends exactly once.
Implements == Promise!Spec

\* A copy that is wanted ends: the replica becomes AVAILABLE or UNAVAILABLE,
\* unless its request was dropped (finisher.py, requeue_and_archive).
CopyEnds == replica = "COPYING" ~> replica # "COPYING" \/ dropped

-----------------------------------------------------------------------------
(***************************************************************************)
(* What the repository says and the code does not do: the README gives the *)
(* shortest behaviours that violate these.                                 *)
(***************************************************************************)
\* "another process can requeue_and_archive and this one will return None"
\* (finisher.py): a request that requeue_and_archive archives without an
\* outcome has been requeued, here or elsewhere.
NoRequestDropped == dropped => Pending
=============================================================================
