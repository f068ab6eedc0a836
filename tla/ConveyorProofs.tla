--------------------------- MODULE ConveyorProofs ---------------------------
(***************************************************************************)
(* Proofs about Conveyor for every number of workers, requests and jobs,   *)
(* every retry limit and any number of environment events.                 *)
(***************************************************************************)
EXTENDS Conveyor, TLAPS

\* Besides the types: a SUBMITTED request has a job, which the poller asks for.
TypeInv ==
  /\ TypeOK
  /\ \A i \in Requests : request[i].state = "SUBMITTED" => request[i].external_id # None

-----------------------------------------------------------------------------
(***************************************************************************)
(* Rows.                                                                   *)
(***************************************************************************)
\* A new request has the type of a row.
LEMMA NewRowType ==
  ASSUME NEW s \in RequestStates \cup {"NONE", "ARCHIVED"}, NEW n \in Nat
  PROVE  /\ NewRow(s, n) \in Row
         /\ NewRow(s, n).state = s
         /\ NewRow(s, n).retry_count = n
         /\ NewRow(s, n).external_id = None
  BY DEF NewRow, Row, None

\* An archived request has the type of a row, and no job.
LEMMA ArchivedType ==
  /\ Archived \in Row
  /\ Archived.state = "ARCHIVED"
  /\ Archived.retry_count = 0
  /\ Archived.external_id = None
  BY NewRowType DEF Archived, None

\* Assigning a state changes nothing else.
LEMMA SetState ==
  ASSUME NEW i, NEW new \in RequestStates, request \in [Requests -> Row]
  PROVE  /\ [request EXCEPT ![i].state = new] \in [Requests -> Row]
         /\ \A k \in Requests :
              \/ k # i /\ [request EXCEPT ![i].state = new][k] = request[k]
              \/ /\ k = i
                 /\ [request EXCEPT ![i].state = new][k].state = new
                 /\ [request EXCEPT ![i].state = new][k].retry_count = request[k].retry_count
                 /\ [request EXCEPT ![i].state = new][k].external_id = request[k].external_id
  <1>1. [request EXCEPT ![i].state = new] \in [Requests -> Row]
    BY DEF Row
  <1>2. ASSUME NEW k \in Requests, k # i
        PROVE  [request EXCEPT ![i].state = new][k] = request[k]
    BY <1>2
  <1>3. ASSUME i \in Requests
        PROVE  /\ [request EXCEPT ![i].state = new][i].state = new
               /\ [request EXCEPT ![i].state = new][i].retry_count = request[i].retry_count
               /\ [request EXCEPT ![i].state = new][i].external_id = request[i].external_id
    BY <1>3 DEF Row
  <1> QED
    BY <1>1, <1>2, <1>3

\* transition_request_state changes one row, its state only, and makes it
\* DONE only for the job the row has.
LEMMA TransitionRows ==
  ASSUME NEW i, NEW new \in RequestStates, NEW j, request \in [Requests -> Row]
  PROVE  /\ Transition(i, new, j) \in [Requests -> Row]
         /\ \A k \in Requests :
              \/ Transition(i, new, j)[k] = request[k]
              \/ /\ k = i
                 /\ IsLive(request[k])
                 /\ Transition(i, new, j)[k].state = new
                 /\ Transition(i, new, j)[k].retry_count = request[k].retry_count
                 /\ Transition(i, new, j)[k].external_id = request[k].external_id
                 /\ new \in {"FAILED", "DONE", "LOST"} => request[k].external_id = j
  <1>1. CASE Transition(i, new, j) = request
    BY <1>1
  <1>2. CASE Transition(i, new, j) # request
    <2>1. /\ IsLive(request[i])
          /\ new \in {"FAILED", "DONE", "LOST"} => request[i].external_id = j
          /\ Transition(i, new, j) = [request EXCEPT ![i].state = new]
      BY <1>2 DEF Transition
    <2> QED
      BY <2>1, SetState
  <1> QED
    BY <1>1, <1>2

\* queue_requests leaves the rows or adds one with the count it was given.
LEMMA QueuedRows ==
  ASSUME NEW rows \in [Requests -> Row], NEW n \in Nat, issued \in 0 .. MaxRequests,
         Queued(rows, n)
  PROVE  /\ request' \in [Requests -> Row]
         /\ issued' \in 0 .. MaxRequests
         /\ \/ /\ request' = rows /\ issued' = issued
               /\ \E i \in Requests : IsLive(rows[i])
            \/ /\ issued + 1 \in Requests
               /\ issued' = issued + 1
               /\ request'[issued + 1].state \in {"PREPARING", "QUEUED"}
               /\ request'[issued + 1].retry_count = n
               /\ request'[issued + 1].external_id = None
               /\ \A i \in Requests \ {issued + 1} : request'[i] = rows[i]
               /\ \A i \in Requests : ~IsLive(rows[i])
  <1>1. CASE \E i \in Requests : IsLive(rows[i])
    BY <1>1 DEF Queued
  <1>2. CASE ~\E i \in Requests : IsLive(rows[i])
    <2>1. PICK s \in InitialStates : request' = [rows EXCEPT ![issued + 1] = NewRow(s, n)]
      BY <1>2 DEF Queued
    <2>2. issued < MaxRequests /\ issued' = issued + 1
      BY <1>2 DEF Queued
    <2>3. issued + 1 \in Requests /\ issued' \in 0 .. MaxRequests
      BY <2>2, ConveyorAssumption DEF Requests
    <2>4. s \in {"PREPARING", "QUEUED"} /\ s \in RequestStates
      BY ConveyorAssumption DEF RequestStates
    <2>5. /\ NewRow(s, n) \in Row
          /\ NewRow(s, n).state = s
          /\ NewRow(s, n).retry_count = n
          /\ NewRow(s, n).external_id = None
      BY <2>4, NewRowType
    <2>6. request'[issued + 1] = NewRow(s, n) /\ request' \in [Requests -> Row]
      BY <2>1, <2>3, <2>5
    <2>7. \A i \in Requests \ {issued + 1} : request'[i] = rows[i]
      BY <2>1
    <2> QED
      BY <1>2, <2>2, <2>3, <2>4, <2>5, <2>6, <2>7
  <1> QED
    BY <1>1, <1>2

\* Counting an event keeps the counters natural numbers.
LEMMA HappensType ==
  ASSUME events \in [EventKinds -> Nat], NEW k \in EventKinds, Happens(k)
  PROVE  events' \in [EventKinds -> Nat]
  BY DEF Happens

\* So does a request for cancellation with the states of the jobs.
LEMMA CancelledType ==
  ASSUME job \in [Jobs -> JobStates], NEW jobs, Cancelled(jobs)
  PROVE  job' \in [Jobs -> JobStates]
  BY DEF Cancelled, JobStates

-----------------------------------------------------------------------------
(***************************************************************************)
(* Type correctness.                                                       *)
(***************************************************************************)
\* The initial state has the types.
LEMMA TypeInit == Init => TypeInv
  <1> SUFFICES ASSUME Init PROVE TypeInv
    OBVIOUS
  <1>1. NewRow("NONE", None) \in Row /\ NewRow("NONE", None).state = "NONE"
    BY NewRowType DEF None
  <1>2. /\ request \in [Requests -> Row]
        /\ \A i \in Requests : request[i].state = "NONE"
    BY <1>1 DEF Init
  <1>3. work \in [Submitters -> Holding]
    BY DEF Init, IdleSubmitter, Holding
  <1>4. batch \in [Finishers -> Reading]
    BY DEF Init, IdleFinisher, Reading, None
  <1>5. issued \in 0 .. MaxRequests /\ launched \in 0 .. MaxJobs
    BY ConveyorAssumption DEF Init
  <1> QED
    BY <1>2, <1>3, <1>4, <1>5 DEF Init, TypeInv, TypeOK, ReplicaStates, JobStates

\* The rule engine and the reaper.
LEMMA TypeRule == TypeInv /\ (Want \/ Cancel \/ Reap) => TypeInv'
  <1>1. ASSUME TypeInv, Want PROVE TypeInv'
    <2>1. PICK n \in {None, 1} : Queued(request, n)
      BY <1>1 DEF Want
    <2>2. n \in Nat /\ request \in [Requests -> Row] /\ issued \in 0 .. MaxRequests
      BY <1>1 DEF TypeInv, TypeOK, None
    <2>3. events' \in [EventKinds -> Nat]
      BY <1>1, HappensType DEF Want, TypeInv, TypeOK, EventKinds
    <2>4. \A i \in Requests : request'[i].state = "SUBMITTED" => request'[i].external_id # None
      BY <1>1, <2>1, <2>2, QueuedRows DEF TypeInv
    <2> QED
      BY <1>1, <2>1, <2>2, <2>3, <2>4, QueuedRows
         DEF Want, TypeInv, TypeOK, ReplicaStates, memoryVars, toolVars
  <1>2. ASSUME TypeInv, Cancel PROVE TypeInv'
    <2>1. job' \in [Jobs -> JobStates]
      BY <1>2, CancelledType DEF Cancel, TypeInv, TypeOK
    <2> QED
      BY <1>2, <2>1, ArchivedType
         DEF Cancel, TypeInv, TypeOK, ReplicaStates, memoryVars, ghostVars
  <1>3. ASSUME TypeInv, Reap PROVE TypeInv'
    BY <1>3 DEF Reap, TypeInv, TypeOK, ReplicaStates, rowVars, memoryVars, toolVars
  <1> QED
    BY <1>1, <1>2, <1>3

\* Preparer and throttler.
LEMMA TypePrepare ==
  ASSUME TypeInv, NEW p \in Preparers, PrepareFetch(p) \/ PrepareHandle(p)
  PROVE  TypeInv'
  <1>1. CASE PrepareFetch(p)
    BY <1>1 DEF PrepareFetch, TypeInv, TypeOK, rowVars, toolVars, ghostVars
  <1>2. CASE PrepareHandle(p)
    <2> DEFINE i == preparing[p]
    <2>1. CASE \E s \in {"QUEUED", "WAITING"} :
                 request' = IF IsLive(request[i]) THEN [request EXCEPT ![i].state = s] ELSE request
      <3>1. PICK s \in {"QUEUED", "WAITING"} :
                 request' = IF IsLive(request[i]) THEN [request EXCEPT ![i].state = s] ELSE request
        BY <2>1
      <3>0. s \in RequestStates /\ s # "SUBMITTED"
        BY DEF RequestStates
      <3>2. request' \in [Requests -> Row]
        BY <3>0, <3>1, SetState DEF TypeInv, TypeOK
      <3>3. \A k \in Requests : request'[k].state = "SUBMITTED" => request'[k] = request[k]
        BY <3>0, <3>1, SetState DEF TypeInv, TypeOK
      <3> QED
        BY <1>2, <3>2, <3>3 DEF PrepareHandle, TypeInv, TypeOK, toolVars, ghostVars
    <2>2. CASE \E s \in {"NO_SOURCES", "MISMATCH_SCHEME"} : request' = Transition(i, s, None)
      <3>1. PICK s \in {"NO_SOURCES", "MISMATCH_SCHEME"} : request' = Transition(i, s, None)
        BY <2>2
      <3>2. s \in RequestStates /\ s # "SUBMITTED"
        BY DEF RequestStates, Failures
      <3>3. request' \in [Requests -> Row]
        BY <3>1, <3>2, TransitionRows DEF TypeInv, TypeOK
      <3>4. \A k \in Requests : request'[k].state = "SUBMITTED" => request'[k] = request[k]
        BY <3>1, <3>2, TransitionRows DEF TypeInv, TypeOK
      <3> QED
        BY <1>2, <3>3, <3>4 DEF PrepareHandle, TypeInv, TypeOK, toolVars, ghostVars
    <2> QED
      BY <1>2, <2>1, <2>2 DEF PrepareHandle
  <1> QED
    BY <1>1, <1>2

\* Throttler and the poller's fetch.
LEMMA TypeRequest ==
  ASSUME TypeInv, NEW i \in Requests, Release(i) \/ ResetStale(i) \/ PollFetch(i)
  PROVE  TypeInv'
  <1>1. ASSUME NEW s \in {"QUEUED", "PREPARING"}, request' = [request EXCEPT ![i].state = s]
        PROVE  /\ request' \in [Requests -> Row]
               /\ \A k \in Requests : request'[k].state = "SUBMITTED" => request'[k] = request[k]
    <2>1. s \in RequestStates /\ s # "SUBMITTED"
      BY DEF RequestStates
    <2> QED
      BY <1>1, <2>1, SetState DEF TypeInv, TypeOK
  <1>2. CASE Release(i)
    BY <1>1, <1>2 DEF Release, TypeInv, TypeOK, memoryVars, toolVars, ghostVars
  <1>3. CASE ResetStale(i)
    <2>1. events' \in [EventKinds -> Nat]
      BY <1>3, HappensType DEF ResetStale, TypeInv, TypeOK, EventKinds
    <2> QED
      BY <1>1, <1>3, <2>1 DEF ResetStale, TypeInv, TypeOK, memoryVars, toolVars, ghostVars
  <1>4. CASE PollFetch(i)
    <2>1. request[i].external_id \in Jobs
      BY <1>4 DEF PollFetch, TypeInv, TypeOK, Row
    <2> QED
      BY <1>4, <2>1 DEF PollFetch, TypeInv, TypeOK, rowVars, toolVars, ghostVars
  <1> QED
    BY <1>2, <1>3, <1>4

\* The rows after mark_submitting and set_transfers_state.
LEMMA SetJob ==
  ASSUME NEW i, NEW new \in RequestStates, NEW j \in Jobs \cup {None}, request \in [Requests -> Row]
  PROVE  LET rows == [request EXCEPT ![i].external_id = j, ![i].state = new]
         IN  /\ rows \in [Requests -> Row]
             /\ \A k \in Requests :
                  \/ k # i /\ rows[k] = request[k]
                  \/ /\ k = i
                     /\ rows[k].state = new
                     /\ rows[k].retry_count = request[k].retry_count
                     /\ rows[k].external_id = j
  <1> DEFINE rows == [request EXCEPT ![i].external_id = j, ![i].state = new]
  <1>1. rows \in [Requests -> Row]
    BY DEF Row
  <1>2. ASSUME NEW k \in Requests, k # i PROVE rows[k] = request[k]
    BY <1>2
  <1>3. ASSUME i \in Requests
        PROVE  /\ rows[i].state = new
               /\ rows[i].retry_count = request[i].retry_count
               /\ rows[i].external_id = j
    BY <1>3 DEF Row
  <1> QED
    BY <1>1, <1>2, <1>3

\* What a submitter holds keeps its type when it goes on to the next stage.
LEMMA NextStage ==
  ASSUME work \in [Submitters -> Holding], NEW s \in Submitters,
         NEW t \in {"marked", "answered"}, NEW j \in Jobs \cup {None}
  PROVE  /\ [work EXCEPT ![s].stage = t] \in [Submitters -> Holding]
         /\ [work EXCEPT ![s].stage = t, ![s].job = j] \in [Submitters -> Holding]
  <1>1. [work[s] EXCEPT !.stage = t] \in Holding
    BY DEF Holding
  <1>2. [[work[s] EXCEPT !.stage = t] EXCEPT !.job = j] \in Holding
    BY DEF Holding
  <1> QED
    BY <1>1, <1>2 DEF Holding

\* Submitter.
LEMMA TypeSubmitter ==
  ASSUME TypeInv, NEW s \in Submitters,
         \/ SubmitFetch(s) \/ NoPath(s) \/ MarkSubmitting(s)
         \/ MarkFails(s) \/ Submit(s) \/ Record(s)
  PROVE  TypeInv'
  <1>0. work \in [Submitters -> Holding] /\ IdleSubmitter \in Holding
    BY DEF TypeInv, TypeOK, IdleSubmitter, Holding
  <1>1. CASE SubmitFetch(s)
    <2>1. \A i \in Requests : [stage |-> "fetched", id |-> i, job |-> None] \in Holding
      BY DEF Holding
    <2> QED
      BY <1>0, <1>1, <2>1 DEF SubmitFetch, TypeInv, TypeOK, rowVars, toolVars, ghostVars
  <1>2. ASSUME NEW i, NEW new \in {"NO_SOURCES", "MISMATCH_SCHEME", "SUBMISSION_FAILED"},
               request' = Transition(i, new, None)
        PROVE  /\ request' \in [Requests -> Row]
               /\ \A k \in Requests : request'[k].state = "SUBMITTED" => request'[k] = request[k]
    <2>1. new \in RequestStates /\ new # "SUBMITTED" /\ request \in [Requests -> Row]
      BY DEF RequestStates, Failures, TypeInv, TypeOK
    <2>2. request' \in [Requests -> Row]
      BY <1>2, <2>1, TransitionRows
    <2>3. \A k \in Requests : request'[k] = request[k] \/ request'[k].state = new
      BY <1>2, <2>1, TransitionRows
    <2> QED
      BY <2>1, <2>2, <2>3
  <1>3. CASE NoPath(s)
    BY <1>0, <1>2, <1>3 DEF NoPath, TypeInv, TypeOK, toolVars, ghostVars
  <1>4. CASE MarkFails(s)
    <2>1. events' \in [EventKinds -> Nat]
      BY <1>4, HappensType DEF MarkFails, TypeInv, TypeOK, EventKinds
    <2> QED
      BY <1>0, <1>2, <1>4, <2>1 DEF MarkFails, TypeInv, TypeOK, toolVars, ghostVars
  <1>5. CASE MarkSubmitting(s)
    <2>1. /\ request' \in [Requests -> Row]
          /\ \A k \in Requests : request'[k].state = "SUBMITTED" => request'[k] = request[k]
      <3>1. CASE request' = request
        BY <3>1 DEF TypeInv, TypeOK
      <3>2. CASE request' # request
        <4>1. request' = [request EXCEPT ![work[s].id].external_id = None, ![work[s].id].state = "SUBMITTING"]
          BY <1>5, <3>2 DEF MarkSubmitting
        <4>2. "SUBMITTING" \in RequestStates /\ None \in Jobs \cup {None} /\ request \in [Requests -> Row]
          BY DEF RequestStates, TypeInv, TypeOK
        <4>3. request' \in [Requests -> Row]
          BY <4>1, <4>2, SetJob
        <4>4. \A k \in Requests : request'[k] = request[k] \/ request'[k].state = "SUBMITTING"
          BY <4>1, <4>2, SetJob
        <4> QED
          BY <4>3, <4>4
      <3> QED
        BY <3>1, <3>2
    <2>2. work' \in [Submitters -> Holding]
      <3>1. [work EXCEPT ![s].stage = "marked"] \in [Submitters -> Holding]
        BY <1>0, NextStage
      <3> QED
        BY <1>0, <1>5, <3>1 DEF MarkSubmitting
    <2> QED
      BY <1>5, <2>1, <2>2 DEF MarkSubmitting, TypeInv, TypeOK, toolVars, ghostVars
  <1>6. CASE Submit(s)
    <2>1. CASE UNCHANGED <<toolVars, events>>
      <3>1. work' = [work EXCEPT ![s].stage = "answered"]
        BY <1>6, <2>1, ConveyorAssumption DEF Submit, toolVars, TypeInv, TypeOK
      <3>2. work' \in [Submitters -> Holding]
        BY <1>0, <3>1, NextStage
      <3> QED
        BY <1>6, <2>1, <3>2 DEF Submit, TypeInv, TypeOK, rowVars, toolVars, ghostVars
    <2>2. CASE /\ launched < MaxJobs
               /\ launched' = launched + 1
               /\ \E answer \in {launched + 1, None} :
                    work' = [work EXCEPT ![s].stage = "answered", ![s].job = answer]
               /\ \E st \in {"ACTIVE", "CANCELED"} : job' = [job EXCEPT ![launched + 1] = st]
               /\ owner' = [owner EXCEPT ![launched + 1] = work[s].id]
               /\ gone' = gone \/ gone' = gone \cup {launched + 1}
               /\ events' = events \/ Happens("vanish")
      <3>1. launched + 1 \in Jobs /\ launched' \in 0 .. MaxJobs
        BY <2>2, ConveyorAssumption DEF Jobs, TypeInv, TypeOK
      <3>2. work' \in [Submitters -> Holding]
        <4>1. PICK answer \in {launched + 1, None} :
                work' = [work EXCEPT ![s].stage = "answered", ![s].job = answer]
          BY <2>2
        <4>2. answer \in Jobs \cup {None}
          BY <3>1
        <4> QED
          BY <1>0, <4>1, <4>2, NextStage
      <3>3. job' \in [Jobs -> JobStates] /\ gone' \subseteq Jobs
        BY <2>2, <3>1 DEF TypeInv, TypeOK, JobStates
      <3>5. owner' \in [Jobs -> Requests \cup {None}]
        BY <1>0, <2>2, <3>1 DEF TypeInv, TypeOK, Holding
      <3>4. events' \in [EventKinds -> Nat]
        BY <2>2, HappensType DEF TypeInv, TypeOK, EventKinds
      <3> QED
        BY <1>6, <3>1, <3>2, <3>3, <3>4, <3>5 DEF Submit, TypeInv, TypeOK, rowVars, ghostVars
    <2> QED
      BY <1>6, <2>1, <2>2 DEF Submit
  <1>7. CASE Record(s)
    <2>1. job' \in [Jobs -> JobStates]
      BY <1>7, CancelledType DEF Record, Recorded, TypeInv, TypeOK
    <2>2. /\ request' \in [Requests -> Row]
          /\ \A k \in Requests : request'[k].state = "SUBMITTED" => request'[k].external_id # None
      <3>1. CASE request' = request
        BY <3>1 DEF TypeInv, TypeOK
      <3>2. CASE request' # request
        <4> DEFINE i == work[s].id
                   j == work[s].job
                   new == IF j = None THEN "SUBMISSION_FAILED" ELSE "SUBMITTED"
        <4>1. request' = [request EXCEPT ![i].external_id = j, ![i].state = new]
          BY <1>7, <3>2 DEF Record, Recorded
        <4>2. new \in RequestStates /\ (new = "SUBMITTED" => j # None)
          BY DEF RequestStates, Failures
        <4>3. j \in Jobs \cup {None} /\ request \in [Requests -> Row]
          BY <1>0 DEF TypeInv, TypeOK, Holding
        <4> HIDE DEF i, j, new
        <4>4. request' \in [Requests -> Row]
          BY <4>1, <4>2, <4>3, SetJob
        <4>5. \A k \in Requests :
                \/ request'[k] = request[k]
                \/ request'[k].state = new /\ request'[k].external_id = j
          BY <4>1, <4>2, <4>3, SetJob
        <4> QED
          BY <4>2, <4>4, <4>5 DEF TypeInv
      <3> QED
        BY <3>1, <3>2
    <2> QED
      BY <1>0, <1>7, <2>1, <2>2 DEF Record, Recorded, TypeInv, TypeOK, ghostVars
  <1> QED
    BY <1>1, <1>3, <1>4, <1>5, <1>6, <1>7

\* The transfer tool and its reports.
LEMMA TypeTool ==
  ASSUME TypeInv, NEW j \in Jobs, JobEnds(j) \/ Vanish(j) \/ Receive(j) \/ PollAnswer(j)
  PROVE  TypeInv'
  <1>1. CASE JobEnds(j)
    BY <1>1 DEF JobEnds, TypeInv, TypeOK, JobStates, rowVars, memoryVars
  <1>2. CASE Vanish(j)
    <2>1. events' \in [EventKinds -> Nat]
      BY <1>2, HappensType DEF Vanish, TypeInv, TypeOK, EventKinds
    <2>2. job' \in [Jobs -> JobStates] /\ gone' \subseteq Jobs
      BY <1>2 DEF Vanish, TypeInv, TypeOK, JobStates
    <2> QED
      BY <1>2, <2>1, <2>2 DEF Vanish, TypeInv, TypeOK, rowVars, memoryVars, ghostVars
  <1>3. ASSUME NEW new \in {"LOST", "DONE", "FAILED"}, request' = Transition(owner[j], new, j)
        PROVE  /\ request' \in [Requests -> Row]
               /\ \A k \in Requests : request'[k].state = "SUBMITTED" => request'[k] = request[k]
    <2>1. new \in RequestStates /\ new # "SUBMITTED" /\ request \in [Requests -> Row]
      BY DEF RequestStates, Failures, TypeInv, TypeOK
    <2>2. request' \in [Requests -> Row]
      BY <1>3, <2>1, TransitionRows
    <2>3. \A k \in Requests : request'[k] = request[k] \/ request'[k].state = new
      BY <1>3, <2>1, TransitionRows
    <2> QED
      BY <2>1, <2>2, <2>3
  <1>4. \A s \in DOMAIN Outcome : Outcome[s] \in {"LOST", "DONE", "FAILED"}
    BY DEF Outcome
  <1>5. \A s \in {"FINISHED", "FAILED", "EXISTS"} : s \in DOMAIN Outcome
    BY DEF Outcome
  <1>6. CASE Receive(j)
    BY <1>3, <1>4, <1>5, <1>6 DEF Receive, Report, TypeInv, TypeOK, memoryVars, toolVars, ghostVars
  <1>7. CASE PollAnswer(j)
    <2>1. /\ request' \in [Requests -> Row]
          /\ \A k \in Requests : request'[k].state = "SUBMITTED" => request'[k] = request[k]
      BY <1>3, <1>4, <1>7 DEF PollAnswer, Report, TypeInv, TypeOK
    <2> QED
      BY <1>7, <2>1 DEF PollAnswer, TypeInv, TypeOK, toolVars, ghostVars
  <1> QED
    BY <1>1, <1>2, <1>6, <1>7

\* The count of the next attempt.
LEMMA NextCountType ==
  ASSUME NEW row \in Row PROVE NextCount(row) \in Nat
  BY DEF NextCount, Row

\* Finisher.
LEMMA TypeFinisher ==
  ASSUME TypeInv, NEW f \in Finishers, FinishFetch(f) \/ Requeue(f) \/ Finish(f)
  PROVE  TypeInv'
  <1>0. /\ batch \in [Finishers -> Reading]
        /\ IdleFinisher \in Reading
        /\ request \in [Requests -> Row]
        /\ issued \in 0 .. MaxRequests
    BY DEF TypeInv, TypeOK, IdleFinisher, Reading, None
  <1>1. CASE FinishFetch(f)
    <2>1. PICK i \in Requests :
            /\ request[i].state \in Failures \cup {"DONE"} \/ request[i].state = "SUBMITTING"
            /\ batch' = [batch EXCEPT ![f] =
                 [id |-> i, state |-> request[i].state, retry_count |-> request[i].retry_count]]
      BY <1>1 DEF FinishFetch
    <2>2. [id |-> i, state |-> request[i].state, retry_count |-> request[i].retry_count] \in Reading
      BY <1>0, <2>1 DEF Reading, Row, RequestStates
    <2>3. batch' \in [Finishers -> Reading]
      BY <1>0, <2>1, <2>2
    <2>4. events' \in [EventKinds -> Nat]
      BY <1>1, HappensType DEF FinishFetch, TypeInv, TypeOK, EventKinds
    <2> QED
      BY <1>1, <2>3, <2>4 DEF FinishFetch, TypeInv, TypeOK, rowVars, toolVars, ghostVars
  <1>2. CASE Requeue(f)
    <2> DEFINE i == batch[f].id
               rows == [request EXCEPT ![i] = Archived]
    <2>1. i \in Requests
      BY <1>0, <1>2 DEF Requeue, Reading
    <2>2. rows \in [Requests -> Row] /\ rows[i] = Archived /\ \A k \in Requests \ {i} : rows[k] = request[k]
      BY <1>0, <2>1, ArchivedType
    <2>3. \/ request' = request /\ issued' = issued
          \/ request' = rows /\ issued' = issued
          \/ Queued(rows, NextCount(request[i]))
      BY <1>2 DEF Requeue, rowVars
    <2>4. NextCount(request[i]) \in Nat
      BY <1>0, <2>1, NextCountType
    <2> HIDE DEF rows
    <2>5. request' \in [Requests -> Row] /\ issued' \in 0 .. MaxRequests
      BY <1>0, <2>2, <2>3, <2>4, QueuedRows
    <2>6. \A k \in Requests : \/ request'[k] = request[k] \/ request'[k] = Archived
                              \/ request'[k].state \in {"PREPARING", "QUEUED"}
      BY <1>0, <2>2, <2>3, <2>4, QueuedRows
    <2>7. batch' \in [Finishers -> Reading] /\ dropped' \in BOOLEAN
      BY <1>0, <1>2 DEF Requeue, TypeInv, TypeOK
    <2>8. \A k \in Requests : request'[k].state = "SUBMITTED" => request'[k].external_id # None
      BY <2>6, ArchivedType DEF TypeInv
    <2> QED
      BY <1>2, <2>5, <2>7, <2>8 DEF Requeue, TypeInv, TypeOK, toolVars
  <1>3. CASE Finish(f)
    <2>1. request' \in [Requests -> Row] /\ \A k \in Requests : request'[k] = request[k] \/ request'[k] = Archived
      BY <1>0, <1>3, ArchivedType DEF Finish
    <2>2. replica' \in ReplicaStates /\ late' \in BOOLEAN /\ batch' \in [Finishers -> Reading]
      BY <1>0, <1>3 DEF Finish, ReplicaStates, TypeInv, TypeOK
    <2>3. \A k \in Requests : request'[k].state = "SUBMITTED" => request'[k].external_id # None
      BY <2>1, ArchivedType DEF TypeInv
    <2> QED
      BY <1>3, <2>1, <2>2, <2>3 DEF Finish, TypeInv, TypeOK, toolVars
  <1> QED
    BY <1>1, <1>2, <1>3

\* The death of a worker.
LEMMA TypeCrash == TypeInv /\ Crash => TypeInv'
  <1> SUFFICES ASSUME TypeInv, Crash PROVE TypeInv'
    OBVIOUS
  <1>1. events' \in [EventKinds -> Nat]
    BY HappensType DEF Crash, TypeInv, TypeOK, EventKinds
  <1>2. IdleSubmitter \in Holding /\ IdleFinisher \in Reading
    BY DEF IdleSubmitter, IdleFinisher, Holding, Reading, None
  <1>3. /\ preparing' \in [Preparers -> Requests \cup {None}]
        /\ work' \in [Submitters -> Holding]
        /\ batch' \in [Finishers -> Reading]
        /\ polling' = polling
    BY <1>2 DEF Crash, TypeInv, TypeOK
  <1> QED
    BY <1>1, <1>3 DEF Crash, TypeInv, TypeOK, rowVars, toolVars, ghostVars

\* Every step keeps the types.
LEMMA TypeStep == TypeInv /\ [Next]_vars => TypeInv'
  <1> SUFFICES ASSUME TypeInv, [Next]_vars PROVE TypeInv'
    OBVIOUS
  <1>1. CASE UNCHANGED vars
    BY <1>1 DEF vars, rowVars, memoryVars, toolVars, ghostVars, TypeInv, TypeOK
  <1>2. CASE Next
    BY <1>2, TypeRule, TypeCrash, TypePrepare, TypeRequest, TypeSubmitter, TypeTool, TypeFinisher DEF Next
  <1> QED
    BY <1>1, <1>2

\* Every variable of the conveyor keeps its type.
THEOREM TypeCorrect == Spec => []TypeOK
  <1>1. TypeInv => TypeOK
    BY DEF TypeInv
  <1> QED
    BY TypeInit, TypeStep, <1>1, PTL DEF Spec

-----------------------------------------------------------------------------
(***************************************************************************)
(* Which requests exist.  Only Want, Cancel, Requeue and Finish begin or   *)
(* end a request; every other step is quiet.                               *)
(***************************************************************************)
\* The rows up to issued were given out and one of them at most is live; a
\* finisher holds a request that was given out.
Ledger ==
  /\ \A i \in Requests : request[i].state = "NONE" <=> i > issued
  /\ \A i, j \in Requests : IsLive(request[i]) /\ IsLive(request[j]) => i = j
  /\ \A f \in Finishers : batch[f].id # None => batch[f].id <= issued
  /\ replica = "COPYING" /\ ~dropped => \E i \in Requests : IsLive(request[i])
  /\ RetriesBounded

RowsKept ==
  \A k \in Requests :
    /\ request'[k].retry_count = request[k].retry_count
    /\ request'[k].state = request[k].state \/ (IsLive(request[k]) /\ IsLive(request'[k]))

Quiet ==
  /\ issued' = issued
  /\ dropped' = dropped
  /\ RowsKept
  /\ replica' = replica \/ (replica \in {"AVAILABLE", "UNAVAILABLE"} /\ replica' = "ABSENT")
  /\ \A f \in Finishers :
       \/ batch'[f].id = batch[f].id
       \/ batch'[f].id = None
       \/ batch'[f].id \in Requests /\ IsLive(request[batch'[f].id])

\* A row in a state of the conveyor is live.
LEMMA LiveStates ==
  ASSUME NEW row, row.state \in RequestStates PROVE IsLive(row)
  BY DEF IsLive, RequestStates, Failures

\* transition_request_state begins and ends no request ...
LEMMA TransitionKeeps ==
  ASSUME request \in [Requests -> Row], NEW i, NEW new \in RequestStates, NEW j,
         request' = Transition(i, new, j)
  PROVE  RowsKept
  <1>1. \A k \in Requests :
          \/ request'[k] = request[k]
          \/ /\ IsLive(request[k])
             /\ request'[k].state = new
             /\ request'[k].retry_count = request[k].retry_count
    BY TransitionRows
  <1> QED
    BY <1>1, LiveStates DEF RowsKept

\* ... nor does the assignment of a state to a live one ...
LEMMA SetStateKeeps ==
  ASSUME request \in [Requests -> Row], NEW i \in Requests, IsLive(request[i]),
         NEW new \in RequestStates, request' = [request EXCEPT ![i].state = new]
  PROVE  RowsKept
  <1>1. \A k \in Requests :
          \/ request'[k] = request[k]
          \/ /\ IsLive(request[k])
             /\ request'[k].state = new
             /\ request'[k].retry_count = request[k].retry_count
    BY SetState
  <1> QED
    BY <1>1, LiveStates DEF RowsKept

\* ... or of a state and a job.
LEMMA SetJobKeeps ==
  ASSUME request \in [Requests -> Row], NEW i, IsLive(request[i]), NEW j \in Jobs \cup {None},
         NEW new \in RequestStates, request' = [request EXCEPT ![i].external_id = j, ![i].state = new]
  PROVE  RowsKept
  <1>1. \A k \in Requests :
          \/ request'[k] = request[k]
          \/ /\ IsLive(request[k])
             /\ request'[k].state = new
             /\ request'[k].retry_count = request[k].retry_count
    BY SetJob
  <1> QED
    BY <1>1, LiveStates DEF RowsKept

\* Steps that leave table requests alone.
LEMMA QuietTable ==
  ASSUME TypeInv,
         \/ Reap \/ Crash
         \/ \E p \in Preparers : PrepareFetch(p)
         \/ \E s \in Submitters : SubmitFetch(s) \/ Submit(s)
         \/ \E i \in Requests : PollFetch(i)
         \/ \E j \in Jobs : JobEnds(j) \/ Vanish(j)
  PROVE  Quiet
  <1>1. request' = request /\ issued' = issued /\ dropped' = dropped
    BY DEF Reap, Crash, PrepareFetch, SubmitFetch, Submit, PollFetch, JobEnds, Vanish, rowVars, ghostVars
  <1>2. replica' = replica \/ (replica \in {"AVAILABLE", "UNAVAILABLE"} /\ replica' = "ABSENT")
    BY DEF Reap, Crash, PrepareFetch, SubmitFetch, Submit, PollFetch, JobEnds, Vanish
  <1>3. \A f \in Finishers : batch'[f].id = batch[f].id \/ batch'[f].id = None
    <2>1. CASE batch' = batch
      BY <2>1
    <2>2. CASE batch' # batch
      <3>1. PICK g \in Finishers : batch' = [batch EXCEPT ![g] = IdleFinisher]
        BY <2>2 DEF Reap, Crash, PrepareFetch, SubmitFetch, Submit, PollFetch, JobEnds, Vanish, memoryVars
      <3> QED
        BY <3>1 DEF TypeInv, TypeOK, IdleFinisher
    <2> QED
      BY <2>1, <2>2
  <1> QED
    BY <1>1, <1>2, <1>3 DEF Quiet, RowsKept

\* The preparer, also when it overwrites the state of a later stage.
LEMMA QuietPrepare ==
  ASSUME TypeInv, NEW p \in Preparers, PrepareHandle(p) PROVE Quiet
  <1> DEFINE i == preparing[p]
  <1>0. request \in [Requests -> Row] /\ i \in Requests
    BY DEF TypeInv, TypeOK, PrepareHandle
  <1>1. RowsKept
    <2>1. CASE \E s \in {"QUEUED", "WAITING"} :
                 request' = IF IsLive(request[i]) THEN [request EXCEPT ![i].state = s] ELSE request
      <3>1. PICK s \in {"QUEUED", "WAITING"} :
                 request' = IF IsLive(request[i]) THEN [request EXCEPT ![i].state = s] ELSE request
        BY <2>1
      <3>2. s \in RequestStates
        BY DEF RequestStates
      <3>3. CASE IsLive(request[i])
        BY <1>0, <3>1, <3>2, <3>3, SetStateKeeps
      <3>4. CASE ~IsLive(request[i])
        BY <3>1, <3>4 DEF RowsKept
      <3> QED
        BY <3>3, <3>4
    <2>2. CASE \E s \in {"NO_SOURCES", "MISMATCH_SCHEME"} : request' = Transition(i, s, None)
      <3>1. PICK s \in {"NO_SOURCES", "MISMATCH_SCHEME"} : request' = Transition(i, s, None)
        BY <2>2
      <3>2. s \in RequestStates
        BY DEF RequestStates, Failures
      <3> QED
        BY <1>0, <3>1, <3>2, TransitionKeeps
    <2> QED
      BY <2>1, <2>2 DEF PrepareHandle
  <1> QED
    BY <1>1 DEF PrepareHandle, Quiet, ghostVars

\* The throttler.
LEMMA QuietThrottle ==
  ASSUME TypeInv, NEW i \in Requests, Release(i) \/ ResetStale(i) PROVE Quiet
  <1>1. PICK s \in {"QUEUED", "PREPARING"} : request' = [request EXCEPT ![i].state = s]
    BY DEF Release, ResetStale
  <1>2. s \in RequestStates /\ request[i].state \in RequestStates /\ request \in [Requests -> Row]
    BY DEF RequestStates, Release, ResetStale, TypeInv, TypeOK
  <1>3. RowsKept
    BY <1>1, <1>2, LiveStates, SetStateKeeps
  <1> QED
    BY <1>3 DEF Release, ResetStale, Quiet, memoryVars, ghostVars

\* The submitter's steps on the row.
LEMMA QuietSubmitter ==
  ASSUME TypeInv, NEW s \in Submitters, NoPath(s) \/ MarkFails(s) \/ MarkSubmitting(s) \/ Record(s)
  PROVE  Quiet
  <1>0. request \in [Requests -> Row] /\ work[s].job \in Jobs \cup {None}
    BY DEF TypeInv, TypeOK, Holding
  <1>1. RowsKept
    <2>1. CASE request' = request
      BY <2>1 DEF RowsKept
    <2>2. CASE NoPath(s) \/ MarkFails(s)
      <3>1. PICK new \in {"NO_SOURCES", "MISMATCH_SCHEME", "SUBMISSION_FAILED"} :
              request' = Transition(work[s].id, new, None)
        BY <2>2 DEF NoPath, MarkFails
      <3>2. new \in RequestStates
        BY DEF RequestStates, Failures
      <3> QED
        BY <1>0, <3>1, <3>2, TransitionKeeps
    <2>3. CASE MarkSubmitting(s) /\ request' # request
      <3>1. /\ request[work[s].id].state = "QUEUED"
            /\ request' = [request EXCEPT ![work[s].id].external_id = None, ![work[s].id].state = "SUBMITTING"]
        BY <2>3 DEF MarkSubmitting
      <3>2. "SUBMITTING" \in RequestStates /\ IsLive(request[work[s].id]) /\ None \in Jobs \cup {None}
        BY <3>1 DEF RequestStates, IsLive
      <3> QED
        BY <1>0, <3>1, <3>2, SetJobKeeps
    <2>4. CASE Record(s) /\ request' # request
      <3> DEFINE new == IF work[s].job = None THEN "SUBMISSION_FAILED" ELSE "SUBMITTED"
      <3>1. /\ request[work[s].id].state = "SUBMITTING"
            /\ request' = [request EXCEPT ![work[s].id].external_id = work[s].job, ![work[s].id].state = new]
        BY <2>4 DEF Record, Recorded
      <3>2. new \in RequestStates /\ IsLive(request[work[s].id])
        BY <3>1 DEF RequestStates, Failures, IsLive
      <3> HIDE DEF new
      <3> QED
        BY <1>0, <3>1, <3>2, SetJobKeeps
    <2> QED
      BY <2>1, <2>2, <2>3, <2>4
  <1> QED
    BY <1>1 DEF NoPath, MarkFails, MarkSubmitting, Record, Recorded, Quiet, ghostVars

\* Reports of receiver and poller.
LEMMA QuietReports ==
  ASSUME TypeInv, NEW j \in Jobs, Receive(j) \/ PollAnswer(j) PROVE Quiet
  <1>1. RowsKept
    <2>1. CASE request' = request
      BY <2>1 DEF RowsKept
    <2>2. CASE request' # request
      <3>1. PICK new \in {"LOST", "DONE", "FAILED"} : request' = Transition(owner[j], new, j)
        <4>1. \A s \in DOMAIN Outcome : Outcome[s] \in {"LOST", "DONE", "FAILED"}
          BY DEF Outcome
        <4>2. \A s \in {"FINISHED", "FAILED", "EXISTS"} : s \in DOMAIN Outcome
          BY DEF Outcome
        <4> QED
          BY <2>2, <4>1, <4>2 DEF Receive, PollAnswer, Report
      <3>2. new \in RequestStates
        BY DEF RequestStates, Failures
      <3> QED
        BY <3>1, <3>2, TransitionKeeps DEF TypeInv, TypeOK
    <2> QED
      BY <2>1, <2>2
  <1> QED
    BY <1>1 DEF Receive, PollAnswer, Quiet, memoryVars, ghostVars

\* The finisher's fetch.
LEMMA QuietFetch ==
  ASSUME TypeInv, NEW f \in Finishers, FinishFetch(f) PROVE Quiet
  <1>1. PICK i \in Requests :
          /\ request[i].state \in Failures \cup {"DONE"} \/ request[i].state = "SUBMITTING"
          /\ batch' = [batch EXCEPT ![f] =
               [id |-> i, state |-> request[i].state, retry_count |-> request[i].retry_count]]
    BY DEF FinishFetch
  <1>2. IsLive(request[i])
    BY <1>1 DEF IsLive, Failures
  <1>3. \A g \in Finishers : batch'[g].id = batch[g].id \/ batch'[g].id = i
    BY <1>1 DEF TypeInv, TypeOK
  <1> QED
    BY <1>2, <1>3 DEF FinishFetch, Quiet, RowsKept, rowVars, ghostVars

\* Every step begins or ends a request, or is quiet.
LEMMA StepKinds ==
  ASSUME TypeInv, [Next]_vars
  PROVE  Quiet \/ Want \/ Cancel \/ \E f \in Finishers : Requeue(f) \/ Finish(f)
  <1>1. CASE UNCHANGED vars
    BY <1>1 DEF vars, rowVars, memoryVars, ghostVars, Quiet, RowsKept
  <1>2. CASE Next
    BY <1>2, QuietTable, QuietPrepare, QuietThrottle, QuietSubmitter, QuietReports, QuietFetch DEF Next
  <1> QED
    BY <1>1, <1>2

-----------------------------------------------------------------------------
(***************************************************************************)
(* The four steps that begin or end requests, as changes of the rows.      *)
(***************************************************************************)
\* A request is added if none is live.
Added(n) ==
  \/ /\ request' = request /\ issued' = issued
     /\ \E i \in Requests : IsLive(request[i])
  \/ /\ issued' = issued + 1 /\ issued + 1 \in Requests
     /\ IsLive(request'[issued + 1]) /\ request'[issued + 1].retry_count = n
     /\ \A i \in Requests \ {issued + 1} : request'[i] = request[i]
     /\ \A i \in Requests : ~IsLive(request[i])

\* Request i is archived.
Removed(i) ==
  /\ i \in Requests /\ IsLive(request[i])
  /\ request'[i] = Archived
  /\ issued' = issued
  /\ \A k \in Requests \ {i} : request'[k] = request[k]

\* Request i is archived and another one added.
Replaced(i) ==
  /\ i \in Requests /\ IsLive(request[i])
  /\ issued' = issued + 1 /\ issued + 1 \in Requests
  /\ i # issued + 1
  /\ request'[i] = Archived
  /\ IsLive(request'[issued + 1])
  /\ request'[issued + 1].retry_count <= RetryLimit
  /\ \A k \in Requests \ {i, issued + 1} : request'[k] = request[k]

\* A rule's want leaves the live request or adds one.
LEMMA WantRows ==
  ASSUME TypeInv, Want
  PROVE  \E n \in {0, 1} : Added(n)
  <1>1. PICK n \in {None, 1} : Queued(request, n)
    BY DEF Want
  <1>2. n \in Nat /\ request \in [Requests -> Row] /\ issued \in 0 .. MaxRequests
    BY DEF TypeInv, TypeOK, None
  <1>3. Added(n)
    <2>1. \A row : row.state \in {"PREPARING", "QUEUED"} => IsLive(row)
      BY DEF IsLive
    <2> QED
      BY <1>1, <1>2, <2>1, QueuedRows DEF Added
  <1> QED
    BY <1>3 DEF None

\* requeue_and_archive leaves the rows, replaces the request or drops it.
LEMMA RequeueRows ==
  ASSUME TypeInv, Ledger, NEW f \in Finishers, Requeue(f)
  PROVE  \/ request' = request /\ issued' = issued /\ dropped' = dropped
         \/ Replaced(batch[f].id) /\ dropped' = dropped
         \/ Removed(batch[f].id) /\ dropped' = TRUE
  <1> DEFINE i == batch[f].id
             row == request[i]
             rows == [request EXCEPT ![i] = Archived]
  <1>0. i \in Requests /\ request \in [Requests -> Row] /\ issued \in 0 .. MaxRequests
    BY DEF Requeue, TypeInv, TypeOK, Reading
  <1>1. rows \in [Requests -> Row] /\ rows[i] = Archived /\ \A k \in Requests \ {i} : rows[k] = request[k]
    BY <1>0, ArchivedType
  <1>2. CASE ~IsLive(row)
    BY <1>2 DEF Requeue, rowVars
  <1>3. CASE IsLive(row) /\ ~ShouldRetry(row.state, row.retry_count)
    BY <1>0, <1>1, <1>3 DEF Requeue, Removed
  <1>4. CASE IsLive(row) /\ ShouldRetry(row.state, row.retry_count)
    <2>1. Queued(rows, NextCount(row)) /\ dropped' = dropped
      BY <1>4 DEF Requeue
    <2>2. NextCount(row) \in Nat /\ NextCount(row) <= RetryLimit
      <3>1. row.retry_count \in Nat /\ row.retry_count <= RetryLimit /\ RetryLimit \in Nat \ {0}
        BY <1>0, ConveyorAssumption DEF Ledger, RetriesBounded, Row
      <3> QED
        BY <1>4, <3>1 DEF NextCount, ShouldRetry, None
    <2>3. \A k \in Requests : ~IsLive(rows[k])
      <3>1. ~IsLive(Archived)
        BY ArchivedType DEF IsLive
      <3> QED
        BY <1>0, <1>1, <1>4, <3>1 DEF Ledger
    <2>4. i # issued + 1
      <3>1. i <= issued
        BY <1>0 DEF Ledger, Requeue
      <3> QED
        BY <1>0, <3>1 DEF Requests
    <2> HIDE DEF rows, row, i
    <2>5. /\ issued + 1 \in Requests /\ issued' = issued + 1
          /\ request'[issued + 1].state \in {"PREPARING", "QUEUED"}
          /\ request'[issued + 1].retry_count = NextCount(row)
          /\ \A k \in Requests \ {issued + 1} : request'[k] = rows[k]
      BY <1>0, <1>1, <2>1, <2>2, <2>3, QueuedRows
    <2>6. IsLive(request'[issued + 1])
      BY <2>5 DEF IsLive
    <2>7. Replaced(i)
      <3>1. IsLive(request[i])
        BY <1>4 DEF row
      <3> QED
        BY <1>0, <1>1, <2>2, <2>4, <2>5, <2>6, <3>1 DEF Replaced
    <2> QED
      BY <2>1, <2>7 DEF i
  <1> QED
    BY <1>2, <1>3, <1>4

\* The end of a request archives it, if it is still there.
LEMMA FinishRows ==
  ASSUME TypeInv, NEW f \in Finishers, Finish(f)
  PROVE  /\ batch[f].id \in Requests
         /\ \/ Removed(batch[f].id)
            \/ ~IsLive(request[batch[f].id]) /\ request' = request /\ issued' = issued
  <1>1. batch[f].id \in Requests /\ request \in [Requests -> Row]
    BY DEF Finish, TypeInv, TypeOK, Reading
  <1> QED
    BY <1>1 DEF Finish, Removed

-----------------------------------------------------------------------------
(***************************************************************************)
(* The ledger is kept, and with it the retry limit and the request of a    *)
(* copy in progress.                                                       *)
(***************************************************************************)
\* No request has been given out initially.
LEMMA LedgerInit == Init => Ledger
  <1> SUFFICES ASSUME Init PROVE Ledger
    OBVIOUS
  <1>1. \A i \in Requests : request[i].state = "NONE" /\ request[i].retry_count = 0
    BY NewRowType DEF Init, None
  <1>2. \A i \in Requests : i > 0
    BY ConveyorAssumption DEF Requests
  <1> QED
    BY <1>1, <1>2, ConveyorAssumption DEF Init, Ledger, RetriesBounded, IsLive, IdleFinisher, None

\* What the changes of the rows do to the conjuncts about rows alone.
LEMMA RowsLedger ==
  ASSUME TypeInv, Ledger,
         \/ RowsKept /\ issued' = issued
         \/ \E n \in {0, 1} : Added(n)
         \/ \E i \in Requests : Removed(i) \/ Replaced(i)
  PROVE  /\ \A i \in Requests : request'[i].state = "NONE" <=> i > issued'
         /\ \A i, j \in Requests : IsLive(request'[i]) /\ IsLive(request'[j]) => i = j
         /\ RetriesBounded'
  <1>0. /\ issued \in Nat /\ RetryLimit \in Nat \ {0} /\ \A i \in Requests : i \in Nat
        /\ Archived.state = "ARCHIVED" /\ Archived.retry_count = 0
    BY ConveyorAssumption, ArchivedType DEF TypeInv, TypeOK, Requests
  <1>1. CASE RowsKept /\ issued' = issued
    BY <1>0, <1>1 DEF RowsKept, Ledger, IsLive, RetriesBounded
  <1>2. CASE \E n \in {0, 1} : Added(n)
    BY <1>0, <1>2 DEF Added, Ledger, IsLive, RetriesBounded
  <1>3. ASSUME NEW i \in Requests, Removed(i)
        PROVE  /\ \A k \in Requests : request'[k].state = "NONE" <=> k > issued'
               /\ \A k, j \in Requests : IsLive(request'[k]) /\ IsLive(request'[j]) => k = j
               /\ RetriesBounded'
    BY <1>0, <1>3 DEF Removed, Ledger, IsLive, RetriesBounded
  <1>4. ASSUME NEW i \in Requests, Replaced(i)
        PROVE  /\ \A k \in Requests : request'[k].state = "NONE" <=> k > issued'
               /\ \A k, j \in Requests : IsLive(request'[k]) /\ IsLive(request'[j]) => k = j
               /\ RetriesBounded'
    BY <1>0, <1>4 DEF Replaced, Ledger, IsLive, RetriesBounded
  <1> QED
    BY <1>1, <1>2, <1>3, <1>4

\* Cancel archives one request at most.
LEMMA CancelRows ==
  ASSUME TypeInv, Ledger, Cancel
  PROVE  \/ \E i \in Requests : Removed(i)
         \/ request' = request /\ issued' = issued /\ \A i \in Requests : ~IsLive(request[i])
  <1>0. request \in [Requests -> Row]
    BY DEF TypeInv, TypeOK
  <1>1. CASE \E i \in Requests : IsLive(request[i])
    <2>1. PICK i \in Requests : IsLive(request[i])
      BY <1>1
    <2>2. \A k \in Requests \ {i} : ~IsLive(request[k])
      BY <2>1 DEF Ledger
    <2> QED
      BY <2>1, <2>2 DEF Cancel, Live, Removed
  <1>2. CASE \A i \in Requests : ~IsLive(request[i])
    BY <1>0, <1>2 DEF Cancel, Live
  <1> QED
    BY <1>1, <1>2

\* Every step keeps the ledger: one case per step that touches the rows.
LEMMA LedgerStep == TypeInv /\ Ledger /\ [Next]_vars => Ledger'
  <1> SUFFICES ASSUME TypeInv, Ledger, [Next]_vars PROVE Ledger'
    OBVIOUS
  <1> USE DEF Ledger
  <1>0. /\ issued \in Nat /\ batch \in [Finishers -> Reading]
        /\ \A i \in Requests : i \in Nat
        /\ \A f \in Finishers : batch[f].id \in Nat
    BY ConveyorAssumption DEF TypeInv, TypeOK, Requests, Reading, None
  <1>1. CASE Quiet
    <2>1. \A f \in Finishers : batch'[f].id # None => batch'[f].id <= issued'
      BY <1>0, <1>1 DEF Quiet, IsLive
    <2>2. replica' = "COPYING" /\ ~dropped' => \E i \in Requests : IsLive(request'[i])
      BY <1>1 DEF Quiet, RowsKept, IsLive
    <2> QED
      BY <1>1, <2>1, <2>2, RowsLedger DEF Quiet
  <1>2. CASE Want
    <2>1. PICK n \in {0, 1} : Added(n)
      BY <1>2, WantRows
    <2>2. \A f \in Finishers : batch'[f].id # None => batch'[f].id <= issued'
      BY <1>0, <1>2, <2>1 DEF Want, memoryVars, Added
    <2>3. \E i \in Requests : IsLive(request'[i])
      BY <2>1 DEF Added
    <2> QED
      BY <2>1, <2>2, <2>3, RowsLedger
  <1>3. CASE Cancel
    <2>1. batch' = batch /\ issued' = issued /\ replica' = "UNAVAILABLE"
      BY <1>3 DEF Cancel, memoryVars
    <2>2. (\E i \in Requests : Removed(i)) \/ (RowsKept /\ issued' = issued)
      BY <1>3, CancelRows DEF RowsKept
    <2> QED
      BY <2>1, <2>2, RowsLedger
  <1>4. ASSUME NEW f \in Finishers, Requeue(f) PROVE Ledger'
    <2>1. batch' = [batch EXCEPT ![f] = IdleFinisher] /\ replica' = replica
      BY <1>4 DEF Requeue
    <2>2. \/ request' = request /\ issued' = issued /\ dropped' = dropped
          \/ Replaced(batch[f].id) /\ dropped' = dropped
          \/ Removed(batch[f].id) /\ dropped' = TRUE
      BY <1>4, RequeueRows
    <2>3. \A g \in Finishers : batch'[g].id # None => batch'[g].id <= issued'
      BY <1>0, <2>1, <2>2 DEF IdleFinisher, Replaced, Removed
    <2>4. replica' = "COPYING" /\ ~dropped' => \E i \in Requests : IsLive(request'[i])
      BY <2>1, <2>2 DEF Replaced
    <2>5. \/ RowsKept /\ issued' = issued
          \/ \E i \in Requests : Removed(i) \/ Replaced(i)
      BY <2>2 DEF RowsKept, Removed, Replaced
    <2> QED
      BY <2>3, <2>4, <2>5, RowsLedger
  <1>5. ASSUME NEW f \in Finishers, Finish(f) PROVE Ledger'
    <2>1. batch' = [batch EXCEPT ![f] = IdleFinisher] /\ replica' # "COPYING"
      BY <1>5 DEF Finish
    <2>2. (\E i \in Requests : Removed(i)) \/ (RowsKept /\ issued' = issued)
      BY <1>5, FinishRows DEF RowsKept
    <2>3. \A g \in Finishers : batch'[g].id # None => batch'[g].id <= issued'
      BY <1>0, <1>5, <2>1 DEF IdleFinisher, Finish
    <2> QED
      BY <2>1, <2>2, <2>3, RowsLedger
  <1> QED
    BY <1>1, <1>2, <1>3, <1>4, <1>5, StepKinds

\* A replica that is being copied has exactly one request, unless it was
\* dropped (queue_requests, requeue_and_archive and cancel_request_did).
THEOREM OneRequest == Spec => []CopyingHasRequest
  <1>1. TypeInv /\ Ledger => CopyingHasRequest
    BY DEF Ledger, CopyingHasRequest, Pending, Live
  <1> QED
    BY TypeInit, TypeStep, LedgerInit, LedgerStep, <1>1, PTL DEF Spec

\* No request is tried more often than should_retry_request allows, also
\* when the finisher reads a request again or requeues a SUBMITTING one.
THEOREM RetryLimitKept == Spec => []RetriesBounded
  <1>1. TypeInv /\ Ledger => RetriesBounded
    BY DEF Ledger
  <1> QED
    BY TypeInit, TypeStep, LedgerInit, LedgerStep, <1>1, PTL DEF Spec

-----------------------------------------------------------------------------
(***************************************************************************)
(* The conveyor implements what it promises.                               *)
(***************************************************************************)
\* Initial states are initial states of Transfers.
LEMMA PromiseInit == Init => Promise!Init
  <1> SUFFICES ASSUME Init PROVE Promise!Init
    OBVIOUS
  <1>1. \A i \in Requests : request[i].state = "NONE"
    BY NewRowType DEF Init, None
  <1> QED
    BY <1>1 DEF Init, Promise!Init, Pending, Past, Live, IsLive

\* What the changes of the rows mean for the promise.
LEMMA RowsPromise ==
  ASSUME TypeInv, Ledger
  PROVE  /\ RowsKept => Pending' = Pending /\ Past' = Past
         /\ \A n \in {0, 1} : Added(n) => Pending' = TRUE /\ Past' = Past
         /\ \A i \in Requests : Removed(i) => Pending = TRUE /\ Pending' = FALSE /\ Past' = TRUE
         /\ \A i \in Requests : Replaced(i) => Pending = TRUE /\ Pending' = TRUE /\ Past' = TRUE
  <1> USE DEF Pending, Past, Live
  <1>0. /\ issued \in Nat /\ \A i \in Requests : i \in Nat
        /\ Archived.state = "ARCHIVED" /\ ~IsLive(Archived)
    BY ConveyorAssumption, ArchivedType DEF TypeInv, TypeOK, Requests, IsLive
  <1>1. RowsKept => Pending' = Pending /\ Past' = Past
    <2> SUFFICES ASSUME RowsKept PROVE Pending' = Pending /\ Past' = Past
      OBVIOUS
    <2>1. \A k \in Requests : IsLive(request'[k]) <=> IsLive(request[k])
      BY DEF RowsKept, IsLive
    <2>2. \A k \in Requests : request'[k].state = "ARCHIVED" <=> request[k].state = "ARCHIVED"
      BY DEF RowsKept, IsLive
    <2> QED
      BY <2>1, <2>2
  <1>2. ASSUME NEW n \in {0, 1}, Added(n) PROVE Pending' = TRUE /\ Past' = Past
    <2>1. \E k \in Requests : IsLive(request'[k])
      BY <1>2 DEF Added
    <2>2. CASE request' = request
      BY <2>1, <2>2
    <2>3. CASE request' # request
      <3>1. request[issued + 1].state # "ARCHIVED" /\ request'[issued + 1].state # "ARCHIVED"
        BY <1>0, <1>2, <2>3 DEF Added, Ledger, IsLive
      <3>2. \A k \in Requests \ {issued + 1} : request'[k] = request[k]
        BY <1>2, <2>3 DEF Added
      <3> QED
        BY <2>1, <3>1, <3>2
    <2> QED
      BY <2>2, <2>3
  <1>3. ASSUME NEW i \in Requests, Removed(i)
        PROVE  Pending = TRUE /\ Pending' = FALSE /\ Past' = TRUE
    <2>1. \A k \in Requests : ~IsLive(request'[k])
      BY <1>0, <1>3 DEF Removed, Ledger
    <2> QED
      BY <1>0, <1>3, <2>1 DEF Removed
  <1>4. ASSUME NEW i \in Requests, Replaced(i)
        PROVE  Pending = TRUE /\ Pending' = TRUE /\ Past' = TRUE
    BY <1>0, <1>4 DEF Replaced
  <1> QED
    BY <1>1, <1>2, <1>3, <1>4

\* Every step is a step of Transfers or leaves its variables unchanged.
LEMMA PromiseStep == TypeInv /\ Ledger /\ [Next]_vars => [Promise!Next]_Promise!vars
  <1> SUFFICES ASSUME TypeInv, Ledger, [Next]_vars PROVE [Promise!Next]_Promise!vars
    OBVIOUS
  <1>0. Pending \in BOOLEAN /\ Past \in BOOLEAN
    BY DEF Pending, Past
  <1>1. CASE Quiet
    <2>1. Pending' = Pending /\ Past' = Past
      BY <1>1, RowsPromise DEF Quiet
    <2> QED
      BY <1>1, <2>1 DEF Quiet, Promise!vars, Promise!Next, Promise!Reap
  <1>2. CASE Want
    <2>1. Pending' = TRUE /\ Past' = Past
      BY <1>2, WantRows, RowsPromise
    <2> QED
      BY <1>2, <2>1 DEF Want, Promise!Next, Promise!Want
  <1>3. CASE Cancel
    <2>1. Pending' = FALSE /\ Past' = (Past \/ Pending)
      <3>1. CASE \E i \in Requests : Removed(i)
        BY <1>0, <3>1, RowsPromise
      <3>2. CASE request' = request /\ \A i \in Requests : ~IsLive(request[i])
        <4>1. Pending = FALSE /\ Pending' = FALSE /\ Past' = Past
          BY <3>2 DEF Pending, Past, Live
        <4> QED
          BY <1>0, <4>1
      <3> QED
        BY <1>3, <3>1, <3>2, CancelRows
    <2> QED
      BY <1>3, <2>1 DEF Cancel, Promise!Next, Promise!Cancel
  <1>4. ASSUME NEW f \in Finishers, Requeue(f) PROVE [Promise!Next]_Promise!vars
    <2>1. replica' = replica
      BY <1>4 DEF Requeue
    <2>2. CASE request' = request
      BY <2>1, <2>2, RowsPromise DEF RowsKept, Promise!vars
    <2>3. CASE Replaced(batch[f].id)
      <3>1. Pending = TRUE /\ Pending' = TRUE /\ Past' = TRUE
        BY <2>3, RowsPromise DEF Replaced
      <3> QED
        BY <2>1, <3>1 DEF Promise!Next, Promise!Retry
    <2>4. CASE Removed(batch[f].id)
      <3>1. Pending = TRUE /\ Pending' = FALSE /\ Past' = TRUE
        BY <2>4, RowsPromise DEF Removed
      <3> QED
        BY <2>1, <3>1 DEF Promise!Next, Promise!Dropped
    <2> QED
      BY <1>4, <2>2, <2>3, <2>4, RequeueRows
  <1>5. ASSUME NEW f \in Finishers, Finish(f) PROVE [Promise!Next]_Promise!vars
    <2>0. \/ replica' = "AVAILABLE"
          \/ replica' = IF replica = "ABSENT" THEN "ABSENT" ELSE "UNAVAILABLE"
      BY <1>5 DEF Finish
    <2>1. CASE Removed(batch[f].id)
      <3>1. Pending = TRUE /\ Pending' = FALSE /\ Past' = TRUE
        BY <2>1, RowsPromise DEF Removed
      <3> QED
        BY <2>0, <3>1 DEF Promise!Next, Promise!Succeed, Promise!Fail
    <2>2. CASE ~IsLive(request[batch[f].id]) /\ request' = request
      <3>1. Pending' = Pending /\ Past' = Past
        BY <2>2, RowsPromise DEF RowsKept
      <3>2. request[batch[f].id].state # "NONE"
        <4>1. batch[f].id \in Requests
          BY <1>5, FinishRows
        <4>2. batch[f].id <= issued
          BY <1>5 DEF Ledger, Finish
        <4>3. batch[f].id \in Nat /\ issued \in Nat
          BY <4>1, ConveyorAssumption DEF TypeInv, TypeOK, Requests
        <4> QED
          BY <4>1, <4>2, <4>3 DEF Ledger
      <3>3. Past = TRUE
        BY <1>5, <2>2, <3>2, FinishRows DEF Past, IsLive
      <3>4. replica' = replica \/ replica' = "AVAILABLE" \/ (replica # "ABSENT" /\ replica' = "UNAVAILABLE")
        BY <2>0
      <3> QED
        BY <3>1, <3>3, <3>4 DEF Promise!Next, Promise!Late, Promise!vars
    <2> QED
      BY <1>5, <2>1, <2>2, FinishRows
  <1> QED
    BY <1>1, <1>2, <1>3, <1>4, <1>5, StepKinds

\* Every behaviour of the conveyor is one of Transfers: the request of a
\* wanted copy ends once, in the file being there or not, a cancellation, or
\* dropped; only the outcome of an earlier request may come late.
THEOREM Refinement == Spec => Implements
  <1> QED
    BY TypeInit, TypeStep, LedgerInit, LedgerStep, PromiseInit, PromiseStep, PTL
       DEF Spec, Implements, Promise!Spec

-----------------------------------------------------------------------------
(***************************************************************************)
(* A DONE request names a job that put the file in place.                  *)
(***************************************************************************)
\* Jobs that were not submitted yet have no outcome.
JobInv ==
  /\ DoneIsReal
  /\ \A j \in Jobs : j > launched => job[j] = "NONE"

\* A job that has put the file in place stays so.
JobsKept ==
  /\ \A j \in Jobs : job[j] \in {"FINISHED", "EXISTS"} => job'[j] = job[j]
  /\ \A j \in Jobs : j > launched' => job'[j] = "NONE"

\* A row becomes DONE only with the job it has, which was submitted for it,
\* after that job succeeded.
RowsDone ==
  \A k \in Requests : request'[k].state = "DONE" =>
    \/ request[k].state = "DONE" /\ request'[k].external_id = request[k].external_id
    \/ /\ request'[k].external_id \in Jobs
       /\ owner[request'[k].external_id] = k
       /\ job[request'[k].external_id] \in {"FINISHED", "EXISTS"}

\* There is neither a request nor a job initially.
LEMMA JobInvInit == Init => JobInv
  <1> SUFFICES ASSUME Init PROVE JobInv
    OBVIOUS
  <1>1. \A i \in Requests : request[i].state = "NONE"
    BY NewRowType DEF Init, None
  <1> QED
    BY <1>1 DEF Init, JobInv, DoneIsReal

\* Every step leaves the jobs that have ended as they are.
LEMMA JobsStep ==
  ASSUME TypeInv, JobInv, [Next]_vars PROVE JobsKept
  <1>0. /\ launched \in Nat /\ \A j \in Jobs : j \in Nat
        /\ job \in [Jobs -> JobStates]
    BY ConveyorAssumption DEF TypeInv, TypeOK, Jobs
  <1>1. CASE job' = job /\ launched' = launched
    BY <1>1 DEF JobsKept, JobInv
  <1>2. ASSUME NEW jobs, Cancelled(jobs), launched' = launched PROVE JobsKept
    <2>1. PICK c \in SUBSET jobs :
            job' = [j \in Jobs |-> IF j \in c /\ job[j] = "ACTIVE" THEN "CANCELED" ELSE job[j]]
      BY <1>2 DEF Cancelled
    <2> QED
      BY <1>2, <2>1 DEF JobsKept, JobInv
  <1>3. ASSUME NEW j \in Jobs, JobEnds(j) \/ Vanish(j) PROVE JobsKept
    <2>1. PICK new : job' = [job EXCEPT ![j] = new]
      BY <1>3 DEF JobEnds, Vanish
    <2>2. launched' = launched /\ job[j] # "NONE"
      BY <1>3 DEF JobEnds, Vanish
    <2>3. job[j] \in {"FINISHED", "EXISTS"} => job'[j] = job[j]
      BY <1>0, <1>3 DEF JobEnds, Vanish
    <2> QED
      BY <1>0, <2>1, <2>2, <2>3 DEF JobsKept, JobInv
  <1>4. ASSUME NEW s \in Submitters, Submit(s) PROVE JobsKept
    <2>1. CASE job' = job /\ launched' = launched
      BY <1>1, <2>1
    <2>2. CASE /\ launched < MaxJobs /\ launched' = launched + 1
               /\ \E st \in {"ACTIVE", "CANCELED"} : job' = [job EXCEPT ![launched + 1] = st]
      <3>1. launched + 1 \in Jobs
        BY <1>0, <2>2, ConveyorAssumption DEF Jobs
      <3>2. job[launched + 1] = "NONE"
        BY <1>0, <3>1 DEF JobInv
      <3> QED
        BY <1>0, <2>2, <3>1, <3>2 DEF JobsKept, JobInv
    <2> QED
      BY <1>4, <2>1, <2>2 DEF Submit, toolVars
  <1>5. CASE UNCHANGED vars
    BY <1>1, <1>5 DEF vars, toolVars
  <1>6. CASE Cancel
    BY <1>2, <1>6 DEF Cancel
  <1>7. ASSUME NEW s \in Submitters, Record(s) PROVE JobsKept
    BY <1>1, <1>2, <1>7 DEF Record, Recorded
  <1>8. CASE Want \/ Reap \/ Crash
    BY <1>1, <1>8 DEF Want, Reap, Crash, toolVars
  <1>9. ASSUME NEW p \in Preparers, PrepareFetch(p) \/ PrepareHandle(p) PROVE JobsKept
    BY <1>1, <1>9 DEF PrepareFetch, PrepareHandle, toolVars
  <1>10. ASSUME NEW i \in Requests, Release(i) \/ ResetStale(i) \/ PollFetch(i) PROVE JobsKept
    BY <1>1, <1>10 DEF Release, ResetStale, PollFetch, toolVars
  <1>11. ASSUME NEW s \in Submitters, SubmitFetch(s) \/ NoPath(s) \/ MarkSubmitting(s) \/ MarkFails(s)
         PROVE  JobsKept
    BY <1>1, <1>11 DEF SubmitFetch, NoPath, MarkSubmitting, MarkFails, toolVars
  <1>12. ASSUME NEW j \in Jobs, Receive(j) \/ PollAnswer(j) PROVE JobsKept
    BY <1>1, <1>12 DEF Receive, PollAnswer, toolVars
  <1>13. ASSUME NEW f \in Finishers, FinishFetch(f) \/ Requeue(f) \/ Finish(f) PROVE JobsKept
    BY <1>1, <1>13 DEF FinishFetch, Requeue, Finish, toolVars
  <1> QED
    BY <1>3, <1>4, <1>5, <1>6, <1>7, <1>8, <1>9, <1>10, <1>11, <1>12, <1>13 DEF Next

\* A step makes a request DONE only for a job that ended well, and a DONE request
\* keeps its job.
LEMMA DoneStep ==
  ASSUME TypeInv, Ledger, [Next]_vars PROVE RowsDone
  <1>0. request \in [Requests -> Row] /\ Archived.state # "DONE"
    BY ArchivedType DEF TypeInv, TypeOK
  <1>1. CASE request' = request
    BY <1>1 DEF RowsDone
  <1>2. ASSUME NEW i, NEW new \in RequestStates \ {"DONE"}, NEW j, request' = Transition(i, new, j)
        PROVE  RowsDone
    <2>1. \A k \in Requests : request'[k] = request[k] \/ request'[k].state = new
      BY <1>0, <1>2, TransitionRows
    <2> QED
      BY <2>1 DEF RowsDone
  <1>3. ASSUME NEW i, NEW new \in RequestStates \ {"DONE"}, request' = [request EXCEPT ![i].state = new]
        PROVE  RowsDone
    <2>1. \A k \in Requests : request'[k] = request[k] \/ request'[k].state = new
      BY <1>0, <1>3, SetState
    <2> QED
      BY <2>1 DEF RowsDone
  <1>4. ASSUME NEW i, NEW j \in Jobs \cup {None}, NEW new \in RequestStates \ {"DONE"},
               request' = [request EXCEPT ![i].external_id = j, ![i].state = new]
        PROVE  RowsDone
    <2>1. \A k \in Requests : request'[k] = request[k] \/ request'[k].state = new
      BY <1>0, <1>4, SetJob
    <2> QED
      BY <2>1 DEF RowsDone
  <1>5. ASSUME NEW p \in Preparers, PrepareHandle(p) PROVE RowsDone
    <2>1. {"QUEUED", "WAITING", "NO_SOURCES", "MISMATCH_SCHEME"} \subseteq RequestStates \ {"DONE"}
      BY DEF RequestStates, Failures
    <2> QED
      BY <1>1, <1>2, <1>3, <1>5, <2>1 DEF PrepareHandle
  <1>6. ASSUME NEW i \in Requests, Release(i) \/ ResetStale(i) PROVE RowsDone
    <2>1. {"QUEUED", "PREPARING"} \subseteq RequestStates \ {"DONE"}
      BY DEF RequestStates
    <2> QED
      BY <1>3, <1>6, <2>1 DEF Release, ResetStale
  <1>7. ASSUME NEW s \in Submitters, NoPath(s) \/ MarkFails(s) PROVE RowsDone
    <2>1. {"NO_SOURCES", "MISMATCH_SCHEME", "SUBMISSION_FAILED"} \subseteq RequestStates \ {"DONE"}
      BY DEF RequestStates, Failures
    <2> QED
      BY <1>2, <1>7, <2>1 DEF NoPath, MarkFails
  <1>8. ASSUME NEW s \in Submitters, MarkSubmitting(s) \/ Record(s) PROVE RowsDone
    <2>1. /\ {"SUBMITTING", "SUBMITTED", "SUBMISSION_FAILED"} \subseteq RequestStates \ {"DONE"}
          /\ work[s].job \in Jobs \cup {None}
      BY DEF RequestStates, Failures, TypeInv, TypeOK, Holding
    <2>2. CASE MarkSubmitting(s)
      BY <1>1, <1>4, <2>1, <2>2 DEF MarkSubmitting
    <2>3. CASE Record(s)
      <3> DEFINE new == IF work[s].job = None THEN "SUBMISSION_FAILED" ELSE "SUBMITTED"
      <3>1. \/ request' = request
            \/ request' = [request EXCEPT ![work[s].id].external_id = work[s].job, ![work[s].id].state = new]
        BY <2>3 DEF Record, Recorded
      <3>2. new \in RequestStates \ {"DONE"}
        BY <2>1
      <3> HIDE DEF new
      <3> QED
        BY <1>1, <1>4, <2>1, <3>1, <3>2
    <2> QED
      BY <1>8, <2>2, <2>3
  <1>9. ASSUME NEW j \in Jobs, Receive(j) \/ PollAnswer(j) PROVE RowsDone
    <2>1. {"LOST", "FAILED"} \subseteq RequestStates \ {"DONE"} /\ "DONE" \in RequestStates
      BY DEF RequestStates, Failures
    <2>2. /\ DOMAIN Outcome = {"FINISHED", "EXISTS", "FAILED", "CANCELED"}
          /\ Outcome["FINISHED"] = "DONE" /\ Outcome["EXISTS"] = "DONE"
          /\ Outcome["FAILED"] = "FAILED" /\ Outcome["CANCELED"] = "FAILED"
      BY DEF Outcome
    <2>3. CASE request' = Transition(owner[j], "DONE", j) /\ job[j] \in {"FINISHED", "EXISTS"}
      <3>1. \A k \in Requests : request'[k] = request[k] \/ (k = owner[j] /\ request'[k].external_id = j)
        BY <1>0, <2>1, <2>3, TransitionRows
      <3> QED
        BY <2>3, <3>1 DEF RowsDone
    <2>4. CASE request' = Transition(owner[j], "LOST", j) \/ request' = Transition(owner[j], "FAILED", j)
      BY <1>2, <2>1, <2>4
    <2> QED
      BY <1>1, <1>9, <2>2, <2>3, <2>4 DEF Receive, PollAnswer, Report
  <1>10. CASE Want \/ \E f \in Finishers : Requeue(f)
    <2>1. \A k \in Requests : \/ request'[k] = request[k] \/ request'[k] = Archived
                              \/ request'[k].state \in {"PREPARING", "QUEUED"}
      <3>1. CASE Want
        <4>1. PICK n \in {None, 1} : Queued(request, n)
          BY <3>1 DEF Want
        <4>2. n \in Nat /\ issued \in 0 .. MaxRequests
          BY DEF TypeInv, TypeOK, None
        <4> QED
          BY <1>0, <4>1, <4>2, QueuedRows
      <3>2. ASSUME NEW f \in Finishers, Requeue(f)
            PROVE  \A k \in Requests : \/ request'[k] = request[k] \/ request'[k] = Archived
                                       \/ request'[k].state \in {"PREPARING", "QUEUED"}
        <4> DEFINE i == batch[f].id
                   rows == [request EXCEPT ![i] = Archived]
        <4>1. \/ request' = request \/ request' = rows \/ Queued(rows, NextCount(request[i]))
          BY <3>2 DEF Requeue, rowVars
        <4>2. i \in Requests /\ issued \in 0 .. MaxRequests
          BY <3>2 DEF Requeue, TypeInv, TypeOK, Reading
        <4>3. rows \in [Requests -> Row] /\ rows[i] = Archived /\ \A k \in Requests \ {i} : rows[k] = request[k]
          BY <1>0, <4>2, ArchivedType
        <4>4. NextCount(request[i]) \in Nat
          BY <1>0, <4>2, NextCountType
        <4> HIDE DEF rows
        <4> QED
          BY <4>1, <4>2, <4>3, <4>4, QueuedRows
      <3> QED
        BY <1>10, <3>1, <3>2
    <2> QED
      BY <1>0, <2>1 DEF RowsDone
  <1>11. CASE Cancel \/ \E f \in Finishers : Finish(f)
    <2>1. \A k \in Requests : request'[k] = request[k] \/ request'[k] = Archived
      BY <1>0, <1>11 DEF Cancel, Finish
    <2> QED
      BY <1>0, <2>1 DEF RowsDone
  <1>12. CASE UNCHANGED vars
    BY <1>1, <1>12 DEF vars, rowVars
  <1>13. CASE \/ Reap \/ Crash
              \/ \E p \in Preparers : PrepareFetch(p)
              \/ \E s \in Submitters : SubmitFetch(s) \/ Submit(s)
              \/ \E i \in Requests : PollFetch(i)
              \/ \E j \in Jobs : JobEnds(j) \/ Vanish(j)
              \/ \E f \in Finishers : FinishFetch(f)
    BY <1>1, <1>13 DEF Reap, Crash, PrepareFetch, SubmitFetch, Submit, PollFetch, JobEnds, Vanish, FinishFetch, rowVars
  <1> QED
    BY <1>5, <1>6, <1>7, <1>8, <1>9, <1>10, <1>11, <1>12, <1>13 DEF Next

\* So a DONE request goes on to name such a job.
LEMMA JobInvStep == TypeInv /\ Ledger /\ JobInv /\ [Next]_vars => JobInv'
  <1> SUFFICES ASSUME TypeInv, Ledger, JobInv, [Next]_vars PROVE JobInv'
    OBVIOUS
  <1>1. JobsKept
    BY JobsStep
  <1>2. RowsDone
    BY DoneStep
  <1>3. \A j \in Jobs : j # None
    BY ConveyorAssumption DEF Jobs, None
  <1>4. \A k \in Requests : request[k].external_id \in Jobs \cup {None}
    BY DEF TypeInv, TypeOK, Row
  <1> QED
    BY <1>1, <1>2, <1>3, <1>4 DEF JobsKept, RowsDone, JobInv, DoneIsReal

\* A request is DONE only with the job it names finished or having found the
\* file: no report of another job counts (transition_request_state).
THEOREM DoneOnlyByItsJob == Spec => []DoneIsReal
  <1>1. JobInv => DoneIsReal
    BY DEF JobInv
  <1> QED
    BY TypeInit, TypeStep, LedgerInit, LedgerStep, JobInvInit, JobInvStep, <1>1, PTL DEF Spec

-----------------------------------------------------------------------------
(***************************************************************************)
(* A replica that the finisher made AVAILABLE is on storage.               *)
(***************************************************************************)
\* Somebody has been told that the file of request i is there.
Evident(i) ==
  \/ request[i].state = "DONE"
  \/ \E j \in Jobs : owner[j] = i /\ job[j] \in {"FINISHED", "EXISTS"}
  \/ \E f \in Finishers : batch[f].id = i /\ batch[f].state = "DONE"

\* Submitters and jobs know only requests that were given out.
IdsIssued ==
  /\ \A j \in Jobs : owner[j] <= issued
  /\ \A s \in Submitters : work[s].id <= issued

\* Until an outcome comes late, a request is live only while its replica is
\* being copied, when no reaper touches the file; so what is evident is true.
StoreInv ==
  ~late => /\ \A i \in Requests : IsLive(request[i]) => replica = "COPYING" /\ (Evident(i) => stored)
           /\ replica = "AVAILABLE" => stored

\* No request is given out initially, and no replica there.
LEMMA StoreInit == Init => IdsIssued /\ StoreInv
  <1> SUFFICES ASSUME Init PROVE IdsIssued /\ StoreInv
    OBVIOUS
  <1>1. \A i \in Requests : ~IsLive(request[i])
    BY NewRowType DEF Init, None, IsLive
  <1>2. IdsIssued
    BY DEF Init, IdsIssued, IdleSubmitter, None
  <1> QED
    BY <1>1, <1>2 DEF Init, StoreInv

\* Ids are never taken back.
LEMMA IssuedGrows ==
  ASSUME TypeInv, Ledger, [Next]_vars
  PROVE  issued \in Nat /\ issued' \in Nat /\ issued <= issued'
  <1>1. issued \in Nat
    BY ConveyorAssumption DEF TypeInv, TypeOK
  <1>2. issued' = issued \/ issued' = issued + 1
    BY StepKinds, WantRows, CancelRows, RequeueRows, FinishRows DEF Quiet, Added, Removed, Replaced
  <1> QED
    BY <1>1, <1>2

\* What submitters hold and jobs are for was given out.
LEMMA IdsStep == TypeInv /\ Ledger /\ IdsIssued /\ [Next]_vars => IdsIssued'
  <1> SUFFICES ASSUME TypeInv, Ledger, IdsIssued, [Next]_vars PROVE IdsIssued'
    OBVIOUS
  <1>0. /\ issued \in Nat /\ issued' \in Nat /\ issued <= issued'
        /\ work \in [Submitters -> Holding] /\ owner \in [Jobs -> Requests \cup {None}]
        /\ \A i \in Requests : i \in Nat
        /\ \A s \in Submitters : work[s].id \in Nat
        /\ \A j \in Jobs : owner[j] \in Nat
    BY IssuedGrows, ConveyorAssumption DEF TypeInv, TypeOK, Requests, Holding, None
  <1>1. \A s \in Submitters : \/ work'[s].id = work[s].id \/ work'[s].id = None
                              \/ work'[s].id \in Requests /\ IsLive(request[work'[s].id])
    <2>1. CASE work' = work
      BY <2>1
    <2>2. ASSUME NEW s \in Submitters, SubmitFetch(s)
          PROVE  \A t \in Submitters : work'[t] = work[t] \/ (work'[t].id \in Requests /\ IsLive(request[work'[t].id]))
      <3>1. PICK i \in Requests : /\ request[i].state = "QUEUED"
                                  /\ work' = [work EXCEPT ![s] = [stage |-> "fetched", id |-> i, job |-> None]]
        BY <2>2 DEF SubmitFetch
      <3>2. IsLive(request[i])
        BY <3>1 DEF IsLive
      <3> QED
        BY <1>0, <3>1, <3>2
    <2>3. ASSUME NEW s \in Submitters, MarkSubmitting(s) \/ Submit(s) \/ NoPath(s) \/ MarkFails(s) \/ Record(s)
          PROVE  \A t \in Submitters : work'[t].id = work[t].id \/ work'[t].id = None
      <3>1. \/ work' = [work EXCEPT ![s] = IdleSubmitter]
            \/ \E t \in {"marked", "answered"} : work' = [work EXCEPT ![s].stage = t]
            \/ \E t \in {"marked", "answered"}, j \in Nat : work' = [work EXCEPT ![s].stage = t, ![s].job = j]
        <4>1. launched + 1 \in Nat /\ None \in Nat
          BY ConveyorAssumption DEF TypeInv, TypeOK, None
        <4> QED
          BY <2>3, <4>1 DEF MarkSubmitting, Submit, NoPath, MarkFails, Record
      <3> QED
        BY <1>0, <3>1 DEF IdleSubmitter, Holding
    <2>4. CASE Crash
      BY <1>0, <2>4 DEF Crash, IdleSubmitter
    <2>5. \/ work' = work \/ Crash
          \/ \E s \in Submitters : \/ SubmitFetch(s) \/ MarkSubmitting(s) \/ Submit(s)
                                   \/ NoPath(s) \/ MarkFails(s) \/ Record(s)
      <3>1. CASE UNCHANGED vars
        BY <3>1 DEF vars, memoryVars
      <3>2. CASE Next
        BY <3>2 DEF Next, Want, Cancel, Reap, PrepareFetch, PrepareHandle, Release, ResetStale, PollFetch,
                    JobEnds, Vanish, Receive, PollAnswer, FinishFetch, Requeue, Finish, memoryVars
      <3> QED
        BY <3>1, <3>2
    <2> QED
      BY <2>1, <2>2, <2>3, <2>4, <2>5
  <1>2. \A i \in Requests : IsLive(request[i]) => i <= issued
    BY <1>0 DEF Ledger, IsLive
  <1>3. \A s \in Submitters : work'[s].id <= issued'
    <2> SUFFICES ASSUME NEW s \in Submitters PROVE work'[s].id <= issued'
      OBVIOUS
    <2>1. work[s].id <= issued
      BY DEF IdsIssued
    <2> QED
      BY <1>0, <1>1, <1>2, <2>1 DEF None
  <1>4. owner' = owner \/ \E s \in Submitters : owner' = [owner EXCEPT ![launched + 1] = work[s].id]
    <2>1. CASE UNCHANGED vars
      BY <2>1 DEF vars, toolVars
    <2>2. CASE Next
      BY <2>2 DEF Next, Want, Cancel, Reap, Crash, PrepareFetch, PrepareHandle, Release, ResetStale, PollFetch,
                  SubmitFetch, NoPath, MarkSubmitting, MarkFails, Submit, Record,
                  JobEnds, Vanish, Receive, PollAnswer, FinishFetch, Requeue, Finish, toolVars
    <2> QED
      BY <2>1, <2>2
  <1>5. \A j \in Jobs : owner'[j] <= issued'
    <2> SUFFICES ASSUME NEW j \in Jobs PROVE owner'[j] <= issued'
      OBVIOUS
    <2>1. owner'[j] = owner[j] \/ \E s \in Submitters : owner'[j] = work[s].id
      BY <1>0, <1>4
    <2> QED
      BY <1>0, <2>1 DEF IdsIssued
  <1> QED
    BY <1>3, <1>5 DEF IdsIssued

\* Only the reaper takes a file away.
LEMMA StoredStep ==
  ASSUME TypeInv, [Next]_vars
  PROVE  (stored => stored') \/ Reap
  <1>1. CASE UNCHANGED vars
    BY <1>1 DEF vars, ghostVars
  <1>2. CASE Next
    BY <1>2 DEF Next, Want, Cancel, Crash, PrepareFetch, PrepareHandle, Release, ResetStale, PollFetch,
                SubmitFetch, NoPath, MarkSubmitting, MarkFails, Submit, Record,
                JobEnds, Vanish, Receive, PollAnswer, FinishFetch, Requeue, Finish, ghostVars
  <1> QED
    BY <1>1, <1>2

\* A job ends well only when the file is there, and belongs to the request it
\* was submitted for.
LEMMA OutcomeStep ==
  ASSUME TypeInv, JobInv, [Next]_vars, NEW j \in Jobs, job'[j] \in {"FINISHED", "EXISTS"}
  PROVE  stored' \/ (job[j] = job'[j] /\ owner'[j] = owner[j])
  <1>0. launched \in Nat /\ job \in [Jobs -> JobStates] /\ owner \in [Jobs -> Requests \cup {None}]
    BY ConveyorAssumption DEF TypeInv, TypeOK
  <1>1. CASE job' = job /\ owner' = owner
    BY <1>1
  <1>2. ASSUME NEW jobs, Cancelled(jobs), owner' = owner PROVE job[j] = job'[j] /\ owner'[j] = owner[j]
    BY <1>2 DEF Cancelled
  <1>3. ASSUME NEW k \in Jobs, JobEnds(k) PROVE stored' \/ (job[j] = job'[j] /\ owner'[j] = owner[j])
    BY <1>0, <1>3 DEF JobEnds
  <1>4. ASSUME NEW k \in Jobs, Vanish(k) PROVE job[j] = job'[j] /\ owner'[j] = owner[j]
    BY <1>0, <1>4 DEF Vanish
  <1>5. ASSUME NEW s \in Submitters, Submit(s) PROVE job[j] = job'[j] /\ owner'[j] = owner[j]
    <2>1. CASE j = launched + 1
      <3>1. job[j] = "NONE"
        BY <1>0, <2>1 DEF JobInv
      <3> QED
        BY <1>0, <1>5, <2>1, <3>1 DEF Submit, toolVars
    <2>2. CASE j # launched + 1
      BY <1>0, <1>5, <2>2 DEF Submit, toolVars
    <2> QED
      BY <2>1, <2>2
  <1>6. CASE Cancel
    BY <1>2, <1>6 DEF Cancel
  <1>7. ASSUME NEW s \in Submitters, Record(s) PROVE job[j] = job'[j] /\ owner'[j] = owner[j]
    BY <1>1, <1>2, <1>7 DEF Record
  <1>8. CASE UNCHANGED vars
    BY <1>1, <1>8 DEF vars, toolVars
  <1>9. CASE Next
    <2>1. \/ Cancel \/ (job' = job /\ owner' = owner)
          \/ \E k \in Jobs : JobEnds(k) \/ Vanish(k)
          \/ \E s \in Submitters : Submit(s) \/ Record(s)
      BY <1>9 DEF Next, Want, Reap, Crash, PrepareFetch, PrepareHandle, Release, ResetStale, PollFetch,
                  SubmitFetch, NoPath, MarkSubmitting, MarkFails,
                  Receive, PollAnswer, FinishFetch, Requeue, Finish, toolVars
    <2> QED
      BY <1>1, <1>3, <1>4, <1>5, <1>6, <1>7, <2>1
  <1> QED
    BY <1>8, <1>9

\* A finisher holds a DONE request only if it read it as such.
LEMMA BatchStep ==
  ASSUME TypeInv, [Next]_vars, NEW g \in Finishers, batch'[g].state = "DONE"
  PROVE  batch'[g] = batch[g] \/ (batch'[g].id \in Requests /\ request[batch'[g].id].state = "DONE")
  <1>0. batch \in [Finishers -> Reading] /\ IdleFinisher.state # "DONE"
    BY DEF TypeInv, TypeOK, IdleFinisher
  <1>1. CASE batch' = batch
    BY <1>1
  <1>2. CASE \E f \in Finishers : batch' = [batch EXCEPT ![f] = IdleFinisher]
    BY <1>0, <1>2
  <1>3. ASSUME NEW f \in Finishers, FinishFetch(f)
        PROVE  batch'[g] = batch[g] \/ (batch'[g].id \in Requests /\ request[batch'[g].id].state = "DONE")
    <2>1. PICK i \in Requests : batch' = [batch EXCEPT ![f] =
            [id |-> i, state |-> request[i].state, retry_count |-> request[i].retry_count]]
      BY <1>3 DEF FinishFetch
    <2> QED
      BY <1>0, <2>1
  <1>4. \/ batch' = batch
        \/ \E f \in Finishers : batch' = [batch EXCEPT ![f] = IdleFinisher]
        \/ \E f \in Finishers : FinishFetch(f)
    <2>1. CASE UNCHANGED vars
      BY <2>1 DEF vars, memoryVars
    <2>2. CASE Next
      BY <2>2 DEF Next, Want, Cancel, Reap, Crash, PrepareFetch, PrepareHandle, Release, ResetStale, PollFetch,
                  SubmitFetch, NoPath, MarkSubmitting, MarkFails, Submit, Record,
                  JobEnds, Vanish, Receive, PollAnswer, Requeue, Finish, memoryVars
    <2> QED
      BY <2>1, <2>2
  <1> QED
    BY <1>1, <1>2, <1>3, <1>4

\* What is evident after a step was so before, or the file is there.
LEMMA EvidenceStep ==
  ASSUME TypeInv, Ledger, JobInv, [Next]_vars, NEW i \in Requests, Evident(i)'
  PROVE  Evident(i) \/ stored'
  <1>1. CASE request'[i].state = "DONE"
    <2>1. RowsDone
      BY DoneStep
    <2> QED
      BY <1>1, <2>1 DEF RowsDone, Evident
  <1>2. ASSUME NEW j \in Jobs, owner'[j] = i, job'[j] \in {"FINISHED", "EXISTS"} PROVE Evident(i) \/ stored'
    BY <1>2, OutcomeStep DEF Evident
  <1>3. ASSUME NEW f \in Finishers, batch'[f].id = i, batch'[f].state = "DONE" PROVE Evident(i) \/ stored'
    BY <1>3, BatchStep DEF Evident
  <1> QED
    BY <1>1, <1>2, <1>3 DEF Evident

\* Nothing is evident about a request that is not given out yet.
LEMMA NothingEvident ==
  ASSUME TypeInv, Ledger, IdsIssued, JobInv, NEW i \in Requests, i > issued
  PROVE  ~Evident(i)
  <1>1. issued \in Nat /\ i \in Nat
    BY ConveyorAssumption DEF TypeInv, TypeOK, Requests
  <1>2. request[i].state # "DONE"
    BY DEF Ledger
  <1>3. \A j \in Jobs : owner[j] # i
    BY <1>1 DEF IdsIssued
  <1>4. \A f \in Finishers : batch[f].id # i
    <2>1. i # None
      BY <1>1 DEF None
    <2> QED
      BY <1>1, <2>1 DEF Ledger
  <1> QED
    BY <1>2, <1>3, <1>4 DEF Evident

\* Every step keeps what is stored and what is known of it in line.
LEMMA StoreStep == TypeInv /\ Ledger /\ JobInv /\ IdsIssued /\ StoreInv /\ [Next]_vars => StoreInv'
  <1> SUFFICES ASSUME TypeInv, Ledger, JobInv, IdsIssued, StoreInv, [Next]_vars, ~late'
               PROVE  /\ \A i \in Requests :
                           IsLive(request'[i]) => replica' = "COPYING" /\ (Evident(i)' => stored')
                      /\ replica' = "AVAILABLE" => stored'
    BY DEF StoreInv
  <1>0. ~late
    <2>1. CASE UNCHANGED vars
      BY <2>1 DEF vars, ghostVars
    <2>2. CASE Next
      BY <2>2 DEF Next, Want, Cancel, Reap, Crash, PrepareFetch, PrepareHandle, Release, ResetStale, PollFetch,
                  SubmitFetch, NoPath, MarkSubmitting, MarkFails, Submit, Record,
                  JobEnds, Vanish, Receive, PollAnswer, FinishFetch, Requeue, Finish, ghostVars
    <2> QED
      BY <2>1, <2>2
  <1>1. /\ \A i \in Requests : IsLive(request[i]) => replica = "COPYING" /\ (Evident(i) => stored)
        /\ replica = "AVAILABLE" => stored
    BY <1>0 DEF StoreInv
  <1>2. ASSUME NEW i \in Requests, IsLive(request[i]) \/ i > issued, ~Reap
        PROVE  Evident(i)' => stored'
    BY <1>1, <1>2, EvidenceStep, StoredStep, NothingEvident
  <1>3. ~IsLive(Archived) /\ issued \in Nat
    BY ArchivedType, ConveyorAssumption DEF IsLive, TypeInv, TypeOK
  <1>4. CASE Quiet
    <2>1. \A i \in Requests : IsLive(request'[i]) => IsLive(request[i])
      BY <1>4 DEF Quiet, RowsKept, IsLive
    <2>2. ASSUME NEW i \in Requests, IsLive(request'[i]) PROVE replica' = "COPYING" /\ (Evident(i)' => stored')
      <3>1. IsLive(request[i]) /\ replica = "COPYING"
        BY <1>1, <2>1, <2>2
      <3>2. ~Reap /\ replica' = "COPYING"
        BY <1>4, <3>1 DEF Reap, Quiet
      <3> QED
        BY <1>2, <3>1, <3>2
    <2>3. replica' = "AVAILABLE" => stored'
      BY <1>1, <1>4, StoredStep DEF Quiet, Reap
    <2> QED
      BY <2>2, <2>3
  <1>5. CASE Want
    <2>1. \A i \in Requests : ~IsLive(request[i])
      BY <1>1, <1>5 DEF Want
    <2>2. replica' = "COPYING" /\ ~Reap
      BY <1>5 DEF Want, Reap
    <2>3. ASSUME NEW i \in Requests, IsLive(request'[i]) PROVE i > issued
      BY <1>3, <1>5, <2>1, <2>3, WantRows DEF Added
    <2> QED
      BY <1>2, <2>2, <2>3
  <1>6. CASE Cancel
    <2>1. \A i \in Requests : ~IsLive(request'[i])
      BY <1>3, <1>6 DEF Cancel, Live
    <2>2. replica' = "UNAVAILABLE"
      BY <1>6 DEF Cancel
    <2> QED
      BY <2>1, <2>2
  <1>7. ASSUME NEW f \in Finishers, Requeue(f)
        PROVE  /\ \A i \in Requests :
                    IsLive(request'[i]) => replica' = "COPYING" /\ (Evident(i)' => stored')
               /\ replica' = "AVAILABLE" => stored'
    <2>1. replica' = replica /\ stored' = stored
      BY <1>7 DEF Requeue
    <2>2. ASSUME NEW i \in Requests, IsLive(request'[i])
          PROVE  replica = "COPYING" /\ (IsLive(request[i]) \/ i > issued)
      <3>1. CASE request' = request
        BY <1>1, <2>2, <3>1
      <3>2. CASE Removed(batch[f].id)
        BY <1>1, <1>3, <2>2, <3>2 DEF Removed
      <3>3. CASE Replaced(batch[f].id)
        BY <1>1, <1>3, <2>2, <3>3 DEF Replaced
      <3> QED
        BY <1>7, <3>1, <3>2, <3>3, RequeueRows
    <2>3. ASSUME NEW i \in Requests, IsLive(request'[i]) PROVE Evident(i)' => stored'
      <3>1. replica = "COPYING" /\ (IsLive(request[i]) \/ i > issued)
        BY <2>2, <2>3
      <3>2. ~Reap
        BY <3>1 DEF Reap
      <3> QED
        BY <1>2, <3>1, <3>2
    <2> QED
      BY <1>1, <2>1, <2>2, <2>3
  <1>8. ASSUME NEW f \in Finishers, Finish(f)
        PROVE  /\ \A i \in Requests :
                    IsLive(request'[i]) => replica' = "COPYING" /\ (Evident(i)' => stored')
               /\ replica' = "AVAILABLE" => stored'
    <2>1. batch[f].id \in Requests /\ IsLive(request[batch[f].id]) /\ Removed(batch[f].id)
      BY <1>8, FinishRows DEF Finish
    <2>2. \A i \in Requests : ~IsLive(request'[i])
      BY <1>3, <2>1 DEF Removed, Ledger
    <2>3. replica' = "AVAILABLE" => batch[f].state = "DONE"
      BY <1>8 DEF Finish
    <2>4. batch[f].state = "DONE" => Evident(batch[f].id)
      BY DEF Evident
    <2>5. stored' = stored
      BY <1>8 DEF Finish
    <2> QED
      BY <1>1, <2>1, <2>2, <2>3, <2>4, <2>5
  <1> QED
    BY <1>4, <1>5, <1>6, <1>7, <1>8, StepKinds

\* The finisher makes a replica AVAILABLE only when its file is on storage, as
\* long as no outcome was applied after its request was archived: what it read
\* of the request is still true then (finisher.py, __update_replica).
THEOREM AvailableReplicasAreStored == Spec => []AvailableIsStored
  <1>1. StoreInv => AvailableIsStored
    BY DEF StoreInv, AvailableIsStored
  <1> QED
    BY TypeInit, TypeStep, LedgerInit, LedgerStep, JobInvInit, JobInvStep, StoreInit, IdsStep, StoreStep, <1>1, PTL
       DEF Spec
=============================================================================
