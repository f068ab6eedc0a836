------------------------------- MODULE Heartbeat -------------------------------
(***************************************************************************)
(* The heartbeats by which the workers of a daemon share its work          *)
(* (core/heartbeat.py, HeartbeatHandler of daemons/common.py and           *)
(* filter_thread_work of db/sqla/__init__.py).  A worker is a thread: one  *)
(* row of the table, ordered by host name, process and thread, which is    *)
(* the order of the numbers that stand for the workers here.               *)
(*                                                                         *)
(* Time is counted in ages: how many ticks ago a row was updated, or a     *)
(* worker last renewed its row.  An age stops growing at the first value   *)
(* beyond the limit that it is compared with.                              *)
(***************************************************************************)
EXTENDS Integers, FiniteSets

CONSTANTS
  Workers,      \* threads that can run, numbered in the order of their rows
  Host,         \* the host of each
  Renewal,      \* renewal_interval of the handler
  OlderThan,    \* age beyond which a heartbeat is ignored
  Expiration    \* age beyond which sanity_check removes one

ASSUME HeartbeatAssumption ==
  /\ Workers \subseteq Nat /\ IsFiniteSet(Workers)
  /\ DOMAIN Host = Workers
  /\ Renewal \in Nat /\ OlderThan \in Nat /\ Expiration \in Nat
  /\ Renewal < OlderThan /\ OlderThan < Expiration

VARIABLES
  alive,        \* the workers whose process exists
  beat,         \* the age of the row of each worker, or NoBeat
  view          \* what each worker's handler remembers of its last renewal

hbVars == <<alive, beat, view>>

NoBeat == -1
Ages == 0 .. Expiration + 1

\* assign_thread and nr_threads are the place of the worker in the rows that
\* the renewal saw, and their number: the handler's memory is that set.
Views == [seen : SUBSET Workers, age : 0 .. Renewal + 1]
Unseen == [seen |-> {}, age |-> Renewal + 1]

HeartbeatTypeOK ==
  /\ alive \subseteq Workers
  /\ beat \in [Workers -> Ages \cup {NoBeat}]
  /\ view \in [Workers -> Views]

HeartbeatInit ==
  /\ alive = {}
  /\ beat = [w \in Workers |-> NoBeat]
  /\ view = [w \in Workers |-> Unseen]

NotOld(rows) == {w \in Workers : rows[w] \in 0 .. OlderThan}

\* live: update the row or insert it, then read the rows that are not old.
LiveOn(w, rows) ==
  /\ beat' = [rows EXCEPT ![w] = 0]
  /\ view' = [view EXCEPT ![w] = [seen |-> NotOld(rows) \cup {w}, age |-> 0]]

\* HeartbeatHandler.live: the last answer serves until it is due.
HandlerLive(w, force) ==
  IF force \/ view[w].age > Renewal
  THEN LiveOn(w, beat)
  ELSE UNCHANGED <<beat, view>>

\* Rows of dead processes of the host go, and rows older than a day.
SanityCheck(host) ==
  [v \in Workers |->
     IF (Host[v] = host /\ v \notin alive) \/ beat[v] > Expiration THEN NoBeat ELSE beat[v]]

\* HeartbeatHandler.__enter__.
Enter(w) ==
  /\ w \notin alive
  /\ alive' = alive \cup {w}
  /\ LiveOn(w, SanityCheck(Host[w]))

\* HeartbeatHandler.__exit__, through die.
Exit(w) ==
  /\ alive' = alive \ {w}
  /\ beat' = [beat EXCEPT ![w] = NoBeat]
  /\ view' = [view EXCEPT ![w] = Unseen]

\* The process ends without __exit__; its row stays.
Vanish(w) ==
  /\ alive' = alive \ {w}
  /\ view' = [view EXCEPT ![w] = Unseen]
  /\ UNCHANGED beat

Older(age, limit) == IF age = NoBeat \/ age > limit THEN age ELSE age + 1

Age ==
  /\ beat' = [w \in Workers |-> Older(beat[w], Expiration)]
  /\ view' = [w \in Workers |-> [view[w] EXCEPT !.age = Older(@, Renewal)]]
  /\ <<beat, view>>' # <<beat, view>>
  /\ UNCHANGED alive

\* Mutant: live does not find the row of the worker and answers the first place.
Assigned_FirstPlace(v, w, hash) ==
  Cardinality(v.seen) - 1 > 0 => hash % Cardinality(v.seen) = 0

\* filter_thread_work with the numbers of view v: a lone worker takes all.
Assigned(v, w, hash) ==
  Cardinality(v.seen) - 1 > 0 =>
    hash % Cardinality(v.seen) = Cardinality({u \in v.seen : u < w})

=============================================================================
