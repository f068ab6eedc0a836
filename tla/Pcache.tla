------------------------------- MODULE Pcache --------------------------------
(***************************************************************************)
(* The cache of a worker node (pcache) for one file: the processes that    *)
(* look the file up and put it there, and the cleaner.  All of them share  *)
(* only the file system.                                                   *)
(*                                                                         *)
(* A download is a process of the download client, which asks pcache for   *)
(* the file, downloads it itself when it is not there and then links its   *)
(* copy into the cache (check_and_link, twice).  A wrapper is a process of *)
(* pcache's own command line, which copies the file into the cache itself  *)
(* (main).  One action is one call of the operating system, or a few on    *)
(* files that no other process touches.                                    *)
(*                                                                         *)
(* A name in the directory refers to an inode, and a lock is held on the   *)
(* inode that was opened, not on the name: unlinking .LOCK leaves the lock *)
(* with its holder and lets the next process lock a new file.              *)
(*                                                                         *)
(* Left out: the option force, the files src and guid, the counters of     *)
(* hits and misses, the calls to the PanDA server.                         *)
(***************************************************************************)
EXTENDS Integers, FiniteSets

CONSTANTS
  Downloads,    \* processes of the download client
  Wrappers,     \* processes of pcache's command line
  MaxRetries,   \* max_retries: 3 in the code
  MaxCleanings, \* bound on the cleanings started
  MaxKills      \* bound on the processes killed

Procs == Downloads \cup Wrappers
None == <<>>
\* A file that a process has written: its own copy, one per attempt.
Inodes == Procs \X (0 .. MaxRetries)

ASSUME PcacheAssumption ==
  /\ Downloads \cap Wrappers = {}
  /\ MaxRetries \in Nat /\ MaxCleanings \in Nat /\ MaxKills \in Nat

VARIABLES
  dir,      \* the directory of the file exists
  lock,     \* inode of its .LOCK, 0 where there is none
  data,     \* inode of the cached file, None where there is none
  xfer,     \* inode of the transfer file
  mru,      \* the link of the directory in the MRU tree exists
  size,     \* the number in CACHE/size, 0 where there is none
  content,  \* content[i]: "part" or "whole"
  pc,       \* pc[p]: what process p does next
  fd,       \* fd[p]: the lock inode that p has opened, 0 for none
  holds,    \* processes that hold the lock on their fd
  tries,    \* tries[p]: transfers of p that have failed
  dst,      \* dst[p]: the file at the destination of p
  opened,   \* lock inodes made so far
  cleaner,  \* the cleaner: what it does next, what it has listed and counted
  events,   \* cleanings started, processes killed
  broken    \* history: a lock file that was in use has been unlinked

fileVars == <<dir, lock, data, xfer, mru, size>>
lockVars == <<fd, holds, opened>>
vars == <<fileVars, content, pc, lockVars, tries, dst, cleaner, events, broken>>

Steps == {"idle", "open", "try", "reopen", "wait", "check", "download", "return", "fetch",
          "copying", "rename", "account", "mru", "link", "unlink", "publish", "unlock",
          "giveup"}
Ended == {"done", "failed", "died"}
Asleep == [pc |-> "idle", names |-> {}, bytes |-> 0]

TypeOK ==
  /\ dir \in BOOLEAN /\ mru \in BOOLEAN /\ broken \in BOOLEAN
  /\ opened \in Nat /\ lock \in 0 .. opened /\ fd \in [Procs -> 0 .. opened]
  /\ {data, xfer} \subseteq Inodes \cup {None}
  /\ size \in Int
  /\ content \in [Inodes -> {"part", "whole"}]
  /\ pc \in [Procs -> Steps \cup Ended]
  /\ holds \subseteq {p \in Procs : fd[p] # 0}
  /\ tries \in [Procs -> 0 .. MaxRetries]
  /\ dst \in [Procs -> Inodes \cup {None}]
  /\ cleaner \in [pc : {"idle", "list", "empty"},
                  names : SUBSET {"data", "xfer", "lock", "mru"}, bytes : {0, 1}]
  /\ events \in [cleaned : 0 .. MaxCleanings, killed : 0 .. MaxKills]
  /\ ~dir => lock = 0 /\ data = None /\ xfer = None

Init ==
  /\ dir = FALSE /\ lock = 0 /\ data = None /\ xfer = None /\ mru = FALSE /\ size = 0
  /\ content = [i \in Inodes |-> "part"]
  /\ pc = [p \in Procs |-> "idle"]
  /\ fd = [p \in Procs |-> 0] /\ holds = {} /\ opened = 0
  /\ tries = [p \in Procs |-> 0]
  /\ dst = [p \in Procs |-> None]
  /\ cleaner = Asleep
  /\ events = [cleaned |-> 0, killed |-> 0]
  /\ broken = FALSE

Goto(p, step) == pc' = [pc EXCEPT ![p] = step]

(***************************************************************************)
(* Locks (lock_dir, lock_file, unlock_file, unlock_all).                   *)
(***************************************************************************)
Free(p) == \A q \in holds \ {p} : fd[q] # fd[p]

Release(p) ==
  /\ fd' = [fd EXCEPT ![p] = 0]
  /\ holds' = holds \ {p}
  /\ UNCHANGED opened

\* create_pcache_dst_dir.
Enter(p) ==
  /\ pc[p] = "idle"
  /\ dir' = TRUE
  /\ Goto(p, "open")
  /\ UNCHANGED <<lock, data, xfer, mru, size, content, lockVars, tries, dst, cleaner, events, broken>>

\* Opening the lock file, for the attempt that does not block or for the one
\* that does; the directory is made again if it has been deleted meanwhile.
Open(p) ==
  /\ pc[p] \in {"open", "reopen"}
  /\ dir' = TRUE
  /\ LET inode == IF lock = 0 THEN opened + 1 ELSE lock
     IN lock' = inode /\ fd' = [fd EXCEPT ![p] = inode]
  /\ opened' = IF lock = 0 THEN opened + 1 ELSE opened
  /\ Goto(p, IF pc[p] = "open" THEN "try" ELSE "wait")
  /\ UNCHANGED <<data, xfer, mru, size, content, holds, tries, dst, cleaner, events, broken>>

\* Mutant: the second attempt does not block either, and its error is ignored.
Acquire_IgnoresBusy(p) ==
  \/ /\ pc[p] \in {"try", "wait"} /\ (Free(p) \/ pc[p] = "wait")
     /\ holds' = holds \cup {p}
     /\ Goto(p, "check")
     /\ UNCHANGED <<fd, opened>>
  \/ /\ pc[p] = "try" /\ ~Free(p)
     /\ Release(p)
     /\ Goto(p, "reopen")

Acquire(p) ==
  \/ /\ pc[p] \in {"try", "wait"} /\ Free(p)
     /\ holds' = holds \cup {p}
     /\ Goto(p, "check")
     /\ UNCHANGED <<fd, opened>>
  \/ /\ pc[p] = "try" /\ ~Free(p)
     /\ Release(p)
     /\ Goto(p, "reopen")

Lock(p) ==
  /\ Acquire(p)
  /\ UNCHANGED <<fileVars, content, tries, dst, cleaner, events, broken>>

\* Mutant: the lock is given back only after a success.
Unlock_OnlyOnSuccess(p) ==
  /\ pc[p] \in {"unlock", "giveup"}
  /\ IF pc[p] = "unlock" THEN Release(p) ELSE UNCHANGED lockVars
  /\ Goto(p, IF pc[p] = "unlock" THEN "done" ELSE "failed")
  /\ UNCHANGED <<fileVars, content, tries, dst, cleaner, events, broken>>

Unlock(p) ==
  /\ pc[p] \in {"unlock", "giveup"}
  /\ Release(p)
  /\ Goto(p, IF pc[p] = "unlock" THEN "done" ELSE "failed")
  /\ UNCHANGED <<fileVars, content, tries, dst, cleaner, events, broken>>

\* fail(): unlock_all closes the lock file and unlinks its name, whichever
\* file that name refers to by now, and the process exits.
Fail(p) ==
  /\ Release(p)
  /\ lock' = 0
  /\ broken' = (broken \/ \E q \in Procs \ {p} : fd[q] # 0 /\ fd[q] = lock)
  /\ Goto(p, "died")

(***************************************************************************)
(* Looking the file up.                                                    *)
(***************************************************************************)
\* Mutant: a download that misses gives the lock back.
Check_UnlocksOnMiss(p) ==
  /\ pc[p] = "check"
  /\ Goto(p, IF data # None THEN "mru" ELSE IF p \in Downloads THEN "download" ELSE "fetch")
  /\ IF data = None /\ p \in Downloads THEN Release(p) ELSE UNCHANGED lockVars
  /\ UNCHANGED <<fileVars, content, tries, dst, cleaner, events, broken>>

\* A download that misses returns to the client with the lock still held.
Check(p) ==
  /\ pc[p] = "check"
  /\ Goto(p, IF data # None THEN "mru" ELSE IF p \in Downloads THEN "download" ELSE "fetch")
  /\ UNCHANGED <<fileVars, content, lockVars, tries, dst, cleaner, events, broken>>

\* update_mru: the link into the MRU tree, then the one back from the
\* directory, which must exist.
UpdateMru(p) ==
  /\ pc[p] = "mru"
  /\ mru' = TRUE
  /\ IF dir
     THEN /\ Goto(p, IF p \in Downloads /\ dst[p] # None THEN "unlink" ELSE "link")
          /\ UNCHANGED <<lock, lockVars, broken>>
     ELSE Fail(p)
  /\ UNCHANGED <<dir, data, xfer, size, content, tries, dst, cleaner, events>>

\* make_hard_link from the cache to the destination.
Link(p) ==
  /\ pc[p] = "link"
  /\ IF data # None
     THEN /\ dst' = [dst EXCEPT ![p] = data]
          /\ Goto(p, "unlock")
          /\ UNCHANGED <<lock, lockVars, broken>>
     ELSE Fail(p) /\ UNCHANGED dst
  /\ UNCHANGED <<dir, data, xfer, mru, size, content, tries, cleaner, events>>

(***************************************************************************)
(* The download client: it downloads and verifies the file, and calls      *)
(* check_and_link again with its copy.                                     *)
(***************************************************************************)
Download(p) ==
  /\ pc[p] = "download"
  /\ \/ /\ content' = [content EXCEPT ![<<p, 0>>] = "whole"]
        /\ dst' = [dst EXCEPT ![p] = <<p, 0>>]
        /\ Goto(p, "return")
     \/ /\ Goto(p, "giveup")
        /\ UNCHANGED <<content, dst>>
  /\ UNCHANGED <<fileVars, lockVars, tries, cleaner, events, broken>>

\* The lock is in self.locks already, so it is not taken again.
Return(p) ==
  /\ pc[p] = "return"
  /\ dir' = TRUE
  /\ Goto(p, "mru")
  /\ UNCHANGED <<lock, data, xfer, mru, size, content, lockVars, tries, dst, cleaner, events, broken>>

\* make_hard_link from the download into the cache: unlink what is there ...
Unlink(p) ==
  /\ pc[p] = "unlink"
  /\ data' = None
  /\ Goto(p, "publish")
  /\ UNCHANGED <<dir, lock, xfer, mru, size, content, lockVars, tries, dst, cleaner, events, broken>>

\* ... and link, which fails if there is no directory or a file again.
Publish(p) ==
  /\ pc[p] = "publish"
  /\ IF dir /\ data = None
     THEN /\ data' = dst[p]
          /\ Goto(p, "unlock")
          /\ UNCHANGED <<lock, lockVars, broken>>
     ELSE Fail(p) /\ UNCHANGED data
  /\ UNCHANGED <<dir, xfer, mru, size, content, tries, dst, cleaner, events>>

(***************************************************************************)
(* The wrapper: it copies the file to xfer and renames that to data.       *)
(***************************************************************************)
\* An old transfer file is unlinked; the copy command then makes its own.
StartCopy(p) ==
  /\ pc[p] = "fetch"
  /\ xfer' = IF dir THEN <<p, tries[p]>> ELSE None
  /\ Goto(p, "copying")
  /\ UNCHANGED <<dir, lock, data, mru, size, content, lockVars, tries, dst, cleaner, events, broken>>

\* The command failed, timed out or was not found, or its file is not there.
\* cleanup_failed_transfer unlinks xfer in the wrong directory.
CopyFails(p) ==
  /\ pc[p] = "copying"
  /\ IF tries[p] < MaxRetries
     THEN tries' = [tries EXCEPT ![p] = @ + 1] /\ Goto(p, "fetch")
     ELSE Goto(p, "giveup") /\ UNCHANGED tries
  /\ UNCHANGED <<fileVars, content, lockVars, dst, cleaner, events, broken>>

\* Mutant: any transfer file counts as a success, whatever the exit status.
CopyEnds_IgnoresStatus(p) ==
  /\ pc[p] = "copying"
  /\ xfer # None
  /\ \E c \in {"part", "whole"} : content' = [content EXCEPT ![<<p, tries[p]>>] = c]
  /\ Goto(p, "rename")
  /\ UNCHANGED <<fileVars, lockVars, tries, dst, cleaner, events, broken>>

CopyEnds(p) ==
  /\ pc[p] = "copying"
  /\ xfer # None
  /\ content' = [content EXCEPT ![<<p, tries[p]>>] = "whole"]
  /\ Goto(p, "rename")
  /\ UNCHANGED <<fileVars, lockVars, tries, dst, cleaner, events, broken>>

Rename(p) ==
  /\ pc[p] = "rename"
  /\ IF xfer # None
     THEN /\ data' = xfer /\ xfer' = None
          /\ Goto(p, "account")
          /\ UNCHANGED <<lock, lockVars, broken>>
     ELSE Fail(p) /\ UNCHANGED <<data, xfer>>
  /\ UNCHANGED <<dir, mru, size, content, tries, dst, cleaner, events>>

\* update_cache_size, under a lock of its own; the size is read off data, and
\* the process ends with an uncaught error if that is gone.
Account(p) ==
  /\ pc[p] = "account"
  /\ IF data # None
     THEN size' = size + 1 /\ Goto(p, "mru") /\ UNCHANGED lockVars
     ELSE Goto(p, "died") /\ Release(p) /\ UNCHANGED size
  /\ UNCHANGED <<dir, lock, data, xfer, mru, content, tries, dst, cleaner, events, broken>>

Kill(p) ==
  /\ events.killed < MaxKills
  /\ pc[p] \in Steps \ {"idle"}
  /\ events' = [events EXCEPT !.killed = @ + 1]
  /\ Release(p)
  /\ Goto(p, "died")
  /\ UNCHANGED <<fileVars, content, tries, dst, cleaner, broken>>

(***************************************************************************)
(* The cleaner (maybe_start_cleaner_thread lets one run at a time).        *)
(***************************************************************************)
\* flush_cache: the trees CACHE and MRU are renamed away.
Flush ==
  /\ dir' = FALSE /\ lock' = 0 /\ data' = None /\ xfer' = None /\ mru' = FALSE /\ size' = 0
  /\ broken' = (broken \/ \E p \in Procs : fd[p] # 0 /\ fd[p] = lock)

\* get_cache_size: a size of zero is counted anew, a negative one flushes.
CleanStart ==
  /\ cleaner.pc = "idle" /\ events.cleaned < MaxCleanings
  /\ events' = [events EXCEPT !.cleaned = @ + 1]
  /\ cleaner' = [Asleep EXCEPT !.pc = "list"]
  /\ IF size < 0
     THEN Flush
     ELSE /\ size' = IF size = 0 /\ data # None THEN 1 ELSE size
          /\ UNCHANGED <<dir, lock, data, xfer, mru, broken>>
  /\ UNCHANGED <<content, pc, lockVars, tries, dst>>

\* The next link of the MRU tree: its directory is listed, or flushed if it
\* does not exist.
CleanList ==
  /\ cleaner.pc = "list"
  /\ IF mru /\ dir
     THEN /\ cleaner' = [pc |-> "empty", bytes |-> 0, names |->
               {"mru"} \cup (IF data # None THEN {"data"} ELSE {})
                 \cup (IF xfer # None THEN {"xfer"} ELSE {})
                 \cup (IF lock # 0 THEN {"lock"} ELSE {})]
          /\ UNCHANGED <<fileVars, broken>>
     ELSE /\ cleaner' = Asleep
          /\ IF mru THEN Flush ELSE UNCHANGED <<fileVars, broken>>
  /\ UNCHANGED <<content, pc, lockVars, tries, dst, events>>

\* empty_dir unlinks what it has listed, without taking the lock.
CleanUnlink(name) ==
  /\ cleaner.pc = "empty" /\ name \in cleaner.names
  /\ cleaner' = [cleaner EXCEPT !.names = @ \ {name},
       !.bytes = IF name = "data" /\ data # None THEN 1 ELSE @]
  /\ data' = IF name = "data" THEN None ELSE data
  /\ xfer' = IF name = "xfer" THEN None ELSE xfer
  /\ lock' = IF name = "lock" THEN 0 ELSE lock
  /\ mru' = IF name = "mru" THEN FALSE ELSE mru
  /\ broken' = (broken \/ (name = "lock" /\ \E p \in Procs : fd[p] # 0 /\ fd[p] = lock))
  /\ UNCHANGED <<dir, size, content, pc, lockVars, tries, dst, events>>

\* Then it takes what it deleted off the size and removes an empty directory.
CleanEnd ==
  /\ cleaner.pc = "empty" /\ cleaner.names = {}
  /\ size' = size - cleaner.bytes
  /\ dir' = (dir /\ (data # None \/ xfer # None \/ lock # 0 \/ mru))
  /\ cleaner' = Asleep
  /\ UNCHANGED <<lock, data, xfer, mru, content, pc, lockVars, tries, dst, events, broken>>

Cleaner ==
  CleanStart \/ CleanList \/ CleanEnd \/ \E name \in cleaner.names : CleanUnlink(name)

Step(p) ==
  \/ Open(p) \/ Lock(p) \/ Unlock(p) \/ Check(p) \/ UpdateMru(p) \/ Link(p)
  \/ Download(p) \/ Return(p) \/ Unlink(p) \/ Publish(p)
  \/ StartCopy(p) \/ CopyFails(p) \/ CopyEnds(p) \/ Rename(p) \/ Account(p)

Next == Cleaner \/ \E p \in Procs : Enter(p) \/ Step(p) \/ Kill(p)

Spec == Init /\ [][Next]_vars

\* A process that has started runs on until it ends; nothing need start one,
\* or the cleaner.
Fairness == \A p \in Procs : WF_vars(Step(p))

FairSpec == Spec /\ Fairness

(***************************************************************************)
(* Properties.                                                             *)
(***************************************************************************)

\* One process at a time is between locking and unlocking the directory,
\* unless a lock file that was in use has been unlinked.  (pcache.py
\* lock_file: the retry opens the file anew.)
Exclusive ==
  ~broken => Cardinality(holds) <= 1

\* The file that a process reports as ready is whole, even after other
\* transfers failed half way or were killed.  (pcache.py do_transfer, which
\* renames only a finished transfer.)
ReadyIsWhole ==
  ~broken => \A p \in Procs : pc[p] = "done" => dst[p] # None /\ content[dst[p]] = "whole"

\* Only a cleaning or a kill makes a process end without an answer: on their
\* own the processes never get in each other's way.  (pcache.py fail.)
DiesOnlyIfCleaned ==
  events.cleaned = 0 => Cardinality({p \in Procs : pc[p] = "died"}) <= events.killed

\* A process that waits for the lock gets its answer, whatever becomes of the
\* holder.  (pcache.py lock_dir, and check_and_link, which returns with the
\* lock held.)
EveryoneEnds ==
  \A p \in Procs : pc[p] = "open" ~> pc[p] \in Ended

-----------------------------------------------------------------------------
(***************************************************************************)
(* What the repository says and the code does not do: the README gives the *)
(* shortest behaviours that violate these.                                 *)
(***************************************************************************)
\* The file that a process reports as ready is whole.  (pcache.py, the exit
\* status 0: "File was transferred into cache and is ready".)
ReadyFileIsWhole ==
  \A p \in Wrappers : pc[p] = "done" => content[dst[p]] = "whole"

\* pcache.py get_cache_size: "The size should never be negative".
SizeNotNegative == size >= 0
==============================================================================
