---------------------------- MODULE PcacheProofs -----------------------------
(***************************************************************************)
(* Proofs about Pcache for any number of downloads and wrappers, any       *)
(* number of retries and any bounds on cleanings and kills.                *)
(***************************************************************************)
EXTENDS Pcache, FiniteSetTheorems, TLAPS

\* The steps of a process that holds the lock of the directory.
Inside == {"check", "download", "return", "fetch", "copying", "rename", "account", "mru", "link",
           "unlink", "publish", "unlock", "giveup"}

\* A process holds a lock exactly while it is inside, has the lock file open
\* exactly from opening to releasing it, and shares the inode it has locked with
\* no other holder.  While no lock file in use has been unlinked, the inode that
\* anybody has open is the one the name .LOCK refers to.
Locking ==
  /\ \A p \in Procs : p \in holds <=> pc[p] \in Inside
  /\ \A p \in Procs : fd[p] # 0 <=> pc[p] \in Inside \cup {"try", "wait"}
  /\ \A p, q \in holds : fd[p] = fd[q] => p = q
  /\ ~broken => \A p \in Procs : fd[p] \in {0, lock}

\* A pair is not the absent file.
LEMMA PairIsNone == \A i \in Inodes : i # None
  BY DEF Inodes, None

\* Everything the processes can do, one operation of the module at a time.
LEMMA NextCases ==
  ASSUME Next
  PROVE  \/ CleanStart \/ CleanList \/ CleanEnd \/ \E name \in cleaner.names : CleanUnlink(name)
         \/ \E p \in Procs :
              \/ Enter(p) \/ Open(p) \/ Lock(p) \/ Unlock(p) \/ Check(p) \/ UpdateMru(p) \/ Link(p)
              \/ Download(p) \/ Return(p) \/ Unlink(p) \/ Publish(p)
              \/ StartCopy(p) \/ CopyFails(p) \/ CopyEnds(p) \/ Rename(p) \/ Account(p) \/ Kill(p)
  BY DEF Next, Cleaner, Step

\* Flushing the cache leaves no file and no directory.
LEMMA Flushed ==
  ASSUME TypeOK, Flush
  PROVE  /\ dir' = FALSE /\ lock' = 0 /\ data' = None /\ xfer' = None /\ mru' = FALSE /\ size' = 0
         /\ broken' \in BOOLEAN
  BY DEF Flush

\* The cleaner's own state, and the file system that it works on, are typed.
CleanerTyped ==
  cleaner \in [pc : {"idle", "list", "empty"},
               names : SUBSET {"data", "xfer", "lock", "mru"}, bytes : {0, 1}]
FilesTyped ==
  /\ dir \in BOOLEAN /\ mru \in BOOLEAN /\ broken \in BOOLEAN
  /\ lock \in 0 .. opened
  /\ data \in Inodes \cup {None} /\ xfer \in Inodes \cup {None}
  /\ size \in Int
  /\ ~dir => lock = 0 /\ data = None /\ xfer = None

\* A step of the cleaner need only keep those.
LEMMA CleanerStep ==
  ASSUME TypeOK, UNCHANGED <<content, pc, fd, holds, opened, tries, dst>>,
         events' \in [cleaned : 0 .. MaxCleanings, killed : 0 .. MaxKills],
         CleanerTyped', FilesTyped'
  PROVE  TypeOK'
  BY DEF TypeOK, CleanerTyped, FilesTyped

\* Every step keeps the types, given that the processes inside have the lock open.
LEMMA TypeStep ==
  ASSUME TypeOK, Locking, [Next]_vars
  PROVE  TypeOK'
  <1> USE PcacheAssumption DEF Steps, Ended, Goto, Release, fileVars, lockVars
  <1>1. ASSUME NEW p \in Procs, Enter(p) PROVE TypeOK'
    BY <1>1 DEF TypeOK, Enter
  <1>2. ASSUME NEW p \in Procs, Open(p) PROVE TypeOK'
    BY <1>2 DEF TypeOK, Open
  <1>3. ASSUME NEW p \in Procs, Lock(p) PROVE TypeOK'
    BY <1>3 DEF TypeOK, Lock, Acquire, Locking
  <1>4. ASSUME NEW p \in Procs, Unlock(p) PROVE TypeOK'
    BY <1>4 DEF TypeOK, Unlock
  <1>5. ASSUME NEW p \in Procs, Check(p) PROVE TypeOK'
    BY <1>5 DEF TypeOK, Check
  <1>6. ASSUME NEW p \in Procs, UpdateMru(p) PROVE TypeOK'
    BY <1>6 DEF TypeOK, UpdateMru, Fail
  <1>7. ASSUME NEW p \in Procs, Link(p) PROVE TypeOK'
    BY <1>7 DEF TypeOK, Link, Fail
  <1>8. ASSUME NEW p \in Procs, Download(p) PROVE TypeOK'
    BY <1>8 DEF TypeOK, Download, Inodes
  <1>9. ASSUME NEW p \in Procs, Return(p) PROVE TypeOK'
    BY <1>9 DEF TypeOK, Return
  <1>10. ASSUME NEW p \in Procs, Unlink(p) PROVE TypeOK'
    BY <1>10 DEF TypeOK, Unlink
  <1>11. ASSUME NEW p \in Procs, Publish(p) PROVE TypeOK'
    BY <1>11 DEF TypeOK, Publish, Fail
  <1>12. ASSUME NEW p \in Procs, StartCopy(p) PROVE TypeOK'
    BY <1>12 DEF TypeOK, StartCopy, Inodes
  <1>13. ASSUME NEW p \in Procs, CopyFails(p) PROVE TypeOK'
    BY <1>13 DEF TypeOK, CopyFails
  <1>14. ASSUME NEW p \in Procs, CopyEnds(p) PROVE TypeOK'
    BY <1>14 DEF TypeOK, CopyEnds, Inodes
  <1>15. ASSUME NEW p \in Procs, Rename(p) PROVE TypeOK'
    BY <1>15 DEF TypeOK, Rename, Fail
  <1>16. ASSUME NEW p \in Procs, Account(p) PROVE TypeOK'
    BY <1>16 DEF TypeOK, Account
  <1>17. ASSUME NEW p \in Procs, Kill(p) PROVE TypeOK'
    BY <1>17 DEF TypeOK, Kill
  <1>f. FilesTyped /\ CleanerTyped /\ opened \in Nat
    BY DEF TypeOK, FilesTyped, CleanerTyped
  <1>g. Flush /\ UNCHANGED opened => FilesTyped'
    BY <1>f, Flushed DEF FilesTyped
  <1>18. CASE CleanStart
    <2>1. CleanerTyped' /\ UNCHANGED <<content, pc, fd, holds, opened, tries, dst>>
      BY <1>18 DEF CleanStart, Asleep, CleanerTyped
    <2>2. events' \in [cleaned : 0 .. MaxCleanings, killed : 0 .. MaxKills]
      BY <1>18 DEF CleanStart, TypeOK
    <2>3. Flush \/ (size' \in {size, 1} /\ UNCHANGED <<dir, lock, data, xfer, mru, broken>>)
      BY <1>18 DEF CleanStart
    <2>4. FilesTyped'
      BY <1>f, <1>g, <2>1, <2>3 DEF FilesTyped
    <2> QED
      BY <2>1, <2>2, <2>4, CleanerStep
  <1>19. CASE CleanList
    <2>1. CleanerTyped'
      <3>1. CASE mru /\ dir
        <4> DEFINE N == {"mru"} \cup (IF data # None THEN {"data"} ELSE {})
                          \cup (IF xfer # None THEN {"xfer"} ELSE {})
                          \cup (IF lock # 0 THEN {"lock"} ELSE {})
        <4>1. N \in SUBSET {"data", "xfer", "lock", "mru"}
          OBVIOUS
        <4>2. cleaner' = [pc |-> "empty", bytes |-> 0, names |-> N]
          BY <1>19, <3>1 DEF CleanList
        <4> HIDE DEF N
        <4> QED
          BY <4>1, <4>2 DEF CleanerTyped
      <3>2. CASE ~(mru /\ dir)
        BY <1>19, <3>2 DEF CleanList, Asleep, CleanerTyped
      <3> QED
        BY <3>1, <3>2
    <2>2. UNCHANGED <<content, pc, fd, holds, opened, tries, dst, events>>
      BY <1>19 DEF CleanList
    <2>3. UNCHANGED <<fileVars, broken>> \/ Flush
      BY <1>19 DEF CleanList
    <2>4. FilesTyped'
      BY <1>f, <1>g, <2>2, <2>3 DEF FilesTyped
    <2>5. events' \in [cleaned : 0 .. MaxCleanings, killed : 0 .. MaxKills]
      BY <2>2 DEF TypeOK
    <2> QED
      BY <2>1, <2>2, <2>4, <2>5, CleanerStep
  <1>20. ASSUME NEW name \in cleaner.names, CleanUnlink(name) PROVE TypeOK'
    <2>1. CleanerTyped'
      BY <1>20, <1>f DEF CleanerTyped, CleanUnlink
    <2>2. UNCHANGED <<dir, size, content, pc, fd, holds, opened, tries, dst, events>>
      BY <1>20 DEF CleanUnlink
    <2>3. /\ data' \in {data, None} /\ xfer' \in {xfer, None} /\ lock' \in {lock, 0} /\ mru' \in {mru, FALSE}
          /\ broken' \in BOOLEAN
      BY <1>20 DEF CleanUnlink
    <2>4. FilesTyped'
      <3>1. dir' \in BOOLEAN /\ mru' \in BOOLEAN /\ broken' \in BOOLEAN
        BY <1>f, <2>2, <2>3 DEF FilesTyped
      <3>2. /\ lock' \in 0 .. opened' /\ data' \in Inodes \cup {None} /\ xfer' \in Inodes \cup {None}
            /\ size' \in Int
        BY <1>f, <2>2, <2>3 DEF FilesTyped
      <3>3. ~dir' => lock' = 0 /\ data' = None /\ xfer' = None
        BY <1>f, <2>2, <2>3 DEF FilesTyped
      <3> QED
        BY <3>1, <3>2, <3>3 DEF FilesTyped
    <2>5. events' \in [cleaned : 0 .. MaxCleanings, killed : 0 .. MaxKills]
      BY <2>2 DEF TypeOK
    <2> QED
      BY <2>1, <2>2, <2>4, <2>5, CleanerStep
  <1>21. CASE CleanEnd
    <2>1. CleanerTyped'
      BY <1>21 DEF CleanEnd, Asleep, CleanerTyped
    <2>2. UNCHANGED <<lock, data, xfer, mru, content, pc, fd, holds, opened, tries, dst, events, broken>>
      BY <1>21 DEF CleanEnd
    <2>3. cleaner.bytes \in {0, 1}
      BY <1>f DEF CleanerTyped
    <2>4. /\ size' = size - cleaner.bytes
          /\ dir' = (dir /\ (data # None \/ xfer # None \/ lock # 0 \/ mru))
      BY <1>21 DEF CleanEnd
    <2>5. size' \in Int
      BY <1>f, <2>3, <2>4 DEF FilesTyped
    <2>6. FilesTyped'
      BY <1>f, <2>2, <2>4, <2>5 DEF FilesTyped
    <2>7. events' \in [cleaned : 0 .. MaxCleanings, killed : 0 .. MaxKills]
      BY <2>2 DEF TypeOK
    <2> QED
      BY <2>1, <2>2, <2>6, <2>7, CleanerStep
  <1>22. CASE UNCHANGED vars
    BY <1>22 DEF TypeOK, vars
  <1> QED
    BY <1>1, <1>2, <1>3, <1>4, <1>5, <1>6, <1>7, <1>8, <1>9, <1>10, <1>11, <1>12, <1>13, <1>14, <1>15,
       <1>16, <1>17, <1>18, <1>19, <1>20, <1>21, <1>22, NextCases

\* A process that fails unlinks the name .LOCK: nobody else has it open, or the
\* step is recorded.
LEMMA FailLocking ==
  ASSUME TypeOK, Locking, NEW p \in Procs, pc[p] \in Inside, Fail(p)
  PROVE  Locking'
  <1> USE DEF Inside
  <1>1. /\ pc' = [pc EXCEPT ![p] = "died"] /\ fd' = [fd EXCEPT ![p] = 0] /\ holds' = holds \ {p} /\ lock' = 0
        /\ broken' = (broken \/ \E q \in Procs \ {p} : fd[q] # 0 /\ fd[q] = lock)
    BY DEF Fail, Release, Goto
  <1>2. \A q \in Procs : /\ pc'[q] = IF q = p THEN "died" ELSE pc[q]
                         /\ fd'[q] = IF q = p THEN 0 ELSE fd[q]
    BY <1>1 DEF TypeOK
  <1>3. ~broken' => \A q \in Procs : fd'[q] \in {0, lock'}
    <2>1. ~broken' => ~broken /\ ~\E q \in Procs \ {p} : fd[q] # 0 /\ fd[q] = lock
      BY <1>1
    <2> QED
      BY <1>1, <1>2, <2>1 DEF Locking
  <1>4. holds \subseteq Procs
    BY DEF TypeOK
  <1> QED
    BY <1>1, <1>2, <1>3, <1>4 DEF Locking

\* A step of process p inside that changes neither the locks nor the name .LOCK
\* keeps Locking, if it stays inside.
LEMMA InsideLocking ==
  ASSUME TypeOK, Locking, NEW p \in Procs, pc[p] \in Inside, NEW step \in Inside,
         Goto(p, step), UNCHANGED <<lock, fd, holds, broken>>
  PROVE  Locking'
  <1>1. \A q \in Procs : pc'[q] = IF q = p THEN step ELSE pc[q]
    BY DEF Goto, TypeOK
  <1>2. \A q \in Procs : pc'[q] \in Inside <=> pc[q] \in Inside
    BY <1>1
  <1>3. \A q \in Procs : pc'[q] \in {"try", "wait"} => pc[q] \in {"try", "wait"}
    BY <1>1 DEF Inside
  <1>4. \A q \in Procs : pc[q] \in {"try", "wait"} => pc'[q] \in {"try", "wait"}
    BY <1>1 DEF Inside
  <1> QED
    BY <1>2, <1>3, <1>4 DEF Locking

\* Releasing the lock keeps it.
LEMMA ReleaseLocking ==
  ASSUME TypeOK, Locking, NEW p \in Procs,
         NEW step \in {"reopen", "done", "failed", "died"},
         Goto(p, step), Release(p), UNCHANGED <<lock, broken>>
  PROVE  Locking'
  <1>1. \A q \in Procs : /\ pc'[q] = IF q = p THEN step ELSE pc[q]
                         /\ fd'[q] = IF q = p THEN 0 ELSE fd[q]
    BY DEF Goto, Release, TypeOK
  <1>2. holds' = holds \ {p} /\ holds \subseteq Procs
    BY DEF Release, TypeOK
  <1> QED
    BY <1>1, <1>2 DEF Locking, Inside

\* A step of the cleaner keeps it if it records that it unlinks a name in use.
LEMMA CleanerLocking ==
  ASSUME TypeOK, Locking, UNCHANGED <<pc, fd, holds>>,
         \/ UNCHANGED <<lock, broken>>
         \/ lock' = 0 /\ broken' = (broken \/ \E p \in Procs : fd[p] # 0 /\ fd[p] = lock)
  PROVE  Locking'
  <1>1. ~broken' => ~broken /\ \A p \in Procs : fd[p] \in {0, lock'}
    BY DEF Locking
  <1> QED
    BY <1>1 DEF Locking

\* Every step keeps Locking.
LEMMA LockingStep ==
  ASSUME TypeOK, Locking, [Next]_vars
  PROVE  Locking'
  <1> USE DEF Inside
  <1>1. ASSUME NEW p \in Procs, Enter(p) PROVE Locking'
    BY <1>1 DEF Enter, Goto, lockVars, TypeOK, Locking
  <1>2. ASSUME NEW p \in Procs, Open(p) PROVE Locking'
    <2>1. /\ pc[p] \in {"open", "reopen"} /\ UNCHANGED <<holds, broken>>
          /\ lock' = IF lock = 0 THEN opened + 1 ELSE lock
          /\ fd' = [fd EXCEPT ![p] = lock']
          /\ pc' = [pc EXCEPT ![p] = IF pc[p] = "open" THEN "try" ELSE "wait"]
      BY <1>2 DEF Open, Goto
    <2>2. p \notin holds /\ holds \subseteq Procs /\ fd[p] = 0 /\ lock' # 0
      BY <2>1 DEF Locking, TypeOK
    <2>3. \A q \in Procs : fd'[q] = IF q = p THEN lock' ELSE fd[q]
      BY <2>1 DEF TypeOK
    <2>4. \A q \in Procs : q # p => pc'[q] = pc[q]
      BY <2>1 DEF TypeOK
    <2>5. pc'[p] \in {"try", "wait"}
      BY <2>1 DEF TypeOK
    <2>6. ~broken' => \A q \in Procs : fd'[q] \in {0, lock'}
      BY <2>1, <2>3 DEF Locking
    <2> QED
      BY <2>1, <2>2, <2>3, <2>4, <2>5, <2>6 DEF Locking
  <1>3. ASSUME NEW p \in Procs, Lock(p) PROVE Locking'
    <2>1. UNCHANGED <<lock, broken>>
      BY <1>3 DEF Lock, fileVars
    <2>2. CASE pc[p] \in {"try", "wait"} /\ Free(p) /\ holds' = holds \cup {p} /\ Goto(p, "check") /\ UNCHANGED fd
      <3>1. \A q \in Procs : pc'[q] = IF q = p THEN "check" ELSE pc[q]
        BY <2>2 DEF Goto, TypeOK
      <3>2. \A q \in holds \ {p} : fd[q] # fd[p]
        BY <2>2 DEF Free
      <3>3. \A q, s \in holds' : fd'[q] = fd'[s] => q = s
        BY <2>2, <3>2 DEF Locking
      <3>4. \A q \in Procs : (q \in holds' <=> pc'[q] \in Inside)
        BY <2>2, <3>1 DEF Locking
      <3>5. \A q \in Procs : (fd'[q] # 0 <=> pc'[q] \in Inside \cup {"try", "wait"})
        BY <2>2, <3>1 DEF Locking
      <3> QED
        BY <2>1, <2>2, <3>3, <3>4, <3>5 DEF Locking
    <2>3. CASE Release(p) /\ Goto(p, "reopen")
      BY <2>1, <2>3, ReleaseLocking
    <2> QED
      BY <1>3, <2>2, <2>3 DEF Lock, Acquire
  <1>4. ASSUME NEW p \in Procs, Unlock(p) PROVE Locking'
    BY <1>4, ReleaseLocking DEF Unlock, fileVars
  <1>5. ASSUME NEW p \in Procs, Check(p) PROVE Locking'
    BY <1>5, InsideLocking DEF Check, fileVars, lockVars
  <1>6. ASSUME NEW p \in Procs, UpdateMru(p) PROVE Locking'
    BY <1>6, InsideLocking, FailLocking DEF UpdateMru, lockVars
  <1>7. ASSUME NEW p \in Procs, Link(p) PROVE Locking'
    BY <1>7, InsideLocking, FailLocking DEF Link, lockVars
  <1>8. ASSUME NEW p \in Procs, Download(p) \/ Return(p) \/ Unlink(p) \/ StartCopy(p) PROVE Locking'
    BY <1>8, InsideLocking DEF Download, Return, Unlink, StartCopy, fileVars, lockVars
  <1>9. ASSUME NEW p \in Procs, CopyFails(p) \/ CopyEnds(p) PROVE Locking'
    BY <1>9, InsideLocking DEF CopyFails, CopyEnds, fileVars, lockVars
  <1>10. ASSUME NEW p \in Procs, Publish(p) PROVE Locking'
    BY <1>10, InsideLocking, FailLocking DEF Publish, lockVars
  <1>11. ASSUME NEW p \in Procs, Rename(p) PROVE Locking'
    BY <1>11, InsideLocking, FailLocking DEF Rename, lockVars
  <1>12. ASSUME NEW p \in Procs, Account(p) PROVE Locking'
    BY <1>12, InsideLocking, ReleaseLocking DEF Account, lockVars
  <1>13. ASSUME NEW p \in Procs, Kill(p) PROVE Locking'
    BY <1>13, ReleaseLocking DEF Kill, fileVars
  <1>14. CASE CleanStart
    BY <1>14, CleanerLocking DEF CleanStart, Flush, lockVars
  <1>15. CASE CleanList
    BY <1>15, CleanerLocking DEF CleanList, Flush, fileVars, lockVars
  <1>16. ASSUME NEW name \in cleaner.names, CleanUnlink(name) PROVE Locking'
    <2>1. UNCHANGED <<pc, fd, holds>>
      BY <1>16 DEF CleanUnlink, lockVars
    <2>2. \/ UNCHANGED lock /\ broken' = (broken \/ FALSE)
          \/ lock' = 0 /\ broken' = (broken \/ \E p \in Procs : fd[p] # 0 /\ fd[p] = lock)
      BY <1>16 DEF CleanUnlink
    <2> QED
      BY <2>1, <2>2, CleanerLocking DEF TypeOK
  <1>17. CASE CleanEnd
    BY <1>17, CleanerLocking DEF CleanEnd, lockVars
  <1>18. CASE UNCHANGED vars
    BY <1>18, CleanerLocking DEF vars, fileVars, lockVars
  <1> QED
    BY <1>1, <1>2, <1>3, <1>4, <1>5, <1>6, <1>7, <1>8, <1>9, <1>10, <1>11, <1>12, <1>13, <1>14, <1>15,
       <1>16, <1>17, <1>18, NextCases

\* Types and locks, for any number of processes.
THEOREM LocksAreKept == Spec => [](TypeOK /\ Locking)
  <1>1. Init => TypeOK /\ Locking
    <2> SUFFICES ASSUME Init PROVE TypeOK /\ Locking
      OBVIOUS
    <2>1. cleaner \in [pc : {"idle", "list", "empty"},
                       names : SUBSET {"data", "xfer", "lock", "mru"}, bytes : {0, 1}]
      BY DEF Init, Asleep
    <2>2. events \in [cleaned : 0 .. MaxCleanings, killed : 0 .. MaxKills]
      BY PcacheAssumption DEF Init
    <2>3. TypeOK
      <3>1. FilesTyped /\ opened \in Nat
        <4>1. dir \in BOOLEAN /\ mru \in BOOLEAN /\ broken \in BOOLEAN
          BY DEF Init
        <4>2. lock = 0 /\ opened = 0 /\ data = None /\ xfer = None /\ size = 0
          BY DEF Init
        <4> QED
          BY <4>1, <4>2 DEF FilesTyped
      <3>2. /\ content \in [Inodes -> {"part", "whole"}]
            /\ pc \in [Procs -> Steps \cup Ended]
            /\ fd \in [Procs -> 0 .. opened]
            /\ holds = {}
            /\ tries \in [Procs -> 0 .. MaxRetries]
            /\ dst \in [Procs -> Inodes \cup {None}]
        BY PcacheAssumption DEF Init, Steps
      <3> QED
        BY <2>1, <2>2, <3>1, <3>2 DEF TypeOK, FilesTyped
    <2>4. Locking
      BY DEF Init, Locking, Inside
    <2> QED
      BY <2>3, <2>4
  <1>2. TypeOK /\ Locking /\ [Next]_vars => TypeOK' /\ Locking'
    BY TypeStep, LockingStep
  <1> QED
    BY <1>1, <1>2, PTL DEF Spec

\* One process at a time is between locking and unlocking the directory, unless
\* a lock file in use has been unlinked.
THEOREM LockIsExclusive == Spec => []Exclusive
  <1>1. TypeOK /\ Locking => Exclusive
    <2> SUFFICES ASSUME TypeOK, Locking, ~broken PROVE Cardinality(holds) <= 1
      BY DEF Exclusive
    <2>1. \A p, q \in holds : p = q
      BY DEF TypeOK, Locking
    <2>2. CASE holds = {}
      BY <2>2, FS_EmptySet
    <2>3. CASE holds # {}
      <3>1. PICK p \in holds : TRUE
        BY <2>3
      <3>2. holds = {p}
        BY <2>1, <3>1
      <3>3. Cardinality({p}) = 1
        BY FS_Singleton
      <3> QED
        BY <3>2, <3>3
    <2> QED
      BY <2>2, <2>3
  <1> QED
    BY <1>1, LocksAreKept, PTL

-----------------------------------------------------------------------------
(***************************************************************************)
(* What the files hold.  ReadyIsWhole is inductive together with where a   *)
(* whole file may come from: the cached file and every destination are     *)
(* whole, and the transfer file that a wrapper is about to rename is its   *)
(* own, because no other process is inside.                                *)
(***************************************************************************)
Whole(i) == i # None => content[i] = "whole"
Fine(p) ==
  /\ Whole(dst[p])
  /\ pc[p] \in {"copying", "rename"} => xfer \in {<<p, tries[p]>>, None}
  /\ pc[p] = "rename" => content[<<p, tries[p]>>] = "whole"
  /\ pc[p] \in {"return", "unlink", "publish", "unlock", "done"} => dst[p] # None

Wholeness == ~broken => Whole(data) /\ \A p \in Procs : Fine(p)

\* While no lock file in use has been unlinked, nobody else is inside.
LEMMA Alone ==
  ASSUME TypeOK, Locking, ~broken, NEW p \in Procs, pc[p] \in Inside
  PROVE  \A q \in Procs \ {p} : pc[q] \notin Inside
  BY DEF TypeOK, Locking

\* The step of one process concerns its own file and the cached one only.
LEMMA WholenessKept ==
  ASSUME TypeOK, Locking, Wholeness, ~broken' => ~broken, NEW p \in Procs,
         \A q \in Procs \ {p} : pc'[q] = pc[q] /\ dst'[q] = dst[q] /\ tries'[q] = tries[q],
         \A i \in Inodes : content[i] = "whole" => content'[i] = "whole",
         pc[p] \in Inside \/ xfer' = xfer,
         ~broken' => Whole(data)' /\ Fine(p)'
  PROVE  Wholeness'
  <1> SUFFICES ASSUME ~broken', NEW q \in Procs \ {p} PROVE Fine(q)'
    BY DEF Wholeness
  <1>1. Fine(q)
    BY DEF Wholeness
  <1>2. xfer' = xfer \/ pc[q] \notin {"copying", "rename"}
    BY Alone DEF Inside
  <1>3. dst[q] \in Inodes \cup {None} /\ <<q, tries[q]>> \in Inodes
    BY DEF TypeOK, Inodes
  <1> QED
    BY <1>1, <1>2, <1>3 DEF Fine, Whole

\* A process that ends early leaves the files as they are.
LEMMA DeathIsFine ==
  ASSUME TypeOK, Wholeness, NEW p \in Procs, Goto(p, "died"),
         UNCHANGED <<data, dst, content>>, ~broken
  PROVE  Whole(data)' /\ Fine(p)'
  <1>1. pc'[p] = "died"
    BY DEF Goto, TypeOK
  <1> QED
    BY <1>1 DEF Wholeness, Whole, Fine

\* Every step keeps the files whole.
LEMMA WholenessStep ==
  ASSUME TypeOK, Locking, Wholeness, [Next]_vars
  PROVE  Wholeness'
  <1>0. /\ \A p \in Procs : <<p, tries[p]>> \in Inodes /\ <<p, 0>> \in Inodes /\ dst[p] \in Inodes \cup {None}
        /\ data \in Inodes \cup {None} /\ xfer \in Inodes \cup {None}
        /\ \A p \in Procs : pc[p] \in Steps \cup Ended
    BY PcacheAssumption DEF TypeOK, Inodes
  <1> USE DEF Goto, fileVars, lockVars
  <1>1. ASSUME NEW p \in Procs, Enter(p) \/ Open(p) \/ Lock(p) PROVE Wholeness'
    <2>1. /\ UNCHANGED <<data, xfer, content, tries, dst, broken>>
          /\ pc' = [pc EXCEPT ![p] = pc'[p]]
          /\ pc'[p] \in {"open", "try", "wait", "check", "reopen"}
      BY <1>1 DEF Enter, Open, Lock, Acquire, TypeOK
    <2>2. \A q \in Procs \ {p} : pc'[q] = pc[q]
      BY <2>1 DEF TypeOK
    <2>3. ~broken' => Whole(data)' /\ Fine(p)'
      BY <2>1 DEF Wholeness, Fine, Whole
    <2> QED
      BY <2>1, <2>2, <2>3, WholenessKept
  <1>2. ASSUME NEW p \in Procs, Unlock(p) \/ Check(p) \/ Download(p) \/ Return(p) \/ Unlink(p) PROVE Wholeness'
    <2>1. /\ pc[p] \in Inside /\ UNCHANGED <<tries, broken>> /\ data' \in {data, None}
          /\ pc' = [pc EXCEPT ![p] = pc'[p]]
          /\ pc'[p] \notin {"copying", "rename"}
      BY <1>2 DEF Unlock, Check, Download, Return, Unlink, TypeOK, Inside
    <2>2. \A q \in Procs \ {p} : pc'[q] = pc[q] /\ dst'[q] = dst[q]
      BY <1>2, <2>1 DEF Unlock, Check, Download, Return, Unlink, TypeOK
    <2>3. \A i \in Inodes : content[i] = "whole" => content'[i] = "whole"
      BY <1>2 DEF Unlock, Check, Download, Return, Unlink, TypeOK
    <2>4. ~broken' => Whole(data)'
      BY <1>0, <2>1, <2>3 DEF Wholeness, Whole
    <2>5. ASSUME ~broken' PROVE Fine(p)'
      <3>1. CASE dst'[p] = <<p, 0>> /\ content'[<<p, 0>>] = "whole"
        BY <1>0, <2>1, <3>1, PairIsNone DEF Fine, Whole
      <3>2. CASE UNCHANGED <<dst, content>> /\ (pc'[p] \in {"unlock", "publish", "done"} => dst[p] # None)
                 /\ pc'[p] \notin {"return", "unlink"}
        BY <2>1, <2>5, <3>2 DEF Fine, Whole, Wholeness
      <3>3. \/ dst'[p] = <<p, 0>> /\ content'[<<p, 0>>] = "whole"
            \/ UNCHANGED <<dst, content>> /\ pc'[p] \in {"done", "failed", "mru", "download", "fetch", "giveup", "publish"}
        BY <1>0, <1>2 DEF Unlock, Check, Download, Return, Unlink, TypeOK
      <3>4. pc'[p] \in {"publish", "done"} => pc[p] \in {"unlink", "unlock"}
        BY <1>2 DEF Unlock, Check, Download, Return, Unlink, TypeOK
      <3>5. pc[p] \in {"unlink", "unlock"} => dst[p] # None
        BY <2>1, <2>5 DEF Wholeness, Fine
      <3> QED
        BY <3>1, <3>2, <3>3, <3>4, <3>5
    <2> QED
      BY <2>1, <2>2, <2>3, <2>4, <2>5, WholenessKept
  <1>3. ASSUME NEW p \in Procs, UpdateMru(p) PROVE Wholeness'
    <2>1. /\ pc[p] \in Inside /\ UNCHANGED <<data, xfer, content, tries, dst>> /\ (~broken' => ~broken)
          /\ \A q \in Procs \ {p} : pc'[q] = pc[q]
      BY <1>3 DEF UpdateMru, Fail, TypeOK, Inside
    <2>2. \/ Goto(p, "died")
          \/ /\ pc'[p] \in {"unlink", "link"}
             /\ pc'[p] = "unlink" => dst[p] # None
      BY <1>3 DEF UpdateMru, Fail, TypeOK
    <2>3. ~broken' => Whole(data)' /\ Fine(p)'
      BY <2>1, <2>2, DeathIsFine DEF Wholeness, Whole, Fine
    <2> QED
      BY <2>1, <2>3, WholenessKept
  <1>4. ASSUME NEW p \in Procs, Link(p) PROVE Wholeness'
    <2>1. /\ pc[p] \in Inside /\ UNCHANGED <<data, xfer, content, tries>> /\ (~broken' => ~broken)
          /\ \A q \in Procs \ {p} : pc'[q] = pc[q] /\ dst'[q] = dst[q]
      BY <1>4 DEF Link, Fail, TypeOK, Inside
    <2>2. \/ Goto(p, "died") /\ UNCHANGED dst
          \/ pc'[p] = "unlock" /\ dst'[p] = data /\ data # None
      BY <1>4 DEF Link, Fail, TypeOK
    <2>3. ~broken' => Whole(data)' /\ Fine(p)'
      BY <2>1, <2>2, DeathIsFine DEF Wholeness, Whole, Fine
    <2> QED
      BY <2>1, <2>3, WholenessKept
  <1>5. ASSUME NEW p \in Procs, Publish(p) PROVE Wholeness'
    <2>1. /\ pc[p] = "publish" /\ UNCHANGED <<xfer, content, tries, dst>> /\ (~broken' => ~broken)
          /\ \A q \in Procs \ {p} : pc'[q] = pc[q]
      BY <1>5 DEF Publish, Fail, TypeOK
    <2>2. \/ Goto(p, "died") /\ UNCHANGED data
          \/ pc'[p] = "unlock" /\ data' = dst[p]
      BY <1>5 DEF Publish, Fail, TypeOK
    <2>3. ~broken' => Whole(data)' /\ Fine(p)'
      BY <2>1, <2>2, DeathIsFine DEF Wholeness, Whole, Fine
    <2> QED
      BY <2>1, <2>3, WholenessKept DEF Inside
  <1>6. ASSUME NEW p \in Procs, StartCopy(p) PROVE Wholeness'
    <2>1. /\ pc[p] = "fetch" /\ UNCHANGED <<data, content, tries, dst, broken>>
          /\ xfer' \in {<<p, tries[p]>>, None} /\ pc'[p] = "copying"
          /\ \A q \in Procs \ {p} : pc'[q] = pc[q]
      BY <1>6 DEF StartCopy, TypeOK
    <2>2. ~broken' => Whole(data)' /\ Fine(p)'
      BY <2>1 DEF Wholeness, Whole, Fine
    <2> QED
      BY <2>1, <2>2, WholenessKept DEF Inside
  <1>7. ASSUME NEW p \in Procs, CopyFails(p) PROVE Wholeness'
    <2>1. /\ pc[p] = "copying" /\ UNCHANGED <<data, xfer, content, dst, broken>>
          /\ pc'[p] \in {"fetch", "giveup"}
          /\ \A q \in Procs \ {p} : pc'[q] = pc[q] /\ tries'[q] = tries[q]
      BY <1>7 DEF CopyFails, TypeOK
    <2>2. ~broken' => Whole(data)' /\ Fine(p)'
      BY <2>1 DEF Wholeness, Whole, Fine
    <2> QED
      BY <2>1, <2>2, WholenessKept DEF Inside
  <1>8. ASSUME NEW p \in Procs, CopyEnds(p) PROVE Wholeness'
    <2>1. /\ pc[p] = "copying" /\ UNCHANGED <<data, xfer, tries, dst, broken>>
          /\ content' = [content EXCEPT ![<<p, tries[p]>>] = "whole"]
          /\ pc'[p] = "rename"
          /\ \A q \in Procs \ {p} : pc'[q] = pc[q]
      BY <1>8 DEF CopyEnds, TypeOK
    <2>2. /\ \A i \in Inodes : content[i] = "whole" => content'[i] = "whole"
          /\ content'[<<p, tries[p]>>] = "whole"
      BY <1>0, <2>1 DEF TypeOK
    <2>3. ~broken' => Whole(data)' /\ Fine(p)'
      BY <1>0, <2>1, <2>2 DEF Wholeness, Whole, Fine
    <2> QED
      BY <2>1, <2>2, <2>3, WholenessKept DEF Inside
  <1>9. ASSUME NEW p \in Procs, Rename(p) PROVE Wholeness'
    <2>1. /\ pc[p] = "rename" /\ UNCHANGED <<content, tries, dst>> /\ (~broken' => ~broken)
          /\ \A q \in Procs \ {p} : pc'[q] = pc[q]
      BY <1>9 DEF Rename, Fail, TypeOK
    <2>2. \/ Goto(p, "died") /\ UNCHANGED <<data, xfer>>
          \/ pc'[p] = "account" /\ data' = xfer /\ xfer' = None
      BY <1>9 DEF Rename, Fail, TypeOK
    <2>3. ~broken' => Whole(data)' /\ Fine(p)'
      BY <2>1, <2>2, DeathIsFine DEF Wholeness, Whole, Fine
    <2> QED
      BY <2>1, <2>3, WholenessKept DEF Inside
  <1>10. ASSUME NEW p \in Procs, Account(p) \/ Kill(p) PROVE Wholeness'
    <2>1. /\ UNCHANGED <<data, xfer, content, tries, dst, broken>>
          /\ pc'[p] \in {"mru", "died"}
          /\ \A q \in Procs \ {p} : pc'[q] = pc[q]
      BY <1>10 DEF Account, Kill, TypeOK
    <2>2. ~broken' => Whole(data)' /\ Fine(p)'
      BY <2>1 DEF Wholeness, Whole, Fine
    <2> QED
      BY <2>1, <2>2, WholenessKept
  <1>11. ASSUME CleanStart \/ CleanList \/ CleanEnd \/ \E name \in cleaner.names : CleanUnlink(name)
         PROVE  Wholeness'
    <2>1. /\ UNCHANGED <<content, pc, tries, dst>> /\ (~broken' => ~broken)
          /\ data' \in {data, None} /\ xfer' \in {xfer, None}
      <3>f. Flush => (~broken' => ~broken) /\ data' = None /\ xfer' = None
        BY DEF Flush
      <3>1. CASE CleanStart \/ CleanList \/ CleanEnd
        BY <3>1, <3>f DEF CleanStart, CleanList, CleanEnd
      <3>2. ASSUME NEW name \in cleaner.names, CleanUnlink(name)
            PROVE  /\ UNCHANGED <<content, pc, tries, dst>> /\ (~broken' => ~broken)
                   /\ data' \in {data, None} /\ xfer' \in {xfer, None}
        BY <3>2 DEF CleanUnlink
      <3> QED
        BY <1>11, <3>1, <3>2
    <2> QED
      BY <2>1 DEF Wholeness, Whole, Fine
  <1>12. CASE UNCHANGED vars
    BY <1>12 DEF vars, Wholeness, Whole, Fine
  <1> QED
    BY <1>1, <1>2, <1>3, <1>4, <1>5, <1>6, <1>7, <1>8, <1>9, <1>10, <1>11, <1>12, NextCases

\* The cached file and every file handed out are whole while the lock is sound.
THEOREM FilesAreWhole == Spec => []Wholeness
  <1>1. Init => Wholeness
    BY DEF Init, Wholeness, Whole, Fine
  <1>2. TypeOK /\ Locking /\ Wholeness /\ [Next]_vars => Wholeness'
    BY WholenessStep
  <1> QED
    BY <1>1, <1>2, LocksAreKept, PTL DEF Spec

\* The file that a process reports as ready is whole, unless a lock file in use
\* has been unlinked.
THEOREM ReadyFilesAreWhole == Spec => []ReadyIsWhole
  <1>1. Wholeness => ReadyIsWhole
    BY DEF Wholeness, ReadyIsWhole, Whole, Fine
  <1> QED
    BY <1>1, FilesAreWhole, PTL

-----------------------------------------------------------------------------
(***************************************************************************)
(* Deaths.  Before the first cleaning the lock is sound and every file     *)
(* that a process inside has found or made is still there when it comes    *)
(* back to it, so that none of the operations that call fail() fails.      *)
(***************************************************************************)
Sure(p) ==
  /\ pc[p] # "idle" => dir
  /\ pc[p] \in {"download", "return"} => p \in Downloads
  /\ pc[p] \in {"account", "link"} => data # None
  /\ pc[p] = "mru" => data # None \/ (p \in Downloads /\ dst[p] # None)
  /\ pc[p] = "rename" => xfer # None
  /\ pc[p] = "publish" => data = None

Died == {p \in Procs : pc[p] = "died"}

Undisturbed ==
  events.cleaned = 0 =>
    /\ cleaner.pc = "idle" /\ ~broken
    /\ IsFiniteSet(Died) /\ Cardinality(Died) <= events.killed
    /\ \A p \in Procs : Sure(p)

\* The step of one process that does not die.
LEMMA UndisturbedKept ==
  ASSUME TypeOK, Locking, Undisturbed, NEW p \in Procs,
         UNCHANGED <<events, cleaner, broken>>, dir => dir',
         \A q \in Procs \ {p} : pc'[q] = pc[q] /\ dst'[q] = dst[q],
         pc[p] \in Inside \/ UNCHANGED <<data, xfer>>,
         pc[p] # "died",
         events.cleaned = 0 => Sure(p)' /\ pc'[p] # "died"
  PROVE  Undisturbed'
  <1> SUFFICES ASSUME events.cleaned = 0
               PROVE  /\ cleaner'.pc = "idle" /\ ~broken'
                      /\ IsFiniteSet(Died') /\ Cardinality(Died') <= events'.killed
                      /\ \A q \in Procs : Sure(q)'
    BY DEF Undisturbed
  <1>1. /\ cleaner.pc = "idle" /\ ~broken /\ IsFiniteSet(Died) /\ Cardinality(Died) <= events.killed
        /\ \A q \in Procs : Sure(q)
    BY DEF Undisturbed
  <1>2. Died' = Died
    BY DEF Died
  <1>3. ASSUME NEW q \in Procs \ {p} PROVE Sure(q)'
    <2>1. UNCHANGED <<data, xfer>> \/ pc[q] \notin Inside
      BY <1>1, Alone
    <2> QED
      BY <1>1, <2>1 DEF Sure, Inside
  <1> QED
    BY <1>1, <1>2, <1>3

\* Every step keeps it.
LEMMA UndisturbedStep ==
  ASSUME TypeOK, Locking, Wholeness, Undisturbed, [Next]_vars
  PROVE  Undisturbed'
  <1> USE DEF Goto, fileVars, lockVars
  <1>u. events.cleaned = 0 => /\ cleaner.pc = "idle" /\ ~broken
                              /\ IsFiniteSet(Died) /\ Cardinality(Died) <= events.killed
                              /\ \A q \in Procs : Sure(q) /\ Fine(q)
    BY DEF Undisturbed, Wholeness
  <1>t. events \in [cleaned : 0 .. MaxCleanings, killed : 0 .. MaxKills]
    BY DEF TypeOK
  <1>1. ASSUME NEW p \in Procs, Enter(p) \/ Open(p) \/ Lock(p) \/ Unlock(p) PROVE Undisturbed'
    <2>1. /\ UNCHANGED <<data, xfer, dst, events, cleaner, broken>> /\ (dir => dir')
          /\ pc[p] # "died" /\ pc'[p] \in {"open", "try", "wait", "check", "reopen", "done", "failed"}
          /\ \A q \in Procs \ {p} : pc'[q] = pc[q]
      BY <1>1 DEF Enter, Open, Lock, Acquire, Unlock, TypeOK
    <2>2. pc[p] # "idle" \/ dir'
      BY <1>1 DEF Enter, Open, Lock, Acquire, Unlock
    <2>3. events.cleaned = 0 => Sure(p)' /\ pc'[p] # "died"
      BY <1>u, <2>1, <2>2 DEF Sure
    <2> QED
      BY <2>1, <2>3, UndisturbedKept
  <1>2. ASSUME NEW p \in Procs, Check(p) \/ Download(p) \/ Return(p) \/ Unlink(p) PROVE Undisturbed'
    <2>1. /\ UNCHANGED <<xfer, events, cleaner, broken>> /\ (dir => dir')
          /\ pc[p] \in {"check", "download", "return", "unlink"}
          /\ \A q \in Procs \ {p} : pc'[q] = pc[q] /\ dst'[q] = dst[q]
      BY <1>2 DEF Check, Download, Return, Unlink, TypeOK
    <2>2. \/ pc[p] = "check" /\ pc'[p] = "mru" /\ data' # None
          \/ pc[p] = "check" /\ pc'[p] = "fetch"
          \/ pc[p] = "check" /\ pc'[p] = "download" /\ p \in Downloads
          \/ pc[p] = "download" /\ pc'[p] \in {"return", "giveup"}
          \/ pc[p] = "return" /\ pc'[p] = "mru" /\ dst' = dst
          \/ pc[p] = "unlink" /\ pc'[p] = "publish" /\ data' = None
      BY <1>2 DEF Check, Download, Return, Unlink, TypeOK
    <2>3. events.cleaned = 0 => Sure(p)' /\ pc'[p] # "died"
      BY <1>u, <2>1, <2>2 DEF Sure, Fine
    <2> QED
      BY <2>1, <2>3, UndisturbedKept DEF Inside
  <1>3. ASSUME NEW p \in Procs, UpdateMru(p) \/ Link(p) \/ Publish(p) \/ Rename(p) \/ Account(p),
               events.cleaned = 0
        PROVE  Undisturbed'
    <2>1. /\ pc[p] \in {"mru", "link", "publish", "rename", "account"}
          /\ Sure(p) /\ Fine(p)
      BY <1>3, <1>u DEF UpdateMru, Link, Publish, Rename, Account
    <2>2. /\ pc[p] = "mru" => dir
          /\ pc[p] = "link" => data # None
          /\ pc[p] = "publish" => dir /\ data = None
          /\ pc[p] = "rename" => xfer # None
          /\ pc[p] = "account" => data # None
      BY <2>1 DEF Sure
    <2>3. /\ UNCHANGED <<events, cleaner, broken, dir>>
          /\ \A q \in Procs \ {p} : pc'[q] = pc[q] /\ dst'[q] = dst[q]
      BY <1>3, <2>2 DEF UpdateMru, Link, Publish, Rename, Account, TypeOK
    <2>4. \/ /\ pc[p] = "mru" /\ UNCHANGED data
             /\ pc'[p] = IF p \in Downloads /\ dst[p] # None THEN "unlink" ELSE "link"
          \/ pc[p] \in {"link", "publish"} /\ pc'[p] = "unlock"
          \/ pc[p] = "rename" /\ pc'[p] = "account" /\ data' = xfer
          \/ pc[p] = "account" /\ pc'[p] = "mru" /\ data' = data
      BY <1>3, <2>2 DEF UpdateMru, Link, Publish, Rename, Account, TypeOK
    <2>5. Sure(p)' /\ pc'[p] # "died"
      BY <2>1, <2>2, <2>3, <2>4 DEF Sure
    <2> QED
      BY <2>1, <2>3, <2>5, UndisturbedKept DEF Inside
  <1>4. ASSUME NEW p \in Procs, UpdateMru(p) \/ Link(p) \/ Publish(p) \/ Rename(p) \/ Account(p),
               events.cleaned # 0
        PROVE  Undisturbed'
    BY <1>4 DEF UpdateMru, Link, Publish, Rename, Account, Undisturbed
  <1>5. ASSUME NEW p \in Procs, StartCopy(p) \/ CopyFails(p) \/ CopyEnds(p) PROVE Undisturbed'
    <2>1. /\ UNCHANGED <<dir, data, dst, events, cleaner, broken>>
          /\ pc[p] \in {"fetch", "copying"} /\ pc'[p] \in {"copying", "fetch", "giveup", "rename"}
          /\ pc'[p] = "rename" => xfer' # None
          /\ \A q \in Procs \ {p} : pc'[q] = pc[q]
      BY <1>5 DEF StartCopy, CopyFails, CopyEnds, TypeOK
    <2>2. events.cleaned = 0 => Sure(p)' /\ pc'[p] # "died"
      BY <1>u, <2>1 DEF Sure
    <2> QED
      BY <2>1, <2>2, UndisturbedKept DEF Inside
  <1>6. ASSUME NEW p \in Procs, Kill(p) PROVE Undisturbed'
    <2>1. /\ UNCHANGED <<dir, data, xfer, dst, cleaner, broken>>
          /\ events' = [events EXCEPT !.killed = @ + 1]
          /\ pc[p] # "died" /\ pc[p] # "idle" /\ pc' = [pc EXCEPT ![p] = "died"]
      BY <1>6 DEF Kill, Steps
    <2>2. events'.cleaned = events.cleaned /\ events'.killed = events.killed + 1 /\ events.killed \in Nat
      BY <1>t, <2>1, PcacheAssumption
    <2>3. \A q \in Procs : pc'[q] = IF q = p THEN "died" ELSE pc[q]
      BY <2>1 DEF TypeOK
    <2>4. Died' = Died \cup {p} /\ p \notin Died
      BY <2>1, <2>3 DEF Died
    <2>5. IsFiniteSet(Died) => IsFiniteSet(Died') /\ Cardinality(Died') = Cardinality(Died) + 1 /\ Cardinality(Died) \in Nat
      BY <2>4, FS_AddElement, FS_CardinalityType
    <2>6. events.cleaned = 0 => \A q \in Procs : Sure(q)'
      BY <1>u, <2>1, <2>3 DEF Sure
    <2>7. events.cleaned = 0 => IsFiniteSet(Died') /\ Cardinality(Died') <= events'.killed
      BY <1>u, <2>2, <2>5
    <2> QED
      BY <1>u, <2>1, <2>2, <2>6, <2>7 DEF Undisturbed
  <1>7. CASE CleanStart
    <2>1. events' = [events EXCEPT !.cleaned = @ + 1]
      BY <1>7 DEF CleanStart
    <2>2. events'.cleaned # 0
      BY <1>t, <2>1, PcacheAssumption
    <2> QED
      BY <2>2 DEF Undisturbed
  <1>8. ASSUME CleanList \/ CleanEnd \/ \E name \in cleaner.names : CleanUnlink(name) PROVE Undisturbed'
    <2>1. cleaner.pc # "idle" /\ events' = events
      <3>1. CASE CleanList \/ CleanEnd
        BY <3>1 DEF CleanList, CleanEnd
      <3>2. ASSUME NEW name \in cleaner.names, CleanUnlink(name) PROVE cleaner.pc # "idle" /\ events' = events
        BY <3>2 DEF CleanUnlink
      <3> QED
        BY <1>8, <3>1, <3>2
    <2> QED
      BY <2>1 DEF Undisturbed
  <1>9. CASE UNCHANGED vars
    BY <1>9 DEF vars, Undisturbed, Died, Sure
  <1> QED
    BY <1>1, <1>2, <1>3, <1>4, <1>5, <1>6, <1>7, <1>8, <1>9, NextCases

\* Only a cleaning or a kill makes a process end without an answer.
THEOREM DeathsAreCleanings == Spec => []DiesOnlyIfCleaned
  <1>1. Init => Undisturbed
    <2> SUFFICES ASSUME Init PROVE Undisturbed
      OBVIOUS
    <2>1. Died = {} /\ events.killed = 0 /\ cleaner.pc = "idle" /\ ~broken
      BY DEF Init, Died, Asleep
    <2>2. IsFiniteSet(Died) /\ Cardinality(Died) = 0
      BY <2>1, FS_EmptySet
    <2>3. \A p \in Procs : Sure(p)
      BY DEF Init, Sure
    <2> QED
      BY <2>1, <2>2, <2>3 DEF Undisturbed
  <1>2. TypeOK /\ Locking /\ Wholeness /\ Undisturbed /\ [Next]_vars => Undisturbed'
    BY UndisturbedStep
  <1>3. Undisturbed => DiesOnlyIfCleaned
    BY DEF Undisturbed, DiesOnlyIfCleaned, Died
  <1> QED
    BY <1>1, <1>2, <1>3, LocksAreKept, FilesAreWhole, PTL DEF Spec
=============================================================================
