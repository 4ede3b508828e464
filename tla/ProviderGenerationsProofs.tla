--------------------- MODULE ProviderGenerationsProofs ---------------------
(***************************************************************************)
(* No provider client is closed while it is in use, a closed one stays     *)
(* closed, and a manager that reports itself closed has closed everything, *)
(* for any number of requests and generations.                             *)
(***************************************************************************)
EXTENDS ProviderGenerations, FiniteSetTheorems, TLAPS

Owners(r) == {h \in Holders : lease[h] = r}

Operations == {"replace", "discard", "closing previous", "sweep", "sweeping", "probe"}

(* An operation inside the lock runs before shutdown and after startup.    *)
LockInv ==
  /\ lock \in Operations => started /\ ~closing
  /\ lock \in Operations \cup {"close"} => refreshTask = None \/ lock \in {"closing previous", "probe"}
  /\ lock = "close" => closer = "cancelling" /\ closing
  /\ closer = "cancelling" => lock = "close"
  /\ closer # "idle" => closing
  /\ closed => closing

(* Only the latest runtime is current, until shutdown retires it.          *)
CurrentInv ==
  /\ \A r \in Runtimes : status[r] = "current" => r = current
  /\ ~closing => status[current] = "current"
  /\ \A r \in Runtimes : status[r] = "unbuilt" <=> r > built
  /\ \A r \in pending : status[r] = "unpublished"
  /\ \A r \in Runtimes : cleanup[r] => status[r] = "retired"

(* The leases of the tasks are those their states say, and a refresh that  *)
(* has not begun is the one _refresh_task refers to.                       *)
TaskInv ==
  /\ \A r \in Runtimes :
       lease[r] = IF background[r] \in {"running", "cancelled"} THEN r ELSE None
  /\ \A r \in Runtimes : background[r] = "created" => refreshTask = r
  /\ \A r \in Runtimes : background[r] # "none" => started /\ r <= built
  /\ refreshTask # None => refreshTask = current /\ ~closing
  /\ lease[Sweep] = IF lock = "sweeping" THEN current ELSE None

(* Once close has retired the current generation everything left to close  *)
(* is in its batch.                                                        *)
CloserInv ==
  /\ closer \in {"draining", "bounded", "cleaning", "retrying"} =>
       /\ \A r \in Runtimes : status[r] # "current" /\ (status[r] = "retired" => r \in batch)
       /\ \A r \in batch : status[r] \in {"retired", "closed"}
  /\ closed => \A r \in Runtimes : status[r] \in {"unbuilt", "closed"}

Counted == \A r \in Runtimes : leases[r] = Cardinality(Owners(r))

HeldOpen == \A h \in Holders : lease[h] # None => Serving(lease[h])

Inv == TypeOK /\ LockInv /\ CurrentInv /\ TaskInv /\ CloserInv /\ Counted /\ HeldOpen

-----------------------------------------------------------------------------
(* Counting leases.                                                        *)

(* There are finitely many holders, so the leases of a runtime have a      *)
(* number.                                                                 *)
LEMMA FiniteOwners == ASSUME NEW r PROVE IsFiniteSet(Owners(r)) /\ IsFiniteSet(Holders)
<1>1. IsFiniteSet(Runtimes)
  BY GenerationsAssumption, FS_Interval DEF Runtimes
<1>2. IsFiniteSet({Sweep})
  BY FS_Singleton
<1>3. IsFiniteSet(Holders)
  BY <1>1, <1>2, GenerationsAssumption, FS_Union DEF Holders
<1>4. Owners(r) \subseteq Holders
  BY DEF Owners
<1> QED BY <1>3, <1>4, FS_Subset

(* A runtime whose count is zero has no holder.                            *)
LEMMA Unleased ==
  ASSUME Counted, NEW r \in Runtimes, leases[r] = 0, NEW h \in Holders
  PROVE  lease[h] # r
<1>1. Cardinality(Owners(r)) = 0
  BY DEF Counted
<1>2. Owners(r) = {}
  BY <1>1, FiniteOwners, FS_EmptySet
<1> QED BY <1>2 DEF Owners

(* A runtime whose count is one has no second holder.                      *)
LEMMA LastLease ==
  ASSUME Counted, NEW r \in Runtimes, leases[r] = 1,
         NEW h \in Holders, lease[h] = r, NEW g \in Holders, lease[g] = r
  PROVE  g = h
<1>1. Cardinality(Owners(r)) = 1
  BY DEF Counted
<1>2. PICK x : Owners(r) = {x}
  BY <1>1, FiniteOwners, FS_Singleton
<1>3. h \in Owners(r) /\ g \in Owners(r)
  BY DEF Owners
<1> QED BY <1>2, <1>3

(* Taking a lease keeps the count.                                         *)
LEMMA TakeCounts ==
  ASSUME TypeOK, Counted, NEW h \in Holders, NEW r \in Runtimes, lease[h] = None, Take(h, r)
  PROVE  /\ Counted'
         /\ lease' \in [Holders -> Runtimes \cup {None}]
         /\ leases' \in [Runtimes -> Nat]
<1>1. /\ lease' = [lease EXCEPT ![h] = r]
      /\ leases' = [leases EXCEPT ![r] = @ + 1]
  BY DEF Take
<1>2. lease \in [Holders -> Runtimes \cup {None}] /\ leases \in [Runtimes -> Nat]
  BY DEF TypeOK
<1>3. None \notin Runtimes
  BY GenerationsAssumption
<1>4. SUFFICES ASSUME NEW s \in Runtimes PROVE leases'[s] = Cardinality(Owners(s)')
  BY <1>1, <1>2 DEF Counted
<1>5. CASE s = r
  <2>1. Owners(r)' = Owners(r) \cup {h} /\ h \notin Owners(r)
    BY <1>1, <1>2, <1>3 DEF Owners
  <2>2. Cardinality(Owners(r)') = Cardinality(Owners(r)) + 1
    BY <2>1, FiniteOwners, FS_AddElement
  <2> QED BY <2>2, <1>1, <1>2, <1>5 DEF Counted
<1>6. CASE s # r
  <2>1. Owners(s)' = Owners(s)
    BY <1>1, <1>2, <1>3, <1>6 DEF Owners
  <2> QED BY <2>1, <1>1, <1>2, <1>6 DEF Counted
<1> QED BY <1>5, <1>6

(* Releasing a lease keeps the count, and starts a cleanup only of a       *)
(* retired runtime that no other holder has leased.                        *)
LEMMA DropCounts ==
  ASSUME TypeOK, Counted, NEW h \in Holders, lease[h] # None, Drop(h)
  PROVE  /\ Counted'
         /\ lease' = [lease EXCEPT ![h] = None]
         /\ lease' \in [Holders -> Runtimes \cup {None}]
         /\ leases' \in [Runtimes -> Nat]
         /\ cleanup' \in [Runtimes -> BOOLEAN]
         /\ \A r \in Runtimes : cleanup'[r] /\ ~cleanup[r] =>
              status[r] = "retired" /\ \A g \in Holders : lease'[g] # r
         /\ \A r \in Runtimes : cleanup[r] => cleanup'[r]
<1>0. PICK r : r = lease[h]
  OBVIOUS
<1>1. /\ lease' = [lease EXCEPT ![h] = None]
      /\ leases' = [leases EXCEPT ![r] = @ - 1]
      /\ cleanup' = Cleaned(IF leases[r] = 1 /\ status[r] = "retired" /\ ~closing THEN {r} ELSE {})
  BY <1>0 DEF Drop
<1>2. /\ lease \in [Holders -> Runtimes \cup {None}] /\ leases \in [Runtimes -> Nat]
      /\ cleanup \in [Runtimes -> BOOLEAN] /\ r \in Runtimes
  BY <1>0 DEF TypeOK
<1>3. None \notin Runtimes
  BY GenerationsAssumption
<1>4. leases[r] = Cardinality(Owners(r)) /\ h \in Owners(r) /\ Cardinality(Owners(r)) \in Nat
  <2>1. leases[r] = Cardinality(Owners(r))
    BY <1>2 DEF Counted
  <2>2. h \in Owners(r)
    BY <1>0 DEF Owners
  <2> QED BY <2>1, <2>2, <1>2
<1>5. Owners(r)' = Owners(r) \ {h}
  BY <1>1, <1>2, <1>3 DEF Owners
<1>6. Cardinality(Owners(r)') = Cardinality(Owners(r)) - 1
  BY <1>4, <1>5, FiniteOwners, FS_RemoveElement
<1>7. IsFiniteSet(Owners(r)')
  BY <1>5, FiniteOwners, FS_RemoveElement
<1>8. Cardinality(Owners(r)') \in Nat
  BY <1>7, FS_CardinalityType
<1>9. leases' \in [Runtimes -> Nat] /\ leases'[r] = Cardinality(Owners(r)')
  BY <1>1, <1>2, <1>4, <1>6, <1>8
<1>10. Counted'
  <2> SUFFICES ASSUME NEW s \in Runtimes PROVE leases'[s] = Cardinality(Owners(s)')
    BY DEF Counted
  <2>1. CASE s = r
    BY <2>1, <1>9
  <2>2. CASE s # r
    <3>1. Owners(s)' = Owners(s)
      BY <1>0, <1>1, <1>2, <1>3, <2>2 DEF Owners
    <3>2. leases'[s] = leases[s]
      BY <1>1, <1>2, <2>2
    <3> QED BY <3>1, <3>2 DEF Counted
  <2> QED BY <2>1, <2>2
<1>11. cleanup' \in [Runtimes -> BOOLEAN]
  BY <1>1, <1>2 DEF Cleaned
<1>12. ASSUME NEW s \in Runtimes, cleanup'[s], ~cleanup[s]
       PROVE  status[s] = "retired" /\ \A g \in Holders : lease'[g] # s
  <2>1. s = r /\ leases[r] = 1 /\ status[r] = "retired"
    <3>1. s \in IF leases[r] = 1 /\ status[r] = "retired" /\ ~closing THEN {r} ELSE {}
      BY <1>1, <1>12 DEF Cleaned
    <3> QED BY <3>1
  <2>2. \A g \in Holders : lease[g] = r => g = h
    BY <2>1, <1>0, <1>2, LastLease
  <2>3. lease'[h] = None
    BY <1>1, <1>2
  <2>4. \A g \in Holders : g # h => lease'[g] = lease[g]
    BY <1>1, <1>2
  <2> QED BY <2>1, <2>2, <2>3, <2>4, <1>2, <1>3
<1>13. \A s \in Runtimes : cleanup[s] => cleanup'[s]
  BY <1>1, <1>2 DEF Cleaned
<1> QED BY <1>1, <1>2, <1>9, <1>10, <1>11, <1>12, <1>13 DEF TypeOK

-----------------------------------------------------------------------------
(* The names of requests, runtimes and the sweep are distinct.             *)
LEMMA Naming ==
  /\ None \notin Runtimes /\ None \notin Requests
  /\ Sweep \notin Requests /\ Sweep \notin Runtimes /\ Sweep # None
  /\ Requests \cap Runtimes = {}
  /\ Runtimes \subseteq Nat /\ 1 \in Runtimes /\ MaxRuntimes \in Nat
  BY GenerationsAssumption DEF Runtimes

(* A lease taken of an open runtime leaves every lease on an open one.     *)
LEMMA TakeOpen ==
  ASSUME TypeOK, HeldOpen, NEW h \in Holders, NEW r \in Runtimes, Take(h, r), Serving(r),
         status' = status, cleanup' = cleanup
  PROVE  HeldOpen'
<1>1. lease' = [lease EXCEPT ![h] = r] /\ lease \in [Holders -> Runtimes \cup {None}]
  BY DEF Take, TypeOK
<1>2. \A g \in Holders : lease'[g] = IF g = h THEN r ELSE lease[g]
  BY <1>1
<1>3. \A s \in Runtimes : Serving(s)' = Serving(s)
  BY DEF Serving
<1>4. SUFFICES ASSUME NEW g \in Holders, lease'[g] # None PROVE Serving(lease[g])'
  BY DEF HeldOpen
<1>5. lease[g]' \in Runtimes /\ Serving(lease'[g])
  BY <1>1, <1>2, <1>4 DEF HeldOpen
<1> QED BY <1>3, <1>5 DEF Serving

(* So does a release, whatever cleanup it starts.                          *)
LEMMA DropOpen ==
  ASSUME TypeOK, Counted, HeldOpen, NEW h \in Holders, lease[h] # None, Drop(h), status' = status
  PROVE  HeldOpen'
<1>1. /\ lease' = [lease EXCEPT ![h] = None] /\ lease \in [Holders -> Runtimes \cup {None}]
      /\ cleanup \in [Runtimes -> BOOLEAN]
      /\ cleanup' \in [Runtimes -> BOOLEAN]
      /\ \A r \in Runtimes : cleanup'[r] /\ ~cleanup[r] => \A g \in Holders : lease'[g] # r
  BY DropCounts DEF TypeOK
<1>2. SUFFICES ASSUME NEW g \in Holders, lease'[g] # None
               PROVE  status[lease'[g]] \in {"current", "retired"} /\ ~cleanup'[lease'[g]]
  BY DEF HeldOpen, Serving
<1>3. lease'[g] = lease[g] /\ lease[g] # None /\ lease[g] \in Runtimes
  BY <1>1, <1>2
<1>4. Serving(lease[g])
  BY <1>3 DEF HeldOpen
<1> QED BY <1>1, <1>3, <1>4 DEF Serving

(* The next runtime is within bounds.                                      *)
LEMMA NextIsNew ==
  ASSUME TypeOK, NEW refresh, Publish(refresh)
  PROVE  NextRuntime \in Runtimes /\ NextRuntime = built + 1 /\ built \in Nat
<1>1. built \in Runtimes /\ built < MaxRuntimes
  BY DEF TypeOK, Publish
<1> QED BY <1>1, GenerationsAssumption DEF NextRuntime, Runtimes

-----------------------------------------------------------------------------
(* Every action keeps the invariant.                                       *)

(* A request leases the current generation. *)
LEMMA AcquireKeeps ==
  ASSUME Inv, NEW q \in Requests, Acquire(q)
  PROVE  Inv'
<1> USE Naming DEF Inv
<1>1. q \in Holders /\ current \in Runtimes /\ lease[q] = None /\ Take(q, current)
      /\ Serving(current) /\ status' = status /\ cleanup' = cleanup
  BY DEF Acquire, Holders, Serving, TypeOK, LockInv, CurrentInv, TaskInv, Operations
<1>2. /\ Counted' /\ HeldOpen'
      /\ lease' \in [Holders -> Runtimes \cup {None}]
      /\ leases' \in [Runtimes -> Nat]
  BY <1>1, TakeCounts, TakeOpen
<1>3. lease' = [lease EXCEPT ![q] = current]
  BY <1>1 DEF Take
<1>4. TypeOK'
  BY <1>1, <1>2, <1>3 DEF TypeOK, Acquire, tasks, locking, closure, LockStates,
     CloserStates, Statuses, BackgroundStates
<1>5. LockInv'
  BY <1>1, <1>2, <1>3 DEF LockInv, Acquire, tasks, locking, closure
<1>6. CurrentInv'
  BY <1>1, <1>2, <1>3 DEF CurrentInv, Acquire, tasks, locking, closure
<1>7. TaskInv'
  BY <1>1, <1>2, <1>3 DEF TaskInv, Acquire, tasks, locking, closure, Holders
<1>8. CloserInv'
  BY <1>1, <1>2, <1>3 DEF CloserInv, Acquire, tasks, locking, closure
<1> QED BY <1>2, <1>3, <1>4, <1>5, <1>6, <1>7, <1>8

(* A request releases its lease. *)
LEMMA ReleaseKeeps ==
  ASSUME Inv, NEW q \in Requests, Release(q)
  PROVE  Inv'
<1> USE Naming DEF Inv
<1>1. q \in Holders /\ lease[q] # None /\ Drop(q) /\ status' = status
  BY DEF Release, Holders, TypeOK, TaskInv, LockInv
<1>2. /\ Counted' /\ lease' = [lease EXCEPT ![q] = None]
      /\ lease' \in [Holders -> Runtimes \cup {None}]
      /\ leases' \in [Runtimes -> Nat]
      /\ cleanup' \in [Runtimes -> BOOLEAN]
      /\ \A s \in Runtimes : cleanup'[s] => status[s] = "retired"
  BY <1>1, DropCounts DEF CurrentInv
<1>3. HeldOpen'
  BY <1>1, DropOpen
<1>4. TypeOK'
  <2>1. UNCHANGED <<status, current, built, background, refreshTask, lock, awaited, pending,
                    closer, batch, closing, closed, stop, started, failed>>
    BY DEF Release, tasks, locking, closure
  <2>2. TypeOK
    OBVIOUS
  <2> HIDE DEF Inv
  <2> QED BY <1>2, <1>3, <2>1, <2>2 DEF TypeOK
<1>5. LockInv'
  BY <1>1, <1>2, <1>3 DEF LockInv, Release, tasks, locking, closure
<1>6. CurrentInv'
  BY <1>1, <1>2, <1>3 DEF CurrentInv, Release, tasks, locking, closure
<1>7. TaskInv'
  BY <1>1, <1>2, <1>3 DEF TaskInv, Release, tasks, locking, closure, Holders
<1>8. CloserInv'
  BY <1>1, <1>2, <1>3 DEF CloserInv, Release, tasks, locking, closure
<1> QED BY <1>2, <1>3, <1>4, <1>5, <1>6, <1>7, <1>8

(* A cleanup task ends: nobody uses what it closes. *)
LEMMA CleanupEndsKeeps ==
  ASSUME Inv, NEW r \in Runtimes, CleanupEnds(r)
  PROVE  Inv'
<1> USE Naming DEF Inv
<1>1. TypeOK'
  <2>1. status' \in [Runtimes -> Statuses]
    BY DEF TypeOK, CleanupEnds, Statuses
  <2>2. cleanup' \in [Runtimes -> BOOLEAN] /\ failed' \subseteq Runtimes
    BY DEF TypeOK, CleanupEnds
  <2>3. UNCHANGED <<current, built, lease, leases, background, refreshTask, lock, awaited,
                    pending, closer, batch, closing, closed, stop, started>>
    BY DEF CleanupEnds, tasks, locking, closure
  <2> QED BY <2>1, <2>2, <2>3 DEF TypeOK
<1>2. LockInv'
  BY DEF LockInv, CleanupEnds, tasks, locking, closure
<1>3. CurrentInv'
  BY DEF CurrentInv, CleanupEnds, tasks, locking, closure, TypeOK
<1>4. TaskInv'
  BY DEF TaskInv, CleanupEnds, tasks, locking, closure
<1>5. CloserInv'
  BY DEF CloserInv, CleanupEnds, tasks, locking, closure, TypeOK
<1>6. Counted'
  BY DEF Counted, Owners, CleanupEnds, tasks, locking, closure
<1>7. HeldOpen'
  BY DEF HeldOpen, Serving, CleanupEnds, tasks, locking, closure, TypeOK
<1> QED BY <1>1, <1>2, <1>3, <1>4, <1>5, <1>6, <1>7

(* Startup creates the first refresh. *)
LEMMA StartRefreshKeeps ==
  ASSUME Inv, StartRefresh
  PROVE  Inv'
<1> USE Naming DEF Inv
<1>1. TypeOK'
  <2>1. /\ UNCHANGED <<status, current, built, lease, leases, cleanup, lock, awaited, pending,
                       closer, batch, closing, closed, stop, failed>>
        /\ started' = TRUE
        /\ \/ UNCHANGED <<background, refreshTask>>
           \/ background' = [background EXCEPT ![current] = "created"] /\ refreshTask' = current
    BY DEF StartRefresh, serving, tasks, locking, closure
  <2>2. TypeOK
    OBVIOUS
  <2> HIDE DEF Inv
  <2> QED BY <2>1, <2>2 DEF TypeOK, BackgroundStates
<1>2. LockInv'
  BY DEF LockInv, StartRefresh, serving, tasks, locking, closure
<1>3. CurrentInv'
  BY DEF CurrentInv, StartRefresh, serving, tasks, locking, closure
<1>4. TaskInv'
  <2>1. CASE closing \/ closed
    BY <2>1 DEF TaskInv, StartRefresh, serving, tasks, locking, closure
  <2>2. CASE ~(closing \/ closed)
    <3>1. /\ background' = [background EXCEPT ![current] = "created"] /\ refreshTask' = current
          /\ lease' = lease /\ current' = current /\ lock' = lock /\ closing' = closing
          /\ built' = built /\ started' /\ ~started
      BY <2>2 DEF StartRefresh, serving, locking, closure
    <3>2. /\ background \in [Runtimes -> BackgroundStates] /\ current \in Runtimes
          /\ background[current] = "none" /\ status[current] = "current"
      BY <2>2, <3>1 DEF TypeOK, TaskInv, CurrentInv
    <3>3. current <= built
      BY <3>2 DEF CurrentInv, TypeOK
    <3>4. \A r \in Runtimes : background'[r] = IF r = current THEN "created" ELSE "none"
      BY <3>1, <3>2 DEF TaskInv
    <3>5. \A r \in Runtimes : lease'[r] = None
      BY <3>1 DEF TaskInv
    <3> QED BY <2>2, <3>1, <3>2, <3>3, <3>4, <3>5 DEF TaskInv
  <2> QED BY <2>1, <2>2
<1>5. CloserInv'
  BY DEF CloserInv, StartRefresh, serving, tasks, locking, closure
<1>6. Counted'
  BY DEF Counted, Owners, StartRefresh, serving, tasks, locking, closure
<1>7. HeldOpen'
  BY DEF HeldOpen, Serving, StartRefresh, serving, tasks, locking, closure
<1> QED BY <1>1, <1>2, <1>3, <1>4, <1>5, <1>6, <1>7

(* A background refresh leases the generation it was created for. *)
LEMMA BackgroundBeginsKeeps ==
  ASSUME Inv, NEW r \in Runtimes, BackgroundBegins(r)
  PROVE  Inv'
<1> USE Naming DEF Inv
<1>1. /\ background[r] = "created" /\ r = current /\ status[r] = "current" /\ ~cleanup[r]
      /\ lease[r] = None /\ r \in Holders
  BY DEF BackgroundBegins, TaskInv, CurrentInv, TypeOK, Holders
<1>2. /\ background' = [background EXCEPT ![r] = "running"] /\ Take(r, r)
      /\ status' = status /\ cleanup' = cleanup
  BY <1>1 DEF BackgroundBegins
<1>3. /\ Counted' /\ HeldOpen'
      /\ lease' \in [Holders -> Runtimes \cup {None}]
      /\ leases' \in [Runtimes -> Nat]
  BY <1>1, <1>2, TakeCounts, TakeOpen DEF Serving
<1>4. lease' = [lease EXCEPT ![r] = r]
  BY <1>2 DEF Take
<1>5. TypeOK'
  BY <1>2, <1>3 DEF TypeOK, BackgroundStates, BackgroundBegins, locking, closure
<1>6. LockInv' /\ CurrentInv' /\ CloserInv'
  BY <1>2 DEF LockInv, CurrentInv, CloserInv, BackgroundBegins, locking, closure
<1>7. TaskInv'
  <2>1. Sweep # r /\ \A s \in Runtimes : s # r => lease'[s] = lease[s] /\ background'[s] = background[s]
    BY <1>2, <1>4 DEF TypeOK
  <2>2. lease'[r] = r /\ background'[r] = "running" /\ lease'[Sweep] = lease[Sweep]
    BY <1>1, <1>2, <1>4 DEF TypeOK, Holders
  <2>3. /\ refreshTask' = refreshTask /\ current' = current /\ closing' = closing /\ lock' = lock
        /\ started' = started /\ built' = built
    BY DEF BackgroundBegins, locking, closure
  <2> QED BY <1>1, <2>1, <2>2, <2>3 DEF TaskInv
<1> QED BY <1>3, <1>5, <1>6, <1>7

(* It ends, or is cancelled, and releases. *)
LEMMA BackgroundEndsKeeps ==
  ASSUME Inv, NEW r \in Runtimes, BackgroundEnds(r)
  PROVE  Inv'
<1> USE Naming DEF Inv
<1>1. r \in Holders /\ lease[r] # None /\ Drop(r) /\ status' = status
  BY DEF BackgroundEnds, Holders, TypeOK, TaskInv, LockInv
<1>2. /\ Counted' /\ lease' = [lease EXCEPT ![r] = None]
      /\ lease' \in [Holders -> Runtimes \cup {None}]
      /\ leases' \in [Runtimes -> Nat]
      /\ cleanup' \in [Runtimes -> BOOLEAN]
      /\ \A s \in Runtimes : cleanup'[s] => status[s] = "retired"
  BY <1>1, DropCounts DEF CurrentInv
<1>3. HeldOpen'
  BY <1>1, DropOpen
<1>4. TypeOK'
  <2>1. UNCHANGED <<status, current, built, refreshTask, lock, awaited, pending,
                    closer, batch, closing, closed, stop, started, failed>>
    BY DEF BackgroundEnds, locking, closure
  <2>2. TypeOK /\ background' = [background EXCEPT ![r] = "none"]
    BY DEF BackgroundEnds
  <2> HIDE DEF Inv
  <2> QED BY <1>2, <1>3, <2>1, <2>2 DEF TypeOK, BackgroundStates
<1>5. LockInv'
  BY <1>1, <1>2, <1>3 DEF LockInv, BackgroundEnds, locking, closure
<1>6. CurrentInv'
  BY <1>1, <1>2, <1>3 DEF CurrentInv, BackgroundEnds, locking, closure
<1>7. TaskInv'
  BY <1>1, <1>2, <1>3 DEF TaskInv, BackgroundEnds, locking, closure, Holders, TypeOK
<1>8. CloserInv'
  BY <1>1, <1>2, <1>3 DEF CloserInv, BackgroundEnds, locking, closure
<1> QED BY <1>2, <1>3, <1>4, <1>5, <1>6, <1>7, <1>8

(* A replacement enters the lock. *)
LEMMA BeginReplaceKeeps ==
  ASSUME Inv, BeginReplace
  PROVE  Inv'
<1> USE Naming DEF Inv
<1>1. TypeOK'
  BY DEF TypeOK, BeginReplace, EnterLock, CancelRefresh, Unpublished, serving, closure,
     LockStates, CloserStates, Statuses, BackgroundStates
<1>2. LockInv'
  BY DEF LockInv, BeginReplace, EnterLock, CancelRefresh, Unpublished, serving, closure
<1>3. CurrentInv'
  BY DEF CurrentInv, BeginReplace, EnterLock, CancelRefresh, Unpublished, serving,
     closure
<1>4. TaskInv'
  <2>1. /\ refreshTask' = None /\ lease' = lease /\ current' = current
        /\ lease'[Sweep] = None /\ lock' # "sweeping" /\ started' = started /\ built' = built
    BY DEF BeginReplace, EnterLock, CancelRefresh, TaskInv, serving
  <2>2. background \in [Runtimes -> BackgroundStates]
    BY DEF TypeOK
  <2>3. CASE ~(refreshTask # None /\ background[refreshTask] # "none")
    <3>1. background' = background
      BY <2>3 DEF BeginReplace, EnterLock, CancelRefresh
    <3>2. \A r \in Runtimes : background[r] # "created"
      BY <2>3, Naming DEF TaskInv
    <3> QED BY <2>1, <3>1, <3>2 DEF TaskInv
  <2>4. CASE refreshTask # None /\ background[refreshTask] # "none"
    <3>1. \A r \in Runtimes : background'[r] =
            IF r # refreshTask THEN background[r]
            ELSE IF background[r] = "created" THEN "none" ELSE "cancelled"
      BY <2>2, <2>4 DEF BeginReplace, EnterLock, CancelRefresh
    <3>2. background[refreshTask] \in {"created", "running", "cancelled"}
      BY <2>2, <2>4 DEF TypeOK, BackgroundStates
    <3>3. \A r \in Runtimes : background[r] = "created" => r = refreshTask
      BY DEF TaskInv
    <3>4. \A r \in Runtimes : background'[r] # "created"
      BY <3>1, <3>2, <3>3
    <3>5. \A r \in Runtimes : background'[r] # "none" => background[r] # "none"
      BY <3>1, <2>4
    <3>6. \A r \in Runtimes : background'[r] \in {"running", "cancelled"}
                              <=> background[r] \in {"running", "cancelled"}
      BY <3>1, <3>2
    <3> QED BY <2>1, <3>4, <3>5, <3>6 DEF TaskInv
  <2> QED BY <2>3, <2>4
<1>5. CloserInv'
  BY DEF CloserInv, BeginReplace, EnterLock, CancelRefresh, Unpublished, serving,
     closure
<1>6. Counted'
  BY DEF Counted, Owners, BeginReplace, EnterLock, CancelRefresh, Unpublished, serving,
     closure
<1>7. HeldOpen'
  BY DEF HeldOpen, Serving, BeginReplace, EnterLock, CancelRefresh, Unpublished,
     serving, closure
<1> QED BY <1>1, <1>2, <1>3, <1>4, <1>5, <1>6, <1>7

(* A refresh of every model list enters the lock. *)
LEMMA BeginSweepKeeps ==
  ASSUME Inv, BeginSweep
  PROVE  Inv'
<1> USE Naming DEF Inv
<1>1. TypeOK'
  BY DEF TypeOK, BeginSweep, EnterLock, CancelRefresh, serving, closure, LockStates,
     CloserStates, Statuses, BackgroundStates
<1>2. LockInv'
  BY DEF LockInv, BeginSweep, EnterLock, CancelRefresh, serving, closure
<1>3. CurrentInv'
  BY DEF CurrentInv, BeginSweep, EnterLock, CancelRefresh, serving, closure
<1>4. TaskInv'
  <2>1. /\ refreshTask' = None /\ lease' = lease /\ current' = current
        /\ lease'[Sweep] = None /\ lock' # "sweeping" /\ started' = started /\ built' = built
    BY DEF BeginSweep, EnterLock, CancelRefresh, TaskInv, serving
  <2>2. background \in [Runtimes -> BackgroundStates]
    BY DEF TypeOK
  <2>3. CASE ~(refreshTask # None /\ background[refreshTask] # "none")
    <3>1. background' = background
      BY <2>3 DEF BeginSweep, EnterLock, CancelRefresh
    <3>2. \A r \in Runtimes : background[r] # "created"
      BY <2>3, Naming DEF TaskInv
    <3> QED BY <2>1, <3>1, <3>2 DEF TaskInv
  <2>4. CASE refreshTask # None /\ background[refreshTask] # "none"
    <3>1. \A r \in Runtimes : background'[r] =
            IF r # refreshTask THEN background[r]
            ELSE IF background[r] = "created" THEN "none" ELSE "cancelled"
      BY <2>2, <2>4 DEF BeginSweep, EnterLock, CancelRefresh
    <3>2. background[refreshTask] \in {"created", "running", "cancelled"}
      BY <2>2, <2>4 DEF TypeOK, BackgroundStates
    <3>3. \A r \in Runtimes : background[r] = "created" => r = refreshTask
      BY DEF TaskInv
    <3>4. \A r \in Runtimes : background'[r] # "created"
      BY <3>1, <3>2, <3>3
    <3>5. \A r \in Runtimes : background'[r] # "none" => background[r] # "none"
      BY <3>1, <2>4
    <3>6. \A r \in Runtimes : background'[r] \in {"running", "cancelled"}
                              <=> background[r] \in {"running", "cancelled"}
      BY <3>1, <3>2
    <3> QED BY <2>1, <3>4, <3>5, <3>6 DEF TaskInv
  <2> QED BY <2>3, <2>4
<1>5. CloserInv'
  BY DEF CloserInv, BeginSweep, EnterLock, CancelRefresh, serving, closure
<1>6. Counted'
  BY DEF Counted, Owners, BeginSweep, EnterLock, CancelRefresh, serving, closure
<1>7. HeldOpen'
  BY DEF HeldOpen, Serving, BeginSweep, EnterLock, CancelRefresh, serving, closure
<1> QED BY <1>1, <1>2, <1>3, <1>4, <1>5, <1>6, <1>7

(* A query of one provider enters the lock. *)
LEMMA BeginProbeKeeps ==
  ASSUME Inv, BeginProbe
  PROVE  Inv'
<1> USE Naming DEF Inv
<1>1. TypeOK'
  BY DEF TypeOK, BeginProbe, EnterLock, tasks, serving, closure, LockStates,
     CloserStates, Statuses, BackgroundStates
<1>2. LockInv'
  BY DEF LockInv, BeginProbe, EnterLock, tasks, serving, closure
<1>3. CurrentInv'
  BY DEF CurrentInv, BeginProbe, EnterLock, tasks, serving, closure
<1>4. TaskInv'
  BY DEF TaskInv, BeginProbe, EnterLock, tasks, serving, closure
<1>5. CloserInv'
  BY DEF CloserInv, BeginProbe, EnterLock, tasks, serving, closure
<1>6. Counted'
  BY DEF Counted, Owners, BeginProbe, EnterLock, tasks, serving, closure
<1>7. HeldOpen'
  BY DEF HeldOpen, Serving, BeginProbe, EnterLock, tasks, serving, closure
<1> QED BY <1>1, <1>2, <1>3, <1>4, <1>5, <1>6, <1>7

(* An unpublished runtime is cleaned up, or stays owned. *)
LEMMA RetryUnpublishedKeeps ==
  ASSUME Inv, NEW r \in Runtimes, RetryUnpublished(r)
  PROVE  Inv'
<1> USE Naming DEF Inv
<1>1. TypeOK'
  <2>1. status' \in [Runtimes -> Statuses] /\ pending' \subseteq Runtimes
    BY DEF TypeOK, RetryUnpublished, Statuses
  <2>2. UNCHANGED <<current, built, lease, leases, cleanup, background, refreshTask, lock,
                    awaited, closer, batch, closing, closed, stop, started, failed>>
    BY DEF RetryUnpublished, tasks, closure
  <2> QED BY <2>1, <2>2 DEF TypeOK
<1>2. LockInv'
  BY DEF LockInv, RetryUnpublished, tasks, closure
<1>3. CurrentInv'
  BY DEF CurrentInv, RetryUnpublished, tasks, closure, TypeOK
<1>4. TaskInv'
  BY DEF TaskInv, RetryUnpublished, tasks, closure
<1>5. CloserInv'
  BY DEF CloserInv, RetryUnpublished, tasks, closure, TypeOK
<1>6. Counted'
  BY DEF Counted, Owners, RetryUnpublished, tasks, closure
<1>7. HeldOpen'
  <2>1. /\ lease' = lease /\ cleanup' = cleanup
        /\ status' = status \/ status' = [status EXCEPT ![r] = "closed"]
    BY DEF RetryUnpublished
  <2>2. status[r] = "unpublished" /\ status \in [Runtimes -> Statuses]
    BY DEF RetryUnpublished, CurrentInv, TypeOK
  <2>3. \A s \in Runtimes : Serving(s) => status'[s] = status[s]
    BY <2>1, <2>2 DEF Serving
  <2>4. lease \in [Holders -> Runtimes \cup {None}]
    BY DEF TypeOK
  <2> QED BY <2>1, <2>3, <2>4 DEF HeldOpen, Serving
<1> QED BY <1>1, <1>2, <1>3, <1>4, <1>5, <1>6, <1>7

(* A candidate fails: it was never leased. *)
LEMMA CandidateFailsKeeps ==
  ASSUME Inv, CandidateFails
  PROVE  Inv'
<1> USE Naming DEF Inv
<1>1. TypeOK'
  <2>1. CASE lock' = "free" /\ status' = status /\ built' = built /\ pending' = pending
    BY <2>1 DEF TypeOK, CandidateFails, tasks, closure, LockStates
  <2>2. CASE /\ built < MaxRuntimes /\ status' = [status EXCEPT ![NextRuntime] = "unpublished"]
             /\ built' = NextRuntime /\ pending' = {NextRuntime} /\ lock' = "discard"
    <3>1. NextRuntime \in Runtimes
      BY <2>2, GenerationsAssumption DEF NextRuntime, Runtimes, TypeOK
    <3>2. status' \in [Runtimes -> Statuses]
      BY <2>2, <3>1 DEF TypeOK, Statuses
    <3> QED BY <2>2, <3>1, <3>2 DEF TypeOK, CandidateFails, tasks, closure, LockStates
  <2> QED BY <2>1, <2>2 DEF CandidateFails
<1>2. LockInv'
  BY DEF LockInv, CandidateFails, ReadyToReplace, NextRuntime, Runtimes, tasks, closure,
     TypeOK, CurrentInv, Operations
<1>3. CurrentInv'
  BY DEF CurrentInv, CandidateFails, ReadyToReplace, NextRuntime, Runtimes, tasks,
     closure, TypeOK
<1>4. TaskInv'
  BY DEF TaskInv, CandidateFails, ReadyToReplace, NextRuntime, Runtimes, tasks, closure,
     TypeOK
<1>5. CloserInv'
  BY DEF CloserInv, CandidateFails, ReadyToReplace, NextRuntime, Runtimes, tasks,
     closure, TypeOK, LockInv, CurrentInv, Operations
<1>6. Counted'
  BY DEF Counted, Owners, CandidateFails, ReadyToReplace, NextRuntime, Runtimes, tasks,
     closure
<1>7. HeldOpen'
  BY DEF HeldOpen, Serving, CandidateFails, ReadyToReplace, NextRuntime, Runtimes,
     tasks, closure, TypeOK, LockInv, CurrentInv, Operations
<1> QED BY <1>1, <1>2, <1>3, <1>4, <1>5, <1>6, <1>7

(* A candidate becomes current; the previous one is cleaned up only unleased. *)
LEMMA PublishKeeps ==
  ASSUME Inv, NEW refresh \in BOOLEAN, Publish(refresh)
  PROVE  Inv'
<1> USE Naming DEF Inv
<1>1. TypeOK'
  <2>1. NextRuntime \in Runtimes
    BY NextIsNew
  <2>2. status' \in [Runtimes -> Statuses] /\ current' \in Runtimes /\ built' \in Runtimes
    BY <2>1 DEF Publish, TypeOK, Statuses
  <2>3. background' \in [Runtimes -> BackgroundStates] /\ refreshTask' \in Runtimes \cup {None}
    BY <2>1 DEF Publish, TypeOK, BackgroundStates, tasks
  <2>4. cleanup' \in [Runtimes -> BOOLEAN] /\ awaited' \in Runtimes \cup {None} /\ lock' \in LockStates
    <3>0. cleanup \in [Runtimes -> BOOLEAN] /\ awaited \in Runtimes \cup {None} /\ current \in Runtimes
      BY DEF TypeOK
    <3>1. CASE leases[current] = 0
      <4>1. cleanup' = Cleaned({current}) /\ lock' = "closing previous" /\ awaited' = current
        BY <3>1 DEF Publish
      <4>2. Cleaned({current}) \in [Runtimes -> BOOLEAN]
        BY <3>0 DEF Cleaned
      <4> QED BY <3>0, <4>1, <4>2 DEF LockStates
    <3>2. CASE leases[current] # 0
      BY <3>0, <3>2 DEF Publish, LockStates
    <3> QED BY <3>1, <3>2
  <2> QED BY <2>2, <2>3, <2>4 DEF TypeOK, Publish, closure
<1>2. LockInv'
  BY DEF LockInv, Publish, ReadyToReplace, NextRuntime, Cleaned, tasks, closure, TypeOK,
     CurrentInv, Operations
<1>3. CurrentInv'
  <2>1. /\ NextRuntime \in Runtimes /\ NextRuntime = built + 1 /\ built \in Nat
        /\ current \in Runtimes /\ pending = {} /\ ~closing
    BY NextIsNew DEF Publish, ReadyToReplace, TypeOK, LockInv, Operations
  <2>2. status[NextRuntime] = "unbuilt" /\ status[current] = "current"
    BY <2>1 DEF CurrentInv
  <2>3. \A s \in Runtimes : status'[s] = IF s = NextRuntime THEN "current"
                                       ELSE IF s = current THEN "retired" ELSE status[s]
    BY <2>1, <2>2 DEF Publish, TypeOK
  <2>4. current' = NextRuntime /\ built' = NextRuntime /\ pending' = {}
    BY <2>1 DEF Publish
  <2>5. \A s \in Runtimes : s \in Nat /\ (status[s] = "unbuilt" <=> s > built)
    BY DEF CurrentInv
  <2>6. \A s \in Runtimes : status'[s] = "unbuilt" <=> s > built'
    BY <2>1, <2>2, <2>3, <2>4, <2>5
  <2>7. \A s \in Runtimes : cleanup'[s] => s = current \/ cleanup[s]
    <3>1. CASE leases[current] = 0
      BY <3>1 DEF Publish, Cleaned
    <3>2. CASE leases[current] # 0
      BY <3>2 DEF Publish
    <3> QED BY <3>1, <3>2
  <2>8. \A s \in Runtimes : cleanup'[s] => status'[s] = "retired"
    BY <2>1, <2>2, <2>3, <2>7 DEF CurrentInv
  <2>9. \A s \in Runtimes : status'[s] = "current" => s = current'
    BY <2>1, <2>2, <2>3, <2>4 DEF CurrentInv
  <2> QED BY <2>1, <2>3, <2>4, <2>6, <2>8, <2>9 DEF CurrentInv
<1>4. TaskInv'
  <2>1. /\ NextRuntime \in Runtimes /\ NextRuntime = built + 1 /\ built \in Nat
        /\ ~closing /\ started /\ refreshTask = None
    BY NextIsNew DEF Publish, ReadyToReplace, LockInv, Operations
  <2>2. /\ lease' = lease /\ current' = NextRuntime /\ built' = NextRuntime
        /\ started' = started /\ closing' = closing /\ lock' # "sweeping" /\ lock # "sweeping"
    <3>1. CASE leases[current] = 0
      BY <3>1 DEF Publish, ReadyToReplace, closure
    <3>2. CASE leases[current] # 0
      BY <3>2 DEF Publish, ReadyToReplace, closure
    <3> QED BY <3>1, <3>2
  <2>3. background[NextRuntime] = "none" /\ background \in [Runtimes -> BackgroundStates]
    BY <2>1 DEF TaskInv, TypeOK
  <2>4. \A s \in Runtimes : s \in Nat /\ (background[s] # "none" => s <= built') /\ background[s] # "created"
    BY <2>1, <2>2 DEF TaskInv
  <2>5. \/ background' = background /\ refreshTask' = None
        \/ background' = [background EXCEPT ![NextRuntime] = "created"] /\ refreshTask' = NextRuntime
    BY <2>1 DEF Publish, tasks
  <2>6. \A s \in Runtimes : background'[s] \in {"running", "cancelled"}
                            <=> background[s] \in {"running", "cancelled"}
    BY <2>3, <2>5, <2>1
  <2>7. \A s \in Runtimes : /\ background'[s] = "created" => refreshTask' = s
                            /\ background'[s] # "none" => started' /\ s <= built'
    BY <2>1, <2>2, <2>3, <2>4, <2>5
  <2> QED BY <2>1, <2>2, <2>5, <2>6, <2>7 DEF TaskInv
<1>5. CloserInv'
  BY DEF CloserInv, Publish, ReadyToReplace, NextRuntime, Cleaned, tasks, closure,
     TypeOK, LockInv, CurrentInv, Operations
<1>6. Counted'
  BY DEF Counted, Owners, Publish, ReadyToReplace, NextRuntime, Cleaned, tasks, closure
<1>7. HeldOpen'
  <2>1. /\ NextRuntime \in Runtimes /\ current \in Runtimes /\ lease' = lease
    BY NextIsNew DEF Publish, TypeOK
  <2>2. \A s \in Runtimes : Serving(s) => status'[s] \in {"current", "retired"}
    BY <2>1 DEF Publish, Serving, TypeOK
  <2>3. \A s \in Runtimes : cleanup'[s] => cleanup[s] \/ (s = current /\ leases[s] = 0)
    <3>1. CASE leases[current] = 0
      BY <3>1 DEF Publish, Cleaned
    <3>2. CASE leases[current] # 0
      BY <3>2 DEF Publish
    <3> QED BY <3>1, <3>2
  <2>4. SUFFICES ASSUME NEW h \in Holders, lease[h] # None
                 PROVE  status'[lease[h]] \in {"current", "retired"} /\ ~cleanup'[lease[h]]
    BY <2>1 DEF HeldOpen, Serving
  <2>5. lease[h] \in Runtimes /\ Serving(lease[h])
    BY <2>4 DEF HeldOpen, TypeOK
  <2>6. leases[lease[h]] # 0
    BY <2>4, <2>5, Unleased
  <2> QED BY <2>2, <2>3, <2>5, <2>6 DEF Serving
<1> QED BY <1>1, <1>2, <1>3, <1>4, <1>5, <1>6, <1>7

(* The sweep leases the current generation. *)
LEMMA SweepBeginsKeeps ==
  ASSUME Inv, SweepBegins
  PROVE  Inv'
<1> USE Naming DEF Inv
<1>1. Sweep \in Holders /\ current \in Runtimes /\ lease[Sweep] = None /\ Take(Sweep, current)
      /\ Serving(current) /\ status' = status /\ cleanup' = cleanup
  BY DEF SweepBegins, Holders, Serving, TypeOK, LockInv, CurrentInv, TaskInv, Operations
<1>2. /\ Counted' /\ HeldOpen'
      /\ lease' \in [Holders -> Runtimes \cup {None}]
      /\ leases' \in [Runtimes -> Nat]
  BY <1>1, TakeCounts, TakeOpen
<1>3. lease' = [lease EXCEPT ![Sweep] = current]
  BY <1>1 DEF Take
<1>4. TypeOK'
  BY <1>1, <1>2, <1>3 DEF TypeOK, SweepBegins, tasks, closure, LockStates, CloserStates,
     Statuses, BackgroundStates
<1>5. LockInv'
  BY <1>1, <1>2, <1>3 DEF LockInv, SweepBegins, tasks, closure, TypeOK, CurrentInv,
     Operations
<1>6. CurrentInv'
  BY <1>1, <1>2, <1>3 DEF CurrentInv, SweepBegins, tasks, closure
<1>7. TaskInv'
  BY <1>1, <1>2, <1>3 DEF TaskInv, SweepBegins, tasks, closure, Holders
<1>8. CloserInv'
  BY <1>1, <1>2, <1>3 DEF CloserInv, SweepBegins, tasks, closure
<1> QED BY <1>2, <1>3, <1>4, <1>5, <1>6, <1>7, <1>8

(* An operation without a lease leaves the lock. *)
LEMMA LeaveLockKeeps ==
  ASSUME Inv, LeaveLock
  PROVE  Inv'
<1> USE Naming DEF Inv
<1>1. TypeOK'
  BY DEF TypeOK, LeaveLock, serving, tasks, closure, LockStates, CloserStates, Statuses,
     BackgroundStates
<1>2. LockInv'
  BY DEF LockInv, LeaveLock, serving, tasks, closure, TypeOK, CurrentInv, Operations
<1>3. CurrentInv'
  BY DEF CurrentInv, LeaveLock, serving, tasks, closure
<1>4. TaskInv'
  BY DEF TaskInv, LeaveLock, serving, tasks, closure
<1>5. CloserInv'
  BY DEF CloserInv, LeaveLock, serving, tasks, closure
<1>6. Counted'
  BY DEF Counted, Owners, LeaveLock, serving, tasks, closure
<1>7. HeldOpen'
  BY DEF HeldOpen, Serving, LeaveLock, serving, tasks, closure
<1> QED BY <1>1, <1>2, <1>3, <1>4, <1>5, <1>6, <1>7

(* The sweep releases. *)
LEMMA SweepEndsKeeps ==
  ASSUME Inv, SweepEnds
  PROVE  Inv'
<1> USE Naming DEF Inv
<1>1. Sweep \in Holders /\ lease[Sweep] # None /\ Drop(Sweep) /\ status' = status
  BY DEF SweepEnds, Holders, TypeOK, TaskInv, LockInv
<1>2. /\ Counted' /\ lease' = [lease EXCEPT ![Sweep] = None]
      /\ lease' \in [Holders -> Runtimes \cup {None}]
      /\ leases' \in [Runtimes -> Nat]
      /\ cleanup' \in [Runtimes -> BOOLEAN]
      /\ \A s \in Runtimes : cleanup'[s] => status[s] = "retired"
  BY <1>1, DropCounts DEF CurrentInv
<1>3. HeldOpen'
  BY <1>1, DropOpen
<1>4. TypeOK'
  BY <1>1, <1>2, <1>3 DEF TypeOK, SweepEnds, tasks, closure, LockStates, CloserStates,
     Statuses, BackgroundStates
<1>5. LockInv'
  BY <1>1, <1>2, <1>3 DEF LockInv, SweepEnds, tasks, closure, TypeOK, CurrentInv,
     Operations
<1>6. CurrentInv'
  BY <1>1, <1>2, <1>3 DEF CurrentInv, SweepEnds, tasks, closure
<1>7. TaskInv'
  BY <1>1, <1>2, <1>3 DEF TaskInv, SweepEnds, tasks, closure, Holders
<1>8. CloserInv'
  BY <1>1, <1>2, <1>3 DEF CloserInv, SweepEnds, tasks, closure
<1> QED BY <1>2, <1>3, <1>4, <1>5, <1>6, <1>7, <1>8

(* A cancelled operation leaves the lock. *)
LEMMA CancelOperationKeeps ==
  ASSUME Inv, CancelOperation
  PROVE  Inv'
<1> USE Naming DEF Inv
<1>1. TypeOK'
  BY DEF TypeOK, CancelOperation, serving, tasks, closure, LockStates, CloserStates,
     Statuses, BackgroundStates
<1>2. LockInv'
  BY DEF LockInv, CancelOperation, serving, tasks, closure, TypeOK, CurrentInv,
     Operations
<1>3. CurrentInv'
  BY DEF CurrentInv, CancelOperation, serving, tasks, closure
<1>4. TaskInv'
  BY DEF TaskInv, CancelOperation, serving, tasks, closure
<1>5. CloserInv'
  BY DEF CloserInv, CancelOperation, serving, tasks, closure
<1>6. Counted'
  BY DEF Counted, Owners, CancelOperation, serving, tasks, closure
<1>7. HeldOpen'
  BY DEF HeldOpen, Serving, CancelOperation, serving, tasks, closure
<1> QED BY <1>1, <1>2, <1>3, <1>4, <1>5, <1>6, <1>7

(* A stop is requested. *)
LEMMA RequestStopKeeps ==
  ASSUME Inv, RequestStop
  PROVE  Inv'
<1> USE Naming DEF Inv
<1>1. TypeOK'
  <2>1. /\ UNCHANGED <<status, current, built, lease, leases, cleanup, background, refreshTask, lock,
                       awaited, pending, closer, batch, closing, closed, started, failed>>
        /\ stop' = TRUE
    BY DEF RequestStop, serving, tasks, locking, closure
  <2>2. TypeOK
    OBVIOUS
  <2> HIDE DEF Inv
  <2> QED BY <2>1, <2>2 DEF TypeOK
<1>2. LockInv'
  BY DEF LockInv, RequestStop, serving, tasks, locking, closure
<1>3. CurrentInv'
  BY DEF CurrentInv, RequestStop, serving, tasks, locking, closure
<1>4. TaskInv'
  BY DEF TaskInv, RequestStop, serving, tasks, locking, closure
<1>5. CloserInv'
  BY DEF CloserInv, RequestStop, serving, tasks, locking, closure
<1>6. Counted'
  BY DEF Counted, Owners, RequestStop, serving, tasks, locking, closure
<1>7. HeldOpen'
  BY DEF HeldOpen, Serving, RequestStop, serving, tasks, locking, closure
<1> QED BY <1>1, <1>2, <1>3, <1>4, <1>5, <1>6, <1>7

(* Close enters the lock. *)
LEMMA BeginCloseKeeps ==
  ASSUME Inv, BeginClose
  PROVE  Inv'
<1> USE Naming DEF Inv
<1>1. TypeOK'
  BY DEF TypeOK, BeginClose, CancelRefresh, serving, LockStates, CloserStates, Statuses,
     BackgroundStates
<1>2. LockInv'
  BY DEF LockInv, BeginClose, CancelRefresh, serving, TypeOK, CurrentInv, Operations
<1>3. CurrentInv'
  BY DEF CurrentInv, BeginClose, CancelRefresh, serving
<1>4. TaskInv'
  <2>1. /\ refreshTask' = None /\ lease' = lease /\ current' = current
        /\ lease'[Sweep] = None /\ lock' # "sweeping" /\ started' = started /\ built' = built
    BY DEF BeginClose, CancelRefresh, TaskInv, serving
  <2>2. background \in [Runtimes -> BackgroundStates]
    BY DEF TypeOK
  <2>3. CASE ~(refreshTask # None /\ background[refreshTask] # "none")
    <3>1. background' = background
      BY <2>3 DEF BeginClose, CancelRefresh
    <3>2. \A r \in Runtimes : background[r] # "created"
      BY <2>3, Naming DEF TaskInv
    <3> QED BY <2>1, <3>1, <3>2 DEF TaskInv
  <2>4. CASE refreshTask # None /\ background[refreshTask] # "none"
    <3>1. \A r \in Runtimes : background'[r] =
            IF r # refreshTask THEN background[r]
            ELSE IF background[r] = "created" THEN "none" ELSE "cancelled"
      BY <2>2, <2>4 DEF BeginClose, CancelRefresh
    <3>2. background[refreshTask] \in {"created", "running", "cancelled"}
      BY <2>2, <2>4 DEF TypeOK, BackgroundStates
    <3>3. \A r \in Runtimes : background[r] = "created" => r = refreshTask
      BY DEF TaskInv
    <3>4. \A r \in Runtimes : background'[r] # "created"
      BY <3>1, <3>2, <3>3
    <3>5. \A r \in Runtimes : background'[r] # "none" => background[r] # "none"
      BY <3>1, <2>4
    <3>6. \A r \in Runtimes : background'[r] \in {"running", "cancelled"}
                              <=> background[r] \in {"running", "cancelled"}
      BY <3>1, <3>2
    <3> QED BY <2>1, <3>4, <3>5, <3>6 DEF TaskInv
  <2> QED BY <2>3, <2>4
<1>5. CloserInv'
  BY DEF CloserInv, BeginClose, CancelRefresh, serving
<1>6. Counted'
  BY DEF Counted, Owners, BeginClose, CancelRefresh, serving
<1>7. HeldOpen'
  BY DEF HeldOpen, Serving, BeginClose, CancelRefresh, serving
<1> QED BY <1>1, <1>2, <1>3, <1>4, <1>5, <1>6, <1>7

(* Close retires the current generation. *)
LEMMA RetireAllKeeps ==
  ASSUME Inv, RetireAll
  PROVE  Inv'
<1> USE Naming DEF Inv
<1>1. TypeOK'
  BY DEF TypeOK, RetireAll, Retired, tasks, LockStates, CloserStates, Statuses,
     BackgroundStates
<1>2. LockInv'
  BY DEF LockInv, RetireAll, Retired, tasks, TypeOK, CurrentInv, Operations
<1>3. CurrentInv'
  BY DEF CurrentInv, RetireAll, Retired, tasks, TypeOK, LockInv
<1>4. TaskInv'
  BY DEF TaskInv, RetireAll, Retired, tasks, TypeOK, LockInv
<1>5. CloserInv'
  BY DEF CloserInv, RetireAll, Retired, tasks, TypeOK, LockInv, CurrentInv, Operations
<1>6. Counted'
  BY DEF Counted, Owners, RetireAll, Retired, tasks
<1>7. HeldOpen'
  BY DEF HeldOpen, Serving, RetireAll, Retired, tasks
<1> QED BY <1>1, <1>2, <1>3, <1>4, <1>5, <1>6, <1>7

(* Close cleans up what it finds unleased. *)
LEMMA CloseAllKeeps ==
  ASSUME Inv, CloseAll
  PROVE  Inv'
<1> USE Naming DEF Inv
<1>1. TypeOK'
  BY DEF TypeOK, CloseAll, Cleaned, tasks, locking, LockStates, CloserStates, Statuses,
     BackgroundStates
<1>2. LockInv'
  BY DEF LockInv, CloseAll, Cleaned, tasks, locking
<1>3. CurrentInv'
  <2>1. \A s \in Runtimes : cleanup'[s] => cleanup[s] \/ (s \in batch /\ status[s] # "closed")
    BY DEF CloseAll, Cleaned
  <2>2. \A s \in batch : status[s] \in {"retired", "closed"}
    BY DEF CloserInv, CloseAll
  <2>3. /\ status' = status /\ current' = current /\ built' = built /\ pending' = pending
        /\ closing' = closing /\ batch \subseteq Runtimes
    BY DEF CloseAll, locking, TypeOK
  <2>4. \A s \in Runtimes : cleanup'[s] => status[s] = "retired"
    BY <2>1, <2>2 DEF CurrentInv
  <2> QED BY <2>3, <2>4 DEF CurrentInv
<1>4. TaskInv'
  BY DEF TaskInv, CloseAll, Cleaned, tasks, locking
<1>5. CloserInv'
  BY DEF CloserInv, CloseAll, Cleaned, tasks, locking
<1>6. Counted'
  BY DEF Counted, Owners, CloseAll, Cleaned, tasks, locking
<1>7. HeldOpen'
  <2>1. \A s \in Runtimes : cleanup'[s] => cleanup[s] \/ leases[s] = 0
    BY DEF CloseAll, Cleaned
  <2>2. lease' = lease /\ status' = status
    BY DEF CloseAll
  <2>3. SUFFICES ASSUME NEW h \in Holders, lease[h] # None
                 PROVE  status[lease[h]] \in {"current", "retired"} /\ ~cleanup'[lease[h]]
    BY <2>2 DEF HeldOpen, Serving
  <2>4. lease[h] \in Runtimes /\ Serving(lease[h])
    BY <2>3 DEF HeldOpen, TypeOK
  <2>5. leases[lease[h]] # 0
    BY <2>3, <2>4, Unleased
  <2> QED BY <2>1, <2>4, <2>5 DEF Serving
<1> QED BY <1>1, <1>2, <1>3, <1>4, <1>5, <1>6, <1>7

(* Close turns to the unpublished runtimes. *)
LEMMA RetryAllKeeps ==
  ASSUME Inv, RetryAll
  PROVE  Inv'
<1> USE Naming DEF Inv
<1>1. TypeOK'
  BY DEF TypeOK, RetryAll, Unpublished, serving, tasks, LockStates, CloserStates,
     Statuses, BackgroundStates
<1>2. LockInv'
  BY DEF LockInv, RetryAll, Unpublished, serving, tasks
<1>3. CurrentInv'
  BY DEF CurrentInv, RetryAll, Unpublished, serving, tasks
<1>4. TaskInv'
  BY DEF TaskInv, RetryAll, Unpublished, serving, tasks
<1>5. CloserInv'
  BY DEF CloserInv, RetryAll, Unpublished, serving, tasks
<1>6. Counted'
  BY DEF Counted, Owners, RetryAll, Unpublished, serving, tasks
<1>7. HeldOpen'
  BY DEF HeldOpen, Serving, RetryAll, Unpublished, serving, tasks
<1> QED BY <1>1, <1>2, <1>3, <1>4, <1>5, <1>6, <1>7

(* Close ends: it is final only when all is closed. *)
LEMMA EndCloseKeeps ==
  ASSUME Inv, EndClose
  PROVE  Inv'
<1> USE Naming DEF Inv
<1>1. TypeOK'
  BY DEF TypeOK, EndClose, Unpublished, serving, tasks, locking, LockStates,
     CloserStates, Statuses, BackgroundStates
<1>2. LockInv'
  BY DEF LockInv, EndClose, Unpublished, serving, tasks, locking
<1>3. CurrentInv'
  BY DEF CurrentInv, EndClose, Unpublished, serving, tasks, locking
<1>4. TaskInv'
  BY DEF TaskInv, EndClose, Unpublished, serving, tasks, locking
<1>5. CloserInv'
  <2>1. status' = status /\ closer' = "idle" /\ status \in [Runtimes -> Statuses]
    BY DEF EndClose, serving, TypeOK
  <2>2. ASSUME closed', NEW r \in Runtimes PROVE status[r] \in {"unbuilt", "closed"}
    <3>1. /\ status[r] # "unpublished" /\ (r \in batch => status[r] = "closed")
          /\ status[r] # "current" /\ (status[r] = "retired" => r \in batch)
      BY <2>2 DEF EndClose, Unpublished, CloserInv
    <3> QED BY <3>1, <2>1 DEF Statuses
  <2> QED BY <2>1, <2>2 DEF CloserInv
<1>6. Counted'
  BY DEF Counted, Owners, EndClose, Unpublished, serving, tasks, locking
<1>7. HeldOpen'
  BY DEF HeldOpen, Serving, EndClose, Unpublished, serving, tasks, locking
<1> QED BY <1>1, <1>2, <1>3, <1>4, <1>5, <1>6, <1>7

(* Close is cancelled. *)
LEMMA CancelCloseKeeps ==
  ASSUME Inv, CancelClose
  PROVE  Inv'
<1> USE Naming DEF Inv
<1>1. TypeOK'
  BY DEF TypeOK, CancelClose, serving, tasks, LockStates, CloserStates, Statuses,
     BackgroundStates
<1>2. LockInv'
  BY DEF LockInv, CancelClose, serving, tasks, TypeOK, CurrentInv, Operations
<1>3. CurrentInv'
  BY DEF CurrentInv, CancelClose, serving, tasks
<1>4. TaskInv'
  BY DEF TaskInv, CancelClose, serving, tasks, TypeOK, LockInv
<1>5. CloserInv'
  BY DEF CloserInv, CancelClose, serving, tasks
<1>6. Counted'
  BY DEF Counted, Owners, CancelClose, serving, tasks
<1>7. HeldOpen'
  BY DEF HeldOpen, Serving, CancelClose, serving, tasks
<1> QED BY <1>1, <1>2, <1>3, <1>4, <1>5, <1>6, <1>7

(* The initial state satisfies the invariant.                              *)
LEMMA InitInv == Init => Inv
<1> SUFFICES ASSUME Init PROVE Inv
  OBVIOUS
<1> USE Naming
<1>1. TypeOK
  BY DEF Init, TypeOK, Statuses, BackgroundStates, LockStates, CloserStates
<1>2. LockInv /\ TaskInv /\ CloserInv
  BY DEF Init, LockInv, TaskInv, CloserInv, Operations, Holders
<1>3. CurrentInv
  BY GenerationsAssumption DEF Init, CurrentInv, Runtimes
<1>4. Counted
  <2> SUFFICES ASSUME NEW r \in Runtimes PROVE leases[r] = Cardinality(Owners(r))
    BY DEF Counted
  <2>1. Owners(r) = {}
    BY DEF Init, Owners
  <2> QED BY <2>1, FS_EmptySet DEF Init
<1>5. HeldOpen
  BY DEF Init, HeldOpen
<1> QED BY <1>1, <1>2, <1>3, <1>4, <1>5 DEF Inv

(* A step that changes no variable keeps it.                               *)
LEMMA StutterKeeps == ASSUME Inv, UNCHANGED vars PROVE Inv'
<1> USE DEF vars, serving, tasks, locking, closure
<1>1. TypeOK' /\ LockInv'
  BY DEF Inv, TypeOK, LockInv
<1>2. CurrentInv' /\ TaskInv' /\ CloserInv'
  BY DEF Inv, CurrentInv, TaskInv, CloserInv
<1>3. Counted' /\ HeldOpen'
  BY DEF Inv, Counted, Owners, HeldOpen, Serving
<1> QED BY <1>1, <1>2, <1>3 DEF Inv

(* The invariant is inductive.                                             *)
LEMMA StepInv == Inv /\ [Next]_vars => Inv'
<1> SUFFICES ASSUME Inv, [Next]_vars PROVE Inv'
  OBVIOUS
<1>1. CASE \E q \in Requests : Acquire(q) \/ Release(q)
  BY <1>1, AcquireKeeps, ReleaseKeeps
<1>2. CASE \E r \in Runtimes : CleanupEnds(r) \/ BackgroundStep(r)
  BY <1>2, CleanupEndsKeeps, BackgroundBeginsKeeps, BackgroundEndsKeeps DEF BackgroundStep
<1>3. CASE StartRefresh \/ BeginReplace \/ BeginSweep \/ BeginProbe \/ BeginClose
  BY <1>3, StartRefreshKeeps, BeginReplaceKeeps, BeginSweepKeeps, BeginProbeKeeps, BeginCloseKeeps
<1>4. CASE LockStep
  BY <1>4, RetryUnpublishedKeeps, CandidateFailsKeeps, PublishKeeps, SweepBeginsKeeps,
     SweepEndsKeeps, LeaveLockKeeps DEF LockStep
<1>5. CASE CloserStep
  BY <1>5, RetireAllKeeps, CloseAllKeeps, RetryAllKeeps, EndCloseKeeps DEF CloserStep
<1>6. CASE CancelOperation \/ CancelClose \/ RequestStop
  BY <1>6, CancelOperationKeeps, CancelCloseKeeps, RequestStopKeeps
<1>7. CASE UNCHANGED vars
  BY <1>7, StutterKeeps
<1> QED BY <1>1, <1>2, <1>3, <1>4, <1>5, <1>6, <1>7 DEF Next

(* It holds in every reachable state.                                      *)
LEMMA Invariant == Spec => []Inv
  BY InitInv, StepInv, PTL DEF Spec

-----------------------------------------------------------------------------
(* No provider client is closed, or being closed, while a request, a       *)
(* refresh or a probe uses it.                                             *)
THEOREM ClientsStayOpen == Spec => []LeaseHoldsOpen
<1>1. Inv => LeaseHoldsOpen
  <2> SUFFICES ASSUME Inv PROVE LeaseHoldsOpen
    OBVIOUS
  <2>1. \A h \in Holders : lease[h] # None => Serving(lease[h])
    BY DEF Inv, HeldOpen
  <2>2. ASSUME lock = "probe" PROVE Serving(current)
    BY <2>2 DEF Inv, LockInv, CurrentInv, TypeOK, Operations, Serving
  <2> QED BY <2>1, <2>2 DEF LeaseHoldsOpen
<1> QED BY <1>1, Invariant, PTL

(* active_leases is the number of leases that are out.                     *)
THEOREM CountIsExact == Spec => []LeasesCounted
<1>1. Inv => LeasesCounted
  BY DEF Inv, Counted, Owners, LeasesCounted
<1> QED BY <1>1, Invariant, PTL

(* Every lease counts, once, and holds its generation open.                *)
THEOREM LeasesAreKept == Spec => []LeasesHold
  BY ClientsStayOpen, CountIsExact, PTL DEF LeasesHold

(* A manager that says it is closed owns no open runtime.                  *)
THEOREM ClosedMeansAll == Spec => []ClosedIsAll
<1>1. Inv => ClosedIsAll
  <2> SUFFICES ASSUME Inv, closed, NEW r \in Runtimes
               PROVE  status[r] \in {"unbuilt", "closed"} /\ lease[r] = None
    BY DEF ClosedIsAll
  <2>1. \A s \in Runtimes : status[s] \in {"unbuilt", "closed"}
    BY DEF Inv, CloserInv
  <2>2. lease[r] \in Runtimes \cup {None} /\ (lease[r] # None => Serving(lease[r]))
    BY DEF Inv, TypeOK, HeldOpen, Holders
  <2> QED BY <2>1, <2>2 DEF Serving
<1> QED BY <1>1, Invariant, PTL

(* A closed runtime is never reopened and never cleaned up again.          *)
THEOREM ClosedForGood == Spec => ClosedOnce
<1>1. Inv /\ Inv' /\ [Next]_vars =>
        [\A r \in Runtimes : status[r] = "closed" => status'[r] = "closed" /\ ~cleanup'[r]]_vars
  <2> SUFFICES ASSUME Inv, Inv', Next, NEW r \in Runtimes, status[r] = "closed"
               PROVE  status'[r] = "closed" /\ ~cleanup'[r]
    OBVIOUS
  <2>1. status \in [Runtimes -> Statuses] /\ current \in Runtimes
    BY DEF Inv, TypeOK
  <2>2. ~cleanup'[r] \/ status'[r] = "retired"
    BY DEF Inv, CurrentInv
  <2>3. status'[r] = "closed"
    <3>1. CASE status' = status
      BY <3>1
    <3>2. CASE \E s \in Runtimes : CleanupEnds(s)
      BY <2>1, <3>2 DEF CleanupEnds
    <3>3. CASE \E s \in Runtimes : RetryUnpublished(s)
      BY <2>1, <3>3 DEF RetryUnpublished
    <3>4. CASE CandidateFails
      <4>1. status' = status \/ (built < MaxRuntimes /\ status' = [status EXCEPT ![NextRuntime] = "unpublished"])
        BY <3>4 DEF CandidateFails
      <4>2. r # NextRuntime
        BY Naming DEF Inv, CurrentInv, TypeOK, NextRuntime
      <4> QED BY <2>1, <4>1, <4>2
    <3>5. ASSUME NEW refresh \in BOOLEAN, Publish(refresh) PROVE status'[r] = "closed"
      <4>1. status' = [status EXCEPT ![current] = "retired", ![NextRuntime] = "current"]
        BY <3>5 DEF Publish
      <4>2. r # NextRuntime
        BY Naming DEF Inv, CurrentInv, TypeOK, NextRuntime
      <4>3. status[current] = "current"
        BY <3>5 DEF Publish, ReadyToReplace, Inv, LockInv, CurrentInv, Operations
      <4> QED BY <2>1, <4>1, <4>2, <4>3
    <3>6. CASE RetireAll
      BY <2>1, <3>6 DEF RetireAll
    <3>7. status' = status \/ (\E s \in Runtimes : CleanupEnds(s) \/ RetryUnpublished(s))
          \/ CandidateFails \/ (\E refresh \in BOOLEAN : Publish(refresh)) \/ RetireAll
      BY DEF Next, LockStep, CloserStep, BackgroundStep, Acquire, Release, BackgroundBegins,
         BackgroundEnds, StartRefresh, BeginReplace, BeginSweep, BeginProbe, EnterLock, BeginClose,
         SweepBegins, SweepEnds, LeaveLock, CloseAll, RetryAll, EndClose, CancelOperation,
         CancelClose, RequestStop, serving
    <3> QED BY <3>1, <3>2, <3>3, <3>4, <3>5, <3>6, <3>7
  <2> QED BY <2>2, <2>3
<1> QED BY <1>1, Invariant, PTL DEF Spec, ClosedOnce

-----------------------------------------------------------------------------
(* Every step that frees a retired generation starts its cleanup.          *)
Kept(r) == status[r] = "retired" /\ leases[r] = 0 => cleanup[r] \/ r \in failed

LEMMA DropKept ==
  ASSUME TypeOK, ~closing, NEW r \in Runtimes, Kept(r), NEW h \in Holders, lease[h] # None,
         Drop(h), UNCHANGED <<status, failed>>
  PROVE  Kept(r)'
<1>1. /\ leases \in [Runtimes -> Nat] /\ lease[h] \in Runtimes
      /\ leases' = [leases EXCEPT ![lease[h]] = @ - 1]
      /\ cleanup' = Cleaned(IF leases[lease[h]] = 1 /\ status[lease[h]] = "retired" /\ ~closing
                            THEN {lease[h]} ELSE {})
  BY DEF TypeOK, Drop
<1>2. CASE r = lease[h]
  <2>1. leases'[r] = 0 => leases[r] = 1
    BY <1>1, <1>2
  <2> QED BY <1>1, <1>2, <2>1 DEF Kept, Cleaned
<1>3. CASE r # lease[h]
  BY <1>1, <1>3 DEF Kept, Cleaned
<1> QED BY <1>2, <1>3

LEMMA TakeKept ==
  ASSUME TypeOK, NEW r \in Runtimes, Kept(r), NEW h \in Holders, NEW x \in Runtimes,
         Take(h, x), UNCHANGED <<status, cleanup, failed>>
  PROVE  Kept(r)'
<1>1. leases \in [Runtimes -> Nat] /\ leases' = [leases EXCEPT ![x] = @ + 1]
  BY DEF TypeOK, Take
<1>2. leases'[r] = 0 => leases[r] = 0
  BY <1>1
<1> QED BY <1>2 DEF Kept

(* Shutdown is never called off.                                          *)
LEMMA ClosingStays == [Next]_vars /\ closing => closing'
  BY DEF Next, LockStep, CloserStep, BackgroundStep, Acquire, Release, CleanupEnds,
     BackgroundBegins, BackgroundEnds, StartRefresh, EnterLock, BeginReplace, BeginSweep,
     BeginProbe, BeginClose, RetryUnpublished, CandidateFails, Publish, SweepBegins, SweepEnds,
     LeaveLock, RetireAll, CloseAll, RetryAll, EndClose, CancelOperation, CancelClose,
     RequestStop, vars, closure

LEMMA KeptStep ==
  ASSUME Inv, [Next]_vars, ~closing', NEW r \in Runtimes, Kept(r)
  PROVE  Kept(r)'
<1>t. TypeOK /\ status \in [Runtimes -> Statuses] /\ current \in Runtimes
  BY DEF Inv, TypeOK
<1>s. ASSUME UNCHANGED <<status, leases, cleanup, failed>> PROVE Kept(r)'
  BY <1>s DEF Kept
<1>c. ~closing
  BY ClosingStays
<1>h. /\ Requests \subseteq Holders /\ Sweep \in Holders /\ Runtimes \subseteq Holders
  BY DEF Holders
<1>1. ASSUME NEW q \in Requests, Acquire(q) PROVE Kept(r)'
  BY <1>1, <1>t, <1>h, TakeKept DEF Acquire
<1>2. ASSUME NEW q \in Requests, Release(q) PROVE Kept(r)'
  BY <1>2, <1>t, <1>h, <1>c, DropKept DEF Release
<1>3. ASSUME NEW x \in Runtimes, CleanupEnds(x) PROVE Kept(r)'
  <2>1. /\ cleanup' = [cleanup EXCEPT ![x] = FALSE] /\ UNCHANGED leases
        /\ \/ status' = [status EXCEPT ![x] = "closed"] /\ UNCHANGED failed
           \/ failed' = failed \cup {x} /\ UNCHANGED status
    BY <1>3 DEF CleanupEnds
  <2>2. cleanup \in [Runtimes -> BOOLEAN]
    BY <1>t DEF TypeOK
  <2>3. CASE r = x
    BY <2>1, <2>3, <1>t DEF Kept
  <2>4. CASE r # x
    <3>1. cleanup'[r] = cleanup[r] /\ status'[r] = status[r] /\ (r \in failed => r \in failed')
      BY <2>1, <2>2, <2>4, <1>t
    <3> QED BY <2>1, <3>1 DEF Kept
  <2> QED BY <2>3, <2>4
<1>4. ASSUME NEW x \in Runtimes, BackgroundBegins(x) PROVE Kept(r)'
  <2>1. CASE status[x] = "closed"
    BY <1>4, <2>1, <1>s DEF BackgroundBegins
  <2>2. CASE status[x] # "closed"
    BY <1>4, <2>2, <1>t, <1>h, TakeKept DEF BackgroundBegins
  <2> QED BY <2>1, <2>2
<1>5. ASSUME NEW x \in Runtimes, BackgroundEnds(x) PROVE Kept(r)'
  <2>1. x \in Holders /\ lease[x] # None
    BY <1>5, <1>h, Naming DEF BackgroundEnds, Inv, TaskInv
  <2> QED BY <1>5, <2>1, <1>t, <1>c, DropKept DEF BackgroundEnds
<1>6. ASSUME NEW refresh \in BOOLEAN, Publish(refresh) PROVE Kept(r)'
  <2>1. /\ status' = [status EXCEPT ![current] = "retired", ![NextRuntime] = "current"]
        /\ UNCHANGED <<leases, failed>>
        /\ IF leases[current] = 0 THEN cleanup' = Cleaned({current}) ELSE UNCHANGED cleanup
    BY <1>6 DEF Publish
  <2>2. CASE r = current
    BY <2>1, <2>2 DEF Kept, Cleaned
  <2>3. CASE r # current
    <3>1. status'[r] = "retired" => status[r] = "retired"
      BY <2>1, <2>3, <1>t
    <3>2. cleanup[r] => cleanup'[r]
      BY <2>1 DEF Cleaned
    <3> QED BY <2>1, <3>1, <3>2 DEF Kept
  <2> QED BY <2>2, <2>3
<1>7. CASE SweepBegins
  BY <1>7, <1>t, <1>h, TakeKept DEF SweepBegins
<1>8. CASE SweepEnds
  <2>1. lease[Sweep] # None
    BY <1>8, <1>t, Naming DEF SweepEnds, Inv, TaskInv
  <2> QED BY <1>8, <2>1, <1>t, <1>h, <1>c, DropKept DEF SweepEnds
<1>9. ASSUME NEW x \in Runtimes, RetryUnpublished(x) PROVE Kept(r)'
  <2>1. /\ status' = [status EXCEPT ![x] = "closed"] \/ UNCHANGED status
        /\ UNCHANGED <<leases, cleanup, failed>>
    BY <1>9 DEF RetryUnpublished
  <2>2. status'[r] = "retired" => status[r] = "retired"
    BY <2>1, <1>t
  <2> QED BY <2>1, <2>2 DEF Kept
<1>10. CASE CandidateFails
  <2>1. /\ status' = [status EXCEPT ![NextRuntime] = "unpublished"] \/ UNCHANGED status
        /\ UNCHANGED <<leases, cleanup, failed>>
    BY <1>10 DEF CandidateFails
  <2>2. status'[r] = "retired" => status[r] = "retired"
    BY <2>1, <1>t
  <2> QED BY <2>1, <2>2 DEF Kept
<1>11. CASE RetireAll \/ CloseAll \/ RetryAll \/ EndClose \/ CancelClose \/ BeginClose
  BY <1>11, <1>c DEF RetireAll, CloseAll, RetryAll, EndClose, CancelClose, BeginClose, Inv, LockInv
<1>12. CASE StartRefresh \/ BeginReplace \/ BeginSweep \/ BeginProbe \/ LeaveLock \/ CancelOperation
            \/ RequestStop \/ UNCHANGED vars
  BY <1>12, <1>s DEF StartRefresh, BeginReplace, BeginSweep, BeginProbe, EnterLock, LeaveLock,
     CancelOperation, RequestStop, vars, serving
<1> QED
  BY <1>1, <1>2, <1>3, <1>4, <1>5, <1>6, <1>7, <1>8, <1>9, <1>10, <1>11, <1>12
  DEF Next, LockStep, CloserStep, BackgroundStep

(* A retired generation that nobody leases is being closed, or its close   *)
(* has failed: none is forgotten, whichever holder was the last.           *)
THEOREM RetiredAreClosed == Spec => []NothingForgotten
<1>1. Init => NothingForgotten
  BY DEF Init, NothingForgotten, Retired
<1>2. Inv /\ NothingForgotten /\ [Next]_vars => NothingForgotten'
  <2> SUFFICES ASSUME Inv, NothingForgotten, [Next]_vars, ~closing', NEW r \in Runtimes
               PROVE  Kept(r)'
    BY DEF NothingForgotten, Retired, Kept
  <2>1. ~closing => Kept(r)
    BY DEF NothingForgotten, Retired, Kept
  <2>2. closing => closing'
    BY ClosingStays
  <2> QED BY <2>1, <2>2, KeptStep
<1>3. Init => Inv
  BY InitInv
<1> QED BY <1>1, <1>2, <1>3, StepInv, PTL DEF Spec
=============================================================================
