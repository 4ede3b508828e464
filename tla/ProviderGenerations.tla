------------------------ MODULE ProviderGenerations ------------------------
(***************************************************************************)
(* runtime/provider_manager.py: ProviderRuntimeManager, the only owner of  *)
(* the provider clients.  A generation is a set of clients built from one  *)
(* settings snapshot.  Requests lease the current generation; replace      *)
(* publishes a new one and retires the old, which its last lease closes;   *)
(* close drains and closes everything.  One event loop runs all of it, so  *)
(* an action is the code between two awaits.                               *)
(*                                                                         *)
(* A runtime is named by the order in which it is constructed: a candidate *)
(* that fails to commit uses up a name although the code gives its         *)
(* generation id to the next candidate.                                    *)
(***************************************************************************)
EXTENDS Integers, FiniteSets

CONSTANTS
  Requests,      \* requests that may hold a lease
  Sweep,         \* the lease of an explicit refresh of every model list
  None,
  MaxRuntimes    \* bound: runtimes constructed

Runtimes == 1..MaxRuntimes
Holders == Requests \cup {Sweep} \cup Runtimes  \* a background refresh is named by its runtime

ASSUME GenerationsAssumption ==
  /\ MaxRuntimes \in Nat \ {0}
  /\ IsFiniteSet(Requests)
  /\ Sweep \notin Requests \cup Runtimes \cup {None}
  /\ None \notin Requests \cup Runtimes
  /\ Requests \cap Runtimes = {}

VARIABLES
  status,      \* unbuilt, unpublished, current, retired or closed, per runtime
  current,     \* _current
  built,       \* the runtimes constructed so far
  lease,       \* the runtime a holder has leased
  leases,      \* active_leases, per runtime
  cleanup,     \* whether the manager-owned cleanup task of a runtime runs
  background,  \* the background refresh task of a runtime
  refreshTask, \* the task _refresh_task refers to
  lock,        \* the operation inside _replace_lock, and where it waits
  awaited,     \* the background refresh or cleanup it waits for
  pending,     \* unpublished runtimes a retry has still to clean up
  closer,      \* where close waits
  batch,       \* the generations close drains and closes
  closing, closed,
  stop,        \* stop_deadline().requested
  started,     \* the application has started its startup refresh
  failed       \* history: runtimes a cleanup of which has failed

serving == <<status, current, built, lease, leases, cleanup>>
tasks == <<background, refreshTask>>
locking == <<lock, awaited, pending>>
closure == <<closer, batch, closing, closed>>
vars == <<serving, tasks, locking, closure, stop, started, failed>>

Statuses == {"unbuilt", "unpublished", "current", "retired", "closed"}
BackgroundStates == {"none", "created", "running", "cancelled"}
LockStates == {"free", "replace", "discard", "closing previous", "sweep", "sweeping", "probe", "close"}
CloserStates == {"idle", "cancelling", "draining", "bounded", "cleaning", "retrying"}

(* Every field ranges over its states.                                     *)
TypeOK ==
  /\ status \in [Runtimes -> Statuses]
  /\ current \in Runtimes /\ built \in Runtimes
  /\ lease \in [Holders -> Runtimes \cup {None}]
  /\ leases \in [Runtimes -> Nat]
  /\ cleanup \in [Runtimes -> BOOLEAN]
  /\ background \in [Runtimes -> BackgroundStates]
  /\ refreshTask \in Runtimes \cup {None}
  /\ lock \in LockStates
  /\ awaited \in Runtimes \cup {None}
  /\ pending \subseteq Runtimes
  /\ closer \in CloserStates
  /\ batch \subseteq Runtimes
  /\ closing \in BOOLEAN /\ closed \in BOOLEAN
  /\ stop \in BOOLEAN /\ started \in BOOLEAN
  /\ failed \subseteq Runtimes

Init ==
  /\ status = [r \in Runtimes |-> IF r = 1 THEN "current" ELSE "unbuilt"]
  /\ current = 1 /\ built = 1
  /\ lease = [h \in Holders |-> None]
  /\ leases = [r \in Runtimes |-> 0]
  /\ cleanup = [r \in Runtimes |-> FALSE]
  /\ background = [r \in Runtimes |-> "none"]
  /\ refreshTask = None
  /\ lock = "free" /\ awaited = None /\ pending = {}
  /\ closer = "idle" /\ batch = {}
  /\ closing = FALSE /\ closed = FALSE
  /\ stop = FALSE /\ started = FALSE
  /\ failed = {}

Unpublished == {r \in Runtimes : status[r] = "unpublished"}
Retired == {r \in Runtimes : status[r] = "retired"}
NextRuntime == built + 1

-----------------------------------------------------------------------------
(* Leases.                                                                 *)

Take(h, r) ==
  /\ lease' = [lease EXCEPT ![h] = r]
  /\ leases' = [leases EXCEPT ![r] = @ + 1]

(* The runtimes of rs that _close_generation gives a cleanup task.         *)
Cleaned(rs) == [r \in Runtimes |-> cleanup[r] \/ r \in rs]

(* Slips in Drop: closing without counting the other leases, closing on a  *)
(* request's release only.                                                 *)
DropUncounted(h) ==
  LET r == lease[h] IN
  /\ lease' = [lease EXCEPT ![h] = None]
  /\ leases' = [leases EXCEPT ![r] = @ - 1]
  /\ cleanup' = Cleaned(IF status[r] = "retired" /\ ~closing THEN {r} ELSE {})

DropForRequests(h) ==
  LET r == lease[h] IN
  /\ lease' = [lease EXCEPT ![h] = None]
  /\ leases' = [leases EXCEPT ![r] = @ - 1]
  /\ cleanup' = Cleaned(IF leases[r] = 1 /\ status[r] = "retired" /\ ~closing /\ h \in Requests
                        THEN {r} ELSE {})

Drop(h) ==
  LET r == lease[h] IN
  /\ lease' = [lease EXCEPT ![h] = None]
  /\ leases' = [leases EXCEPT ![r] = @ - 1]
  /\ cleanup' = Cleaned(IF leases[r] = 1 /\ status[r] = "retired" /\ ~closing
                        THEN {r} ELSE {})

Acquire(q) ==
  /\ lease[q] = None
  /\ ~closing /\ ~closed /\ ~stop
  /\ Take(q, current)
  /\ UNCHANGED <<status, current, built, cleanup, tasks, locking, closure, stop, started, failed>>

Release(q) ==
  /\ lease[q] # None
  /\ Drop(q)
  /\ UNCHANGED <<status, current, built, tasks, locking, closure, stop, started, failed>>

-----------------------------------------------------------------------------
(* Cleanup tasks: shielded, so no cancelled caller stops one.              *)

CleanupEnds(r) ==
  /\ cleanup[r]
  /\ cleanup' = [cleanup EXCEPT ![r] = FALSE]
  /\ \/ status' = [status EXCEPT ![r] = "closed"] /\ UNCHANGED failed
     \/ failed' = failed \cup {r} /\ UNCHANGED status
  /\ UNCHANGED <<current, built, lease, leases, tasks, locking, closure, stop, started>>

-----------------------------------------------------------------------------
(* The background refresh.                                                 *)

(* start_model_list_refresh, without _replace_lock.  application.py calls  *)
(* it once, at startup, before any admin request can replace or refresh.   *)
StartRefresh ==
  /\ ~started
  /\ started' = TRUE
  /\ IF closing \/ closed
     THEN UNCHANGED tasks
     ELSE /\ background' = [background EXCEPT ![current] = "created"]
          /\ refreshTask' = current
  /\ UNCHANGED <<serving, locking, closure, stop, failed>>

(* _refresh_generation up to its first await.                              *)
BackgroundBegins(r) ==
  /\ background[r] = "created"
  /\ IF status[r] = "closed"
     THEN background' = [background EXCEPT ![r] = "none"] /\ UNCHANGED <<lease, leases>>
     ELSE background' = [background EXCEPT ![r] = "running"] /\ Take(r, r)
  /\ UNCHANGED <<status, current, built, cleanup, refreshTask, locking, closure, stop, started, failed>>

(* A slip: the task outlives its cancellation.                             *)
BackgroundEndsDeaf(r) ==
  /\ background[r] = "running"
  /\ background' = [background EXCEPT ![r] = "none"]
  /\ Drop(r)
  /\ UNCHANGED <<status, current, built, refreshTask, locking, closure, stop, started, failed>>

(* It ends, or the cancellation reaches it: either way it releases.        *)
BackgroundEnds(r) ==
  /\ background[r] \in {"running", "cancelled"}
  /\ background' = [background EXCEPT ![r] = "none"]
  /\ Drop(r)
  /\ UNCHANGED <<status, current, built, refreshTask, locking, closure, stop, started, failed>>

(* A task cancelled before its first step never runs.                      *)
CancelRefresh ==
  LET live == refreshTask # None /\ background[refreshTask] # "none" IN
  /\ refreshTask' = None
  /\ awaited' = IF live THEN refreshTask ELSE None
  /\ background' = IF live
       THEN [background EXCEPT ![refreshTask] = IF @ = "created" THEN "none" ELSE "cancelled"]
       ELSE background

RefreshCancelled == awaited # None => background[awaited] = "none"

-----------------------------------------------------------------------------
(* The operations under _replace_lock.                                     *)

EnterLock(op) ==
  /\ started /\ lock = "free" /\ ~closing /\ ~closed
  /\ lock' = op
  /\ UNCHANGED <<serving, closure, stop, started, failed>>

BeginReplace ==
  /\ EnterLock("replace")
  /\ CancelRefresh
  /\ pending' = Unpublished

BeginSweep ==
  /\ EnterLock("sweep")
  /\ CancelRefresh
  /\ UNCHANGED pending

(* refresh_provider_models and connected_provider_changed query a provider *)
(* of the current generation under the lock, without a lease.              *)
BeginProbe == EnterLock("probe") /\ UNCHANGED <<tasks, awaited, pending>>

(* _cleanup_unpublished of one runtime, by a replacement or by close.      *)
RetryUnpublished(r) ==
  /\ \/ lock \in {"replace", "discard"} /\ RefreshCancelled
     \/ closer = "retrying"
  /\ r \in pending
  /\ pending' = pending \ {r}
  /\ status' = [status EXCEPT ![r] = "closed"] \/ UNCHANGED status
  /\ UNCHANGED <<current, built, lease, leases, cleanup, tasks, lock, awaited, closure, stop, started, failed>>

ReadyToReplace == lock = "replace" /\ RefreshCancelled /\ pending = {}

(* The settings build no runtime, or the configuration does not commit.    *)
CandidateFails ==
  /\ ReadyToReplace
  /\ \/ /\ lock' = "free"
        /\ UNCHANGED <<status, built, pending>>
     \/ /\ built < MaxRuntimes
        /\ status' = [status EXCEPT ![NextRuntime] = "unpublished"]
        /\ built' = NextRuntime
        /\ pending' = {NextRuntime}
        /\ lock' = "discard"
  /\ UNCHANGED <<current, lease, leases, cleanup, tasks, awaited, closure, stop, started, failed>>

(* Commit, publication and retirement are one step of the event loop.      *)
Publish(refresh) ==
  LET previous == current
      new == NextRuntime
  IN
  /\ ReadyToReplace /\ built < MaxRuntimes
  /\ status' = [status EXCEPT ![previous] = "retired", ![new] = "current"]
  /\ current' = new /\ built' = new
  /\ IF refresh
     THEN background' = [background EXCEPT ![new] = "created"] /\ refreshTask' = new
     ELSE UNCHANGED tasks
  /\ IF leases[previous] = 0
     THEN cleanup' = Cleaned({previous}) /\ lock' = "closing previous" /\ awaited' = previous
     ELSE UNCHANGED <<cleanup, awaited>> /\ lock' = "free"
  /\ UNCHANGED <<lease, leases, pending, closure, stop, started, failed>>

SweepBegins ==
  /\ lock = "sweep" /\ RefreshCancelled
  /\ lock' = "sweeping"
  /\ Take(Sweep, current)
  /\ UNCHANGED <<status, current, built, cleanup, tasks, awaited, pending, closure, stop, started, failed>>

(* The end of an operation that holds no lease.                            *)
LeaveLock ==
  /\ \/ lock = "probe"
     \/ lock = "discard" /\ pending = {}
     \/ lock = "closing previous" /\ ~cleanup[awaited]
  /\ lock' = "free"
  /\ UNCHANGED <<serving, tasks, awaited, pending, closure, stop, started, failed>>

(* The sweep ends or is cancelled.                                         *)
SweepEnds ==
  /\ lock = "sweeping"
  /\ lock' = "free"
  /\ Drop(Sweep)
  /\ UNCHANGED <<status, current, built, tasks, awaited, pending, closure, stop, started, failed>>

(* The caller of the operation is cancelled at one of its awaits.          *)
CancelOperation ==
  /\ lock \in {"replace", "discard", "closing previous", "sweep", "probe"}
  /\ lock' = "free" /\ pending' = {}
  /\ UNCHANGED <<serving, tasks, awaited, closure, stop, started, failed>>

-----------------------------------------------------------------------------
(* Shutdown.                                                               *)

RequestStop ==
  /\ ~stop
  /\ stop' = TRUE
  /\ UNCHANGED <<serving, tasks, locking, closure, started, failed>>

BeginClose ==
  /\ closer = "idle" /\ ~closed /\ lock = "free"
  /\ lock' = "close" /\ closer' = "cancelling" /\ closing' = TRUE
  /\ CancelRefresh
  /\ UNCHANGED <<serving, pending, batch, closed, stop, started, failed>>

(* Slips in close: a second cleanup of what closed while it drained,       *)
(* success whatever the cleanups returned.                                 *)
CloseAllAgain ==
  /\ closer \in {"draining", "bounded"}
  /\ closer = "draining" => \A r \in batch : leases[r] = 0
  /\ closer' = "cleaning"
  /\ cleanup' = Cleaned({r \in batch : leases[r] = 0})
  /\ UNCHANGED <<status, current, built, lease, leases, tasks, locking, batch, closing, closed,
                 stop, started, failed>>

EndCloseRegardless ==
  /\ closer = "retrying" /\ pending = {}
  /\ closer' = "idle"
  /\ closed' = TRUE
  /\ UNCHANGED <<serving, tasks, locking, batch, closing, stop, started, failed>>

(* The drain is bounded when the stop was requested before it begins.      *)
RetireAll ==
  /\ closer = "cancelling" /\ RefreshCancelled
  /\ lock' = "free"
  /\ status' = IF status[current] = "current" THEN [status EXCEPT ![current] = "retired"] ELSE status
  /\ batch' = Retired \cup (IF status[current] = "current" THEN {current} ELSE {})
  /\ closer' = IF stop THEN "bounded" ELSE "draining"
  /\ UNCHANGED <<current, built, lease, leases, cleanup, tasks, awaited, pending, closing,
                 closed, stop, started, failed>>

(* Drained, or out of time.                                                *)
CloseAll ==
  /\ closer \in {"draining", "bounded"}
  /\ closer = "draining" => \A r \in batch : leases[r] = 0
  /\ closer' = "cleaning"
  /\ cleanup' = Cleaned({r \in batch : leases[r] = 0 /\ status[r] # "closed"})
  /\ UNCHANGED <<status, current, built, lease, leases, tasks, locking, batch, closing, closed,
                 stop, started, failed>>

RetryAll ==
  /\ closer = "cleaning" /\ \A r \in batch : ~cleanup[r]
  /\ closer' = "retrying"
  /\ pending' = Unpublished
  /\ UNCHANGED <<serving, tasks, lock, awaited, batch, closing, closed, stop, started, failed>>

(* Done, or "One or more provider runtimes failed to close.": a later      *)
(* close starts again.                                                     *)
EndClose ==
  /\ closer = "retrying" /\ pending = {}
  /\ closer' = "idle"
  /\ closed' = (Unpublished = {} /\ \A r \in batch : status[r] = "closed")
  /\ UNCHANGED <<serving, tasks, locking, batch, closing, stop, started, failed>>

CancelClose ==
  /\ closer # "idle"
  /\ closer' = "idle"
  /\ lock' = IF closer = "cancelling" THEN "free" ELSE lock
  /\ pending' = {}
  /\ UNCHANGED <<serving, tasks, awaited, batch, closing, closed, stop, started, failed>>

-----------------------------------------------------------------------------
LockStep ==
  \/ \E r \in Runtimes : RetryUnpublished(r)
  \/ CandidateFails
  \/ \E refresh \in BOOLEAN : Publish(refresh)
  \/ SweepBegins \/ SweepEnds \/ LeaveLock

CloserStep == RetireAll \/ CloseAll \/ RetryAll \/ EndClose

BackgroundStep(r) == BackgroundBegins(r) \/ BackgroundEnds(r)

Next ==
  \/ \E q \in Requests : Acquire(q) \/ Release(q)
  \/ \E r \in Runtimes : CleanupEnds(r) \/ BackgroundStep(r)
  \/ StartRefresh \/ BeginReplace \/ BeginSweep \/ BeginProbe \/ BeginClose
  \/ LockStep \/ CloserStep
  \/ CancelOperation \/ CancelClose \/ RequestStop

Spec == Init /\ [][Next]_vars

(* A cleanup and a model query end (an HTTP client with a timeout), and    *)
(* the event loop resumes whatever is ready.  Requests need not end.       *)
FairSpec ==
  /\ Spec
  /\ WF_vars(LockStep) /\ WF_vars(CloserStep)
  /\ \A r \in Runtimes : WF_vars(CleanupEnds(r)) /\ WF_vars(BackgroundStep(r))

-----------------------------------------------------------------------------
(* No client is closed, or being closed, under a request, a refresh or a   *)
(* probe that uses it.                                                     *)
Serving(r) == status[r] \in {"current", "retired"} /\ ~cleanup[r]

LeaseHoldsOpen ==
  /\ \A h \in Holders : lease[h] # None => Serving(lease[h])
  /\ lock = "probe" => Serving(current)

(* active_leases is the number of leases out: no release is lost or counted *)
(* twice by cancellations, so drained means drained.                       *)
LeasesCounted ==
  \A r \in Runtimes : leases[r] = Cardinality({h \in Holders : lease[h] = r})

(* Every lease counts, once, and holds its generation open.                *)
LeasesHold == LeaseHoldsOpen /\ LeasesCounted

(* A generation that no request can reach any more is being cleaned up or  *)
(* has failed to: none is forgotten, whoever was cancelled.                *)
NothingForgotten ==
  ~closing => \A r \in Retired : leases[r] = 0 => cleanup[r] \/ r \in failed

(* "The manager does not become terminal until every owned runtime closes" *)
(* (ARCHITECTURE.md, runtime/provider_manager.py).                         *)
ClosedIsAll ==
  closed => \A r \in Runtimes : status[r] \in {"unbuilt", "closed"} /\ lease[r] = None

(* A closed runtime stays closed, and is not cleaned up a second time.     *)
ClosedOnce ==
  [][\A r \in Runtimes : status[r] = "closed" => status'[r] = "closed" /\ ~cleanup'[r]]_vars

(* With a stop requested, close returns although a request never releases. *)
CloseReturns == (closer = "cancelling" /\ stop) ~> (closer = "idle")

(* An operation leaves the lock: no refresh it cancels, cleanup it awaits  *)
(* or shutdown racing it blocks the next one for ever.                     *)
LockLeft == (lock # "free") ~> (lock = "free")

(* Nobody waits for ever, neither a stop nor the next operation.           *)
NobodyHangs == CloseReturns /\ LockLeft

=============================================================================
