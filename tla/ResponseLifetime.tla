-------------------------- MODULE ResponseLifetime --------------------------
(***************************************************************************)
(* api/response_streams.py: ManagedStreamingResponse, the owner of one     *)
(* streamed response.  Its callers (the ASGI call, or aclose) share one    *)
(* cleanup task, which closes the body and then releases the provider      *)
(* lease; they shield it from their own cancellation, until a stop         *)
(* deadline (core/stop_deadline.py) bounds both the close and the wait.    *)
(* A bound set at t ends at the hard deadline, or MIN_TEARDOWN_WAIT_SECONDS *)
(* after t where that is later: of two bounds the one set first ends first,*)
(* and those set before the last MIN_TEARDOWN_WAIT_SECONDS end together.   *)
(* The event loop runs one step at a time; which of two timers that expire *)
(* at the same instant fires first is left open.                           *)
(***************************************************************************)
CONSTANT Callers   \* callers that may wait for the cleanup

VARIABLES
  clock,     \* running, stopping once a stop is requested, ending in the last
             \* MIN_TEARDOWN_WAIT_SECONDS before its hard deadline, late past it
  body,      \* open, closed, or given up: what became of the body chain
  cleanup,   \* the cleanup task
  released,  \* the lease has been released
  waiter,    \* where a caller is
  cancelled, \* a cancellation the caller has absorbed
  raised     \* the caller ended with a cancellation

vars == <<clock, body, cleanup, released, waiter, cancelled, raised>>

WaitStates == {"streaming", "waiting", "waiting bounded", "waiting longer", "returned"}
CleanupStates == {"none", "created", "closing", "closing bounded", "releasing", "done", "cancelled"}

(* Each task is in one of its states; a cleanup that got past the body     *)
(* close has released the lease.                                           *)
TypeOK ==
  /\ clock \in {"running", "stopping", "ending", "late"}
  /\ body \in {"open", "closed", "given up"}
  /\ cleanup \in CleanupStates
  /\ released \in BOOLEAN
  /\ waiter \in [Callers -> WaitStates]
  /\ cancelled \in [Callers -> BOOLEAN]
  /\ raised \in [Callers -> BOOLEAN]
  /\ cleanup \in {"releasing", "done"} => released
  /\ released <=> body # "open"

Init ==
  /\ clock = "running" /\ body = "open"
  /\ cleanup = "none" /\ released = FALSE
  /\ waiter = [c \in Callers |-> "streaming"]
  /\ cancelled = [c \in Callers |-> FALSE]
  /\ raised = [c \in Callers |-> FALSE]

Stop == clock # "running"
Finished == cleanup \in {"done", "cancelled"}

(* stop_deadline().request, and the passing of time up to and past the     *)
(* hard deadline.                                                          *)
RequestStop ==
  /\ clock = "running"
  /\ clock' = "stopping"
  /\ UNCHANGED <<body, cleanup, released, waiter, cancelled, raised>>

Overrun ==
  /\ \/ clock = "stopping" /\ clock' = "ending"
     \/ clock = "ending" /\ clock' = "late"
  /\ UNCHANGED <<body, cleanup, released, waiter, cancelled, raised>>

-----------------------------------------------------------------------------
(* The cleanup task.                                                       *)

Start ==
  /\ cleanup = "created"
  /\ cleanup' = IF Stop THEN "closing bounded" ELSE "closing"
  /\ UNCHANGED <<clock, body, released, waiter, cancelled, raised>>

(* A slip: a close that raises skips the release.                          *)
ReleaseSkipped(outcome) ==
  /\ body' = outcome
  /\ \/ released' = TRUE /\ cleanup' = "releasing"
     \/ released' = FALSE /\ cleanup' = "done"
  /\ UNCHANGED <<clock, waiter, cancelled, raised>>

Release(outcome) ==
  /\ body' = outcome
  /\ released' = TRUE
  /\ cleanup' = "releasing"
  /\ UNCHANGED <<clock, waiter, cancelled, raised>>

(* The body is closed, or its close raises: the lease is released.  A      *)
(* silent upstream may take for ever.                                      *)
BodyCloses == cleanup \in {"closing", "closing bounded"} /\ Release("closed")

(* A slip: the close is bounded whether or not a stop is requested.        *)
CloseTimesOutAlways == cleanup \in {"closing", "closing bounded"} /\ Release("given up")

CloseTimesOut == cleanup = "closing bounded" /\ clock = "late" /\ Release("given up")

(* The release has awaited whatever closing of the generation it began.    *)
CleanupEnds ==
  /\ cleanup = "releasing"
  /\ cleanup' = "done"
  /\ UNCHANGED <<clock, body, released, waiter, cancelled, raised>>

-----------------------------------------------------------------------------
(* The callers.                                                            *)

Waiting(c) == waiter[c] \in {"waiting", "waiting bounded", "waiting longer"}

(* A wait set in the last MIN_TEARDOWN_WAIT_SECONDS, or past the deadline, *)
(* outlasts a body close that is already bounded.                          *)
WaitMode ==
  IF ~Stop THEN "waiting"
  ELSE IF clock \in {"ending", "late"} /\ cleanup = "closing bounded" THEN "waiting longer"
  ELSE "waiting bounded"

(* The stream ended, failed or was cancelled: the first caller creates the *)
(* cleanup task.                                                           *)
Close(c) ==
  /\ waiter[c] = "streaming"
  /\ cleanup' = IF cleanup = "none" THEN "created" ELSE cleanup
  /\ waiter' = [waiter EXCEPT ![c] = WaitMode]
  /\ UNCHANGED <<clock, body, released, cancelled, raised>>

Return(c) ==
  /\ waiter' = [waiter EXCEPT ![c] = "returned"]
  /\ raised' = [raised EXCEPT ![c] = cancelled[c] \/ cleanup = "cancelled"]

(* Slips: the shield does not absorb a cancellation, the wait is chosen     *)
(* once.                                                                   *)
CancelReturns(c) ==
  /\ Waiting(c)
  /\ waiter' = [waiter EXCEPT ![c] = "returned"]
  /\ raised' = [raised EXCEPT ![c] = TRUE]
  /\ cancelled' = [cancelled EXCEPT ![c] = TRUE]
  /\ UNCHANGED <<clock, body, cleanup, released>>

CancelKeepsWait(c) ==
  /\ Waiting(c)
  /\ cancelled' = [cancelled EXCEPT ![c] = TRUE]
  /\ UNCHANGED <<clock, body, cleanup, released, waiter, raised>>

(* uvicorn cancels the request: the shield absorbs it, and the wait goes   *)
(* on with the budget of the moment.                                       *)
Cancel(c) ==
  /\ Waiting(c)
  /\ cancelled' = [cancelled EXCEPT ![c] = TRUE]
  /\ waiter' = [waiter EXCEPT ![c] = WaitMode]
  /\ UNCHANGED <<clock, body, cleanup, released, raised>>

WaitEnds(c) ==
  /\ Waiting(c) /\ Finished
  /\ Return(c)
  /\ UNCHANGED <<clock, body, cleanup, released, cancelled>>

(* The budget of a wait is never so short that the cleanup task has not    *)
(* begun; one that outlasts the body close finds the close given up.       *)
OutOfTime(c) ==
  /\ clock = "late"
  /\ ~Finished /\ cleanup # "created"
  /\ \/ waiter[c] = "waiting bounded"
     \/ waiter[c] = "waiting longer" /\ cleanup # "closing bounded"

(* _abandon_cleanup cancels the task.  Where the cancellation finds it     *)
(* before the release, the release is never reached: _cleanup handles      *)
(* TimeoutError and Exception, and a cancellation is neither.              *)
WaitTimesOut(c) ==
  /\ OutOfTime(c)
  /\ Return(c)
  /\ cleanup' = "cancelled"
  /\ UNCHANGED <<clock, body, released, cancelled>>

CleanupStep == Start \/ CloseTimesOut \/ CleanupEnds

Next ==
  \/ RequestStop \/ Overrun
  \/ CleanupStep \/ BodyCloses
  \/ \E c \in Callers : Close(c) \/ Cancel(c) \/ WaitEnds(c) \/ WaitTimesOut(c)

Spec == Init /\ [][Next]_vars

(* Timers fire and ready tasks run; uvicorn cancels, at its own bound, a   *)
(* request still running after a stop was requested.  Nothing says that a  *)
(* body ever closes.                                                       *)
FairSpec ==
  /\ Spec
  /\ WF_vars(Overrun) /\ WF_vars(CleanupStep)
  /\ \A c \in Callers :
       /\ WF_vars(WaitEnds(c)) /\ WF_vars(WaitTimesOut(c))
       /\ WF_vars(Stop /\ waiter[c] = "waiting" /\ Cancel(c))

-----------------------------------------------------------------------------
(* "A generation lease is released only after the body chain has finished  *)
(* closing" (ARCHITECTURE.md), or past the deadline of a stop.             *)
ReleasedAfterBody == released => body = "closed" \/ (body = "given up" /\ clock = "late")

(* Without a stop no cancellation makes a caller return before the lease   *)
(* is released: "Nothing changes for a request cancelled while the server  *)
(* is running normally" (_wait_for_cleanup).                               *)
QuietReturn ==
  clock = "running" => \A c \in Callers : waiter[c] = "returned" => released

(* A cancellation absorbed by the shield is raised when the caller ends.   *)
CancellationKept ==
  \A c \in Callers : waiter[c] = "returned" /\ cancelled[c] => raised[c]

(* The shield neither lets a caller go early nor swallows what it absorbs. *)
ShieldHolds == QuietReturn /\ CancellationKept

(* Once a stop is requested every caller returns, though the body never    *)
(* closes.                                                                 *)
Returns == \A c \in Callers : (Stop /\ Waiting(c)) ~> (waiter[c] = "returned")

(* "Bounding it HERE rather than only around the whole cleanup is what     *)
(* keeps the release below reachable" (_cleanup): when every caller has    *)
(* returned the lease has been released.  A wait that is over before the   *)
(* bound on the close breaks it: the close began before the stop and has   *)
(* none, both were set for the hard deadline, or the wait was set just     *)
(* before the close in the last MIN_TEARDOWN_WAIT_SECONDS or later.        *)
ReturnReleases == (\A c \in Callers : waiter[c] = "returned") => released

=============================================================================
