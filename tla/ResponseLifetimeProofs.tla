----------------------- MODULE ResponseLifetimeProofs -----------------------
(* What holds of a streamed response for every number of callers.          *)
EXTENDS ResponseLifetime, TLAPS

(* While no stop is requested nothing is bounded: no cleanup is abandoned  *)
(* and no caller waits with a budget.                                      *)
Unbounded ==
  clock = "running" =>
    /\ cleanup # "cancelled"
    /\ \A c \in Callers : waiter[c] \notin {"waiting bounded", "waiting longer"}

Inv == TypeOK /\ ReleasedAfterBody /\ QuietReturn /\ CancellationKept /\ Unbounded

LEMMA InitInv == Init => Inv
  BY DEF Init, Inv, TypeOK, CleanupStates, WaitStates, ReleasedAfterBody, QuietReturn,
         CancellationKept, Unbounded

(* Steps of the clock leave the tasks alone.                               *)
LEMMA ClockKeepsInv == Inv /\ (RequestStop \/ Overrun) => Inv'
<1> SUFFICES ASSUME Inv, RequestStop \/ Overrun PROVE Inv'
  OBVIOUS
<1>1. clock' \in {"stopping", "ending", "late"} /\ (clock = "late" => clock' = "late")
  BY DEF RequestStop, Overrun
<1>2. UNCHANGED <<body, cleanup, released, waiter, cancelled, raised>>
  BY DEF RequestStop, Overrun
<1>3. TypeOK'
  BY <1>1, <1>2 DEF Inv, TypeOK
<1> QED
  BY <1>1, <1>2, <1>3 DEF Inv, ReleasedAfterBody, QuietReturn, CancellationKept, Unbounded

(* Steps of the cleanup task release the lease once the body is closed or  *)
(* given up.                                                               *)
LEMMA CleanupKeepsInv == Inv /\ (CleanupStep \/ BodyCloses) => Inv'
<1> SUFFICES ASSUME Inv, CleanupStep \/ BodyCloses PROVE Inv'
  OBVIOUS
<1>1. CASE Start \/ CleanupEnds
  <2>1. /\ cleanup' \in CleanupStates \ {"cancelled", "releasing"}
        /\ cleanup' = "done" => cleanup = "releasing"
    BY <1>1 DEF Start, CleanupEnds, CleanupStates
  <2>2. UNCHANGED <<clock, body, released, waiter, cancelled, raised>>
    BY <1>1 DEF Start, CleanupEnds
  <2>3. TypeOK'
    BY <2>1, <2>2 DEF Inv, TypeOK
  <2> QED
    BY <2>1, <2>2, <2>3
       DEF Inv, ReleasedAfterBody, QuietReturn, CancellationKept, Unbounded
<1>2. CASE BodyCloses \/ CloseTimesOut
  BY <1>2 DEF Inv, TypeOK, CleanupStates, ReleasedAfterBody, QuietReturn, CancellationKept,
              Unbounded, BodyCloses, CloseTimesOut, Release
<1> QED
  BY <1>1, <1>2 DEF CleanupStep

(* A caller that begins to wait, or absorbs a cancellation, has not        *)
(* returned.                                                               *)
LEMMA WaitKeepsInv == ASSUME NEW c \in Callers PROVE Inv /\ (Close(c) \/ Cancel(c)) => Inv'
<1> SUFFICES ASSUME Inv, Close(c) \/ Cancel(c) PROVE Inv'
  OBVIOUS
<1>1. waiter[c] # "returned" /\ waiter'[c] \in {"waiting", "waiting bounded", "waiting longer"}
  BY DEF Inv, TypeOK, WaitStates, Close, Cancel, Waiting, WaitMode
<1>2. clock = "running" => waiter'[c] = "waiting"
  BY DEF Inv, TypeOK, Close, Cancel, WaitMode, Stop
<1>3. \A d \in Callers \ {c} : waiter'[d] = waiter[d] /\ cancelled'[d] = cancelled[d]
  BY DEF Inv, TypeOK, Close, Cancel
<1>4. UNCHANGED <<clock, body, released, raised>>
  BY DEF Close, Cancel
<1>5. /\ cleanup' \in CleanupStates
      /\ cleanup' \in {"releasing", "done", "cancelled"} => cleanup' = cleanup
  BY DEF Inv, TypeOK, CleanupStates, Close, Cancel
<1>6. WaitMode \in WaitStates
  BY DEF WaitMode, WaitStates
<1>7. TypeOK'
  <2>1. waiter' \in [Callers -> WaitStates]
    BY <1>6 DEF Inv, TypeOK, Close, Cancel
  <2>2. cancelled' \in [Callers -> BOOLEAN]
    BY DEF Inv, TypeOK, Close, Cancel
  <2> QED
    BY <1>4, <1>5, <2>1, <2>2 DEF Inv, TypeOK
<1> QED
  BY <1>1, <1>2, <1>3, <1>4, <1>5, <1>7
     DEF Inv, ReleasedAfterBody, QuietReturn, CancellationKept, Unbounded

(* A caller that returns raises what it absorbed; it abandons the cleanup  *)
(* only past the deadline of a stop.                                       *)
LEMMA ReturnKeepsInv ==
  ASSUME NEW c \in Callers PROVE Inv /\ (WaitEnds(c) \/ WaitTimesOut(c)) => Inv'
<1> SUFFICES ASSUME Inv, WaitEnds(c) \/ WaitTimesOut(c) PROVE Inv'
  OBVIOUS
<1>1. /\ waiter' = [waiter EXCEPT ![c] = "returned"]
      /\ raised' = [raised EXCEPT ![c] = cancelled[c] \/ cleanup = "cancelled"]
      /\ UNCHANGED <<clock, body, released, cancelled>>
  BY DEF WaitEnds, WaitTimesOut, Return
<1>2. CASE WaitEnds(c)
  <2>1. cleanup' = cleanup /\ (clock = "running" => released)
    BY <1>2 DEF WaitEnds, Finished, Inv, TypeOK, Unbounded
  <2> QED
    BY <1>1, <2>1 DEF Inv, TypeOK, CleanupStates, WaitStates, ReleasedAfterBody, QuietReturn,
                      CancellationKept, Unbounded
<1>3. CASE WaitTimesOut(c)
  <2>1. cleanup' = "cancelled" /\ clock = "late"
    BY <1>3 DEF WaitTimesOut, OutOfTime
  <2> QED
    BY <1>1, <2>1 DEF Inv, TypeOK, CleanupStates, WaitStates, ReleasedAfterBody, QuietReturn,
                      CancellationKept, Unbounded
<1> QED
  BY <1>2, <1>3

LEMMA StepKeepsInv == Inv /\ [Next]_vars => Inv'
<1> SUFFICES ASSUME Inv, [Next]_vars PROVE Inv'
  OBVIOUS
<1>1. CASE UNCHANGED vars
  BY <1>1 DEF vars, Inv, TypeOK, ReleasedAfterBody, QuietReturn, CancellationKept, Unbounded
<1>2. CASE RequestStop \/ Overrun
  BY <1>2, ClockKeepsInv
<1>3. CASE CleanupStep \/ BodyCloses
  BY <1>3, CleanupKeepsInv
<1>4. ASSUME NEW c \in Callers, Close(c) \/ Cancel(c) PROVE Inv'
  BY <1>4, WaitKeepsInv
<1>5. ASSUME NEW c \in Callers, WaitEnds(c) \/ WaitTimesOut(c) PROVE Inv'
  BY <1>5, ReturnKeepsInv
<1> QED
  BY <1>1, <1>2, <1>3, <1>4, <1>5 DEF Next

THEOREM Invariance == Spec => []Inv
  BY InitInv, StepKeepsInv, PTL DEF Spec

(* The lease is released only once the body chain is closed, or given up   *)
(* past the deadline of a stop, however many callers cancel or time out.   *)
THEOREM LeaseOutlivesBody == Spec => []ReleasedAfterBody
<1>1. Inv => ReleasedAfterBody
  BY DEF Inv
<1> QED
  BY <1>1, Invariance, PTL

(* Without a stop no caller returns, cancelled or not, before the lease is *)
(* released.                                                               *)
THEOREM NormalReturnReleases == Spec => []QuietReturn
<1>1. Inv => QuietReturn
  BY DEF Inv
<1> QED
  BY <1>1, Invariance, PTL

(* No cancellation the shield absorbs is lost.                             *)
THEOREM CancellationRaised == Spec => []CancellationKept
<1>1. Inv => CancellationKept
  BY DEF Inv
<1> QED
  BY <1>1, Invariance, PTL

(* Neither an early return nor a lost cancellation.                        *)
THEOREM ShieldIsKept == Spec => []ShieldHolds
  BY NormalReturnReleases, CancellationRaised, PTL DEF ShieldHolds

=============================================================================
