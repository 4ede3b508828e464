-------------------------- MODULE RotatingProvider --------------------------
(***************************************************************************)
(* providers/runtime/rotating.py over providers/credential_rotation.py:    *)
(* requests that share a pool of credentials.  Between two awaits of a     *)
(* stream that may suspend the event loop runs nothing else, and the       *)
(* pool's lock is never held across such an await, so a selection or a     *)
(* report is one step.  A request suspended in its upstream may see its    *)
(* credential benched, locked out or reset by others before it reports.    *)
(***************************************************************************)
EXTENDS RotationEngine

CONSTANTS
  Requests,       \* calls of stream_response
  ModelOf,        \* the model each asks for
  RetryAfters,    \* what a 429 may publish, None included
  MaxThrottle,    \* longest reactive block of a sub-provider's limiter
  RoutesAround    \* RATE_LIMIT_ROUTES_AROUND_MODEL

ASSUME RequestsAssumption ==
  /\ ModelOf \in [Requests -> Models]
  /\ RetryAfters \subseteq Nat \cup {None}
  /\ MaxThrottle \in Nat

VARIABLES
  pool,       \* the engine's slots
  cursor,     \* round_robin's cursor
  throttle,   \* time left of each sub-provider's reactive block
  at,         \* where a request is
  key,        \* the credential it last got
  attempted   \* the credentials it has spent

vars == <<pool, cursor, throttle, at, key, attempted>>

Awaiting == {"first chunk", "streaming"}
Ended == {"served", "unavailable", "raised", "rate limited", "gone"}

(* A request is at one of its awaits or has ended, and awaits or escalates *)
(* only a credential it has marked as attempted.                           *)
TypeOK ==
  /\ pool \in [Keys -> Slot]
  /\ cursor \in Keys
  /\ throttle \in [Keys -> 0..MaxThrottle]
  /\ at \in [Requests -> {"choosing"} \cup Awaiting \cup Ended]
  /\ key \in [Requests -> Keys \cup {None}]
  /\ attempted \in [Requests -> SUBSET Keys]
  /\ \A r \in Requests : at[r] \in Awaiting \cup {"rate limited"} => key[r] \in attempted[r]

Init ==
  /\ pool = [k \in Keys |-> FreshSlot]
  /\ cursor = 0
  /\ throttle = [k \in Keys |-> 0]
  /\ at = [r \in Requests |-> "choosing"]
  /\ key = [r \in Requests |-> None]
  /\ attempted = [r \in Requests |-> {}]

Tick ==
  /\ pool' = [k \in Keys |-> Elapse(pool[k])]
  /\ throttle' = [k \in Keys |-> Less(throttle[k])]
  /\ UNCHANGED <<cursor, at, key, attempted>>

(* A sub-provider that meets a 429 may block its own limiter.              *)
LimiterBlocks(k) ==
  /\ \E r \in Requests : at[r] \in Awaiting /\ key[r] = k
  /\ \E t \in (throttle[k] + 1)..MaxThrottle : throttle' = [throttle EXCEPT ![k] = t]
  /\ UNCHANGED <<pool, cursor, at, key, attempted>>

-----------------------------------------------------------------------------
(* A slip: rotation relies on the failure having benched its credential.   *)
AvoidedUnspent(r) == {k \in Keys : pool[k].benches[ModelOf[r]] > 0 \/ throttle[k] > 0}

(* _unavailable_now, with the credentials the request has spent.           *)
Avoided(r) ==
  {k \in Keys : pool[k].benches[ModelOf[r]] > 0 \/ throttle[k] > 0} \cup attempted[r]

(* acquire: what is avoided is handed out when nothing else can be.        *)
Offers(r) ==
  LET preferred == Candidates(pool, Avoided(r), ModelOf[r])
  IN  IF preferred # {} THEN preferred ELSE Candidates(pool, {}, ModelOf[r])

End(r, how) == at' = [at EXCEPT ![r] = how]

(* Every credential is benched: the request is refused with a wait.        *)
Refuse(r) ==
  /\ at[r] = "choosing" /\ attempted[r] # Keys
  /\ Offers(r) = {}
  /\ pool' = Refreshed(pool)
  /\ End(r, "unavailable")
  /\ UNCHANGED <<cursor, throttle, key, attempted>>

(* The next turn of the loop: a credential already spent ends it.          *)
Acquire(r) ==
  /\ at[r] = "choosing" /\ attempted[r] # Keys
  /\ Offers(r) # {}
  /\ pool' = Refreshed(pool)
  /\ \E k \in Picks(Offers(r), cursor) :
       /\ cursor' = NextCursor(k, cursor)
       /\ End(r, IF k \in attempted[r] THEN "raised" ELSE "first chunk")
       /\ key' = [key EXCEPT ![r] = IF k \in attempted[r] THEN @ ELSE k]
       /\ attempted' = [attempted EXCEPT ![r] = @ \cup {k}]
  /\ UNCHANGED throttle

(* The loop ran out of credentials: the last error is raised.              *)
GiveUp(r) ==
  /\ at[r] = "choosing" /\ attempted[r] = Keys
  /\ End(r, "raised")
  /\ UNCHANGED <<pool, cursor, throttle, key, attempted>>

-----------------------------------------------------------------------------
Charged(k, slot) == pool' = [pool EXCEPT ![k] = slot]

(* report_failure: what the failure of a request on its credential does to *)
(* the pool.                                                               *)
Charge(r, kind, retryAfter) ==
  LET s == pool[key[r]]
  IN  Charged(key[r],
        CASE kind = "auth" -> AuthFailure(s)
          [] kind = "rate_limit" -> RateLimited(s, ModelOf[r], retryAfter)
          [] kind = "quota" -> NoteRateLimit(s, RateLimitSeconds, TRUE)
          [] OTHER -> s)

(* Where the request goes when nothing had been streamed: a 429 may route  *)
(* around the model, what is about the key or its connection rotates, and  *)
(* everything else is raised.                                              *)
AfterFailure(r, kind) ==
  IF kind = "rate_limit" /\ RoutesAround THEN "rate limited"
  ELSE IF kind = "other" THEN "raised" ELSE "choosing"

(* quota is a named billing phrase; transport stands for a bare 402 too.   *)
Kinds == {"auth", "quota", "transport", "other"}
Failures == [kind : {"rate_limit"}, after : RetryAfters] \cup [kind : Kinds, after : {None}]

(* A slip: the credential of a failure is free to be tried again.          *)
FailForgets(r) ==
  /\ at[r] = "first chunk"
  /\ \E f \in Failures : Charge(r, f.kind, f.after) /\ End(r, AfterFailure(r, f.kind))
  /\ attempted' = [attempted EXCEPT ![r] = @ \ {key[r]}]
  /\ UNCHANGED <<cursor, throttle, key>>

Fail(r) ==
  /\ at[r] = "first chunk"
  /\ \E f \in Failures : Charge(r, f.kind, f.after) /\ End(r, AfterFailure(r, f.kind))
  /\ UNCHANGED <<cursor, throttle, key, attempted>>

FirstChunk(r) ==
  /\ at[r] = "first chunk"
  /\ End(r, "streaming")
  /\ UNCHANGED <<pool, cursor, throttle, key, attempted>>

(* Output has started: the failure counts, but the request cannot move.    *)
FailMidStream(r) ==
  /\ at[r] = "streaming"
  /\ \E f \in Failures : Charge(r, f.kind, f.after)
  /\ End(r, "raised")
  /\ UNCHANGED <<cursor, throttle, key, attempted>>

(* The stream ends, maybe before its first chunk: report_success.          *)
Succeed(r) ==
  /\ at[r] \in Awaiting
  /\ Charged(key[r], ClearBenching(pool[key[r]]))
  /\ End(r, "served")
  /\ UNCHANGED <<cursor, throttle, key, attempted>>

(* The client leaves: neither success nor failure is reported.             *)
Disconnect(r) ==
  /\ at[r] \in Awaiting
  /\ End(r, "gone")
  /\ UNCHANGED <<pool, cursor, throttle, key, attempted>>

(* The executor's probe of another model on the same key met a 429 too.    *)
Escalate(r) ==
  /\ at[r] = "rate limited"
  /\ \E after \in RetryAfters : Charged(key[r], NoteRateLimit(pool[key[r]], after, FALSE))
  /\ End(r, "raised")
  /\ UNCHANGED <<cursor, throttle, key, attempted>>

(* The operator resets one credential or all.                              *)
ResetKey(k) ==
  /\ Charged(k, ClearBenching(pool[k]))
  /\ UNCHANGED <<cursor, throttle, at, key, attempted>>

ResetAll ==
  /\ pool' = [k \in Keys |-> RestoreAll(pool[k])]
  /\ UNCHANGED <<cursor, throttle, at, key, attempted>>

Loop(r) == Refuse(r) \/ Acquire(r) \/ GiveUp(r)
Upstream(r) == FirstChunk(r) \/ Fail(r) \/ FailMidStream(r) \/ Succeed(r) \/ Disconnect(r)

Next ==
  \/ Tick \/ ResetAll
  \/ \E k \in Keys : LimiterBlocks(k) \/ ResetKey(k)
  \/ \E r \in Requests : Loop(r) \/ Upstream(r) \/ Escalate(r)

Spec == Init /\ [][Next]_vars

(* Time passes, the loop runs on, and an upstream answers, fails or is cut *)
(* off by the executor's deadline.                                         *)
FairSpec ==
  /\ Spec
  /\ WF_vars(Tick)
  /\ \A r \in Requests : WF_vars(Loop(r)) /\ WF_vars(Upstream(r))

-----------------------------------------------------------------------------
(* A slip: only the limiters are read.                                     *)
ThrottleRemainingOfLimiters(model) == Min({throttle[k] : k \in Keys})

(* throttle_remaining(model).                                              *)
ThrottleRemaining(model) ==
  LET ready == SelectableIndexes(pool, model)
  IN  IF ready = {} THEN ShortestBenchRemaining(pool, model)
      ELSE Min({throttle[k] : k \in ready})

(* The time left until a credential may serve a model, read off its live   *)
(* deadlines.                                                              *)
Wait(k, model) ==
  IF ForcedSingle THEN IF k = 0 THEN throttle[0] ELSE 1
  ELSE Max({LiveDeadline(pool[k]), IF model \in Models THEN pool[k].benches[model] ELSE 0,
            throttle[k]})

(* "0 whenever any credential can serve" (throttle_remaining), and never 0  *)
(* when none can: routing neither steps over a pool that could serve nor   *)
(* pays a round trip to one that cannot.                                   *)
ZeroMeansFree ==
  \A m \in Models : ThrottleRemaining(m) = 0 <=> \E k \in Keys : Wait(k, m) = 0

(* A request that has failed on one credential gives up only when no       *)
(* other is free to serve it: "Credentials already tried in this request   *)
(* are passed to acquire as an avoid set" (ARCHITECTURE.md).               *)
GivesUpLast ==
  [][\A r \in Requests : at[r] = "choosing" /\ at'[r] \in {"raised", "unavailable"} =>
       \/ ForcedSingle
       \/ \A k \in Keys \ attempted[r] : Wait(k, ModelOf[r]) > 0]_vars

(* "leaves the slot HEALTHY, because a gateway that limits one model has   *)
(* made no statement about the key's others": where neither credits nor a  *)
(* probe speaks of the key, it is taken out only once as many models as    *)
(* configured were refused on it, however late the report comes, and no    *)
(* bench outlasts the time it is out for.  (It speaks of a healthy key: a  *)
(* late 429 on a key that is locked out sets its cooldown outright.)       *)
EscalatesWhole ==
  [][\A k \in Keys, r \in Requests :
       /\ at[r] \in Awaiting /\ at'[r] # at[r] /\ key[r] = k
       /\ pool[k].state = "healthy" /\ pool'[k].state = "cooldown" /\ ~pool'[k].credits
       => LET refused == {m \in Models : pool'[k].benches[m] > 0} \cup {ModelOf[r]}
          IN  /\ Escalation \in 1..Cardinality(refused)
              /\ \A m \in Models : pool'[k].benches[m] <= pool'[k].cooldown]_vars

(* A credential that is out comes back by itself, once no request reports  *)
(* on it any more: waking "cannot strand a key" (credential_rotation.py).  *)
KeyWakes ==
  \A k \in Keys, m \in Models :
    ForcedSingle \/ <>[](k \in SelectableIndexes(pool, m))

(* The loop ends for every request, whatever the credentials answer.       *)
RequestEnds == \A r \in Requests : <>(at[r] \in Ended)

=============================================================================
