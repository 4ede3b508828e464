--------------------------- MODULE RotationEngine ---------------------------
(***************************************************************************)
(* core/credential_rotation.py with PROVIDER_TUNING: what one failure, one *)
(* success or the passing of time does to a pooled credential, and which   *)
(* credential the policy may hand out.  Time is counted in whole units and *)
(* a deadline is kept as the time left till it: a deadline that has passed *)
(* and one that was never set (0.0) are both 0.  The usage counters are    *)
(* left out, so least_used may choose any candidate; last_error keeps only *)
(* whether it says that credits are exhausted.                             *)
(***************************************************************************)
EXTENDS Integers, Sequences, FiniteSets, FiniteSetsExt

CONSTANTS
  KeyCount,         \* credentials in the pool
  Models,           \* models the provider serves
  None,             \* no Retry-After was published, no model is in hand, no choice
  Policy,           \* CREDENTIAL_ROTATION
  LockoutTiers,     \* CREDENTIAL_LOCKOUT_TIERS
  RateLimitSeconds, \* RATE_LIMIT_COOLDOWN_SECONDS
  RateLimitMax,     \* the sanity cap on a published Retry-After
  Escalation        \* CREDENTIAL_MODEL_BENCH_ESCALATION

ASSUME PoolAssumption ==
  /\ KeyCount \in Nat \ {0}
  /\ Policy \in {"single", "round_robin", "least_used", "failover"}
  /\ None \notin Models \cup Nat
  /\ IsFiniteSet(Models)
  /\ RateLimitSeconds \in Nat /\ RateLimitMax \in Nat /\ Escalation \in Nat
  /\ LockoutTiers \in Seq(Nat \ {0}) /\ LockoutTiers # <<>>

Keys == 0..(KeyCount - 1)
States == {"healthy", "cooldown", "locked_out"}

Slot == [state : States, cooldown : Nat, lockout : Nat,
         benches : [Models -> Nat], authFailures : 0..Len(LockoutTiers), credits : BOOLEAN]

FreshSlot == [state |-> "healthy", cooldown |-> 0, lockout |-> 0,
              benches |-> [m \in Models |-> 0], authFailures |-> 0, credits |-> FALSE]

(* The time a credential still has to stay out, for every model.           *)
LiveDeadline(s) ==
  CASE s.state = "healthy" -> 0
    [] s.state = "locked_out" -> s.lockout
    [] s.state = "cooldown" -> s.cooldown

(* A slip: a lockout never wakes.                                          *)
AwakeCooldownOnly(s) ==
  IF s.state = "cooldown" /\ LiveDeadline(s) = 0 THEN [s EXCEPT !.state = "healthy"] ELSE s

(* refresh, for one slot; passed model benches are 0 by themselves.        *)
Awake(s) == IF LiveDeadline(s) = 0 THEN [s EXCEPT !.state = "healthy"] ELSE s

Refreshed(pool) == [k \in Keys |-> Awake(pool[k])]

(* One unit of time passes.                                                *)
Less(n) == IF n = 0 THEN 0 ELSE n - 1
Elapse(s) ==
  [s EXCEPT !.cooldown = Less(@), !.lockout = Less(@),
            !.benches = [m \in Models |-> Less(@[m])]]

Selectable(s, model) == s.state = "healthy" /\ (model \in Models => s.benches[model] = 0)

ForcedSingle == Policy = "single" \/ KeyCount = 1

(* selectable_indexes; choose may hand out these less the blocked ones.    *)
SelectableIndexes(pool, model) ==
  IF ForcedSingle THEN {0} ELSE {k \in Keys : Selectable(Refreshed(pool)[k], model)}

Candidates(pool, blocked, model) ==
  IF ForcedSingle THEN {0}
  ELSE {k \in Keys \ blocked : Selectable(Refreshed(pool)[k], model)}

(* _select: what the policy picks among candidates.                        *)
Picks(candidates, cursor) ==
  CASE Policy = "round_robin" ->
         LET later == {k \in candidates : k >= cursor}
         IN  {Min(IF later # {} THEN later ELSE candidates)}
    [] Policy = "least_used" -> candidates
    [] OTHER -> {Min(candidates)}

NextCursor(k, cursor) ==
  IF Policy = "round_robin" /\ ~ForcedSingle THEN (k + 1) % KeyCount ELSE cursor

(* succeed and restore: _clear_benching.                                   *)
ClearBenching(s) == [FreshSlot EXCEPT !.credits = s.credits]

(* restore_all, for one slot.                                              *)
RestoreAll(s) ==
  IF s.state # "healthy" THEN ClearBenching(s)
  ELSE [s EXCEPT !.benches = [m \in Models |-> 0]]

(* fail(index, "auth").                                                    *)
AuthFailure(s) ==
  LET tier == Min({s.authFailures + 1, Len(LockoutTiers)})
  IN  [s EXCEPT !.authFailures = tier, !.state = "locked_out",
                !.lockout = LockoutTiers[tier], !.credits = FALSE]

Window(retryAfter) ==
  Min({IF retryAfter = None THEN RateLimitSeconds ELSE retryAfter, RateLimitMax})

(* note_rate_limit: _fixed_rate_window with no model.                      *)
NoteRateLimit(s, retryAfter, credits) ==
  [s EXCEPT !.state = "cooldown", !.cooldown = Window(retryAfter), !.credits = credits]

(* A slip: the escalated window is only what this 429 asked for.            *)
RateLimitedShort(s, model, retryAfter) ==
  LET benched == [s EXCEPT !.benches[model] = Max({@, Window(retryAfter)}), !.credits = FALSE]
      live == {m \in Models : benched.benches[m] > 0} \cup {model}
  IN  IF Escalation = 0 \/ Cardinality(live) < Escalation
      THEN benched
      ELSE [benched EXCEPT !.state = "cooldown", !.cooldown = Window(retryAfter)]

(* fail(index, "rate_limit"): _fixed_rate_window with a model.  The (key,  *)
(* model) pair is benched; the key too, once enough models hold a live     *)
(* bench on it, the one just set included though its window may be empty.  *)
RateLimited(s, model, retryAfter) ==
  LET benched == [s EXCEPT !.benches[model] = Max({@, Window(retryAfter)}), !.credits = FALSE]
      live == {m \in Models : benched.benches[m] > 0} \cup {model}
  IN  IF Escalation = 1 THEN NoteRateLimit(s, retryAfter, FALSE)
      ELSE IF Escalation = 0 \/ Cardinality(live) < Escalation THEN benched
      ELSE [benched EXCEPT !.state = "cooldown",
                           !.cooldown = Max({benched.benches[m] : m \in Models})]

(* shortest_bench_remaining.                                               *)
ShortestBenchRemaining(pool, model) ==
  LET refreshed == Refreshed(pool)
      Remaining(s) == IF s.state # "healthy" THEN Max({s.cooldown, s.lockout})
                      ELSE IF model \in Models THEN s.benches[model] ELSE 0
      positives == {Remaining(refreshed[k]) : k \in Keys} \ {0}
  IN  IF positives = {} THEN 0 ELSE Min(positives)

=============================================================================
