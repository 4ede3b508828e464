---------------------------- MODULE RouteHealth ----------------------------
(***************************************************************************)
(* The registry every request of the process shares                        *)
(* (application/route_health.py): what recent requests learnt about each   *)
(* model, and which models a new request should step over.                 *)
(*                                                                         *)
(* A bench ends by the clock, but nothing runs when it does: it is "over"  *)
(* from then on and cleared by the next reader.  The failure rate is one   *)
(* half.                                                                   *)
(***************************************************************************)
EXTENDS Naturals, Sequences, FiniteSets

CONSTANTS
    Route,          \* plan.model_refs(): the models of one route, in order
    ProviderOf,     \* the provider of each model
    EjectAfter,     \* eject_after_failures, of the consecutive mode
    EjectWindow,    \* eject_window, of the rate-based mode
    MinSamples      \* eject_min_samples, of the rate-based mode

Models    == {Route[i] : i \in 1..Len(Route)}
Providers == {ProviderOf[m] : m \in Models}

(* A route names a model once (routing.py drops what it has already seen). *)
ASSUME RouteAssumption ==
  /\ Route \in Seq(Models) /\ Route # << >>
  /\ \A i, j \in 1..Len(Route) : Route[i] = Route[j] => i = j
ASSUME BenchAssumption == /\ EjectAfter \in Nat \ {0}
                          /\ EjectWindow \in Nat \ {0}
                          /\ MinSamples \in Nat

Modes   == {"off", "consecutive", "rate_based"}
Benches == {"none", "on", "over"}

(* _ModelHealth; known: the registry holds an entry for the model.         *)
ModelHealth == [known : BOOLEAN, streak : 0..EjectAfter,
                outcomes : UNION {[1..k -> BOOLEAN] : k \in 0..EjectWindow},
                bench : Benches]

Unknown == [known |-> FALSE, streak |-> 0, outcomes |-> << >>, bench |-> "none"]

Trim(outcomes) ==
  IF Len(outcomes) > EjectWindow THEN Tail(outcomes) ELSE outcomes

FailuresIn(outcomes) == Cardinality({i \in 1..Len(outcomes) : ~outcomes[i]})

(* The rolling window calls for a bench.                                   *)
Failing(outcomes) ==
  /\ Len(outcomes) >= MinSamples
  /\ 2 * FailuresIn(outcomes) >= Len(outcomes)

(* record_success: a model that never failed has no entry to write to.     *)
Succeeded(h, mode) ==
  CASE ~h.known -> h
    [] h.known /\ mode = "consecutive" -> [h EXCEPT !.streak = 0, !.bench = "none"]
    [] OTHER -> [h EXCEPT !.outcomes = Trim(Append(h.outcomes, TRUE))]

(* record_failure, of a kind that counts: a bench that is still on, or that *)
(* nobody has read since it ended, starts again in full.                   *)
FailedInARow(h) ==
  LET streak == IF h.streak < EjectAfter THEN h.streak + 1 ELSE EjectAfter
  IN  [h EXCEPT !.known = TRUE, !.streak = streak,
                !.bench = IF streak = EjectAfter THEN "on" ELSE h.bench]

FailedInWindow(h) ==
  LET outcomes == Trim(Append(h.outcomes, FALSE))
  IN  [h EXCEPT !.known = TRUE, !.outcomes = outcomes,
                !.bench = IF Failing(outcomes) THEN "on" ELSE h.bench]

Counts(kind) == kind = "upstream"

RecordFailure(h, mode, kind) ==
  CASE mode = "off" \/ ~Counts(kind) -> h
    [] mode = "consecutive" /\ Counts(kind) -> FailedInARow(h)
    [] OTHER -> FailedInWindow(h)

(* is_ejected: reading a bench that is over clears the model's record.     *)
Read(h) ==
  IF h.bench = "over" THEN [h EXCEPT !.streak = 0, !.outcomes = << >>, !.bench = "none"]
                      ELSE h

(* The members of a sequence that are in a set, in their order.            *)
Kept(s, wanted) ==
  LET kept[i \in 0..Len(s)] ==
        IF i = 0 THEN << >>
        ELSE IF s[i] \in wanted THEN Append(kept[i - 1], s[i]) ELSE kept[i - 1]
  IN  kept[Len(s)]

(* usable_indexes: the live models, without the benched ones and, in the   *)
(* rate-based mode, those whose provider serves a cooldown; all the live   *)
(* models when that leaves none, and never a paused one.                   *)
Live(paused) == Kept(Route, Models \ paused)

Open(health, mode, limited) ==
  {m \in Models : /\ Read(health[m]).bench # "on"
                  /\ ~(mode = "rate_based" /\ ProviderOf[m] \in limited)}

(* Mutant: the bypass brings the paused models back as well.               *)
UsableIndexesPaused(health, mode, paused, limited) ==
  LET open == Kept(Live(paused), Open(health, mode, limited))
  IN  CASE Live(paused) = << >> -> << >>
        [] mode = "off" -> Live(paused)
        [] OTHER -> IF open = << >> THEN Route ELSE open

UsableIndexes(health, mode, paused, limited) ==
  LET open == Kept(Live(paused), Open(health, mode, limited))
  IN  IF mode = "off" \/ open = << >> THEN Live(paused) ELSE open
=============================================================================
