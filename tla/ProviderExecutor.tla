-------------------------- MODULE ProviderExecutor --------------------------
(***************************************************************************)
(* One client request walking its fallback chain                           *)
(* (application/execution.py): the attempts, the request's time budget,    *)
(* the commitment to what the client has already read, and the ledger of   *)
(* one verdict per model that is published when the request ends.  Several *)
(* requests follow one another over the same RouteHealth registry, and     *)
(* other requests report to it while this one runs.                        *)
(*                                                                         *)
(* Code between two awaits is one action.  Time is in ticks of the request *)
(* budget and passes while a provider is waited for, probed or closed; the *)
(* pool's cooldowns, the preflights and the probe answer what they like.   *)
(***************************************************************************)
EXTENDS RouteHealth

CONSTANTS
    Policies,       \* the settings and request shapes, see Policy
    Pooled,         \* providers that are credential pools
    Siblings,       \* providers with another configured model to probe
    MaxTotal,       \* the largest time budget, in ticks
    MaxRequests,    \* bound: requests that follow one another
    MaxOthers       \* bound: reports other requests make meanwhile

Policy == [mode : Modes,
           pauses : SUBSET SUBSET Models,   \* what the operator may have paused
           stream : BOOLEAN,       \* the client streams
           messages : BOOLEAN,     \* wire_api is "messages"
           clean : BOOLEAN,        \* end_cleanly_after_commit
           resume : BOOLEAN,       \* resume_after_commit
           retry : BOOLEAN,        \* retry_first is "retry_once"
           tries : Nat \ {0},      \* rate_limit_attempts
           total : 1..MaxTotal,    \* total_timeout, in ticks
           floor : 0..MaxTotal,    \* attempt_share_floor
           stall : 0..MaxTotal,    \* stall_timeout, 0: none
           think : 0..MaxTotal]    \* reasoning_answer_timeout, 0: none

(* "model_limited" is the pool's ModelRateLimited: a 429 it chose to have  *)
(* routed around.                                                          *)
StreamKinds == {"upstream", "rate_limit", "model_limited", "invalid_request"}
SkipKinds   == {"invalid_request"}
Answers     == {"ok", "cooling", "upstream", "invalid_request"}

Verdicts == {"never_reached", "ejected", "paused", "cooldown", "out_of_time",
             "route_ended", "failed", "interrupted", "succeeded"}

ASSUME PolicyAssumption == Policies \subseteq Policy
ASSUME BoundsAssumption == MaxTotal \in Nat /\ MaxRequests \in Nat /\ MaxOthers \in Nat

VARIABLES
    health,       \* RouteHealthRegistry._models
    policy,       \* the settings this process runs under
    requests,     \* requests begun so far
    others,       \* reports made by other requests so far
    phase,        \* what this request is awaiting
    paused,       \* plan.paused_refs
    order,        \* order: the models of the route worth attempting
    at,           \* position in order, the attempt in flight
    rows,         \* _AttemptLedger._records: the verdict on each model
    started,      \* models ever started (history; _started)
    left,         \* ticks left before deadline
    until,        \* value of left at which the wait for a chunk gives up
    slept,        \* ticks of that wait spent asleep (waited_seconds() - credited)
    progress,     \* value of left at the last progress (last_progress)
    thinking,     \* reasoning_since is not None
    seen,         \* seen_chunk
    tracker,      \* CommittedStreamTracker: what the client has been shown
    held,         \* the models whose chunks are in held
    shown,        \* the models whose chunks the client got, in order (history)
    resumed,      \* splicer is not None
    failure,      \* how the attempt in flight ended, "none" when it completed
    retried,      \* retried_positions holds position 1
    probed,       \* probed_positions
    tries,        \* rate_limit_attempts of the current position
    promoted,     \* positions the 429 promotion jumped over (history)
    spoke,        \* some attempt sent anything at all (history)
    aside,        \* time passed asleep, closing or probing (history)
    result        \* how the request ended

settings == <<policy, paused>>
route    == <<order, at>>
ledger   == <<rows, started>>
clock    == <<left, until, slept, progress, thinking, seen, spoke, aside>>
client   == <<tracker, held, shown, resumed>>
spent    == <<retried, probed, tries, promoted>>
vars == <<health, policy, requests, others, phase, paused, order, at, rows, started,
          left, until, slept, progress, thinking, seen, spoke, aside, tracker, held, shown,
          resumed, failure, retried, probed, tries, promoted, result>>

Trackers == {"bare", "blocks", "text", "tool", "stopped"}

Current  == order[at]
Closable == tracker \in {"blocks", "text"}
InOrder  == {order[i] : i \in 1..Len(order)}
IndexOf(m) == CHOOSE i \in 1..Len(Route) : Route[i] = m

-----------------------------------------------------------------------------
Init ==
  /\ health = [m \in Models |-> Unknown]
  /\ policy \in Policies
  /\ requests = 0 /\ others = 0
  /\ phase = "idle"
  /\ paused = {} /\ order = << >> /\ at = 0
  /\ rows = [m \in Models |-> "never_reached"] /\ started = {}
  /\ left = 0 /\ until = 0 /\ slept = 0 /\ progress = 0
  /\ thinking = FALSE /\ seen = FALSE /\ spoke = FALSE /\ aside = FALSE
  /\ tracker = "bare" /\ held = << >> /\ shown = << >> /\ resumed = FALSE
  /\ failure = "none"
  /\ retried = FALSE /\ probed = {} /\ tries = 1 /\ promoted = {}
  /\ result = "none"

(* unreachable_after: every model behind m in the plan, whatever its row.  *)
UnreachableAfter(rw, m) ==
  [x \in Models |-> IF IndexOf(x) > IndexOf(m) THEN "route_ended" ELSE rw[x]]

(* _candidate_order: the positions from start on, those of the preferred   *)
(* provider first.                                                         *)
(* Mutant: the walk begins one position late.                              *)
PositionsLate(start) == [i \in 1..(Len(order) - start) |-> start + i]

Positions(start) == [i \in 1..(Len(order) + 1 - start) |-> start + i - 1]

CandidateOrder(start, prefer) ==
  LET preferred == {p \in 1..Len(order) : ProviderOf[order[p]] = prefer}
  IN  IF prefer = "none" THEN Positions(start)
      ELSE Kept(Positions(start), preferred)
             \o Kept(Positions(start), (1..Len(order)) \ preferred)

(* _prepare_from: walk the candidates until one is ready, one ends the     *)
(* route, or none is left.  st holds the rows, the started models and the  *)
(* registry; the result says which position was reached (0: none), and     *)
(* whether a failure ended the route.                                      *)
Prepare(st, ord, candidates, answer) ==
  LET Steps == 1..Len(candidates)
      M(i)  == ord[candidates[i]]
      Over(i)  == answer[M(i)] = "cooling" /\ candidates[i] < Len(ord)
      Ready(i) == answer[M(i)] \in {"ok", "cooling"} /\ ~Over(i)
      Ends(i)  == answer[M(i)] \in SkipKinds
      stops == {i \in Steps : Ready(i) \/ Ends(i)}
      stop  == IF stops = {} THEN Len(candidates) + 1
                             ELSE CHOOSE i \in stops : \A j \in stops : i <= j
      ready == stop \in Steps /\ Ready(stop)
      tried == {M(i) : i \in {j \in Steps : j <= stop /\ ~Over(j)}}
      lost  == {M(i) : i \in {j \in Steps : j <= stop /\ ~Over(j) /\ ~Ready(j)}}
      over  == {M(i) : i \in {j \in Steps : j < stop /\ Over(j)}}
      walked == [m \in Models |-> CASE m \in lost -> "failed"
                                    [] m \in over -> "cooldown"
                                    [] OTHER -> st.rows[m]]
      late == {ord[p] : p \in candidates[1]..Len(ord)}
  IN  CASE candidates = << >> -> [st EXCEPT !.to = 0, !.ended = FALSE]
        [] candidates # << >> /\ st.left = 0 ->
             [st EXCEPT !.to = 0, !.ended = FALSE,
                        !.rows = [m \in Models |-> IF m \in late THEN "out_of_time" ELSE @[m]]]
        [] OTHER ->
             [to |-> IF ready THEN candidates[stop] ELSE 0,
              ended |-> stop \in Steps /\ ~ready,
              left |-> st.left,
              rows |-> IF stop \in Steps /\ ~ready THEN UnreachableAfter(walked, M(stop))
                                                   ELSE walked,
              started |-> st.started \cup tried,
              health |-> [m \in Models |-> IF m \in lost
                            THEN RecordFailure(st.health[m], policy.mode, answer[m])
                            ELSE st.health[m]]]

State == [to |-> 0, ended |-> FALSE, left |-> left, rows |-> rows, started |-> started, health |-> health]

(* _attempt_deadline: an equal share of what is left for each model still   *)
(* on the chain, never less than the floor and never more than is left.    *)
(* Mutant: the attempt may use all that is left.                           *)
ShareEndGreedy(l, remaining) == 0

ShareEnd(l, remaining) ==
  LET share == l \div remaining
      floored == IF policy.floor > share THEN policy.floor ELSE share
  IN  IF remaining <= 1 THEN 0 ELSE l - (IF floored > l THEN l ELSE floored)

(* The locals of a wait that is over are not read again.                   *)
NoWait == until' = 0 /\ slept' = 0 /\ progress' = 0 /\ thinking' = FALSE /\ seen' = FALSE

(* The next turn of provider_body's loop: an attempt on position p.        *)
(* Mutant: the chunks held back for a failed attempt stay in the answer.   *)
AttemptHolding(st, p) ==
  /\ at' = p
  /\ phase' = "waiting" /\ failure' = "none"
  /\ rows' = st.rows /\ started' = st.started /\ health' = st.health
  /\ until' = ShareEnd(left, Len(order) + 1 - p)
  /\ slept' = 0 /\ progress' = (IF policy.stall > 0 THEN left ELSE 0)
  /\ thinking' = FALSE /\ seen' = FALSE
  /\ UNCHANGED <<requests, others, policy, paused, order, left, spoke, aside, tracker,
                 held, shown, result>>

Attempt(st, p) ==
  /\ at' = p
  /\ phase' = "waiting" /\ failure' = "none"
  /\ rows' = st.rows /\ started' = st.started /\ health' = st.health
  /\ until' = ShareEnd(left, Len(order) + 1 - p)
  /\ slept' = 0 /\ progress' = (IF policy.stall > 0 THEN left ELSE 0)
  /\ thinking' = FALSE /\ seen' = FALSE
  /\ held' = << >>
  /\ UNCHANGED <<requests, others, policy, paused, order, left, spoke, aside, tracker,
                 shown, result>>

(* The request is over: the ledger is published, once.                     *)
End(st, how) ==
  /\ phase' = "done" /\ result' = how
  /\ rows' = st.rows /\ started' = st.started /\ health' = st.health
  /\ NoWait
  /\ left' = 0 /\ held' = << >> /\ failure' = "none" /\ tries' = 1
  /\ UNCHANGED <<requests, others, policy, paused, order, at, spoke, aside, tracker, shown>>

-----------------------------------------------------------------------------
(* stream, up to the provider_body it returns.                             *)
Begin(out, limited, answer) ==
  LET read == [m \in Models |-> IF policy.mode # "off" /\ m \notin out
                                THEN Read(health[m]) ELSE health[m]]
      ord  == UsableIndexes(health, policy.mode, out, limited)
      usable == {ord[i] : i \in 1..Len(ord)}
      told == [m \in Models |-> CASE m \in usable -> "never_reached"
                                  [] m \in out -> "paused"
                                  [] OTHER -> "ejected"]
      st == Prepare([to |-> 0, ended |-> FALSE, left |-> policy.total, rows |-> told,
                     started |-> {}, health |-> read], ord, [i \in 1..Len(ord) |-> i], answer)
  IN  /\ requests' = requests + 1
      /\ paused' = out /\ order' = ord
      /\ at' = st.to
      /\ rows' = st.rows /\ started' = st.started /\ health' = st.health
      /\ left' = policy.total /\ slept' = 0 /\ progress' = IF policy.stall > 0 THEN policy.total ELSE 0
      /\ until' = IF st.to = 0 THEN 0 ELSE ShareEnd(policy.total, Len(ord) + 1 - st.to)
      /\ thinking' = FALSE /\ seen' = FALSE /\ spoke' = FALSE /\ aside' = FALSE
      /\ tracker' = "bare" /\ held' = << >> /\ shown' = << >> /\ resumed' = FALSE
      /\ failure' = "none"
      /\ retried' = FALSE /\ probed' = {} /\ tries' = 1 /\ promoted' = {}
      /\ IF st.to = 0 THEN phase' = "done" /\ result' = IF st.ended THEN "ended" ELSE "error"
                      ELSE phase' = "waiting" /\ result' = "none"
      /\ UNCHANGED <<policy, others>>

Minus(l, n) == IF n > l THEN 0 ELSE l - n

(* The wait for a chunk is re-armed for the time the provider slept in its  *)
(* own backoff or limiter, up to the budget of the request.                *)
GivesUpAt == Minus(until, slept)

(* A tick of the clock while the wait for a chunk goes on.  Credit beyond   *)
(* the budget of the request is not counted.                               *)
Tick ==
  /\ phase = "waiting" /\ left > GivesUpAt
  /\ left' = left - 1
  /\ \E asleep \in BOOLEAN :
       /\ slept' = IF asleep /\ slept < until THEN slept + 1 ELSE slept
       /\ aside' = (aside \/ asleep)
  /\ UNCHANGED <<health, requests, others, phase, until, progress, thinking, seen,
                 spoke, failure, result>>
  /\ UNCHANGED <<settings, route, ledger, client, spent>>

(* A tick while the stream is closed, or a probe runs.                     *)
Lingers ==
  /\ phase \in {"closing", "probing"} /\ left > 0
  /\ left' = left - 1
  /\ aside' = TRUE
  /\ UNCHANGED <<health, requests, others, phase, until, slept, progress, thinking,
                 seen, spoke, failure, result>>
  /\ UNCHANGED <<settings, route, ledger, client, spent>>

(* The clock of the last progress, where a stall limit reads it.           *)
Progress == IF policy.stall > 0 THEN left ELSE 0

(* REASONING_HEARTBEAT: the first one swaps the share for the reasoning     *)
(* allowance; every one is progress.                                       *)
Heartbeat ==
  /\ phase = "waiting"
  /\ thinking' = (policy.think > 0) /\ progress' = Progress /\ spoke' = TRUE
  /\ slept' = 0
  /\ until' = CASE seen /\ policy.stall > 0 -> Minus(left, policy.stall)
                [] ~seen /\ ~thinking /\ policy.think > 0 -> Minus(left, policy.think)
                [] OTHER -> until
  /\ UNCHANGED <<health, requests, others, phase, left, seen, aside, failure, result>>
  /\ UNCHANGED <<settings, route, ledger, client, spent>>

(* What a chunk can make of the frames already sent.                       *)
Follow(t) ==
  CASE t = "bare"    -> {"bare", "blocks", "text", "tool", "stopped"}
    [] t = "blocks"  -> {"blocks", "text", "tool", "stopped"}
    [] t = "text"    -> {"text", "tool", "stopped"}
    [] t = "tool"    -> {"tool", "blocks", "text"}
    [] t = "stopped" -> {"stopped"}

(* The models a sequence of chunks came from, in order.                    *)
Shown(models) ==
  IF models # << >> /\ models[Len(models)] = Current THEN models
                                                    ELSE Append(models, Current)

(* A chunk: kept back for a client that does not stream, sent at once to   *)
(* one that does, rewritten first when it continues another's answer.      *)
Chunk(content, t) ==
  /\ phase = "waiting"
  /\ seen' = TRUE /\ spoke' = TRUE /\ slept' = 0
  /\ progress' = IF content THEN Progress ELSE progress
  /\ until' = IF policy.stall = 0 THEN 0
              ELSE IF content THEN Minus(left, policy.stall)
                              ELSE Minus(progress, policy.stall)
  /\ IF policy.stream
       THEN /\ t \in Follow(tracker) /\ (resumed => t # "stopped")
            /\ tracker' = t
            /\ shown' = Shown(shown)
            /\ UNCHANGED held
       ELSE /\ t = tracker
            /\ held' = Shown(held)
            /\ UNCHANGED <<tracker, shown>>
  /\ UNCHANGED <<health, requests, others, phase, left, thinking, aside, failure, resumed,
                 result>>
  /\ UNCHANGED <<settings, route, ledger, spent>>

(* The wait for a chunk is over: a failure of the provider's own, a         *)
(* deadline, or the end of the stream.  The stream is then closed.         *)
StreamEnds(how) ==
  /\ phase = "waiting"
  /\ phase' = "closing" /\ failure' = how
  /\ NoWait
  /\ UNCHANGED <<health, requests, others, left, spoke, aside, result>>
  /\ UNCHANGED <<settings, route, ledger, client, spent>>

ProviderFails(kind) ==
  /\ phase = "waiting"
  /\ kind = "model_limited" => ProviderOf[Current] \in Pooled /\ ~seen
  /\ StreamEnds(kind)

(* Mutant: the budget of the whole request does not bound a wait.          *)
TimesOutByShare == left <= GivesUpAt /\ GivesUpAt > 0 /\ StreamEnds("timeout")

TimesOut == left <= GivesUpAt /\ StreamEnds("timeout")

Completes == StreamEnds("none")

Committed == shown # << >>

(* The attempt completed: what was held back is released, and the answer   *)
(* is the request's.                                                       *)
Succeeds ==
  LET m == Current
  IN  /\ phase = "closing" /\ failure = "none"
      /\ phase' = "done" /\ result' = "answered"
      /\ shown' = shown \o held
      /\ held' = << >>
      /\ health' = [health EXCEPT ![m] = Succeeded(@, policy.mode)]
      /\ rows' = [rows EXCEPT ![m] = "succeeded"]
      /\ NoWait /\ left' = 0 /\ tries' = 1
      /\ UNCHANGED <<requests, others, started, spoke, aside, tracker, resumed,
                     failure, retried, probed, promoted>>
      /\ UNCHANGED <<settings, route>>

(* The failure of the attempt in flight, on its row and against its model. *)
Failed(st, m) == [st EXCEPT !.rows[m] = "failed"]
Charged(st, m) ==
  [st EXCEPT !.health[m] = RecordFailure(@, policy.mode, failure)]

(* A stream the client is already reading: continued by the next model,    *)
(* else ended as a short but valid message, else ended by an error.        *)
(* Mutant: the state of the stream is not looked at.                       *)
CanResumeAnything == policy.resume /\ policy.messages /\ failure \notin SkipKinds

CanResume ==
  /\ policy.resume /\ policy.messages
  /\ failure \notin SkipKinds
  /\ tracker = "text"

Continued(answer) ==
  IF CanResume THEN Prepare(State, order, Positions(at + 1), answer) ELSE State

CommittedFails(answer) ==
  LET m == Current
      next == Continued(answer)
      over(st) == [st EXCEPT !.rows = UnreachableAfter([@ EXCEPT ![m] = "failed"], m)]
  IN  /\ Committed
      /\ UNCHANGED <<retried, probed>>
      /\ IF next.to # 0
           THEN /\ Attempt(Charged(Failed(next, m), m), next.to)
                /\ tries' = 1
           ELSE IF policy.clean /\ policy.messages /\ Closable
             THEN End(Charged(over(next), m), "truncated")
             ELSE End(over(next), "cut_off")
      /\ resumed' = (resumed \/ next.to # 0)
      /\ UNCHANGED promoted

(* The client goes away while the blocks left open are closed for the next *)
(* model: that one has the row, and the failure is charged to none.        *)
InterruptedAtSeam(answer) ==
  LET next == Continued(answer)
  IN  /\ Committed /\ next.to # 0
      /\ End([next EXCEPT !.rows[order[next.to]] = "interrupted"], "interrupted")
      /\ UNCHANGED <<retried, probed, promoted, resumed>>

RateLimited == failure \in {"rate_limit", "model_limited"}

(* The last resort of a rate-limited model with nowhere to route: the same  *)
(* position again, a bounded number of times.                              *)
Onwards(st, start, prefer, answer) ==
  LET candidates == CandidateOrder(start, prefer)
      next  == Prepare(st, order, candidates, answer)
      last  == Prepare(next, order, Positions(at), answer)
      again == next.to = 0 /\ RateLimited /\ tries < policy.tries
      jumped == {p \in start..(IF next.to = 0 THEN Len(order) ELSE next.to - 1) :
                   /\ prefer # "none" /\ ~next.ended
                   /\ next.rows[order[p]] \in {"never_reached", "route_ended"}}
  IN  CASE next.to # 0 ->
             /\ Attempt(next, next.to)
             /\ tries' = IF next.to = at THEN tries ELSE 1
             /\ promoted' = promoted \cup jumped
             /\ UNCHANGED resumed
        [] again /\ last.to # 0 ->
             /\ Attempt(last, last.to)
             /\ tries' = IF last.to = at THEN tries + 1 ELSE 1
             /\ UNCHANGED <<promoted, resumed>>
        [] OTHER ->
             LET over == IF again THEN last ELSE next
             IN  /\ End(over, IF over.ended THEN "ended" ELSE "error")
                 /\ promoted' = promoted \cup jumped
                 /\ UNCHANGED resumed

SameProviderBehind ==
  \E p \in (at + 1)..Len(order) : ProviderOf[order[p]] = ProviderOf[Current]

(* An attempt the client has seen nothing of failed.                       *)
UncommittedFails(answer) ==
  LET m == Current
      st == Charged(Failed(State, m), m)
      retry == Prepare(st, order, Positions(at), answer)
      retries == /\ policy.retry /\ at = 1 /\ ~retried
                 /\ failure \in {"upstream", "timeout", "rate_limit"}
      routes == failure = "model_limited" /\ at \notin probed
  IN  /\ ~Committed
      /\ CASE failure \in SkipKinds ->
                /\ End([st EXCEPT !.rows = UnreachableAfter(@, m)], "ended")
                /\ UNCHANGED <<retried, probed, promoted, resumed>>
           [] retries /\ retry.to # 0 ->
                /\ Attempt(retry, retry.to)
                /\ retried' = TRUE
                /\ tries' = IF retry.to = at THEN tries ELSE 1
                /\ UNCHANGED <<probed, promoted, resumed>>
           [] retries /\ retry.to = 0 ->
                /\ Onwards(retry, at + 1, "none", answer)
                /\ retried' = TRUE
                /\ UNCHANGED probed
           [] routes /\ SameProviderBehind ->
                /\ Onwards(st, at + 1, ProviderOf[m], answer)
                /\ probed' = probed \cup {at}
                /\ UNCHANGED retried
           [] routes /\ ~SameProviderBehind /\ ProviderOf[m] \in Siblings ->
                /\ phase' = "probing"
                /\ probed' = probed \cup {at}
                /\ rows' = st.rows /\ health' = st.health
                /\ UNCHANGED <<requests, others, started, failure, retried, tries,
                               promoted, result>>
                /\ UNCHANGED <<settings, route, clock, client>>
           [] OTHER ->
                /\ Onwards(st, at + 1, "none", answer)
                /\ UNCHANGED <<retried, probed>>

(* _probe_credential_health answered: a 429 sends the request back to the  *)
(* same position, whose pool now offers another key.                       *)
ProbeAnswers(keyLimited, answer) ==
  /\ phase = "probing"
  /\ Onwards(State, IF keyLimited THEN at ELSE at + 1, "none", answer)
  /\ UNCHANGED <<retried, probed>>

(* The client went away: the body is cancelled or closed wherever it is.   *)
Interrupt ==
  /\ phase \in {"waiting", "closing", "probing"}
  /\ End([State EXCEPT !.rows[Current] = "interrupted"], "interrupted")
  /\ UNCHANGED <<retried, probed, promoted, resumed>>

-----------------------------------------------------------------------------
(* Another request of the process reports on a model, or a bench runs out.  *)
(* A request reads the registry once, when it begins: what happens to it    *)
(* meanwhile may as well happen before the next one does.                  *)
BetweenRequests == phase \in {"idle", "done"} /\ requests < MaxRequests

OtherReports(m, good) ==
  /\ BetweenRequests /\ policy.mode # "off"
  /\ others < MaxOthers /\ others' = others + 1
  /\ health' = [health EXCEPT ![m] = IF good THEN Succeeded(@, policy.mode)
                                     ELSE RecordFailure(@, policy.mode, "upstream")]
  /\ UNCHANGED <<requests, phase, failure, result>>
  /\ UNCHANGED <<settings, route, ledger, clock, client, spent>>

BenchEnds(m) ==
  /\ BetweenRequests /\ health[m].bench = "on"
  /\ health' = [health EXCEPT ![m].bench = "over"]
  /\ UNCHANGED <<requests, others, phase, failure, result>>
  /\ UNCHANGED <<settings, route, ledger, clock, client, spent>>

(* The models a walk may still ask.                                        *)
Ahead == {order[i] : i \in at..Len(order)}

Handles ==
  \/ Succeeds
  \/ /\ phase = "closing" /\ failure # "none"
     /\ \E answer \in [Ahead -> Answers] : CommittedFails(answer) \/ UncommittedFails(answer)
  \/ /\ phase = "probing"
     /\ \E answer \in [Ahead -> Answers], keyLimited \in BOOLEAN :
          ProbeAnswers(keyLimited, answer)

Next ==
  \/ /\ BetweenRequests
     /\ \E out \in policy.pauses, limited \in SUBSET Providers :
          \E answer \in [Models -> Answers] : Begin(out, limited, answer)
  \/ Tick \/ Lingers \/ TimesOut
  \/ Heartbeat
  \/ \E content \in BOOLEAN, t \in Trackers : Chunk(content, t)
  \/ \E kind \in StreamKinds : ProviderFails(kind)
  \/ Completes
  \/ Handles
  \/ Interrupt
  \/ /\ phase = "closing" /\ failure # "none"
     /\ \E answer \in [Ahead -> Answers] : InterruptedAtSeam(answer)
  \/ \E m \in Models, good \in BOOLEAN : OtherReports(m, good)
  \/ \E m \in Models : BenchEnds(m)

Spec == Init /\ [][Next]_vars

(* Time passes, a wait that is over is given up, and what the executor runs *)
(* between two waits, the close and the probe included, comes to an end.   *)
FairSpec == Spec /\ WF_vars(Tick) /\ WF_vars(TimesOut) /\ WF_vars(Handles)

-----------------------------------------------------------------------------
TypeOK ==
  /\ health \in [Models -> ModelHealth]
  /\ policy \in Policies /\ paused \subseteq Models
  /\ requests \in 0..MaxRequests /\ others \in 0..MaxOthers
  /\ phase \in {"idle", "waiting", "closing", "probing", "done"}
  /\ order \in Seq(Models) /\ at \in 0..Len(order)
  /\ rows \in [Models -> Verdicts] /\ started \subseteq Models
  /\ left \in 0..MaxTotal /\ until \in 0..MaxTotal /\ slept \in 0..MaxTotal
  /\ progress \in 0..MaxTotal
  /\ tracker \in Trackers /\ held \in Seq(Models) /\ shown \in Seq(Models)
  /\ failure \in StreamKinds \cup {"none", "timeout"}
  /\ result \in {"none", "answered", "truncated", "cut_off", "error", "ended",
                 "interrupted"}

(* The client reads one model's words, or a continuation that was asked for *)
(* after the one before it had failed; and one that does not stream reads   *)
(* the model that answered or nothing.                                     *)
OneVoice ==
  /\ Len(shown) > 1 => resumed
  /\ \A i \in 1..(Len(shown) - 1) : rows[shown[i]] = "failed"
  /\ ~policy.stream /\ shown # << >> =>
       result = "answered" /\ Len(shown) = 1 /\ rows[shown[1]] = "succeeded"

(* When a request ends its ledger accounts for the whole chain: exactly the *)
(* model that answered succeeded, everything ahead of it failed or was     *)
(* stepped over, and an exhausted chain left no model unreached, but for   *)
(* those a 429's promotion jumped over.                                    *)
JumpedOver(m) == \E p \in promoted : order[p] = m

StoryComplete ==
  phase = "done" =>
    /\ \A m \in Models : rows[m] = "succeeded" <=> result = "answered" /\ m = Current
    /\ result = "answered" =>
         \A p \in 1..(at - 1) : rows[order[p]] \in {"failed", "cooldown"} \/ p \in promoted
    /\ result = "error" =>
         \A m \in Models : rows[m] = "never_reached" => JumpedOver(m)
    /\ \A m \in Models : rows[m] \in {"failed", "interrupted", "succeeded"} => m \in started

(* A model the operator paused is never tried, not even when every other   *)
(* one is benched; and a route is refused only when all of it is paused.   *)
PausedNeverTried ==
  /\ started \cap paused = {}
  /\ requests > 0 /\ order = << >> => Models \subseteq paused

(* Silence alone cannot spend the turn of the models behind it: while       *)
(* nothing was sent and the shares are pure, the budget is never gone      *)
(* before a model's turn unless the executor or a provider slept, closed a *)
(* stream or probed meanwhile (which the share does not count).            *)
SilenceKeepsTurns ==
  \A m \in Models :
    rows[m] = "out_of_time" /\ m \notin started => spoke \/ policy.floor > 0 \/ aside

(* An answer the next model was asked to finish never ends worse than one  *)
(* that was simply cut short: it is an error only inside a tool call, or   *)
(* where the operator turned clean endings off.                            *)
ResumeNeverWorse ==
  resumed /\ result = "cut_off" => tracker = "tool" \/ ~policy.clean

(* Every request with a budget ends.                                       *)
RequestEnds == phase \in {"waiting", "closing", "probing"} ~> phase = "done"

(* Finding: a chain that is exhausted has tried every model of its order.  *)
NoModelLeftOut ==
  phase = "done" /\ result = "error" => \A m \in Models : rows[m] # "never_reached"

(* Finding: "No attempt may spend the whole budget before producing         *)
(* anything" (provider_body, on the pure share of _attempt_deadline).       *)
ShareBoundsSilence ==
  phase = "waiting" /\ ~seen /\ ~thinking /\ policy.floor = 0 /\ at < Len(order) =>
    left > 0
=============================================================================
