----------------------- MODULE RotatingProviderProofs -----------------------
(***************************************************************************)
(* Routing is told the truth about a pool, a request gives up only when    *)
(* nothing is left, and a whole key is taken out only on evidence: for any *)
(* number of keys, models and requests and every policy.                   *)
(***************************************************************************)
EXTENDS RotatingProvider, FiniteSetTheorems, WellFoundedInduction, TLAPS

(* The least-number principle in first-order form.                         *)
LEMMA LeastNatural ==
  ASSUME NEW T, T \subseteq Nat, T # {}
  PROVE  \E x \in T : \A y \in T : x <= y
<1>1. IsWellFoundedOn(OpToRel(<, Nat), Nat)
  BY NatLessThanWellFounded
<1>2. \E x \in T : \A y \in T : <<y, x>> \notin OpToRel(<, Nat)
  BY <1>1, WFMin
<1>3. \A x, y \in Nat : <<y, x>> \in OpToRel(<, Nat) <=> y < x
  BY DEF OpToRel
<1>4. \A x, y \in Nat : ~(y < x) => x <= y
  OBVIOUS
<1> QED
  BY <1>2, <1>3, <1>4

LEMMA MinFacts ==
  ASSUME NEW T, T \subseteq Nat, T # {}
  PROVE  Min(T) \in T /\ \A y \in T : Min(T) <= y
<1>1. \E x \in T : \A y \in T : x <= y
  BY LeastNatural
<1> QED BY <1>1 DEF Min

(* A finite set of naturals has a largest member: of the sets without one  *)
(* take a least; it is not empty, and what is left without one of its      *)
(* members has a largest.                                                  *)
LEMMA MaxFacts ==
  ASSUME NEW T, T \subseteq Nat, T # {}, IsFiniteSet(T)
  PROVE  Max(T) \in T /\ \A y \in T : y <= Max(T)
<1> DEFINE Top(S) == \E x \in S : \A y \in S : x >= y
           Bad == {n \in Nat : \E S \in SUBSET T : S # {} /\ Cardinality(S) = n /\ ~Top(S)}
<1>1. \A S \in SUBSET T : IsFiniteSet(S) /\ Cardinality(S) \in Nat
  BY FS_Subset, FS_CardinalityType
<1>2. ASSUME Bad # {} PROVE FALSE
  <2>1. PICK n \in Bad : \A k \in Bad : n <= k
    <3>1. Bad \subseteq Nat OBVIOUS
    <3> HIDE DEF Bad
    <3> QED BY <1>2, <3>1, LeastNatural
  <2>2. PICK S \in SUBSET T : S # {} /\ Cardinality(S) = n /\ ~Top(S)
    BY <2>1
  <2>3. PICK x \in S : TRUE
    BY <2>2
  <2> DEFINE R == S \ {x}
  <2>4. R \in SUBSET T /\ Cardinality(R) = n - 1
    BY <1>1, <2>2, <2>3, FS_RemoveElement
  <2>5. R # {}
    <3>1. SUFFICES ASSUME R = {} PROVE FALSE OBVIOUS
    <3>2. S = {x} BY <3>1, <2>3
    <3>3. x \in Nat BY <2>3
    <3> QED BY <3>2, <3>3, <2>2
  <2>6. n - 1 \in Nat BY <2>4, <1>1
  <2>7. Top(R)
    <3>1. n - 1 \notin Bad BY <2>1, <2>6
    <3> QED BY <3>1, <2>4, <2>5, <2>6
  <2>8. PICK z \in R : \A y \in R : z >= y
    BY <2>7
  <2>9. z \in Nat /\ x \in Nat /\ z \in S BY <2>8, <2>3
  <2>10. CASE x >= z
    <3>1. \A y \in S : x >= y BY <2>8, <2>9, <2>10
    <3> QED BY <3>1, <2>2, <2>3
  <2>11. CASE ~(x >= z)
    <3>1. \A y \in S : z >= y BY <2>8, <2>9, <2>11
    <3> QED BY <3>1, <2>2, <2>9
  <2> QED BY <2>10, <2>11
<1>3. Top(T)
  <2>1. Cardinality(T) \in Nat BY <1>1
  <2>2. Cardinality(T) \notin Bad BY <1>2
  <2> QED BY <2>1, <2>2
<1>4. Max(T) \in T /\ \A y \in T : Max(T) >= y
  BY <1>3 DEF Max
<1> QED BY <1>4

LEMMA MinPair ==
  ASSUME NEW a \in Nat, NEW b \in Nat
  PROVE  Min({a, b}) = IF a <= b THEN a ELSE b
<1>1. Min({a, b}) \in {a, b} /\ \A y \in {a, b} : Min({a, b}) <= y
  <2>1. {a, b} \subseteq Nat /\ {a, b} # {} OBVIOUS
  <2> QED BY <2>1, MinFacts
<1> QED BY <1>1

LEMMA MaxPair ==
  ASSUME NEW a \in Nat, NEW b \in Nat
  PROVE  Max({a, b}) \in Nat /\ Max({a, b}) >= a /\ Max({a, b}) >= b /\ Max({a, b}) \in {a, b}
<1>1. {a, b} \subseteq Nat /\ {a, b} # {} /\ IsFiniteSet({a, b})
  <2>1. {a, b} = {a} \cup {b} OBVIOUS
  <2>2. IsFiniteSet({a}) /\ IsFiniteSet({b}) BY FS_Singleton
  <2>3. IsFiniteSet({a} \cup {b}) BY <2>2, FS_Union
  <2> QED BY <2>1, <2>3
<1>2. Max({a, b}) \in {a, b} /\ \A y \in {a, b} : y <= Max({a, b})
  BY <1>1, MaxFacts
<1> QED BY <1>2

LEMMA MaxTriple ==
  ASSUME NEW a \in Nat, NEW b \in Nat, NEW c \in Nat
  PROVE  /\ Max({a, b, c}) \in Nat
         /\ Max({a, b, c}) = 0 <=> a = 0 /\ b = 0 /\ c = 0
<1>1. {a, b, c} \subseteq Nat /\ {a, b, c} # {} /\ IsFiniteSet({a, b, c})
  <2>1. {a, b, c} = ({a} \cup {b}) \cup {c} OBVIOUS
  <2>2. IsFiniteSet({a}) /\ IsFiniteSet({b}) /\ IsFiniteSet({c}) BY FS_Singleton
  <2>3. IsFiniteSet({a} \cup {b}) BY <2>2, FS_Union
  <2>4. IsFiniteSet(({a} \cup {b}) \cup {c}) BY <2>2, <2>3, FS_Union
  <2> QED BY <2>1, <2>4
<1>2. Max({a, b, c}) \in {a, b, c} /\ \A y \in {a, b, c} : y <= Max({a, b, c})
  BY <1>1, MaxFacts
<1> QED BY <1>2

-----------------------------------------------------------------------------
(* What the engine's operations make of a slot.                            *)

LEMMA FreshType == FreshSlot \in Slot
  BY DEF FreshSlot, Slot, States

LEMMA LiveType == ASSUME NEW s \in Slot PROVE LiveDeadline(s) \in Nat
  BY DEF LiveDeadline, Slot, States

LEMMA AwakeType ==
  ASSUME NEW s \in Slot
  PROVE  /\ Awake(s) \in Slot
         /\ Awake(s).benches = s.benches /\ Awake(s).cooldown = s.cooldown
         /\ Awake(s).lockout = s.lockout
         /\ Awake(s).state = (IF LiveDeadline(s) = 0 THEN "healthy" ELSE s.state)
  BY DEF Awake, Slot, States

LEMMA ElapseType ==
  ASSUME NEW s \in Slot
  PROVE  Elapse(s) \in Slot /\ Elapse(s).state = s.state
<1>1. \A n \in Nat : Less(n) \in Nat
  BY DEF Less
<1>2. [m \in Models |-> Less(s.benches[m])] \in [Models -> Nat]
  BY <1>1 DEF Slot
<1>3. s.cooldown \in Nat /\ s.lockout \in Nat
  BY DEF Slot
<1>4. Less(s.cooldown) \in Nat /\ Less(s.lockout) \in Nat
  BY <1>1, <1>3
<1> QED BY <1>2, <1>4 DEF Elapse, Slot

LEMMA ClearType == ASSUME NEW s \in Slot PROVE ClearBenching(s) \in Slot
  BY DEF ClearBenching, FreshSlot, Slot, States

LEMMA RestoreType == ASSUME NEW s \in Slot PROVE RestoreAll(s) \in Slot
  BY ClearType DEF RestoreAll, Slot

LEMMA AuthType == ASSUME NEW s \in Slot PROVE AuthFailure(s) \in Slot
<1> DEFINE tier == Min({s.authFailures + 1, Len(LockoutTiers)})
<1>1. Len(LockoutTiers) \in Nat \ {0} /\ s.authFailures \in 0..Len(LockoutTiers)
  BY PoolAssumption DEF Slot
<1>2. tier \in 1..Len(LockoutTiers)
  BY <1>1, MinPair
<1>3. LockoutTiers[tier] \in Nat
  BY <1>2, PoolAssumption
<1> HIDE DEF tier
<1>4. tier \in 0..Len(LockoutTiers)
  BY <1>1, <1>2
<1>5. [s EXCEPT !.authFailures = tier, !.state = "locked_out",
                !.lockout = LockoutTiers[tier], !.credits = FALSE] \in Slot
  BY <1>3, <1>4 DEF Slot, States
<1> QED BY <1>5 DEF AuthFailure, tier

LEMMA WindowType == ASSUME NEW after \in RetryAfters PROVE Window(after) \in Nat
<1>1. (IF after = None THEN RateLimitSeconds ELSE after) \in Nat
  BY PoolAssumption, RequestsAssumption
<1> QED BY <1>1, MinPair, PoolAssumption DEF Window

LEMMA SecondsType == Window(RateLimitSeconds) \in Nat
<1>1. (IF RateLimitSeconds = None THEN RateLimitSeconds ELSE RateLimitSeconds) \in Nat
  BY PoolAssumption
<1> QED BY <1>1, MinPair, PoolAssumption DEF Window

LEMMA NoteType ==
  ASSUME NEW s \in Slot, NEW after, Window(after) \in Nat, NEW credits \in BOOLEAN
  PROVE  /\ NoteRateLimit(s, after, credits) \in Slot
         /\ NoteRateLimit(s, after, credits).benches = s.benches
         /\ NoteRateLimit(s, after, credits).cooldown = Window(after)
         /\ NoteRateLimit(s, after, credits).credits = credits
  BY DEF NoteRateLimit, Slot, States

(* The longest bench of a key is as long as every bench of it.             *)
LEMMA LongestBench ==
  ASSUME NEW b \in [Models -> Nat], NEW m \in Models
  PROVE  /\ Max({b[x] : x \in Models}) \in Nat
         /\ \A x \in Models : b[x] <= Max({b[y] : y \in Models})
<1> DEFINE T == {b[x] : x \in Models}
<1>1. T \subseteq Nat /\ T # {}
  OBVIOUS
<1>2. IsFiniteSet(T)
  <2> DEFINE f == [x \in Models |-> b[x]]
  <2>1. f \in Surjection(Models, T) BY DEF Surjection
  <2> QED BY <2>1, PoolAssumption, FS_Surjection
<1> HIDE DEF T
<1>3. Max(T) \in T /\ \A y \in T : y <= Max(T)
  BY <1>1, <1>2, MaxFacts
<1> QED BY <1>1, <1>3 DEF T

(* The models a slot was refused for, m included, and a slot whose time    *)
(* out is as long as each of its benches.                                  *)
RefusedOn(t, m) == {x \in Models : t.benches[x] > 0} \cup {m}
OutlastsBenches(t) == \A x \in Models : t.benches[x] <= t.cooldown

(* A 429 for a model takes a healthy key out only as the escalation says.  *)
LEMMA RateLimitedFacts ==
  ASSUME NEW s \in Slot, NEW m \in Models, NEW after \in RetryAfters,
         NEW t, t = RateLimited(s, m, after)
  PROVE  /\ t \in Slot
         /\ Escalation = 1 => t.benches = s.benches
         /\ s.state = "healthy" /\ t.state = "cooldown" =>
              \/ Escalation = 1
              \/ Escalation \in 1..Cardinality(RefusedOn(t, m)) /\ OutlastsBenches(t)
<1> DEFINE bench == Max({s.benches[m], Window(after)})
           benched == [s EXCEPT !.benches[m] = bench, !.credits = FALSE]
           live == {x \in Models : benched.benches[x] > 0} \cup {m}
           longest == Max({benched.benches[x] : x \in Models})
           out == [benched EXCEPT !.state = "cooldown", !.cooldown = longest]
<1>1. Window(after) \in Nat /\ s.benches \in [Models -> Nat]
  BY WindowType DEF Slot
<1>2. bench \in Nat
  BY <1>1, MaxPair
<1>3. benched \in Slot /\ benched.state = s.state
  <2> HIDE DEF bench
  <2> QED BY <1>1, <1>2 DEF Slot
<1>4. benched.benches \in [Models -> Nat]
  BY <1>3 DEF Slot
<1>5. longest \in Nat /\ \A x \in Models : benched.benches[x] <= longest
  <2> DEFINE b == benched.benches
  <2>1. b \in [Models -> Nat] BY <1>4
  <2> HIDE DEF b
  <2>2. Max({b[x] : x \in Models}) \in Nat /\ \A x \in Models : b[x] <= Max({b[y] : y \in Models})
    BY <2>1, LongestBench
  <2> QED BY <2>2 DEF b
<1>6. IsFiniteSet(live) /\ Cardinality(live) \in Nat
  <2>1. live \subseteq Models OBVIOUS
  <2> QED BY <2>1, PoolAssumption, FS_Subset, FS_CardinalityType
<1>7. t = IF Escalation = 1 THEN NoteRateLimit(s, after, FALSE)
          ELSE IF Escalation = 0 \/ Cardinality(live) < Escalation THEN benched ELSE out
  BY DEF RateLimited
<1> HIDE DEF benched, live, longest
<1>8. CASE Escalation = 1
  <2>1. t = NoteRateLimit(s, after, FALSE) BY <1>7, <1>8
  <2>2. NoteRateLimit(s, after, FALSE) \in Slot
        /\ NoteRateLimit(s, after, FALSE).benches = s.benches
    BY <1>1, NoteType
  <2> QED BY <1>8, <2>1, <2>2
<1>9. CASE Escalation # 1 /\ (Escalation = 0 \/ Cardinality(live) < Escalation)
  BY <1>3, <1>7, <1>9
<1>10. CASE Escalation # 1 /\ ~(Escalation = 0 \/ Cardinality(live) < Escalation)
  <2>1. t = out BY <1>7, <1>10
  <2>2. t \in Slot /\ t.benches = benched.benches /\ t.cooldown = longest
    BY <2>1, <1>3, <1>5 DEF Slot, States
  <2>3. Escalation \in 1..Cardinality(live)
    BY <1>6, <1>10, PoolAssumption
  <2>4. live = RefusedOn(t, m)
    BY <2>2 DEF live, RefusedOn
  <2>5. OutlastsBenches(t)
    BY <2>2, <1>5 DEF OutlastsBenches
  <2> QED BY <2>2, <2>3, <2>4, <2>5, <1>10
<1> QED BY <1>8, <1>9, <1>10

LEMMA RateLimitedType ==
  ASSUME NEW s \in Slot, NEW m \in Models, NEW after \in RetryAfters
  PROVE  /\ RateLimited(s, m, after) \in Slot
         /\ Escalation = 1 => RateLimited(s, m, after).benches = s.benches
  BY RateLimitedFacts

LEMMA FirstKey == 0 \in Keys
  BY PoolAssumption DEF Keys

LEMMA CandidatesAreKeys ==
  ASSUME NEW p, NEW blocked, NEW m
  PROVE  Candidates(p, blocked, m) \subseteq Keys
  BY FirstKey DEF Candidates

LEMMA PicksFacts ==
  ASSUME NEW C, C \subseteq Keys, C # {}, NEW c
  PROVE  Picks(C, c) \subseteq C
<1>1. C \subseteq Nat BY DEF Keys
<1>2. \A T : T \subseteq C /\ T # {} => Min(T) \in C
  BY <1>1, MinFacts
<1> QED BY <1>2 DEF Picks

LEMMA NextCursorType ==
  ASSUME NEW k \in Keys, NEW c \in Keys
  PROVE  NextCursor(k, c) \in Keys
<1>1. KeyCount \in Nat \ {0} /\ k \in Nat
  BY PoolAssumption DEF Keys
<1>2. (k + 1) % KeyCount \in 0..(KeyCount - 1)
  BY <1>1
<1> QED BY <1>2 DEF NextCursor, Keys

-----------------------------------------------------------------------------
(* What every action keeps: the types, and that a key whose models are not *)
(* benched apart (an escalation of one) has no model bench at all.         *)

NoBenches ==
  Escalation = 1 => \A k \in Keys, m \in Models : pool[k].benches[m] = 0

IInv == TypeOK /\ NoBenches

LEMMA InitHolds == Init => IInv
<1> SUFFICES ASSUME Init PROVE IInv OBVIOUS
<1>1. \A k \in Keys : pool[k] = FreshSlot BY DEF Init
<1>2. FreshSlot \in Slot BY FreshType
<1>3. pool \in [Keys -> Slot] BY <1>2 DEF Init
<1>4. NoBenches BY <1>1 DEF NoBenches, FreshSlot
<1>5. 0 \in Keys /\ 0 \in 0..MaxThrottle BY FirstKey, RequestsAssumption
<1>6. TypeOK BY <1>3, <1>5 DEF Init, TypeOK, Awaiting
<1> QED BY <1>4, <1>6 DEF IInv

(* A slot changed alone, as the reports and the reset do.                  *)
LEMMA ChargedFacts ==
  ASSUME IInv, NEW k \in Keys, NEW slot \in Slot, Charged(k, slot),
         Escalation = 1 => slot.benches = pool[k].benches \/ \A m \in Models : slot.benches[m] = 0
  PROVE  pool' \in [Keys -> Slot] /\ NoBenches'
<1>1. pool \in [Keys -> Slot] BY DEF IInv, TypeOK
<1>2. \A j \in Keys : pool'[j] = IF j = k THEN slot ELSE pool[j]
  BY <1>1 DEF Charged
<1>3. pool' \in [Keys -> Slot] BY <1>1 DEF Charged
<1>4. NoBenches' BY <1>2 DEF IInv, NoBenches
<1> QED BY <1>3, <1>4

LEMMA ClearFacts ==
  ASSUME NEW s \in Slot
  PROVE  \A m \in Models : ClearBenching(s).benches[m] = 0
  BY DEF ClearBenching, FreshSlot

(* Whatever a failure does to its key.                                     *)
LEMMA ChargeFacts ==
  ASSUME IInv, NEW r \in Requests, at[r] \in Awaiting, NEW f \in Failures,
         Charge(r, f.kind, f.after)
  PROVE  pool' \in [Keys -> Slot] /\ NoBenches'
<1>1. PICK s : s = pool[key[r]] OBVIOUS
<1>2. PICK m : m = ModelOf[r] OBVIOUS
<1>3. key[r] \in Keys /\ s \in Slot /\ m \in Models
  BY <1>1, <1>2, RequestsAssumption DEF IInv, TypeOK
<1>4. f.kind = "rate_limit" => f.after \in RetryAfters
  <2>1. CASE f \in [kind : {"rate_limit"}, after : RetryAfters] BY <2>1
  <2>2. CASE f \in [kind : Kinds, after : {None}]
    <3>1. f.kind \in Kinds BY <2>2
    <3> QED BY <3>1 DEF Kinds
  <2> QED BY <2>1, <2>2 DEF Failures
<1>5. AuthFailure(s) \in Slot /\ AuthFailure(s).benches = s.benches
  BY <1>3, AuthType DEF AuthFailure, Slot
<1>6. NoteRateLimit(s, RateLimitSeconds, TRUE) \in Slot
      /\ NoteRateLimit(s, RateLimitSeconds, TRUE).benches = s.benches
  BY <1>3, SecondsType, NoteType
<1>7. f.kind = "rate_limit" =>
        /\ RateLimited(s, m, f.after) \in Slot
        /\ Escalation = 1 => RateLimited(s, m, f.after).benches = s.benches
  BY <1>3, <1>4, RateLimitedType
<1>8. PICK slot : /\ Charged(key[r], slot)
                  /\ slot = CASE f.kind = "auth" -> AuthFailure(s)
                              [] f.kind = "rate_limit" -> RateLimited(s, m, f.after)
                              [] f.kind = "quota" -> NoteRateLimit(s, RateLimitSeconds, TRUE)
                              [] OTHER -> s
  BY <1>1, <1>2 DEF Charge
<1>9. slot \in Slot /\ (Escalation = 1 => slot.benches = s.benches)
  BY <1>3, <1>5, <1>6, <1>7, <1>8
<1> QED BY <1>1, <1>3, <1>8, <1>9, ChargedFacts

LEMMA RefreshedFacts ==
  ASSUME IInv
  PROVE  /\ Refreshed(pool) \in [Keys -> Slot]
         /\ \A k \in Keys : Refreshed(pool)[k].benches = pool[k].benches
<1>1. \A k \in Keys : Awake(pool[k]) \in Slot /\ Awake(pool[k]).benches = pool[k].benches
  BY AwakeType DEF IInv, TypeOK
<1> QED BY <1>1 DEF Refreshed

LEMMA TickHolds == ASSUME IInv, Tick PROVE IInv'
<1>1. \A k \in Keys : Elapse(pool[k]) \in Slot
  BY ElapseType DEF IInv, TypeOK
<1>2. pool' \in [Keys -> Slot] BY <1>1 DEF Tick
<1>3. \A k \in Keys : Less(throttle[k]) \in 0..MaxThrottle
  <2>1. throttle \in [Keys -> 0..MaxThrottle] BY DEF IInv, TypeOK
  <2>2. \A n \in 0..MaxThrottle : Less(n) \in 0..MaxThrottle
    BY RequestsAssumption DEF Less
  <2> QED BY <2>1, <2>2
<1>4. TypeOK' BY <1>2, <1>3 DEF Tick, IInv, TypeOK
<1>5. NoBenches'
  <2>1. \A k \in Keys, m \in Models :
          pool[k].benches[m] = 0 => Elapse(pool[k]).benches[m] = 0
    <3> TAKE k \in Keys, m \in Models
    <3> HAVE pool[k].benches[m] = 0
    <3>1. pool[k] \in Slot BY DEF IInv, TypeOK
    <3>2. Elapse(pool[k]).benches = [x \in Models |-> Less(pool[k].benches[x])]
      BY <3>1 DEF Elapse, Slot
    <3> QED BY <3>2 DEF Less
  <2> QED BY <2>1 DEF Tick, IInv, NoBenches
<1> QED BY <1>4, <1>5 DEF IInv

LEMMA LimiterBlocksHolds == ASSUME IInv, NEW k \in Keys, LimiterBlocks(k) PROVE IInv'
<1>1. PICK t \in (throttle[k] + 1)..MaxThrottle : throttle' = [throttle EXCEPT ![k] = t]
  BY DEF LimiterBlocks
<1>2. throttle[k] \in Nat /\ MaxThrottle \in Nat
  <2>1. throttle \in [Keys -> 0..MaxThrottle] BY DEF IInv, TypeOK
  <2> QED BY <2>1, RequestsAssumption
<1>3. t \in 0..MaxThrottle BY <1>1, <1>2
<1>4. throttle' \in [Keys -> 0..MaxThrottle] BY <1>1, <1>3 DEF IInv, TypeOK
<1> QED BY <1>4 DEF LimiterBlocks, IInv, TypeOK, NoBenches

LEMMA ResetKeyHolds == ASSUME IInv, NEW k \in Keys, ResetKey(k) PROVE IInv'
<1>1. pool[k] \in Slot BY DEF IInv, TypeOK
<1>2. ClearBenching(pool[k]) \in Slot /\ \A m \in Models : ClearBenching(pool[k]).benches[m] = 0
  BY <1>1, ClearType, ClearFacts
<1>3. pool' \in [Keys -> Slot] /\ NoBenches'
  BY <1>2, ChargedFacts DEF ResetKey
<1> QED BY <1>3 DEF ResetKey, IInv, TypeOK

LEMMA ResetAllHolds == ASSUME IInv, ResetAll PROVE IInv'
<1>1. \A k \in Keys : RestoreAll(pool[k]) \in Slot
  BY RestoreType DEF IInv, TypeOK
<1>2. pool' \in [Keys -> Slot] BY <1>1 DEF ResetAll
<1>3. \A k \in Keys, m \in Models : pool[k].benches[m] = 0 => RestoreAll(pool[k]).benches[m] = 0
  BY DEF RestoreAll, ClearBenching, FreshSlot, IInv, TypeOK, Slot
<1>4. NoBenches' BY <1>3 DEF ResetAll, IInv, NoBenches
<1> QED BY <1>2, <1>4 DEF ResetAll, IInv, TypeOK

LEMMA PoolRefreshed ==
  ASSUME IInv, pool' = Refreshed(pool)
  PROVE  pool' \in [Keys -> Slot] /\ NoBenches'
<1>1. Refreshed(pool) \in [Keys -> Slot]
      /\ \A k \in Keys : Refreshed(pool)[k].benches = pool[k].benches
  BY RefreshedFacts
<1> QED BY <1>1 DEF IInv, NoBenches

(* What a request is offered is some credential of the pool.               *)
LEMMA OffersFacts ==
  ASSUME NEW r \in Requests
  PROVE  Offers(r) \subseteq Keys
  BY CandidatesAreKeys DEF Offers

LEMMA LoopHolds == ASSUME IInv, NEW r \in Requests, Loop(r) PROVE IInv'
<1> USE DEF IInv
<1>1. TypeOK OBVIOUS
<1>2. CASE Refuse(r)
  <2>1. pool' \in [Keys -> Slot] /\ NoBenches' BY <1>2, PoolRefreshed DEF Refuse
  <2> QED BY <1>1, <1>2, <2>1 DEF Refuse, End, TypeOK, Ended, Awaiting
<1>3. CASE Acquire(r)
  <2>1. pool' \in [Keys -> Slot] /\ NoBenches' BY <1>3, PoolRefreshed DEF Acquire
  <2>2. PICK k \in Picks(Offers(r), cursor) :
          /\ cursor' = NextCursor(k, cursor)
          /\ End(r, IF k \in attempted[r] THEN "raised" ELSE "first chunk")
          /\ key' = [key EXCEPT ![r] = IF k \in attempted[r] THEN @ ELSE k]
          /\ attempted' = [attempted EXCEPT ![r] = @ \cup {k}]
    BY <1>3 DEF Acquire
  <2>3. Picks(Offers(r), cursor) \subseteq Offers(r)
    BY <1>3, OffersFacts, PicksFacts DEF Acquire
  <2>4. k \in Keys BY <2>2, <2>3, OffersFacts
  <2>5. cursor' \in Keys BY <2>2, <2>4, NextCursorType DEF TypeOK
  <2>6. at' \in [Requests -> {"choosing"} \cup Awaiting \cup Ended]
    BY <1>1, <2>2 DEF TypeOK, End, Awaiting, Ended
  <2>7. key' \in [Requests -> Keys \cup {None}] /\ attempted' \in [Requests -> SUBSET Keys]
    BY <1>1, <2>2, <2>4 DEF TypeOK
  <2>8. \A q \in Requests : at'[q] \in Awaiting \cup {"rate limited"} => key'[q] \in attempted'[q]
    <3> TAKE q \in Requests
    <3> HAVE at'[q] \in Awaiting \cup {"rate limited"}
    <3>1. CASE q = r
      <4>1. k \notin attempted[r] BY <1>1, <2>2, <3>1 DEF End, TypeOK, Awaiting
      <4> QED BY <1>1, <2>2, <3>1, <4>1 DEF TypeOK
    <3>2. CASE q # r BY <1>1, <2>2, <3>2 DEF TypeOK, End
    <3> QED BY <3>1, <3>2
  <2> QED BY <1>1, <1>3, <2>1, <2>5, <2>6, <2>7, <2>8 DEF TypeOK, Acquire
<1>4. CASE GiveUp(r)
  BY <1>1, <1>4 DEF GiveUp, End, TypeOK, Ended, Awaiting, NoBenches
<1> QED BY <1>2, <1>3, <1>4 DEF Loop

LEMMA UpstreamHolds == ASSUME IInv, NEW r \in Requests, Upstream(r) PROVE IInv'
<1> USE DEF IInv
<1>1. TypeOK OBVIOUS
<1>2. CASE FirstChunk(r)
  BY <1>1, <1>2 DEF FirstChunk, End, TypeOK, Ended, Awaiting, NoBenches
<1>3. CASE Fail(r)
  <2>1. PICK f \in Failures : Charge(r, f.kind, f.after) /\ End(r, AfterFailure(r, f.kind))
    BY <1>3 DEF Fail
  <2>2. pool' \in [Keys -> Slot] /\ NoBenches'
    BY <1>3, <2>1, ChargeFacts DEF Fail, Awaiting
  <2>3. AfterFailure(r, f.kind) \in {"rate limited", "raised", "choosing"}
    BY DEF AfterFailure
  <2>4. key[r] \in attempted[r] BY <1>1, <1>3 DEF Fail, TypeOK, Awaiting
  <2> QED BY <1>1, <1>3, <2>1, <2>2, <2>3, <2>4 DEF Fail, End, TypeOK, Ended, Awaiting
<1>4. CASE FailMidStream(r)
  <2>1. PICK f \in Failures : Charge(r, f.kind, f.after)
    BY <1>4 DEF FailMidStream
  <2>2. pool' \in [Keys -> Slot] /\ NoBenches'
    BY <1>4, <2>1, ChargeFacts DEF FailMidStream, Awaiting
  <2> QED BY <1>1, <1>4, <2>2 DEF FailMidStream, End, TypeOK, Ended, Awaiting
<1>5. CASE Succeed(r)
  <2>1. key[r] \in Keys /\ pool[key[r]] \in Slot BY <1>1, <1>5 DEF Succeed, TypeOK
  <2>2. ClearBenching(pool[key[r]]) \in Slot
        /\ \A m \in Models : ClearBenching(pool[key[r]]).benches[m] = 0
    BY <2>1, ClearType, ClearFacts
  <2>3. pool' \in [Keys -> Slot] /\ NoBenches'
    BY <1>5, <2>1, <2>2, ChargedFacts DEF Succeed
  <2> QED BY <1>1, <1>5, <2>3 DEF Succeed, End, TypeOK, Ended, Awaiting
<1>6. CASE Disconnect(r)
  BY <1>1, <1>6 DEF Disconnect, End, TypeOK, Ended, Awaiting, NoBenches
<1> QED BY <1>2, <1>3, <1>4, <1>5, <1>6 DEF Upstream

LEMMA EscalateHolds == ASSUME IInv, NEW r \in Requests, Escalate(r) PROVE IInv'
<1> USE DEF IInv
<1>1. TypeOK OBVIOUS
<1>2. PICK after \in RetryAfters :
        Charged(key[r], NoteRateLimit(pool[key[r]], after, FALSE))
  BY DEF Escalate
<1>3. key[r] \in Keys /\ pool[key[r]] \in Slot BY <1>1 DEF Escalate, TypeOK
<1>4. Window(after) \in Nat BY WindowType
<1>5. NoteRateLimit(pool[key[r]], after, FALSE) \in Slot
      /\ NoteRateLimit(pool[key[r]], after, FALSE).benches = pool[key[r]].benches
  BY <1>3, <1>4, NoteType
<1>6. pool' \in [Keys -> Slot] /\ NoBenches'
  BY <1>2, <1>3, <1>5, ChargedFacts
<1> QED BY <1>1, <1>6 DEF Escalate, End, TypeOK, Ended, Awaiting

LEMMA StepHolds == IInv /\ [Next]_vars => IInv'
<1> SUFFICES ASSUME IInv, [Next]_vars PROVE IInv' OBVIOUS
<1>1. CASE UNCHANGED vars BY <1>1 DEF vars, IInv, TypeOK, NoBenches
<1>2. CASE Next
  BY <1>2, TickHolds, ResetAllHolds, LimiterBlocksHolds, ResetKeyHolds, LoopHolds,
     UpstreamHolds, EscalateHolds DEF Next
<1> QED BY <1>1, <1>2

LEMMA Invariance == Spec => []IInv
  BY InitHolds, StepHolds, PTL DEF Spec

(* Every request is at one of its awaits or has ended, and awaits or       *)
(* escalates only a credential that it has marked as tried: for any number *)
(* of keys, models and requests, and every policy (rotating.py).           *)
THEOREM WellTyped == Spec => []TypeOK
<1>1. IInv => TypeOK BY DEF IInv
<1> QED BY <1>1, Invariance, PTL

-----------------------------------------------------------------------------
(* When a credential may serve, read off its slot.                         *)

LEMMA SelectableFacts ==
  ASSUME TypeOK, NEW k \in Keys, NEW m \in Models
  PROVE  Selectable(Refreshed(pool)[k], m) <=> LiveDeadline(pool[k]) = 0 /\ pool[k].benches[m] = 0
<1>1. pool[k] \in Slot BY DEF TypeOK
<1>2. Refreshed(pool)[k] = Awake(pool[k]) BY DEF Refreshed
<1>3. Awake(pool[k]).benches = pool[k].benches
      /\ Awake(pool[k]).state = (IF LiveDeadline(pool[k]) = 0 THEN "healthy" ELSE pool[k].state)
  BY <1>1, AwakeType
<1>4. pool[k].state = "healthy" => LiveDeadline(pool[k]) = 0
  BY DEF LiveDeadline
<1> QED BY <1>2, <1>3, <1>4 DEF Selectable

LEMMA WaitFacts ==
  ASSUME TypeOK, NEW k \in Keys, NEW m \in Models
  PROVE  /\ Wait(k, m) \in Nat
         /\ ForcedSingle => (Wait(k, m) = 0 <=> k = 0 /\ throttle[0] = 0)
         /\ ~ForcedSingle =>
              (Wait(k, m) = 0 <=> /\ LiveDeadline(pool[k]) = 0
                                  /\ pool[k].benches[m] = 0 /\ throttle[k] = 0)
<1>1. PICK live, bench, block : /\ live = LiveDeadline(pool[k])
                                /\ bench = pool[k].benches[m] /\ block = throttle[k]
  OBVIOUS
<1>2. throttle[0] \in Nat /\ block \in Nat
  <2>1. throttle \in [Keys -> 0..MaxThrottle] BY DEF TypeOK
  <2> QED BY <1>1, <2>1, FirstKey, RequestsAssumption
<1>3. live \in Nat /\ bench \in Nat
  <2>1. pool[k] \in Slot BY DEF TypeOK
  <2> QED BY <1>1, <2>1, LiveType DEF Slot
<1>4. Max({live, bench, block}) \in Nat
      /\ (Max({live, bench, block}) = 0 <=> live = 0 /\ bench = 0 /\ block = 0)
  BY <1>2, <1>3, MaxTriple
<1>5. CASE ForcedSingle BY <1>2, <1>5 DEF Wait
<1>6. CASE ~ForcedSingle
  <2>1. Wait(k, m) = Max({live, bench, block}) BY <1>1, <1>6 DEF Wait
  <2> QED BY <1>1, <1>4, <1>6, <2>1
<1> QED BY <1>5, <1>6

(* A key that is out of the rotation has a deadline ahead.                 *)
LEMMA RemainingFacts ==
  ASSUME NEW s \in Slot, NEW m \in Models, ~Selectable(Awake(s), m)
  PROVE  LET t == Awake(s)
         IN  (IF t.state # "healthy" THEN Max({t.cooldown, t.lockout})
              ELSE IF m \in Models THEN t.benches[m] ELSE 0) \in Nat \ {0}
<1>1. PICK t : t = Awake(s) OBVIOUS
<1>2. /\ t \in Slot /\ t.benches = s.benches /\ t.cooldown = s.cooldown /\ t.lockout = s.lockout
      /\ t.state = (IF LiveDeadline(s) = 0 THEN "healthy" ELSE s.state)
  BY <1>1, AwakeType
<1>3. t.cooldown \in Nat /\ t.lockout \in Nat /\ t.benches[m] \in Nat
  BY <1>2 DEF Slot
<1>4. CASE t.state # "healthy"
  <2>1. LiveDeadline(s) # 0 /\ LiveDeadline(s) \in Nat BY <1>2, <1>4, LiveType
  <2>2. LiveDeadline(s) \in {t.cooldown, t.lockout}
    BY <1>2, <2>1 DEF LiveDeadline, Slot, States
  <2>3. Max({t.cooldown, t.lockout}) \in Nat /\ Max({t.cooldown, t.lockout}) >= t.cooldown
        /\ Max({t.cooldown, t.lockout}) >= t.lockout
    BY <1>3, MaxPair
  <2>4. Max({t.cooldown, t.lockout}) \in Nat \ {0}
    <3> DEFINE longest == Max({t.cooldown, t.lockout})
    <3>1. longest \in Nat /\ longest >= t.cooldown /\ longest >= t.lockout BY <2>3
    <3> HIDE DEF longest
    <3>2. longest \in Nat \ {0} BY <1>3, <2>1, <2>2, <3>1
    <3> QED BY <3>2 DEF longest
  <2> QED BY <1>1, <1>4, <2>4
<1>5. CASE t.state = "healthy"
  <2>1. t.benches[m] # 0 BY <1>1, <1>5 DEF Selectable
  <2> QED BY <1>1, <1>3, <1>5, <2>1
<1> QED BY <1>4, <1>5

LEMMA ZeroFacts ==
  ASSUME TypeOK, NEW m \in Models
  PROVE  ThrottleRemaining(m) = 0 <=> \E k \in Keys : Wait(k, m) = 0
<1> DEFINE ready == SelectableIndexes(pool, m)
           times == {throttle[k] : k \in ready}
<1>1. \A k \in Keys : throttle[k] \in Nat
  <2>1. throttle \in [Keys -> 0..MaxThrottle] BY DEF TypeOK
  <2> QED BY <2>1, RequestsAssumption
<1>2. ready \subseteq Keys BY FirstKey DEF SelectableIndexes
<1>3. CASE ready = {}
  <2>1. ~ForcedSingle BY <1>3 DEF SelectableIndexes
  <2>2. \A k \in Keys : ~Selectable(Refreshed(pool)[k], m)
    BY <1>3, <2>1 DEF SelectableIndexes
  <2>3. \A k \in Keys : Wait(k, m) # 0
    BY <2>1, <2>2, SelectableFacts, WaitFacts
  <2> DEFINE Remaining(s) == IF s.state # "healthy" THEN Max({s.cooldown, s.lockout})
                             ELSE IF m \in Models THEN s.benches[m] ELSE 0
             positives == {Remaining(Refreshed(pool)[k]) : k \in Keys} \ {0}
  <2>4. \A k \in Keys : Remaining(Refreshed(pool)[k]) \in Nat \ {0}
    <3> TAKE k \in Keys
    <3>1. pool[k] \in Slot /\ Refreshed(pool)[k] = Awake(pool[k]) BY DEF TypeOK, Refreshed
    <3> QED BY <2>2, <3>1, RemainingFacts
  <2>5. ThrottleRemaining(m) = IF positives = {} THEN 0 ELSE Min(positives)
    BY <1>3 DEF ThrottleRemaining, ShortestBenchRemaining
  <2>6. positives \subseteq Nat \ {0} /\ positives # {}
    <3> HIDE DEF Remaining
    <3> QED BY <2>4, FirstKey
  <2> HIDE DEF positives
  <2>7. Min(positives) \in positives BY <2>6, MinFacts
  <2> QED BY <2>3, <2>5, <2>6, <2>7
<1>4. CASE ready # {}
  <2>1. times \subseteq Nat /\ times # {} BY <1>1, <1>2, <1>4
  <2>2. ThrottleRemaining(m) = Min(times) BY <1>4 DEF ThrottleRemaining
  <2>3. Min(times) = 0 <=> \E k \in ready : throttle[k] = 0
    <3>1. Min(times) \in times /\ \A n \in times : Min(times) <= n
      <4> HIDE DEF times
      <4> QED BY <2>1, MinFacts
    <3>2. ASSUME Min(times) = 0 PROVE \E k \in ready : throttle[k] = 0 BY <3>1, <3>2
    <3>3. ASSUME NEW k \in ready, throttle[k] = 0 PROVE Min(times) = 0
      <4>1. 0 \in times BY <3>3
      <4> HIDE DEF times
      <4>2. Min(times) \in Nat /\ Min(times) <= 0 BY <2>1, <3>1, <4>1
      <4> QED BY <4>2
    <3> QED BY <3>2, <3>3
  <2>4. CASE ForcedSingle
    <3>1. ready = {0} BY <2>4 DEF SelectableIndexes
    <3>2. \A k \in Keys : Wait(k, m) = 0 <=> k = 0 /\ throttle[0] = 0 BY <2>4, WaitFacts
    <3> QED BY <2>2, <2>3, <3>1, <3>2, FirstKey
  <2>5. CASE ~ForcedSingle
    <3>1. ready = {k \in Keys : Selectable(Refreshed(pool)[k], m)} BY <2>5 DEF SelectableIndexes
    <3>2. \A k \in Keys : Wait(k, m) = 0 <=> k \in ready /\ throttle[k] = 0
      BY <2>5, <3>1, SelectableFacts, WaitFacts
    <3> QED BY <1>2, <2>2, <2>3, <3>2
  <2> QED BY <2>4, <2>5
<1> QED BY <1>3, <1>4

(* throttle_remaining is 0 exactly when some credential can serve the      *)
(* model now (providers/runtime/rotating.py, throttle_remaining): routing  *)
(* neither steps over a pool that could serve nor pays for one that cannot.*)
THEOREM FreeIsServed == Spec => []ZeroMeansFree
<1>1. TypeOK => ZeroMeansFree BY ZeroFacts DEF ZeroMeansFree
<1> QED BY <1>1, WellTyped, PTL

-----------------------------------------------------------------------------
(* Steps of one request leave the others where they are.                   *)

LEMMA WhoMoved ==
  ASSUME TypeOK, [Next]_vars, NEW r \in Requests, at'[r] # at[r]
  PROVE  Loop(r) \/ Upstream(r) \/ Escalate(r)
<1>1. Next BY DEF vars
<1>2. CASE Tick \/ ResetAll \/ \E k \in Keys : LimiterBlocks(k) \/ ResetKey(k)
  BY <1>2 DEF Tick, ResetAll, LimiterBlocks, ResetKey
<1>3. CASE \E q \in Requests : Loop(q) \/ Upstream(q) \/ Escalate(q)
  <2>1. PICK q \in Requests : Loop(q) \/ Upstream(q) \/ Escalate(q) BY <1>3
  <2>2. \E how : at' = [at EXCEPT ![q] = how]
    BY <2>1 DEF Loop, Refuse, Acquire, GiveUp, Upstream, FirstChunk, Fail, FailMidStream,
                Succeed, Disconnect, Escalate, End
  <2>3. q = r BY <2>2 DEF TypeOK
  <2> QED BY <2>1, <2>3
<1> QED BY <1>1, <1>2, <1>3 DEF Next

(* Nothing that is not avoided is on offer: every credential that may not  *)
(* be handed out has a wait.                                               *)
LEMMA NothingFree ==
  ASSUME TypeOK, NEW r \in Requests, NEW k \in Keys, k \notin attempted[r], ~ForcedSingle,
         Candidates(pool, Avoided(r), ModelOf[r]) = {}
  PROVE  Wait(k, ModelOf[r]) > 0
<1>1. PICK m : m = ModelOf[r] OBVIOUS
<1>2. m \in Models BY <1>1, RequestsAssumption
<1>3. CASE k \in Avoided(r)
  <2>1. pool[k].benches[m] > 0 \/ throttle[k] > 0 BY <1>1, <1>3 DEF Avoided
  <2>2. Wait(k, m) # 0 /\ Wait(k, m) \in Nat BY <1>2, <2>1, WaitFacts
  <2> QED BY <1>1, <2>2
<1>4. CASE k \notin Avoided(r)
  <2>1. ~Selectable(Refreshed(pool)[k], m) BY <1>1, <1>4 DEF Candidates
  <2>2. Wait(k, m) # 0 /\ Wait(k, m) \in Nat BY <1>2, <2>1, SelectableFacts, WaitFacts
  <2> QED BY <1>1, <2>2
<1> QED BY <1>3, <1>4

LEMMA GivesUpStep ==
  ASSUME TypeOK, [Next]_vars, NEW r \in Requests,
         at[r] = "choosing", at'[r] \in {"raised", "unavailable"}, ~ForcedSingle,
         NEW k \in Keys \ attempted[r]
  PROVE  Wait(k, ModelOf[r]) > 0
<1>1. Loop(r)
  <2>1. Loop(r) \/ Upstream(r) \/ Escalate(r) BY WhoMoved
  <2> QED BY <2>1 DEF Upstream, FirstChunk, Fail, FailMidStream, Succeed, Disconnect,
                      Escalate, Awaiting
<1> DEFINE preferred == Candidates(pool, Avoided(r), ModelOf[r])
<1>2. CASE Refuse(r)
  <2>1. preferred = {} BY <1>2 DEF Refuse, Offers
  <2> QED BY <2>1, NothingFree
<1>3. CASE Acquire(r)
  <2>1. PICK j \in Picks(Offers(r), cursor) :
          End(r, IF j \in attempted[r] THEN "raised" ELSE "first chunk")
    BY <1>3 DEF Acquire
  <2>2. j \in attempted[r] BY <2>1 DEF End, TypeOK
  <2>3. j \in Offers(r) BY <1>3, OffersFacts, PicksFacts DEF Acquire
  <2>4. ASSUME preferred # {} PROVE FALSE
    <3>1. j \in preferred BY <2>3, <2>4 DEF Offers
    <3>2. j \notin Avoided(r) BY <3>1 DEF Candidates
    <3>3. j \in Keys BY <3>1, CandidatesAreKeys
    <3> QED BY <2>2, <3>2, <3>3 DEF Avoided
  <2> QED BY <2>4, NothingFree
<1>4. CASE GiveUp(r) BY <1>4 DEF GiveUp
<1> QED BY <1>1, <1>2, <1>3, <1>4 DEF Loop

(* A request that failed gives up only when every credential it has not    *)
(* tried has a wait before it (rotating.py, the loop over acquire).        *)
THEOREM LastResort == Spec => GivesUpLast
<1>1. TypeOK /\ [Next]_vars =>
        [\A r \in Requests : at[r] = "choosing" /\ at'[r] \in {"raised", "unavailable"} =>
           \/ ForcedSingle
           \/ \A k \in Keys \ attempted[r] : Wait(k, ModelOf[r]) > 0]_vars
  BY GivesUpStep
<1> QED BY <1>1, WellTyped, PTL DEF Spec, GivesUpLast

LEMMA EscalatesStep ==
  ASSUME IInv, [Next]_vars, NEW k \in Keys, NEW r \in Requests,
         at[r] \in Awaiting, at'[r] # at[r], key[r] = k,
         pool[k].state = "healthy", pool'[k].state = "cooldown", ~pool'[k].credits
  PROVE  LET refused == {m \in Models : pool'[k].benches[m] > 0} \cup {ModelOf[r]}
         IN  /\ Escalation \in 1..Cardinality(refused)
             /\ \A m \in Models : pool'[k].benches[m] <= pool'[k].cooldown
<1>1. Upstream(r)
  <2>1. Loop(r) \/ Upstream(r) \/ Escalate(r) BY WhoMoved DEF IInv
  <2> QED BY <2>1 DEF Loop, Refuse, Acquire, GiveUp, Escalate, Awaiting
<1>2. PICK s : s = pool[k] OBVIOUS
<1>3. PICK m : m = ModelOf[r] OBVIOUS
<1>4. s \in Slot /\ m \in Models /\ pool \in [Keys -> Slot]
  BY <1>2, <1>3, RequestsAssumption DEF IInv, TypeOK
<1>5. PICK f \in Failures : Charge(r, f.kind, f.after)
  <2>1. Fail(r) \/ FailMidStream(r)
    <3>1. CASE FirstChunk(r) \/ Disconnect(r)
      BY <3>1 DEF FirstChunk, Disconnect
    <3>2. CASE Succeed(r)
      <4>1. pool'[k] = ClearBenching(s) BY <1>2, <1>4, <3>2 DEF Succeed, Charged
      <4> QED BY <4>1 DEF ClearBenching, FreshSlot
    <3> QED BY <1>1, <3>1, <3>2 DEF Upstream
  <2> QED BY <2>1 DEF Fail, FailMidStream
<1>6. f.kind = "rate_limit" => f.after \in RetryAfters
  <2>1. CASE f \in [kind : {"rate_limit"}, after : RetryAfters] BY <2>1
  <2>2. CASE f \in [kind : Kinds, after : {None}]
    <3>1. f.kind \in Kinds BY <2>2
    <3> QED BY <3>1 DEF Kinds
  <2> QED BY <2>1, <2>2 DEF Failures
<1>7. pool'[k] = CASE f.kind = "auth" -> AuthFailure(s)
                   [] f.kind = "rate_limit" -> RateLimited(s, m, f.after)
                   [] f.kind = "quota" -> NoteRateLimit(s, RateLimitSeconds, TRUE)
                   [] OTHER -> s
  BY <1>2, <1>3, <1>4, <1>5 DEF Charge, Charged
<1>8. f.kind = "rate_limit" /\ pool'[k] = RateLimited(s, m, f.after)
  <2>1. ASSUME f.kind = "auth" PROVE FALSE
    <3>1. AuthFailure(s).state = "locked_out" BY <1>4 DEF AuthFailure, Slot
    <3> QED BY <1>7, <2>1, <3>1
  <2>2. ASSUME f.kind = "quota" PROVE FALSE
    <3>1. NoteRateLimit(s, RateLimitSeconds, TRUE).credits = TRUE
      BY <1>4, SecondsType, NoteType
    <3> QED BY <1>7, <2>2, <3>1
  <2> QED BY <1>2, <1>7, <2>1, <2>2
<1>9. PICK t : t = pool'[k] OBVIOUS
<1>10. /\ t \in Slot /\ (Escalation = 1 => t.benches = s.benches)
       /\ \/ Escalation = 1
          \/ Escalation \in 1..Cardinality(RefusedOn(t, m)) /\ OutlastsBenches(t)
  BY <1>2, <1>4, <1>6, <1>8, <1>9, RateLimitedFacts
<1>11. CASE Escalation = 1
  <2> DEFINE refused == {x \in Models : t.benches[x] > 0} \cup {m}
  <2>1. refused \subseteq Models /\ m \in refused BY <1>4
  <2>2. IsFiniteSet(refused) /\ Cardinality(refused) \in Nat
    BY <2>1, PoolAssumption, FS_Subset, FS_CardinalityType
  <2>3. Cardinality(refused) # 0
    <3> HIDE DEF refused
    <3> QED BY <2>1, <2>2, FS_EmptySet
  <2>4. \A x \in Models : t.benches[x] = 0
    BY <1>2, <1>10, <1>11 DEF IInv, NoBenches
  <2>5. t.cooldown \in Nat BY <1>10 DEF Slot
  <2>6. Escalation \in 1..Cardinality(refused)
    <3> HIDE DEF refused
    <3> QED BY <1>11, <2>2, <2>3
  <2>7. \A x \in Models : t.benches[x] <= t.cooldown BY <2>4, <2>5
  <2> QED BY <1>3, <1>9, <2>6, <2>7
<1>12. CASE Escalation # 1
  BY <1>3, <1>9, <1>10, <1>12 DEF RefusedOn, OutlastsBenches
<1> QED BY <1>11, <1>12

(* Where neither credits nor a probe speaks of the key, a key goes out as  *)
(* a whole only once as many models as configured were refused on it, and  *)
(* no bench outlasts it (credential_rotation.py, _fixed_rate_window).      *)
THEOREM KeyOutOnEvidence == Spec => EscalatesWhole
<1>1. IInv /\ [Next]_vars =>
        [\A k \in Keys, r \in Requests :
           /\ at[r] \in Awaiting /\ at'[r] # at[r] /\ key[r] = k
           /\ pool[k].state = "healthy" /\ pool'[k].state = "cooldown" /\ ~pool'[k].credits
           => LET refused == {m \in Models : pool'[k].benches[m] > 0} \cup {ModelOf[r]}
              IN  /\ Escalation \in 1..Cardinality(refused)
                  /\ \A m \in Models : pool'[k].benches[m] <= pool'[k].cooldown]_vars
  BY EscalatesStep
<1> QED BY <1>1, Invariance, PTL DEF Spec, EscalatesWhole
=============================================================================
