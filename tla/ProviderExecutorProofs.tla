----------------------- MODULE ProviderExecutorProofs -----------------------
(***************************************************************************)
(* What one request may promise whatever its providers do: for any route,  *)
(* any settings, any number of requests and any behaviour of the others.   *)
(***************************************************************************)
EXTENDS ProviderExecutor, WellFoundedInduction, TLAPS

(* The least-number principle in first-order form.                         *)
LEMMA LeastNatural ==
  ASSUME NEW T, T \subseteq Nat, T # {}
  PROVE  \E x \in T : \A y \in T : x <= y
<1>1. IsWellFoundedOn(OpToRel(<, Nat), Nat)
  BY NatLessThanWellFounded
<1>2. \E x \in T : \A y \in T : <<y, x>> \notin OpToRel(<, Nat)
  BY <1>1, WFMin
<1>3. \A x, y \in Nat : <<y, x>> \in OpToRel(<, Nat) <=> y < x
  BY DEF OpToRel
<1>4. \A x, y \in Nat : ~(y < x) => x <= y
  OBVIOUS
<1> QED
  BY <1>2, <1>3, <1>4

-----------------------------------------------------------------------------
(* Kept: the recursion has a solution, and what it leaves is what is       *)
(* wanted, in its order.                                                   *)

Ran(s) == {s[i] : i \in 1..Len(s)}

(* The models of s in the order of the route.                              *)
Ordered(s) == \A i, j \in 1..Len(s) : i < j => IndexOf(s[i]) < IndexOf(s[j])

Keeping(f, s, wanted, n) ==
  f = [i \in 0..n |-> IF i = 0 THEN << >>
                      ELSE IF s[i] \in wanted THEN Append(f[i - 1], s[i]) ELSE f[i - 1]]

LEMMA KeepingExists ==
  ASSUME NEW P, NEW s \in Seq(P), NEW wanted, NEW n \in 0..Len(s)
  PROVE  \E f : Keeping(f, s, wanted, n)
<1> DEFINE Bad == {m \in 0..Len(s) : ~ \E f : Keeping(f, s, wanted, m)}
<1>1. SUFFICES ASSUME Bad # {} PROVE FALSE
  OBVIOUS
<1>2. PICK m \in Bad : \A k \in Bad : m <= k
  <2>1. Bad \subseteq Nat
    OBVIOUS
  <2> HIDE DEF Bad
  <2> QED BY <1>1, <2>1, LeastNatural
<1>3. CASE m = 0
  <2> DEFINE f == [i \in 0..0 |-> << >>]
  <2>1. Keeping(f, s, wanted, 0)
    BY DEF Keeping
  <2> QED BY <2>1, <1>3
<1>4. CASE m # 0
  <2>1. m - 1 \in 0..Len(s) /\ m \in 1..Len(s)
    BY <1>4
  <2>2. m - 1 \notin Bad
    BY <1>2, <2>1
  <2>3. PICK f : Keeping(f, s, wanted, m - 1)
    BY <2>1, <2>2
  <2> DEFINE last == IF s[m] \in wanted THEN Append(f[m - 1], s[m]) ELSE f[m - 1]
             g == [i \in 0..m |-> IF i = m THEN last ELSE f[i]]
  <2>4. ASSUME NEW i \in 0..m
        PROVE  g[i] = IF i = 0 THEN << >>
                      ELSE IF s[i] \in wanted THEN Append(g[i - 1], s[i]) ELSE g[i - 1]
    <3>1. CASE i = m
      <4>1. g[i - 1] = f[m - 1] /\ g[i] = last BY <3>1, <2>1
      <4> QED BY <4>1, <3>1, <1>4
    <3>2. CASE i # m
      <4>1. i \in 0..m-1 BY <3>2, <2>1
      <4>2. g[i] = f[i] /\ (i # 0 => g[i - 1] = f[i - 1]) BY <3>2, <4>1, <2>1
      <4>3. f[i] = IF i = 0 THEN << >>
                   ELSE IF s[i] \in wanted THEN Append(f[i - 1], s[i]) ELSE f[i - 1]
        BY <2>3, <4>1 DEF Keeping
      <4> QED BY <4>2, <4>3
    <3> QED BY <3>1, <3>2
  <2>5. Keeping(g, s, wanted, m)
    <3> HIDE DEF last
    <3>1. g = [i \in 0..m |-> g[i]] OBVIOUS
    <3> HIDE DEF g
    <3> QED BY <2>4, <3>1 DEF Keeping
  <2> QED BY <2>5
<1> QED BY <1>3, <1>4

LEMMA KeptProperties ==
  ASSUME NEW P, NEW s \in Seq(P), NEW wanted
  PROVE  /\ Kept(s, wanted) \in Seq(P)
         /\ Ran(Kept(s, wanted)) = Ran(s) \cap wanted
         /\ Ordered(s) => Ordered(Kept(s, wanted))
<1>1. PICK f : Keeping(f, s, wanted, Len(s)) /\ Kept(s, wanted) = f[Len(s)]
  <2> DEFINE f == CHOOSE f : Keeping(f, s, wanted, Len(s))
  <2>1. Keeping(f, s, wanted, Len(s))
    <3>1. Len(s) \in 0..Len(s) OBVIOUS
    <3> QED BY <3>1, KeepingExists
  <2>2. Kept(s, wanted) = f[Len(s)]
    BY DEF Kept, Keeping
  <2> QED BY <2>1, <2>2
<1>2. /\ f[0] = << >>
      /\ \A i \in 1..Len(s) :
           f[i] = IF s[i] \in wanted THEN Append(f[i - 1], s[i]) ELSE f[i - 1]
  <2>1. \A i \in 0..Len(s) :
          f[i] = IF i = 0 THEN << >>
                 ELSE IF s[i] \in wanted THEN Append(f[i - 1], s[i]) ELSE f[i - 1]
    BY <1>1 DEF Keeping
  <2> QED BY <2>1
<1> DEFINE Good(i) == /\ f[i] \in Seq(P)
                      /\ \A x : x \in Ran(f[i]) <=> x \in wanted /\ \E j \in 1..i : s[j] = x
                      /\ Ordered(s) => Ordered(f[i])
           Bad == {i \in 0..Len(s) : ~Good(i)}
<1>3. ASSUME Bad # {} PROVE FALSE
  <2>1. PICK m \in Bad : \A k \in Bad : m <= k
    <3>1. Bad \subseteq Nat
      OBVIOUS
    <3> HIDE DEF Bad
    <3> QED BY <1>3, <3>1, LeastNatural
  <2>2. CASE m = 0
    <3>1. Good(0) BY <1>2 DEF Ran, Ordered
    <3> QED BY <3>1, <2>2
  <2>3. CASE m # 0
    <3>1. m - 1 \in 0..Len(s) /\ m \in 1..Len(s) /\ s[m] \in P
      BY <2>3
    <3>2. Good(m - 1)
      <4>1. m - 1 \notin Bad
        <5>1. ~(m <= m - 1) BY <3>1
        <5> HIDE DEF Bad
        <5> QED BY <2>1, <5>1
      <4> QED BY <4>1, <3>1
    <3>3. 1..m = (1..m-1) \cup {m} BY <3>1
    <3>4. CASE s[m] \notin wanted
      <4>1. f[m] = f[m - 1] BY <1>2, <3>1, <3>4
      <4>2. \A x : x \in wanted => ((\E j \in 1..m : s[j] = x) <=> \E j \in 1..m-1 : s[j] = x)
        BY <3>3, <3>4
      <4> QED BY <4>1, <4>2, <3>2
    <3>5. CASE s[m] \in wanted
      <4>1. f[m] = Append(f[m - 1], s[m]) BY <1>2, <3>1, <3>5
      <4>2. /\ f[m] \in Seq(P) /\ Len(f[m]) = Len(f[m - 1]) + 1
            /\ \A j \in 1..Len(f[m - 1]) : f[m][j] = f[m - 1][j]
            /\ f[m][Len(f[m])] = s[m]
        BY <4>1, <3>1, <3>2
      <4>3. 1..Len(f[m]) = (1..Len(f[m - 1])) \cup {Len(f[m])} /\ Len(f[m - 1]) \in Nat
        BY <4>2, <3>2
      <4>4. \A x : x \in Ran(f[m]) <=> x \in Ran(f[m - 1]) \/ x = s[m]
        BY <4>2, <4>3 DEF Ran
      <4>5. \A x : x \in Ran(f[m]) <=> x \in wanted /\ \E j \in 1..m : s[j] = x
        BY <3>2, <3>3, <3>5, <4>4
      <4>6. ASSUME Ordered(s) PROVE Ordered(f[m])
        <5>1. ASSUME NEW i \in 1..Len(f[m]), NEW j \in 1..Len(f[m]), i < j
              PROVE  IndexOf(f[m][i]) < IndexOf(f[m][j])
          <6>1. i \in 1..Len(f[m - 1]) BY <5>1, <4>2, <4>3
          <6>2. CASE j \in 1..Len(f[m - 1])
            BY <6>1, <6>2, <5>1, <4>2, <4>6, <3>2 DEF Ordered
          <6>3. CASE j = Len(f[m])
            <7>1. f[m][i] \in Ran(f[m - 1]) BY <6>1, <4>2 DEF Ran
            <7>2. PICK k \in 1..m-1 : s[k] = f[m][i] BY <7>1, <3>2
            <7>3. k \in 1..Len(s) /\ k < m BY <7>2, <3>1
            <7> QED BY <7>2, <7>3, <6>3, <4>2, <4>6, <3>1 DEF Ordered
          <6> QED BY <6>2, <6>3, <5>1, <4>3
        <5> QED BY <5>1 DEF Ordered
      <4> QED BY <4>2, <4>5, <4>6
    <3> QED BY <3>4, <3>5
  <2> QED BY <2>2, <2>3
<1>4. Good(Len(s))
  <2>1. Len(s) \in 0..Len(s) OBVIOUS
  <2> QED BY <2>1, <1>3
<1> QED BY <1>1, <1>4 DEF Ran

-----------------------------------------------------------------------------
(* The order of a request: the models of the route, none that is paused,   *)
(* and none at all only when every one is paused.                          *)

LEMMA RouteFacts ==
  /\ Route \in Seq(Models) /\ Ran(Route) = Models /\ Ordered(Route)
  /\ \A i \in 1..Len(Route) : IndexOf(Route[i]) = i
  /\ \A m \in Models : IndexOf(m) \in 1..Len(Route) /\ Route[IndexOf(m)] = m
<1>1. Ran(Route) = Models BY DEF Ran, Models
<1>2. \A i \in 1..Len(Route) : IndexOf(Route[i]) = i
  <2> TAKE i \in 1..Len(Route)
  <2>1. \E j \in 1..Len(Route) : Route[j] = Route[i] OBVIOUS
  <2>2. IndexOf(Route[i]) \in 1..Len(Route) /\ Route[IndexOf(Route[i])] = Route[i]
    BY <2>1 DEF IndexOf
  <2> QED BY <2>2, RouteAssumption
<1>3. \A m \in Models : IndexOf(m) \in 1..Len(Route) /\ Route[IndexOf(m)] = m
  BY <1>2 DEF Models
<1>4. Ordered(Route) BY <1>2 DEF Ordered
<1> QED BY <1>1, <1>2, <1>3, <1>4, RouteAssumption

LEMMA UsableFacts ==
  ASSUME NEW h, NEW mode, NEW out, NEW limited, NEW ord,
         ord = UsableIndexes(h, mode, out, limited)
  PROVE  /\ ord \in Seq(Models) /\ Ordered(ord) /\ Ran(ord) \cap out = {}
         /\ ord = << >> => Models \subseteq out
<1>1. /\ Live(out) \in Seq(Models) /\ Ordered(Live(out))
      /\ Ran(Live(out)) = Models \ out
  BY RouteFacts, KeptProperties DEF Live
<1>2. Live(out) = << >> => Models \subseteq out
  <2>1. Ran(<< >>) = {} BY DEF Ran
  <2> QED BY <1>1, <2>1
<1>3. PICK open : open = Kept(Live(out), Open(h, mode, limited)) OBVIOUS
<1>4. open \in Seq(Models) /\ Ordered(open) /\ Ran(open) \subseteq Ran(Live(out))
  BY <1>1, <1>3, KeptProperties
<1>5. ord = IF mode = "off" \/ open = << >> THEN Live(out) ELSE open
  BY <1>3 DEF UsableIndexes
<1> QED BY <1>1, <1>2, <1>4, <1>5

-----------------------------------------------------------------------------
(* What the registry keeps of a model stays well formed.                   *)

Outcomes == UNION {[1..k -> BOOLEAN] : k \in 0..EjectWindow}

LEMMA OutcomesFacts ==
  \A o : o \in Outcomes <=> o \in Seq(BOOLEAN) /\ Len(o) <= EjectWindow
<1>1. EjectWindow \in Nat BY BenchAssumption
<1>2. ASSUME NEW o \in Outcomes PROVE o \in Seq(BOOLEAN) /\ Len(o) <= EjectWindow
  <2>1. PICK k \in 0..EjectWindow : o \in [1..k -> BOOLEAN] BY <1>2 DEF Outcomes
  <2>2. k \in Nat /\ k <= EjectWindow BY <2>1, <1>1
  <2>3. o \in Seq(BOOLEAN) /\ Len(o) = k BY <2>1, <2>2
  <2> QED BY <2>2, <2>3
<1>3. ASSUME NEW o \in Seq(BOOLEAN), Len(o) <= EjectWindow PROVE o \in Outcomes
  <2>1. Len(o) \in 0..EjectWindow /\ o \in [1..Len(o) -> BOOLEAN] BY <1>3, <1>1
  <2> QED BY <2>1 DEF Outcomes
<1> QED BY <1>2, <1>3

LEMMA TrimType ==
  ASSUME NEW a \in Seq(BOOLEAN), Len(a) <= EjectWindow + 1
  PROVE  Trim(a) \in Outcomes
<1>1. EjectWindow \in Nat \ {0} /\ Len(a) \in Nat
  BY BenchAssumption
<1>2. CASE Len(a) > EjectWindow
  <2>1. Tail(a) \in Seq(BOOLEAN) /\ Len(Tail(a)) = Len(a) - 1 BY <1>1, <1>2
  <2>2. Len(Tail(a)) <= EjectWindow BY <1>1, <2>1
  <2>3. Tail(a) \in Outcomes BY <2>1, <2>2, OutcomesFacts
  <2> QED BY <1>2, <2>3 DEF Trim
<1>3. CASE ~(Len(a) > EjectWindow)
  <2>1. a \in Outcomes BY <1>1, <1>3, OutcomesFacts
  <2> QED BY <1>3, <2>1 DEF Trim
<1> QED BY <1>2, <1>3

LEMMA TrimmedType ==
  ASSUME NEW o \in Outcomes, NEW b \in BOOLEAN
  PROVE  Trim(Append(o, b)) \in Outcomes
<1>1. o \in Seq(BOOLEAN) /\ Len(o) <= EjectWindow /\ Len(o) \in Nat /\ EjectWindow \in Nat
  BY OutcomesFacts, BenchAssumption
<1>2. Append(o, b) \in Seq(BOOLEAN) /\ Len(Append(o, b)) <= EjectWindow + 1
  BY <1>1
<1> QED BY <1>2, TrimType

LEMMA NoOutcomes == << >> \in Outcomes
<1>1. << >> \in Seq(BOOLEAN) /\ Len(<< >>) = 0 OBVIOUS
<1>2. 0 <= EjectWindow BY BenchAssumption
<1> QED BY <1>1, <1>2, OutcomesFacts

LEMMA HealthFacts ==
  ASSUME NEW h \in ModelHealth
  PROVE  /\ h \in [known : BOOLEAN, streak : 0..EjectAfter, outcomes : Outcomes, bench : Benches]
         /\ Read(h) \in ModelHealth
         /\ \A mode : Succeeded(h, mode) \in ModelHealth
         /\ \A mode, kind : RecordFailure(h, mode, kind) \in ModelHealth
         /\ [h EXCEPT !.bench = "over"] \in ModelHealth
<1> DEFINE Records == [known : BOOLEAN, streak : 0..EjectAfter, outcomes : Outcomes, bench : Benches]
<1>1. ModelHealth = Records BY DEF ModelHealth, Outcomes
<1>2. << >> \in Outcomes BY NoOutcomes
<1>3. EjectAfter \in Nat \ {0} /\ 0 \in 0..EjectAfter BY BenchAssumption
<1>4. h \in Records BY <1>1
<1>5. Read(h) \in Records
  <2>1. [h EXCEPT !.streak = 0, !.outcomes = << >>, !.bench = "none"] \in Records
    BY <1>2, <1>3, <1>4 DEF Benches
  <2> QED BY <1>4, <2>1 DEF Read
<1>6. ASSUME NEW mode PROVE Succeeded(h, mode) \in Records
  <2>1. PICK o : o = Trim(Append(h.outcomes, TRUE)) OBVIOUS
  <2>2. o \in Outcomes BY <2>1, <1>4, TrimmedType
  <2>3. [h EXCEPT !.streak = 0, !.bench = "none"] \in Records
    BY <1>3, <1>4 DEF Benches
  <2>4. [h EXCEPT !.outcomes = o] \in Records BY <1>4, <2>2
  <2> HIDE DEF Records
  <2> QED BY <2>1, <2>3, <2>4, <1>4 DEF Succeeded
<1>7. ASSUME NEW mode, NEW kind PROVE RecordFailure(h, mode, kind) \in Records
  <2>1. FailedInARow(h) \in Records
    <3>1. h.streak \in 0..EjectAfter BY <1>4
    <3>2. PICK n : n = IF h.streak < EjectAfter THEN h.streak + 1 ELSE EjectAfter OBVIOUS
    <3>3. n \in 0..EjectAfter BY <1>3, <3>1, <3>2
    <3>4. FailedInARow(h) = [h EXCEPT !.known = TRUE, !.streak = n,
                                      !.bench = IF n = EjectAfter THEN "on" ELSE h.bench]
      BY <3>2 DEF FailedInARow
    <3> QED BY <3>3, <3>4, <1>4 DEF Benches
  <2>2. FailedInWindow(h) \in Records
    <3>1. PICK o : o = Trim(Append(h.outcomes, FALSE)) OBVIOUS
    <3>2. o \in Outcomes BY <3>1, <1>4, TrimmedType
    <3>3. FailedInWindow(h) = [h EXCEPT !.known = TRUE, !.outcomes = o,
                                        !.bench = IF Failing(o) THEN "on" ELSE h.bench]
      BY <3>1 DEF FailedInWindow
    <3> QED BY <3>2, <3>3, <1>4 DEF Benches
  <2> QED BY <1>4, <2>1, <2>2 DEF RecordFailure
<1>8. [h EXCEPT !.bench = "over"] \in Records BY <1>4 DEF Benches
<1> QED BY <1>1, <1>4, <1>5, <1>6, <1>7, <1>8

LEMMA UnknownType == Unknown \in ModelHealth
<1>1. << >> \in Outcomes BY NoOutcomes
<1>2. 0 \in 0..EjectAfter BY BenchAssumption
<1> QED BY <1>1, <1>2 DEF Unknown, ModelHealth, Outcomes, Benches

-----------------------------------------------------------------------------
(* One walk over candidate positions (_prepare_from).                      *)

WalkState == [to : Nat, ended : BOOLEAN, left : Nat, rows : [Models -> Verdicts],
              started : SUBSET Models, health : [Models -> ModelHealth]]

Passed == {"failed", "cooldown"}

(* What a walk from st over the positions cs of ord may leave: it reaches  *)
(* one of them past candidates that failed or cool, or ends the route, or  *)
(* is through with all of them, or found no time left.  What lies before   *)
(* all of them keeps its row, the first of them is not written off, and a  *)
(* failure is written only of what was started.                            *)
Walked(st, ord, cs, r) ==
  /\ r \in WalkState /\ r.left = st.left
  /\ st.started \subseteq r.started /\ r.started \subseteq st.started \cup Ran(ord)
  /\ \A m \in Models :
       /\ r.rows[m] \in {st.rows[m], "failed", "cooldown", "route_ended", "out_of_time"}
       /\ m \notin Ran(ord) => r.rows[m] \in {st.rows[m], "route_ended"}
       /\ r.rows[m] = "failed" => st.rows[m] = "failed" \/ m \in r.started
       /\ r.rows[m] = "out_of_time" =>
            st.rows[m] = "out_of_time" \/ (st.left = 0 /\ \E p \in cs[1]..Len(ord) : m = ord[p])
  /\ \A k \in 1..Len(ord) :
       /\ (\A i \in 1..Len(cs) : k < cs[i]) => r.rows[ord[k]] = st.rows[ord[k]]
       /\ (\A i \in 1..Len(cs) : k <= cs[i]) =>
            r.rows[ord[k]] \in {st.rows[ord[k]], "out_of_time"} \cup Passed
  /\ r.to # 0 =>
       /\ st.left # 0 /\ ~r.ended /\ ord[r.to] \in r.started
       /\ \A m \in Models : r.rows[m] \in {st.rows[m]} \cup Passed
       /\ \E s \in 1..Len(cs) : /\ cs[s] = r.to
                                /\ \A i \in 1..s-1 : r.rows[ord[cs[i]]] \in Passed
  /\ r.to = 0 /\ ~r.ended =>
       \/ \A i \in 1..Len(cs) : r.rows[ord[cs[i]]] \in Passed
       \/ cs # << >> /\ st.left = 0 /\ \A p \in cs[1]..Len(ord) : r.rows[ord[p]] = "out_of_time"

LEMMA OrderedInjective ==
  ASSUME NEW ord \in Seq(Models), Ordered(ord)
  PROVE  \A i, j \in 1..Len(ord) : /\ ord[i] = ord[j] => i = j
                                   /\ i <= j => ~(IndexOf(ord[i]) > IndexOf(ord[j]))
<1> TAKE i, j \in 1..Len(ord)
<1>1. IndexOf(ord[i]) \in Nat /\ IndexOf(ord[j]) \in Nat
  <2>1. \A m \in Models : IndexOf(m) \in Nat BY RouteFacts
  <2> QED BY <2>1
<1>2. CASE i < j
  <2>1. IndexOf(ord[i]) < IndexOf(ord[j]) BY <1>2 DEF Ordered
  <2> QED BY <1>1, <1>2, <2>1
<1>3. CASE j < i
  <2>1. IndexOf(ord[j]) < IndexOf(ord[i]) BY <1>3 DEF Ordered
  <2> QED BY <1>1, <1>3, <2>1
<1>4. CASE i = j BY <1>1, <1>4
<1> QED BY <1>2, <1>3, <1>4

LEMMA PrepareFacts ==
  ASSUME NEW ord \in Seq(Models), Ordered(ord), NEW st \in WalkState,
         NEW cs \in Seq(1..Len(ord)), NEW answer
  PROVE  Walked(st, ord, cs, Prepare(st, ord, cs, answer))
<1> DEFINE Steps == 1..Len(cs)
           M(i) == ord[cs[i]]
           Over(i)  == answer[M(i)] = "cooling" /\ cs[i] < Len(ord)
           Ready(i) == answer[M(i)] \in {"ok", "cooling"} /\ ~Over(i)
           Ends(i)  == answer[M(i)] \in SkipKinds
           stops == {i \in Steps : Ready(i) \/ Ends(i)}
           stop  == IF stops = {} THEN Len(cs) + 1
                                  ELSE CHOOSE i \in stops : \A j \in stops : i <= j
           ready == stop \in Steps /\ Ready(stop)
           tried == {M(i) : i \in {j \in Steps : j <= stop /\ ~Over(j)}}
           lost  == {M(i) : i \in {j \in Steps : j <= stop /\ ~Over(j) /\ ~Ready(j)}}
           over  == {M(i) : i \in {j \in Steps : j < stop /\ Over(j)}}
           walked == [m \in Models |-> CASE m \in lost -> "failed"
                                         [] m \in over -> "cooldown"
                                         [] OTHER -> st.rows[m]]
           late == {ord[p] : p \in cs[1]..Len(ord)}
<1>0. PICK r : r = Prepare(st, ord, cs, answer)
  OBVIOUS
<1>1. /\ st.to \in Nat /\ st.ended \in BOOLEAN /\ st.left \in Nat
      /\ st.rows \in [Models -> Verdicts] /\ st.started \subseteq Models
      /\ st.health \in [Models -> ModelHealth]
  BY DEF WalkState
<1>2. \A i \in Steps : cs[i] \in 1..Len(ord) /\ M(i) \in Models /\ M(i) \in Ran(ord)
  BY DEF Ran
<1>3. Len(cs) \in Nat /\ Len(ord) \in Nat OBVIOUS
<1>4. CASE cs = << >>
  <2>1. r = [st EXCEPT !.to = 0, !.ended = FALSE]
    BY <1>0, <1>4, ZenonT(60) DEF Prepare
  <2>2. /\ r \in WalkState /\ r.left = st.left /\ r.started = st.started /\ r.rows = st.rows
        /\ r.to = 0 /\ ~r.ended
    BY <2>1, <1>1 DEF WalkState
  <2>3. Len(cs) = 0 BY <1>4
  <2>4. Walked(st, ord, cs, r) BY <2>2, <2>3 DEF Walked
  <2> QED BY <1>0, <2>4
<1>5. CASE cs # << >> /\ st.left = 0
  <2>1. 1 \in Steps /\ cs[1] \in 1..Len(ord) BY <1>2, <1>3, <1>5
  <2>2. r = [st EXCEPT !.to = 0, !.ended = FALSE,
               !.rows = [m \in Models |-> IF m \in late THEN "out_of_time" ELSE @[m]]]
    BY <1>0, <1>5, ZenonT(60) DEF Prepare
  <2>3. r.rows = [m \in Models |-> IF m \in late THEN "out_of_time" ELSE st.rows[m]]
    BY <2>2, <1>1 DEF WalkState
  <2>4. r.rows \in [Models -> Verdicts] BY <2>3, <1>1 DEF Verdicts
  <2>5. /\ r \in WalkState /\ r.left = st.left /\ r.started = st.started
        /\ r.to = 0 /\ ~r.ended
    BY <2>2, <2>3, <2>4, <1>1 DEF WalkState
  <2>6. \A p \in cs[1]..Len(ord) : ord[p] \in Models /\ r.rows[ord[p]] = "out_of_time"
    <3> TAKE p \in cs[1]..Len(ord)
    <3>1. p \in 1..Len(ord) BY <2>1
    <3>2. ord[p] \in Models /\ ord[p] \in late BY <3>1
    <3> QED BY <2>3, <3>2
  <2>7. ASSUME NEW k \in 1..Len(ord), \A i \in 1..Len(cs) : k < cs[i]
        PROVE  r.rows[ord[k]] = st.rows[ord[k]]
    <3>1. ord[k] \notin late
      <4> SUFFICES ASSUME NEW p \in cs[1]..Len(ord), ord[p] = ord[k] PROVE FALSE OBVIOUS
      <4>1. p \in 1..Len(ord) /\ k < cs[1] /\ cs[1] <= p BY <2>1, <2>7
      <4>2. p = k BY <4>1, OrderedInjective
      <4> QED BY <2>1, <4>1, <4>2
    <3>2. ord[k] \in Models OBVIOUS
    <3> QED BY <2>3, <3>1, <3>2
  <2>8. \A m \in Models :
         /\ r.rows[m] \in {st.rows[m], "out_of_time"}
         /\ r.rows[m] = "out_of_time" => st.rows[m] = "out_of_time" \/ m \in late
    BY <2>3
  <2>9. \A m \in late : m \in Ran(ord) /\ \E p \in cs[1]..Len(ord) : m = ord[p]
    BY <2>1 DEF Ran
  <2> HIDE DEF late
  <2>10. Walked(st, ord, cs, r)
    BY <1>5, <2>5, <2>6, <2>7, <2>8, <2>9 DEF Walked
  <2> QED BY <1>0, <2>10
<1>6. CASE cs # << >> /\ st.left # 0
  <2>1. r = [to |-> IF ready THEN cs[stop] ELSE 0,
             ended |-> stop \in Steps /\ ~ready,
             left |-> st.left,
             rows |-> IF stop \in Steps /\ ~ready THEN UnreachableAfter(walked, M(stop))
                                                  ELSE walked,
             started |-> st.started \cup tried,
             health |-> [m \in Models |-> IF m \in lost
                           THEN RecordFailure(st.health[m], policy.mode, answer[m])
                           ELSE st.health[m]]]
    BY <1>0, <1>6, ZenonT(60) DEF Prepare
  <2>2. /\ stop \in 1..(Len(cs) + 1)
        /\ \A i \in Steps : i < stop => ~Ready(i) /\ ~Ends(i)
        /\ stop \in Steps => Ready(stop) \/ Ends(stop)
        /\ stop \notin Steps => stop = Len(cs) + 1
    <3>1. CASE stops = {}
      <4>1. stop = Len(cs) + 1 BY <3>1
      <4>2. \A i \in Steps : ~Ready(i) /\ ~Ends(i) BY <3>1
      <4> HIDE DEF stop, Ready, Ends
      <4> QED BY <4>1, <4>2, <1>3
    <3>2. CASE stops # {}
      <4>1. stops \subseteq Nat BY <1>3
      <4>2. \E i \in stops : \A j \in stops : i <= j
        <5> HIDE DEF stops
        <5> QED BY <3>2, <4>1, LeastNatural
      <4>3. stop \in stops /\ \A j \in stops : stop <= j BY <3>2, <4>2
      <4>4. stop \in Steps /\ (Ready(stop) \/ Ends(stop)) BY <4>3
      <4>5. \A i \in Steps : i \notin stops => ~Ready(i) /\ ~Ends(i) OBVIOUS
      <4> HIDE DEF stop, stops, Ready, Ends
      <4>6. \A i \in Steps : i < stop => i \notin stops BY <4>3, <4>4, <1>3
      <4> QED BY <4>4, <4>5, <4>6, <1>3
    <3> QED BY <3>1, <3>2
  <2> HIDE DEF stop, stops
  <2>3. lost \subseteq tried /\ tried \subseteq Models /\ tried \subseteq Ran(ord)
    BY <1>2
  <2>4. \A i \in Steps : i < stop => M(i) \in lost \cup over
    BY <2>2, <1>3
  <2>5. walked \in [Models -> Verdicts]
    BY <1>1 DEF Verdicts
  <2>6. \A x : UnreachableAfter(walked, x) \in [Models -> Verdicts]
    BY <2>5 DEF UnreachableAfter, Verdicts
  <2>7. r.health \in [Models -> ModelHealth]
    <3>1. \A m \in Models : RecordFailure(st.health[m], policy.mode, answer[m]) \in ModelHealth
      BY <1>1, HealthFacts
    <3> QED BY <2>1, <3>1, <1>1
  <2>8. /\ r.to = (IF ready THEN cs[stop] ELSE 0) /\ r.ended = (stop \in Steps /\ ~ready)
        /\ r.left = st.left /\ r.started = st.started \cup tried
        /\ r.rows = IF r.ended THEN UnreachableAfter(walked, M(stop)) ELSE walked
    BY <2>1
  <2>9. r \in WalkState
    <3>1. r.to \in Nat BY <2>8, <1>2, <1>3
    <3>2. r.rows \in [Models -> Verdicts] BY <2>5, <2>6, <2>8
    <3>3. r.started \in SUBSET Models BY <2>3, <2>8, <1>1
    <3>4. r.ended \in BOOLEAN BY <2>8
    <3>5. r = [to |-> r.to, ended |-> r.ended, left |-> r.left, rows |-> r.rows,
               started |-> r.started, health |-> r.health]
      BY <2>1
    <3> QED BY <3>1, <3>2, <3>3, <3>4, <3>5, <2>7, <2>8, <1>1 DEF WalkState
  <2>10. \A m \in Models :
           /\ walked[m] \in {st.rows[m]} \cup Passed
           /\ walked[m] = "failed" => st.rows[m] = "failed" \/ m \in tried
           /\ m \notin Ran(ord) => walked[m] = st.rows[m]
    <3>1. lost \cup over \subseteq Ran(ord) BY <1>2
    <3> HIDE DEF lost, over, tried
    <3> QED BY <2>3, <3>1 DEF Passed
  <2>11. \A m \in lost \cup over : walked[m] \in Passed
    <3>1. lost \cup over \subseteq Models BY <1>2
    <3> HIDE DEF lost, over
    <3> QED BY <3>1 DEF Passed
  <2>12. ASSUME NEW k \in 1..Len(ord), \A i \in 1..Len(cs) : k < cs[i]
         PROVE  r.rows[ord[k]] = st.rows[ord[k]]
    <3>1. \A i \in Steps : M(i) # ord[k]
      <4> TAKE i \in Steps
      <4>1. cs[i] \in 1..Len(ord) /\ k < cs[i] BY <1>2, <2>12
      <4> QED BY <4>1, OrderedInjective
    <3>2. ord[k] \in Models /\ ord[k] \notin lost /\ ord[k] \notin over BY <3>1
    <3>3. walked[ord[k]] = st.rows[ord[k]]
      <4> HIDE DEF lost, over
      <4> QED BY <3>2
    <3>4. CASE ~r.ended BY <2>8, <3>3, <3>4
    <3>5. CASE r.ended
      <4>1. stop \in Steps BY <2>8, <3>5
      <4>2. cs[stop] \in 1..Len(ord) /\ k < cs[stop] BY <1>2, <4>1, <2>12
      <4>3. ~(IndexOf(ord[k]) > IndexOf(M(stop))) BY <4>2, OrderedInjective
      <4>4. UnreachableAfter(walked, M(stop))[ord[k]] = walked[ord[k]]
        <5> HIDE DEF walked, M
        <5> QED BY <4>3, <3>2 DEF UnreachableAfter
      <4> QED BY <2>8, <3>3, <3>5, <4>4
    <3> QED BY <3>4, <3>5
  <2>13. ASSUME NEW k \in 1..Len(ord), \A i \in 1..Len(cs) : k <= cs[i]
         PROVE  r.rows[ord[k]] \in {st.rows[ord[k]]} \cup Passed
    <3>1. ord[k] \in Models OBVIOUS
    <3>2. walked[ord[k]] \in {st.rows[ord[k]]} \cup Passed BY <2>10, <3>1
    <3>3. CASE ~r.ended BY <2>8, <3>2, <3>3
    <3>4. CASE r.ended
      <4>1. stop \in Steps BY <2>8, <3>4
      <4>2. cs[stop] \in 1..Len(ord) /\ k <= cs[stop] BY <1>2, <4>1, <2>13
      <4>3. ~(IndexOf(ord[k]) > IndexOf(M(stop))) BY <4>2, OrderedInjective
      <4>4. UnreachableAfter(walked, M(stop))[ord[k]] = walked[ord[k]]
        <5> HIDE DEF walked, M
        <5> QED BY <4>3, <3>1 DEF UnreachableAfter
      <4> QED BY <2>8, <3>2, <3>4, <4>4
    <3> QED BY <3>3, <3>4
  <2>14. ASSUME NEW m \in Models
         PROVE  /\ r.rows[m] \in {st.rows[m], "failed", "cooldown", "route_ended"}
                /\ m \notin Ran(ord) => r.rows[m] \in {st.rows[m], "route_ended"}
                /\ r.rows[m] = "failed" => st.rows[m] = "failed" \/ m \in r.started
    <3>1. r.rows[m] \in {walked[m], "route_ended"}
      <4> HIDE DEF walked, M
      <4>1. \A x : UnreachableAfter(walked, x)[m] \in {walked[m], "route_ended"}
        BY DEF UnreachableAfter
      <4> QED BY <2>8, <4>1
    <3> HIDE DEF walked, tried
    <3> QED BY <2>8, <2>10, <3>1 DEF Passed
  <2>15. ASSUME r.to # 0
         PROVE  /\ ~r.ended /\ ord[r.to] \in r.started
                /\ \A m \in Models : r.rows[m] \in {st.rows[m]} \cup Passed
                /\ \E s \in 1..Len(cs) : /\ cs[s] = r.to
                                         /\ \A i \in 1..s-1 : r.rows[ord[cs[i]]] \in Passed
    <3>1. ready /\ stop \in Steps /\ Ready(stop) /\ r.to = cs[stop] /\ ~r.ended
      BY <2>8, <2>15
    <3>2. M(stop) \in tried
      <4>1. stop \in {j \in Steps : j <= stop /\ ~Over(j)} BY <3>1, <2>2
      <4> HIDE DEF Over
      <4> QED BY <4>1
    <3>3. r.rows = walked BY <2>8, <3>1
    <3>4. \A i \in 1..stop-1 : walked[ord[cs[i]]] \in Passed
      <4> TAKE i \in 1..stop-1
      <4>1. i \in Steps /\ i < stop BY <3>1, <1>3
      <4>2. M(i) \in lost \cup over BY <2>4, <4>1
      <4> QED BY <2>11, <4>2
    <3> HIDE DEF walked, tried
    <3> QED BY <2>8, <2>10, <3>1, <3>2, <3>3, <3>4
  <2>16. ASSUME r.to = 0, ~r.ended
         PROVE  \A i \in 1..Len(cs) : r.rows[ord[cs[i]]] \in Passed
    <3>1. stop \notin Steps
      <4> SUFFICES ASSUME stop \in Steps PROVE FALSE OBVIOUS
      <4>1. ready BY <2>8, <2>16
      <4>2. cs[stop] = 0 BY <2>8, <2>16, <4>1
      <4> QED BY <1>2, <4>2
    <3>2. \A i \in Steps : M(i) \in lost \cup over BY <2>2, <2>4, <3>1, <1>3
    <3>3. r.rows = walked BY <2>8, <2>16
    <3> QED BY <2>11, <3>2, <3>3
  <2> HIDE DEF tried
  <2>17. Walked(st, ord, cs, r)
    <3>1. \A m \in Models : r.rows[m] = "out_of_time" => st.rows[m] = "out_of_time"
      BY <2>14
    <3>2. st.started \subseteq r.started /\ r.started \subseteq st.started \cup Ran(ord)
      BY <2>3, <2>8
    <3> QED BY <1>6, <2>8, <2>9, <2>12, <2>13, <2>14, <2>15, <2>16, <3>1, <3>2 DEF Walked
  <2> QED BY <1>0, <2>17
<1> QED BY <1>4, <1>5, <1>6

(* Candidates that follow one another leave nothing unvisited behind them. *)
From(ord, start) == [i \in 1..(Len(ord) + 1 - start) |-> start + i - 1]

LEMMA FromFacts ==
  ASSUME NEW ord \in Seq(Models), NEW start \in 1..(Len(ord) + 1)
  PROVE  /\ From(ord, start) \in Seq(1..Len(ord))
         /\ Len(From(ord, start)) = Len(ord) + 1 - start
         /\ \A i \in 1..Len(From(ord, start)) : From(ord, start)[i] = start + i - 1
  BY DEF From

LEMMA WalkedInOrder ==
  ASSUME NEW ord \in Seq(Models), NEW st, NEW start \in 1..(Len(ord) + 1), NEW r,
         Walked(st, ord, From(ord, start), r)
  PROVE  /\ r.to # 0 => /\ r.to \in start..Len(ord)
                        /\ \A p \in start..(r.to - 1) : r.rows[ord[p]] \in Passed
         /\ r.to = 0 /\ ~r.ended =>
              \A p \in start..Len(ord) : r.rows[ord[p]] \in Passed \cup {"out_of_time"}
<1>1. PICK cs : cs = From(ord, start) OBVIOUS
<1>2. /\ Len(cs) = Len(ord) + 1 - start /\ Len(ord) \in Nat
      /\ \A i \in 1..Len(cs) : cs[i] = start + i - 1
  <2>1. Len(ord) \in Nat OBVIOUS
  <2> QED BY <1>1, <2>1, FromFacts
<1>3. \A p \in start..Len(ord) : p + 1 - start \in 1..Len(cs) /\ cs[p + 1 - start] = p
  BY <1>2
<1>4. ASSUME r.to # 0
      PROVE  r.to \in start..Len(ord) /\ \A p \in start..(r.to - 1) : r.rows[ord[p]] \in Passed
  <2>1. PICK s \in 1..Len(cs) : cs[s] = r.to /\ \A i \in 1..s-1 : r.rows[ord[cs[i]]] \in Passed
    BY <1>1, <1>4 DEF Walked
  <2>2. r.to = start + s - 1 BY <1>2, <2>1
  <2>3. r.to \in start..Len(ord) BY <1>2, <2>1, <2>2
  <2>4. ASSUME NEW p \in start..(r.to - 1) PROVE r.rows[ord[p]] \in Passed
    <3>1. p + 1 - start \in 1..s-1 /\ p \in start..Len(ord) BY <2>2, <2>3
    <3>2. cs[p + 1 - start] = p BY <1>3, <3>1
    <3> QED BY <2>1, <3>1, <3>2
  <2> QED BY <2>3, <2>4
<1>5. ASSUME r.to = 0, ~r.ended, NEW p \in start..Len(ord)
      PROVE  r.rows[ord[p]] \in Passed \cup {"out_of_time"}
  <2>1. \/ \A i \in 1..Len(cs) : r.rows[ord[cs[i]]] \in Passed
        \/ cs # << >> /\ \A q \in cs[1]..Len(ord) : r.rows[ord[q]] = "out_of_time"
    BY <1>1, <1>5 DEF Walked
  <2>2. p + 1 - start \in 1..Len(cs) /\ cs[p + 1 - start] = p BY <1>3
  <2>3. CASE \A i \in 1..Len(cs) : r.rows[ord[cs[i]]] \in Passed
    BY <2>2, <2>3
  <2>4. CASE \A q \in cs[1]..Len(ord) : r.rows[ord[q]] = "out_of_time"
    <3>1. 1 \in 1..Len(cs) BY <1>2, <2>2
    <3>2. cs[1] = start BY <1>2, <3>1
    <3> QED BY <2>4, <3>2
  <2> QED BY <2>1, <2>3, <2>4
<1> QED BY <1>4, <1>5

LEMMA PrepareInOrder ==
  ASSUME NEW ord \in Seq(Models), Ordered(ord), NEW st \in WalkState,
         NEW start \in 1..(Len(ord) + 1), NEW answer, NEW r,
         r = Prepare(st, ord, From(ord, start), answer)
  PROVE  Walked(st, ord, From(ord, start), r)
  BY FromFacts, PrepareFacts

-----------------------------------------------------------------------------
(* What holds while a request runs, and once it has ended.                 *)

Active == phase \in {"waiting", "closing", "probing"}

OpenRows == {"never_reached", "cooldown", "failed", "route_ended"}
OutRows  == {"paused", "ejected", "route_ended"}

(* The order is the route's, without the paused models, and only models of *)
(* the order are started.                                                  *)
OrderInv ==
  /\ Ordered(order) /\ Ran(order) \cap paused = {} /\ started \subseteq Ran(order)
  /\ requests > 0 /\ order = << >> => Models \subseteq paused

(* The ledger of a request that runs: no verdict yet that only the end     *)
(* gives, and everything behind the walk failed, cools or was jumped over. *)
LedgerInv ==
  /\ \A m \in Models : rows[m] = "failed" => m \in started
  /\ Active =>
       /\ at \in 1..Len(order) /\ Current \in started
       /\ \A m \in Models : rows[m] \in IF m \in Ran(order) THEN OpenRows ELSE OutRows
       /\ \A p \in 1..(at - 1) : rows[order[p]] \in Passed \/ p \in promoted
       /\ phase = "probing" => rows[Current] = "failed" /\ shown = << >>

(* What the client has read: models behind the walk that failed, the last  *)
(* of them maybe the one in flight.                                        *)
Behind(m) == \E p \in 1..(at - 1) : m = order[p] /\ rows[m] = "failed"

VoiceInv ==
  /\ Active =>
       /\ Len(shown) > 1 => resumed
       /\ \A i \in 1..(Len(shown) - 1) : Behind(shown[i])
       /\ shown # << >> /\ shown[Len(shown)] # Current => resumed /\ Behind(shown[Len(shown)])
       /\ ~policy.stream => shown = << >> /\ held \in {<< >>, <<Current>>}
       /\ policy.stream => held = << >>
  /\ ~Active => OneVoice

ResumeInv ==
  /\ Active => result = "none"
  /\ resumed => policy.messages
  /\ resumed /\ Active => tracker \in {"blocks", "text", "tool"}
  /\ ResumeNeverWorse

(* As long as nothing was sent and no time went by elsewhere, shares leave *)
(* time for the models behind.                                             *)
SilenceInv ==
  /\ slept > 0 => aside
  /\ Active /\ ~spoke /\ ~aside /\ policy.floor = 0 /\ at < Len(order) =>
       /\ left > 0
       /\ phase = "waiting" => until > 0 /\ left >= until
  /\ SilenceKeepsTurns

IInv == TypeOK /\ OrderInv /\ LedgerInv /\ VoiceInv /\ ResumeInv /\ SilenceInv /\ StoryComplete

LEMMA PolicyType ==
  ASSUME TypeOK
  PROVE  /\ policy \in Policy
         /\ policy.pauses \subseteq SUBSET Models
         /\ policy.stream \in BOOLEAN /\ policy.messages \in BOOLEAN /\ policy.clean \in BOOLEAN
         /\ policy.resume \in BOOLEAN /\ policy.retry \in BOOLEAN
         /\ policy.total \in 1..MaxTotal /\ policy.floor \in 0..MaxTotal
         /\ policy.stall \in 0..MaxTotal /\ policy.think \in 0..MaxTotal
  BY PolicyAssumption DEF TypeOK, Policy

(* The ledger a walk of a running request may hold.                        *)
Sound(st) ==
  /\ st \in WalkState /\ st.left = left
  /\ started \subseteq st.started /\ st.started \subseteq Ran(order)
  /\ \A m \in Models :
       /\ st.rows[m] = "failed" => m \in st.started
       /\ st.rows[m] \in (IF m \in Ran(order) THEN OpenRows \cup {"out_of_time"} ELSE OutRows)
       /\ st.rows[m] = "out_of_time" => left = 0 /\ \E p \in at..Len(order) : m = order[p]

LEMMA StateSound ==
  ASSUME IInv, Active
  PROVE  Sound(State) /\ State.rows = rows /\ State.to = 0 /\ ~State.ended
         /\ State.started = started /\ State.health = health
<1>1. State \in WalkState
  BY DEF IInv, TypeOK, State, WalkState
<1>2. State.rows = rows /\ State.left = left /\ State.started = started /\ State.to = 0
      /\ State.ended = FALSE /\ State.health = health
  BY DEF State
<1>3. \A m \in Models : rows[m] # "out_of_time"
  BY DEF IInv, LedgerInv, OpenRows, OutRows
<1> QED BY <1>1, <1>2, <1>3 DEF IInv, OrderInv, LedgerInv, Sound

(* A walk over positions from the one in flight on keeps the ledger sound. *)
LEMMA WalkSound ==
  ASSUME IInv, Active, NEW st, Sound(st), NEW cs \in Seq(at..Len(order)), NEW answer,
         NEW r, r = Prepare(st, order, cs, answer)
  PROVE  /\ Walked(st, order, cs, r) /\ Sound(r)
         /\ \A q \in 1..(at - 1) : r.rows[order[q]] = st.rows[order[q]]
         /\ r.to # 0 => r.to \in at..Len(order) /\ left # 0
<1>1. /\ order \in Seq(Models) /\ Ordered(order) /\ at \in 1..Len(order) /\ Len(order) \in Nat
      /\ left \in Nat
  BY DEF IInv, TypeOK, OrderInv, LedgerInv
<1>2. cs \in Seq(1..Len(order)) /\ \A i \in 1..Len(cs) : cs[i] \in at..Len(order)
  BY <1>1
<1>3. Walked(st, order, cs, r)
  BY <1>1, <1>2, PrepareFacts DEF Sound
<1>4. \A q \in 1..(at - 1) : r.rows[order[q]] = st.rows[order[q]]
  <2> TAKE q \in 1..(at - 1)
  <2>1. q \in 1..Len(order) /\ \A i \in 1..Len(cs) : q < cs[i] BY <1>1, <1>2
  <2> QED BY <1>3, <2>1 DEF Walked
<1>5. r.to # 0 => r.to \in at..Len(order) /\ left # 0
  BY <1>2, <1>3 DEF Walked, Sound
<1>6. ASSUME NEW m \in Models, r.rows[m] = "out_of_time"
      PROVE  left = 0 /\ \E p \in at..Len(order) : m = order[p]
  <2>1. CASE st.rows[m] = "out_of_time" BY <2>1 DEF Sound
  <2>2. CASE st.rows[m] # "out_of_time"
    <3>1. st.left = 0 /\ \E p \in cs[1]..Len(order) : m = order[p]
      BY <1>3, <1>6, <2>2 DEF Walked
    <3>2. cs # << >>
      <4>1. cs = << >> => r.rows = st.rows
        BY DEF Prepare, Sound, WalkState
      <4> QED BY <1>6, <2>2, <4>1
    <3>3. 1 \in 1..Len(cs) BY <1>2, <3>2
    <3>4. cs[1] \in at..Len(order) BY <1>2, <3>3
    <3>5. \A p \in cs[1]..Len(order) : p \in at..Len(order) BY <1>1, <3>4
    <3> QED BY <3>1, <3>5 DEF Sound
  <2> QED BY <2>1, <2>2
<1>7. ASSUME NEW m \in Models
      PROVE  /\ r.rows[m] = "failed" => m \in r.started
             /\ r.rows[m] \in (IF m \in Ran(order) THEN OpenRows \cup {"out_of_time"} ELSE OutRows)
  <2>1. /\ r.rows[m] \in {st.rows[m], "failed", "cooldown", "route_ended", "out_of_time"}
        /\ m \notin Ran(order) => r.rows[m] \in {st.rows[m], "route_ended"}
        /\ r.rows[m] = "failed" => st.rows[m] = "failed" \/ m \in r.started
        /\ st.started \subseteq r.started
    BY <1>3 DEF Walked
  <2> QED BY <2>1 DEF Sound, OpenRows, OutRows
<1> QED BY <1>3, <1>4, <1>5, <1>6, <1>7 DEF Walked, Sound

(* A pure share of what is left ends before it is all gone, unless the     *)
(* model is the last.                                                      *)
LEMMA ShareFacts ==
  ASSUME TypeOK, NEW l \in Nat, NEW n \in Nat \ {0}
  PROVE  /\ ShareEnd(l, n) \in 0..l
         /\ policy.floor = 0 /\ n > 1 /\ l > 0 => ShareEnd(l, n) > 0
<1>1. policy.floor \in Nat BY PolicyType, BoundsAssumption
<1>2. PICK share : share = l \div n OBVIOUS
<1>3. share \in Nat /\ (n > 1 /\ l > 0 => share < l)
  BY <1>2
<1>4. PICK floored : floored = IF policy.floor > share THEN policy.floor ELSE share OBVIOUS
<1>5. floored \in Nat /\ (policy.floor = 0 => floored = share) BY <1>1, <1>3, <1>4
<1>6. ShareEnd(l, n) = IF n <= 1 THEN 0 ELSE l - (IF floored > l THEN l ELSE floored)
  BY <1>2, <1>4 DEF ShareEnd
<1> QED BY <1>3, <1>5, <1>6

(* The next attempt keeps all that is promised.                            *)
LEMMA AttemptKeeps ==
  ASSUME IInv, Active, NEW st, Sound(st), left # 0, NEW p \in 1..Len(order), Attempt(st, p),
         order[p] \in st.started,
         \A q \in 1..(p - 1) : st.rows[order[q]] \in Passed \/ q \in promoted',
         \/ shown = << >> /\ resumed' = resumed
         \/ /\ resumed' /\ policy.messages /\ tracker \in {"blocks", "text", "tool"}
            /\ \A i \in 1..Len(shown) : \E q \in 1..(p - 1) :
                 shown[i] = order[q] /\ st.rows[shown[i]] = "failed"
  PROVE  IInv'
<1>1. /\ TypeOK /\ order \in Seq(Models) /\ left \in Nat \ {0} /\ left \in 0..MaxTotal
      /\ MaxTotal \in Nat /\ Len(order) \in Nat /\ shown \in Seq(Models)
  BY BoundsAssumption DEF IInv, TypeOK
<1>2. /\ st.rows \in [Models -> Verdicts] /\ st.started \subseteq Models
      /\ st.health \in [Models -> ModelHealth]
  BY DEF Sound, WalkState
<1>3. /\ at' = p /\ phase' = "waiting" /\ failure' = "none" /\ rows' = st.rows
      /\ started' = st.started /\ health' = st.health /\ held' = << >>
      /\ until' = ShareEnd(left, Len(order) + 1 - p)
      /\ requests' = requests /\ others' = others /\ policy' = policy /\ paused' = paused
      /\ order' = order /\ left' = left /\ spoke' = spoke /\ aside' = aside /\ tracker' = tracker
      /\ shown' = shown /\ result' = result /\ slept' = 0
      /\ progress' = (IF policy.stall > 0 THEN left ELSE 0)
  BY DEF Attempt
<1>4. Len(order) + 1 - p \in Nat \ {0} BY <1>1
<1>5. until' \in 0..left
  BY <1>1, <1>3, <1>4, ShareFacts
<1>6. progress' \in 0..MaxTotal BY <1>1, <1>3
<1>7. until' \in 0..MaxTotal BY <1>1, <1>5
<1>8. TypeOK'
  <2>1. << >> \in Seq(Models) OBVIOUS
  <2>2. at' \in 0..Len(order') /\ slept' \in 0..MaxTotal BY <1>1, <1>3
  <2> QED BY <1>1, <1>2, <1>3, <1>6, <1>7, <2>1, <2>2 DEF TypeOK
<1>9. Active' /\ phase' # "done" /\ phase' # "probing" /\ phase' # "idle" BY <1>3 DEF Active
<1>10. OrderInv'
  BY <1>3 DEF IInv, OrderInv, Sound, Ordered, Ran, IndexOf
<1>11. \A m \in Models : st.rows[m] # "out_of_time"
  BY DEF Sound
<1>12. LedgerInv'
  <2>1. Current' \in started' BY <1>3 DEF Current
  <2>2. \A m \in Models : rows'[m] \in IF m \in Ran(order') THEN OpenRows ELSE OutRows
    BY <1>3, <1>11 DEF Sound
  <2>3. \A m \in Models : rows'[m] = "failed" => m \in started'
    BY <1>3 DEF Sound
  <2>4. at' \in 1..Len(order') BY <1>3
  <2>5. \A q \in 1..(at' - 1) : rows'[order'[q]] \in Passed \/ q \in promoted'
    BY <1>3
  <2> QED BY <1>9, <2>1, <2>2, <2>3, <2>4, <2>5 DEF LedgerInv
<1>13. VoiceInv'
  <2>1. Len(shown) \in Nat /\ (shown # << >> => Len(shown) \in 1..Len(shown)) BY <1>1
  <2>2. CASE shown = << >> /\ resumed' = resumed
    <3>1. Len(shown) = 0 BY <2>2
    <3> QED BY <1>3, <1>9, <2>2, <3>1 DEF VoiceInv
  <2>3. CASE /\ resumed'
             /\ \A i \in 1..Len(shown) : \E q \in 1..(p - 1) :
                  shown[i] = order[q] /\ st.rows[shown[i]] = "failed"
    <3>1. \A i \in 1..Len(shown) : Behind(shown[i])'
      BY <1>3, <2>3 DEF Behind
    <3>2. ~policy.stream => shown = << >>
      BY DEF IInv, VoiceInv
    <3>3. \A i \in 1..(Len(shown) - 1) : i \in 1..Len(shown) BY <2>1
    <3> QED BY <1>3, <1>9, <2>1, <2>3, <3>1, <3>2, <3>3 DEF VoiceInv
  <2> QED BY <2>2, <2>3
<1>14. ResumeInv'
  <2>1. result = "none"
    BY DEF IInv, ResumeInv
  <2> QED BY <1>3, <2>1 DEF IInv, ResumeInv, ResumeNeverWorse
<1>15. SilenceInv'
  <2>1. ASSUME policy.floor = 0, p < Len(order) PROVE until' > 0 /\ left >= until'
    <3>1. Len(order) + 1 - p > 1 BY <1>1, <2>1
    <3>2. until' > 0 BY <1>1, <1>3, <1>4, <2>1, <3>1, ShareFacts
    <3> QED BY <1>1, <1>5, <3>2
  <2>2. SilenceKeepsTurns' BY <1>3, <1>11 DEF SilenceKeepsTurns
  <2> QED BY <1>1, <1>3, <2>1, <2>2 DEF SilenceInv
<1>16. StoryComplete' BY <1>9 DEF StoryComplete
<1> QED BY <1>8, <1>10, <1>12, <1>13, <1>14, <1>15, <1>16 DEF IInv

(* The end of a request keeps all that is promised.                        *)
LEMMA EndKeeps ==
  ASSUME IInv, Active, NEW st \in WalkState, NEW how, End(st, how),
         how \in {"truncated", "cut_off", "error", "ended", "interrupted"},
         started \subseteq st.started, st.started \subseteq Ran(order),
         \A m \in Models :
           /\ st.rows[m] \in {"failed", "interrupted"} => m \in st.started
           /\ st.rows[m] # "succeeded"
           /\ st.rows[m] = "out_of_time" => left = 0 /\ \E q \in at..Len(order) : m = order[q]
           /\ how = "error" /\ st.rows[m] = "never_reached" => \E q \in promoted' : order[q] = m,
         \A i \in 1..(Len(shown) - 1) : st.rows[shown[i]] = "failed",
         resumed' <=> resumed,
         how = "cut_off" /\ resumed => tracker = "tool" \/ ~policy.clean
  PROVE  IInv'
<1>1. /\ phase' = "done" /\ result' = how
      /\ rows' = st.rows /\ started' = st.started /\ health' = st.health
      /\ until' = 0 /\ slept' = 0 /\ progress' = 0 /\ left' = 0 /\ held' = << >>
      /\ failure' = "none" /\ aside' = aside
      /\ requests' = requests /\ others' = others /\ policy' = policy /\ paused' = paused
      /\ order' = order /\ at' = at /\ spoke' = spoke /\ tracker' = tracker /\ shown' = shown
  BY DEF End, NoWait
<1>2. ~Active' BY <1>1 DEF Active
<1>3. TypeOK'
  <2>1. 0 \in 0..MaxTotal BY BoundsAssumption
  <2>2. /\ st.rows \in [Models -> Verdicts] /\ st.started \subseteq Models
        /\ st.health \in [Models -> ModelHealth]
    BY DEF WalkState
  <2>3. << >> \in Seq(Models) OBVIOUS
  <2> QED BY <1>1, <2>1, <2>2, <2>3 DEF IInv, TypeOK
<1>4. OrderInv'
  <2>1. Ordered(order') BY <1>1 DEF IInv, OrderInv
  <2>2. Ran(order') \cap paused' = {} BY <1>1 DEF IInv, OrderInv
  <2>3. started' \subseteq Ran(order') BY <1>1
  <2>4. requests' > 0 /\ order' = << >> => Models \subseteq paused'
    BY <1>1 DEF IInv, OrderInv
  <2> QED BY <2>1, <2>2, <2>3, <2>4 DEF OrderInv
<1>5. LedgerInv' BY <1>1, <1>2 DEF LedgerInv
<1>6. VoiceInv'
  <2>1. ~policy.stream => shown = << >> BY DEF IInv, VoiceInv
  <2>2. Len(shown) > 1 => resumed BY DEF IInv, VoiceInv
  <2>3. OneVoice' BY <1>1, <2>1, <2>2 DEF OneVoice
  <2> QED BY <1>2, <2>3 DEF VoiceInv
<1>7. ResumeInv'
  BY <1>1, <1>2 DEF IInv, ResumeInv, ResumeNeverWorse
<1>8. SilenceKeepsTurns'
  <2> SUFFICES ASSUME NEW m \in Models, st.rows[m] = "out_of_time", m \notin st.started,
                      ~spoke, ~aside, ~(policy.floor > 0)
               PROVE  FALSE
    BY <1>1 DEF SilenceKeepsTurns
  <2>1. policy.floor = 0
    <3>1. policy.floor \in 0..MaxTotal BY PolicyType DEF IInv
    <3> QED BY <3>1, BoundsAssumption
  <2>2. left = 0 /\ at \in 1..Len(order) /\ Current \in started /\ Len(order) \in Nat
    BY DEF IInv, LedgerInv, TypeOK
  <2>3. ~(at < Len(order)) BY <2>1, <2>2 DEF IInv, SilenceInv
  <2>4. PICK q \in at..Len(order) : m = order[q] OBVIOUS
  <2>5. q = at BY <2>2, <2>3, <2>4
  <2> QED BY <2>2, <2>4, <2>5 DEF Current
<1>9. SilenceInv' BY <1>1, <1>2, <1>8 DEF SilenceInv
<1>10. StoryComplete'
  BY <1>1 DEF StoryComplete, JumpedOver
<1> QED BY <1>3, <1>4, <1>5, <1>6, <1>7, <1>9, <1>10 DEF IInv

-----------------------------------------------------------------------------
(* The steps that neither walk nor charge a failure.                       *)

LEMMA InitHolds == Init => IInv
<1> SUFFICES ASSUME Init PROVE IInv OBVIOUS
<1>1. TypeOK
  <2>1. health \in [Models -> ModelHealth] BY UnknownType DEF Init
  <2>2. << >> \in Seq(Models) /\ 0 \in 0..MaxTotal /\ 0 \in 0..MaxRequests /\ 0 \in 0..MaxOthers
    BY BoundsAssumption
  <2>3. Len(<< >>) = 0 /\ 0 \in 0..0 OBVIOUS
  <2> QED BY <2>1, <2>2, <2>3 DEF Init, TypeOK, Verdicts, Trackers
<1>2. OrderInv
  <2>1. Len(<< >>) = 0 OBVIOUS
  <2> QED BY <2>1 DEF Init, OrderInv, Ordered, Ran
<1>3. LedgerInv /\ SilenceInv /\ StoryComplete
  BY DEF Init, LedgerInv, SilenceInv, SilenceKeepsTurns, StoryComplete, Active
<1>4. VoiceInv /\ ResumeInv
  BY DEF Init, VoiceInv, OneVoice, ResumeInv, ResumeNeverWorse, Active
<1> QED BY <1>1, <1>2, <1>3, <1>4 DEF IInv

(* Nothing of the request's own record moves.                              *)
LEMMA BetweenKeeps ==
  ASSUME IInv, BetweenRequests, health' \in [Models -> ModelHealth], others' \in 0..MaxOthers,
         UNCHANGED <<requests, phase, failure, result>>,
         UNCHANGED <<settings, route, ledger, clock, client, spent>>
  PROVE  IInv'
<1>1. /\ policy' = policy /\ paused' = paused /\ order' = order /\ at' = at /\ rows' = rows
      /\ started' = started /\ left' = left /\ until' = until /\ progress' = progress
      /\ slept' = slept /\ aside' = aside
      /\ spoke' = spoke /\ tracker' = tracker /\ held' = held /\ shown' = shown
      /\ resumed' = resumed /\ promoted' = promoted /\ requests' = requests /\ phase' = phase
      /\ failure' = failure /\ result' = result
  BY DEF settings, route, ledger, clock, client, spent
<1>2. ~Active /\ ~Active' BY <1>1 DEF BetweenRequests, Active
<1>3. TypeOK' BY <1>1 DEF IInv, TypeOK
<1>4. OrderInv' BY <1>1 DEF IInv, OrderInv
<1>5. LedgerInv' BY <1>1, <1>2 DEF IInv, LedgerInv
<1>6. VoiceInv' BY <1>1, <1>2 DEF IInv, VoiceInv, OneVoice
<1>7. ResumeInv' BY <1>1, <1>2 DEF IInv, ResumeInv, ResumeNeverWorse
<1>8. SilenceInv' BY <1>1, <1>2 DEF IInv, SilenceInv, SilenceKeepsTurns
<1>9. StoryComplete' BY <1>1 DEF IInv, StoryComplete, JumpedOver, Current
<1> QED BY <1>3, <1>4, <1>5, <1>6, <1>7, <1>8, <1>9 DEF IInv

LEMMA OtherReportsHolds ==
  ASSUME IInv, NEW m \in Models, NEW good \in BOOLEAN, OtherReports(m, good)
  PROVE  IInv'
<1>1. health[m] \in ModelHealth /\ health \in [Models -> ModelHealth] BY DEF IInv, TypeOK
<1>2. Succeeded(health[m], policy.mode) \in ModelHealth
      /\ RecordFailure(health[m], policy.mode, "upstream") \in ModelHealth
  BY <1>1, HealthFacts
<1>3. health' \in [Models -> ModelHealth] BY <1>1, <1>2 DEF OtherReports
<1>4. others' \in 0..MaxOthers BY BoundsAssumption DEF OtherReports, IInv, TypeOK
<1> QED BY <1>3, <1>4, BetweenKeeps DEF OtherReports

LEMMA BenchEndsHolds == ASSUME IInv, NEW m \in Models, BenchEnds(m) PROVE IInv'
<1>1. health[m] \in ModelHealth /\ health \in [Models -> ModelHealth] BY DEF IInv, TypeOK
<1>2. PICK h : h = [health[m] EXCEPT !.bench = "over"] OBVIOUS
<1>3. h \in ModelHealth BY <1>1, <1>2, HealthFacts
<1>4. health' = [health EXCEPT ![m] = h] BY <1>2 DEF BenchEnds
<1>5. health' \in [Models -> ModelHealth] BY <1>1, <1>3, <1>4
<1>6. others' \in 0..MaxOthers BY DEF BenchEnds, IInv, TypeOK
<1> QED BY <1>5, <1>6, BetweenKeeps DEF BenchEnds

(* A wait goes on, or is over: nothing but clocks and the phase moves.     *)
LEMMA WaitKeeps ==
  ASSUME IInv, Active, Active', left' \in 0..MaxTotal, until' \in 0..MaxTotal,
         progress' \in 0..MaxTotal, slept' \in 0..MaxTotal, phase' = "probing" => phase = "probing",
         failure' \in StreamKinds \cup {"none", "timeout"},
         UNCHANGED <<health, requests, others, result>>,
         UNCHANGED <<settings, route, ledger, client, spent>>,
         spoke => spoke', slept' > 0 => aside',
         ~spoke' /\ ~aside' /\ policy.floor = 0 /\ at < Len(order) =>
           left' > 0 /\ (phase' = "waiting" => until' > 0 /\ left' >= until')
  PROVE  IInv'
<1>1. /\ policy' = policy /\ paused' = paused /\ order' = order /\ at' = at /\ rows' = rows
      /\ started' = started /\ tracker' = tracker /\ held' = held /\ shown' = shown
      /\ resumed' = resumed /\ promoted' = promoted /\ requests' = requests
      /\ health' = health /\ others' = others /\ result' = result
  BY DEF settings, route, ledger, client, spent
<1>2. TypeOK'
  <2>1. phase' \in {"idle", "waiting", "closing", "probing", "done"} BY DEF Active
  <2> QED BY <1>1, <2>1 DEF IInv, TypeOK
<1>3. OrderInv' BY <1>1 DEF IInv, OrderInv
<1>4. LedgerInv' BY <1>1 DEF IInv, LedgerInv, Current
<1>5. VoiceInv' BY <1>1 DEF IInv, VoiceInv, Current, Behind
<1>6. ResumeInv' BY <1>1 DEF IInv, ResumeInv, ResumeNeverWorse
<1>7. \A m \in Models : rows[m] # "out_of_time"
  BY DEF IInv, LedgerInv, OpenRows, OutRows
<1>8. SilenceInv' BY <1>1, <1>7 DEF SilenceInv, SilenceKeepsTurns
<1>9. StoryComplete' BY DEF Active, StoryComplete
<1> QED BY <1>2, <1>3, <1>4, <1>5, <1>6, <1>8, <1>9 DEF IInv

LEMMA ClockTypes ==
  ASSUME TypeOK
  PROVE  /\ left \in Nat /\ until \in Nat /\ progress \in Nat /\ MaxTotal \in Nat
         /\ left <= MaxTotal /\ until <= MaxTotal /\ progress <= MaxTotal
         /\ slept \in 0..MaxTotal /\ slept \in Nat
         /\ \A n \in Nat : Minus(left, n) \in 0..MaxTotal /\ Minus(progress, n) \in 0..MaxTotal
         /\ Progress \in 0..MaxTotal
<1>1. /\ MaxTotal \in Nat /\ left \in 0..MaxTotal /\ until \in 0..MaxTotal
      /\ progress \in 0..MaxTotal /\ slept \in 0..MaxTotal
  BY BoundsAssumption DEF TypeOK
<1>2. Progress \in 0..MaxTotal BY <1>1 DEF Progress
<1>3. \A l \in 0..MaxTotal, n \in Nat : Minus(l, n) \in 0..MaxTotal BY <1>1 DEF Minus
<1>4. \A n \in Nat : Minus(left, n) \in 0..MaxTotal /\ Minus(progress, n) \in 0..MaxTotal
  BY <1>1, <1>3, Zenon
<1>5. /\ left \in Nat /\ until \in Nat /\ progress \in Nat
      /\ left <= MaxTotal /\ until <= MaxTotal /\ progress <= MaxTotal /\ slept \in Nat
  BY <1>1
<1> QED BY <1>1, <1>2, <1>4, <1>5

LEMMA TickHolds == ASSUME IInv, Tick PROVE IInv'
<1>1. Active /\ Active' /\ phase = "waiting" /\ phase' = "waiting"
  BY DEF Tick, Active
<1>2. PICK asleep \in BOOLEAN :
        /\ slept' = IF asleep /\ slept < until THEN slept + 1 ELSE slept
        /\ aside' = (aside \/ asleep)
  BY DEF Tick
<1>3. /\ left' = left - 1 /\ left > GivesUpAt /\ until' = until /\ progress' = progress
      /\ spoke' = spoke
  BY DEF Tick
<1>4. /\ left \in Nat /\ until \in Nat /\ slept \in Nat /\ MaxTotal \in Nat
      /\ left <= MaxTotal /\ until <= MaxTotal /\ slept <= MaxTotal
  BY ClockTypes DEF IInv
<1>5. GivesUpAt \in Nat /\ (slept = 0 => GivesUpAt = until)
  BY <1>4 DEF GivesUpAt, Minus
<1>6. left' \in 0..MaxTotal BY <1>3, <1>4, <1>5
<1>7. slept' \in 0..MaxTotal BY <1>2, <1>4
<1>8. slept' > 0 => aside'
  <2>1. slept > 0 => aside BY DEF IInv, SilenceInv
  <2> QED BY <1>2, <1>4, <2>1
<1>9. ASSUME ~spoke', ~aside', policy.floor = 0, at < Len(order)
      PROVE  left' > 0 /\ until' > 0 /\ left' >= until'
  <2>1. ~aside /\ ~spoke BY <1>2, <1>3, <1>9
  <2>2. slept = 0 /\ until > 0 BY <1>1, <1>4, <1>9, <2>1 DEF IInv, SilenceInv
  <2> QED BY <1>3, <1>4, <1>5, <2>2
<1> QED BY <1>1, <1>3, <1>6, <1>7, <1>8, <1>9, WaitKeeps DEF Tick, IInv, TypeOK

LEMMA LingersHolds == ASSUME IInv, Lingers PROVE IInv'
<1>1. Active /\ Active' /\ phase' = phase BY DEF Lingers, Active
<1>2. left' = left - 1 /\ left > 0 /\ aside' = TRUE /\ spoke' = spoke /\ slept' = slept
      /\ until' = until /\ progress' = progress
  BY DEF Lingers
<1>3. left' \in 0..MaxTotal
  <2>1. left \in 0..MaxTotal /\ MaxTotal \in Nat BY BoundsAssumption DEF IInv, TypeOK
  <2> QED BY <1>2, <2>1
<1> QED BY <1>1, <1>2, <1>3, WaitKeeps DEF Lingers, IInv, TypeOK

LEMMA HeartbeatHolds == ASSUME IInv, Heartbeat PROVE IInv'
<1>1. Active /\ Active' /\ phase' # "probing" /\ spoke' = TRUE /\ slept' = 0 /\ aside' = aside
  BY DEF Heartbeat, Active
<1>2. policy.stall \in Nat /\ policy.think \in Nat
  BY PolicyType, BoundsAssumption DEF IInv
<1>3. until' \in 0..MaxTotal
  <2>1. until \in 0..MaxTotal BY DEF IInv, TypeOK
  <2>2. Minus(left, policy.stall) \in 0..MaxTotal /\ Minus(left, policy.think) \in 0..MaxTotal
    BY <1>2, ClockTypes DEF IInv
  <2> QED BY <2>1, <2>2 DEF Heartbeat
<1>4. progress' \in 0..MaxTotal BY ClockTypes DEF Heartbeat, IInv
<1>5. slept' \in 0..MaxTotal /\ ~(slept' > 0) BY <1>1, BoundsAssumption
<1> QED BY <1>1, <1>3, <1>4, <1>5, WaitKeeps DEF Heartbeat, IInv, TypeOK

LEMMA StreamEndsHolds ==
  ASSUME IInv, NEW how \in StreamKinds \cup {"none", "timeout"}, StreamEnds(how)
  PROVE  IInv'
<1>1. Active /\ Active' /\ phase' = "closing" BY DEF StreamEnds, Active
<1>2. /\ left' = left /\ until' = 0 /\ slept' = 0 /\ progress' = 0 /\ failure' = how
      /\ spoke' = spoke /\ aside' = aside
  BY DEF StreamEnds, NoWait
<1>3. 0 \in 0..MaxTotal /\ left' \in 0..MaxTotal
  BY <1>2, BoundsAssumption DEF IInv, TypeOK
<1>4. ~spoke' /\ ~aside' /\ policy.floor = 0 /\ at < Len(order) => left' > 0
  BY <1>1, <1>2 DEF IInv, SilenceInv
<1> QED BY <1>1, <1>2, <1>3, <1>4, WaitKeeps DEF StreamEnds

(* What a chunk adds to a run of models that the one in flight may end.    *)
LEMMA ShownFacts ==
  ASSUME NEW s \in Seq(Models), Current \in Models, NEW t, t = Shown(s)
  PROVE  /\ t \in Seq(Models) /\ t # << >> /\ t[Len(t)] = Current
         /\ s = << >> => t = <<Current>>
         /\ s = <<Current>> => t = <<Current>>
         /\ \/ t = s
            \/ /\ s # << >> => s[Len(s)] # Current
               /\ Len(t) = Len(s) + 1 /\ \A i \in 1..Len(s) : t[i] = s[i]
<1>1. CASE s # << >> /\ s[Len(s)] = Current
  <2>1. t = s BY <1>1 DEF Shown
  <2> QED BY <1>1, <2>1
<1>2. CASE ~(s # << >> /\ s[Len(s)] = Current)
  <2>1. t = Append(s, Current) BY <1>2 DEF Shown
  <2>2. /\ t \in Seq(Models) /\ Len(t) = Len(s) + 1 /\ t[Len(t)] = Current
        /\ \A i \in 1..Len(s) : t[i] = s[i]
    BY <2>1
  <2>3. t # << >>
    <3>1. Len(<< >>) = 0 /\ Len(s) \in Nat OBVIOUS
    <3> QED BY <2>2, <3>1
  <2>4. s # <<Current>>
    <3>1. Len(<<Current>>) = 1 /\ <<Current>>[1] = Current /\ <<Current>> # << >> OBVIOUS
    <3> QED BY <1>2, <3>1
  <2>5. s = << >> => t = <<Current>> BY <2>1
  <2> QED BY <1>2, <2>2, <2>3, <2>4, <2>5
<1> QED BY <1>1, <1>2

LEMMA ChunkHolds ==
  ASSUME IInv, NEW content \in BOOLEAN, NEW t \in Trackers, Chunk(content, t)
  PROVE  IInv'
<1>1. Active /\ Active' /\ phase' = "waiting" BY DEF Chunk, Active
<1>2. /\ policy' = policy /\ paused' = paused /\ order' = order /\ at' = at /\ rows' = rows
      /\ started' = started /\ promoted' = promoted /\ requests' = requests
      /\ health' = health /\ others' = others /\ result' = result /\ resumed' = resumed
      /\ left' = left /\ failure' = failure /\ spoke' = TRUE /\ slept' = 0 /\ aside' = aside
  BY DEF Chunk, settings, route, ledger, spent
<1>3. policy.stall \in Nat /\ policy.stream \in BOOLEAN
  BY PolicyType, BoundsAssumption DEF IInv
<1>4. until' \in 0..MaxTotal /\ progress' \in 0..MaxTotal /\ slept' \in 0..MaxTotal
  <2>1. 0 \in 0..MaxTotal /\ progress \in 0..MaxTotal
    BY BoundsAssumption DEF IInv, TypeOK
  <2>2. Minus(left, policy.stall) \in 0..MaxTotal /\ Minus(progress, policy.stall) \in 0..MaxTotal
        /\ Progress \in 0..MaxTotal
    BY <1>3, ClockTypes DEF IInv
  <2> QED BY <1>2, <2>1, <2>2 DEF Chunk
<1>5. Current \in Models /\ Current' = Current /\ shown \in Seq(Models) /\ held \in Seq(Models)
  BY <1>1, <1>2 DEF IInv, TypeOK, LedgerInv, Current
<1>6. CASE policy.stream
  <2>1. /\ shown' = Shown(shown) /\ held' = held /\ tracker' = t
        /\ t \in Follow(tracker) /\ (resumed => t # "stopped")
    BY <1>6 DEF Chunk
  <2>2. PICK s : s = shown' OBVIOUS
  <2>3. /\ s \in Seq(Models) /\ s # << >> /\ s[Len(s)] = Current
        /\ \/ s = shown
           \/ /\ shown # << >> => shown[Len(shown)] # Current
              /\ Len(s) = Len(shown) + 1 /\ \A i \in 1..Len(shown) : s[i] = shown[i]
    BY <1>5, <2>1, <2>2, ShownFacts
  <2>4. TypeOK' BY <1>1, <1>2, <1>4, <2>1, <2>2, <2>3 DEF IInv, TypeOK
  <2>5. \A m : Behind(m)' <=> Behind(m) BY <1>2 DEF Behind
  <2>6. (Len(s) > 1 => resumed) /\ \A i \in 1..(Len(s) - 1) : Behind(s[i])
    <3>1. /\ Len(shown) > 1 => resumed
          /\ \A i \in 1..(Len(shown) - 1) : Behind(shown[i])
          /\ shown # << >> /\ shown[Len(shown)] # Current => resumed /\ Behind(shown[Len(shown)])
      BY <1>1 DEF IInv, VoiceInv
    <3>2. CASE s = shown BY <3>1, <3>2
    <3>3. CASE s # shown
      <4>1. /\ shown # << >> => shown[Len(shown)] # Current
            /\ Len(s) = Len(shown) + 1 /\ \A i \in 1..Len(shown) : s[i] = shown[i]
        BY <2>3, <3>3
      <4>2. Len(shown) \in Nat /\ (shown = << >> => Len(shown) = 0) BY <1>5
      <4>3. Len(s) > 1 => resumed BY <3>1, <4>1, <4>2
      <4>4. ASSUME NEW i \in 1..(Len(s) - 1) PROVE Behind(s[i])
        <5>1. i \in 1..Len(shown) /\ s[i] = shown[i] /\ shown # << >> BY <4>1, <4>2
        <5>2. CASE i = Len(shown) BY <3>1, <4>1, <5>1, <5>2
        <5>3. CASE i # Len(shown)
          <6>1. i \in 1..(Len(shown) - 1) BY <4>2, <5>1, <5>3
          <6> QED BY <3>1, <5>1, <6>1
        <5> QED BY <5>2, <5>3
      <4> QED BY <4>3, <4>4
    <3> QED BY <3>2, <3>3
  <2>7. VoiceInv'
    <3>1. held = << >> BY <1>1, <1>6 DEF IInv, VoiceInv
    <3> QED BY <1>1, <1>2, <1>5, <1>6, <2>1, <2>2, <2>3, <2>5, <2>6, <3>1 DEF VoiceInv
  <2>8. ResumeInv'
    <3>1. resumed => t \in {"blocks", "text", "tool"}
      BY <1>1, <2>1 DEF IInv, ResumeInv, Follow
    <3> QED BY <1>1, <1>2, <2>1, <3>1 DEF IInv, ResumeInv, ResumeNeverWorse
  <2> QED BY <1>1, <1>2, <1>5, <2>4, <2>7, <2>8
          DEF IInv, OrderInv, LedgerInv, SilenceInv, SilenceKeepsTurns, StoryComplete
<1>7. CASE ~policy.stream
  <2>1. held' = Shown(held) /\ tracker' = tracker /\ shown' = shown
    BY <1>7 DEF Chunk
  <2>2. shown = << >> /\ held \in {<< >>, <<Current>>}
    BY <1>1, <1>7 DEF IInv, VoiceInv
  <2>3. PICK s : s = Shown(held) OBVIOUS
  <2>4. s = <<Current>> /\ s \in Seq(Models)
    BY <1>5, <2>2, <2>3, ShownFacts
  <2>5. TypeOK' BY <1>1, <1>2, <1>4, <2>1, <2>3, <2>4 DEF IInv, TypeOK
  <2>6. VoiceInv'
    <3>1. Len(<< >>) = 0 OBVIOUS
    <3> QED BY <1>1, <1>2, <1>5, <1>7, <2>1, <2>2, <2>3, <2>4, <3>1 DEF VoiceInv
  <2>7. ResumeInv' BY <1>1, <1>2, <2>1 DEF IInv, ResumeInv, ResumeNeverWorse
  <2> QED BY <1>1, <1>2, <1>5, <2>1, <2>5, <2>6, <2>7
          DEF IInv, OrderInv, LedgerInv, SilenceInv, SilenceKeepsTurns, StoryComplete
<1> QED BY <1>3, <1>6, <1>7

(* What lies behind the attempt in flight is not the model it asks.        *)
LEMMA BehindIsOther ==
  ASSUME IInv, Active
  PROVE  /\ order \in Seq(Models) /\ Ordered(order) /\ Len(order) \in Nat
         /\ at \in 1..Len(order) /\ Current \in Models /\ Current \in started
         /\ Current \in Ran(order)
         /\ \A p \in 1..Len(order) : order[p] \in Models /\ (p # at => order[p] # Current)
         /\ \A m : Behind(m) => m # Current /\ m \in Models /\ rows[m] = "failed"
<1>1. order \in Seq(Models) /\ Ordered(order) /\ at \in 1..Len(order) /\ Current \in started
      /\ Len(order) \in Nat
  BY DEF IInv, TypeOK, OrderInv, LedgerInv
<1>2. \A p \in 1..Len(order) : order[p] \in Models /\ (p # at => order[p] # Current)
  BY <1>1, OrderedInjective DEF Current
<1>3. \A m : Behind(m) => m # Current /\ m \in Models /\ rows[m] = "failed"
  BY <1>1, <1>2 DEF Behind
<1>4. Current \in Ran(order) /\ Current \in Models BY <1>1, <1>2 DEF Current, Ran
<1> QED BY <1>1, <1>2, <1>3, <1>4

LEMMA SucceedsHolds == ASSUME IInv, Succeeds PROVE IInv'
<1>1. Active /\ ~Active' BY DEF Succeeds, Active
<1>2. /\ policy' = policy /\ paused' = paused /\ order' = order /\ at' = at
      /\ started' = started /\ promoted' = promoted /\ requests' = requests
      /\ others' = others /\ resumed' = resumed /\ failure' = failure /\ spoke' = spoke
      /\ tracker' = tracker /\ phase' = "done" /\ result' = "answered"
      /\ held' = << >> /\ left' = 0 /\ until' = 0 /\ slept' = 0 /\ progress' = 0 /\ aside' = aside
      /\ shown' = shown \o held /\ rows' = [rows EXCEPT ![Current] = "succeeded"]
      /\ health' = [health EXCEPT ![Current] = Succeeded(@, policy.mode)]
  BY DEF Succeeds, NoWait, settings, route
<1>3. /\ at \in 1..Len(order) /\ Current \in Models /\ Current \in started
      /\ \A p \in 1..Len(order) : order[p] \in Models /\ (p # at => order[p] # Current)
      /\ \A m : Behind(m) => m # Current /\ m \in Models /\ rows[m] = "failed"
  BY <1>1, BehindIsOther
<1>4. rows \in [Models -> Verdicts] /\ health \in [Models -> ModelHealth]
      /\ shown \in Seq(Models) /\ held \in Seq(Models)
  BY DEF IInv, TypeOK
<1>5. \A m \in Models : rows'[m] = IF m = Current THEN "succeeded" ELSE rows[m]
  BY <1>2, <1>4
<1>6. \A m \in Models : rows[m] \in OpenRows \cup OutRows
  BY <1>1 DEF IInv, LedgerInv
<1>7. TypeOK'
  <2>1. Succeeded(health[Current], policy.mode) \in ModelHealth BY <1>3, <1>4, HealthFacts
  <2>2. health' \in [Models -> ModelHealth] BY <1>2, <1>4, <2>1
  <2>3. rows' \in [Models -> Verdicts] BY <1>2, <1>4 DEF Verdicts
  <2>4. shown' \in Seq(Models) /\ << >> \in Seq(Models) BY <1>2, <1>4
  <2>5. 0 \in 0..MaxTotal BY BoundsAssumption
  <2> QED BY <1>2, <2>2, <2>3, <2>4, <2>5 DEF IInv, TypeOK
<1>8. OrderInv' BY <1>2 DEF IInv, OrderInv
<1>9. LedgerInv' BY <1>1, <1>2, <1>5 DEF IInv, LedgerInv
<1>10. VoiceInv'
  <2>1. CASE policy.stream
    <3>1. held = << >> BY <1>1, <2>1 DEF IInv, VoiceInv
    <3>2. shown' = shown BY <1>2, <1>4, <3>1
    <3>3. Len(shown) > 1 => resumed BY <1>1 DEF IInv, VoiceInv
    <3>4. \A i \in 1..(Len(shown) - 1) : rows'[shown[i]] = "failed"
      BY <1>1, <1>3, <1>5 DEF IInv, VoiceInv
    <3> QED BY <1>1, <1>2, <2>1, <3>2, <3>3, <3>4 DEF VoiceInv, OneVoice
  <2>2. CASE ~policy.stream
    <3>1. shown = << >> /\ held \in {<< >>, <<Current>>} BY <1>1, <2>2 DEF IInv, VoiceInv
    <3>2. shown' = held BY <1>2, <1>4, <3>1
    <3>3. Len(<< >>) = 0 /\ Len(<<Current>>) = 1 /\ <<Current>>[1] = Current OBVIOUS
    <3>4. rows'[Current] = "succeeded" BY <1>3, <1>5
    <3>5. OneVoice'
      <4>1. CASE held = << >> BY <1>2, <2>2, <3>2, <3>3, <4>1 DEF OneVoice
      <4>2. CASE held = <<Current>>
        <5>1. shown' = <<Current>> BY <3>2, <4>2
        <5>2. PICK s : s = <<Current>> /\ Len(s) = 1 /\ s[1] = Current BY <3>3
        <5> QED BY <1>2, <3>4, <5>1, <5>2 DEF OneVoice
      <4> QED BY <3>1, <4>1, <4>2
    <3> QED BY <1>1, <3>5 DEF VoiceInv
  <2> QED BY <2>1, <2>2
<1>11. ResumeInv' BY <1>1, <1>2 DEF IInv, ResumeInv, ResumeNeverWorse
<1>12. SilenceInv'
  BY <1>1, <1>2, <1>5, <1>6 DEF SilenceInv, SilenceKeepsTurns, OpenRows, OutRows
<1>13. StoryComplete'
  <2>1. \A m \in Models : rows'[m] = "succeeded" <=> m = Current'
    BY <1>2, <1>5, <1>6 DEF OpenRows, OutRows, Current
  <2>2. \A p \in 1..(at - 1) : rows'[order[p]] \in Passed \/ p \in promoted
    <3> TAKE p \in 1..(at - 1)
    <3>1. p \in 1..Len(order) /\ p # at BY <1>3
    <3>2. rows[order[p]] \in Passed \/ p \in promoted BY <1>1 DEF IInv, LedgerInv
    <3> QED BY <1>3, <1>5, <3>1, <3>2
  <2>3. \A m \in Models : rows'[m] \in {"failed", "interrupted", "succeeded"} => m \in started
    BY <1>3, <1>5, <1>6 DEF IInv, LedgerInv, OpenRows, OutRows
  <2> QED BY <1>2, <2>1, <2>2, <2>3 DEF StoryComplete, Passed
<1> QED BY <1>7, <1>8, <1>9, <1>10, <1>11, <1>12, <1>13 DEF IInv

LEMMA InterruptHolds == ASSUME IInv, Interrupt PROVE IInv'
<1>1. Active BY DEF Interrupt, Active
<1>2. PICK st : st = [State EXCEPT !.rows[Current] = "interrupted"] OBVIOUS
<1>3. End(st, "interrupted") /\ resumed' = resumed BY <1>2 DEF Interrupt
<1>4. /\ Current \in Models /\ Current \in started /\ Current \in Ran(order)
      /\ \A m : Behind(m) => m # Current /\ m \in Models /\ rows[m] = "failed"
  BY <1>1, BehindIsOther
<1>5. Sound(State) /\ State.rows = rows /\ State.started = started BY <1>1, StateSound
<1>6. rows \in [Models -> Verdicts] BY DEF IInv, TypeOK
<1>7. st.rows = [rows EXCEPT ![Current] = "interrupted"] /\ st.started = started
  BY <1>2 DEF State
<1>8. st \in WalkState
  <2>1. [rows EXCEPT ![Current] = "interrupted"] \in [Models -> Verdicts] BY <1>6 DEF Verdicts
  <2>2. st = [State EXCEPT !.rows = [rows EXCEPT ![Current] = "interrupted"]]
    BY <1>2 DEF State
  <2> QED BY <1>5, <2>1, <2>2 DEF Sound, WalkState
<1>9. \A m \in Models :
        /\ m # Current => st.rows[m] = rows[m] /\ rows[m] \in OpenRows \cup OutRows
        /\ st.rows[Current] = "interrupted"
        /\ rows[m] = "failed" => m \in started
  BY <1>1, <1>4, <1>6, <1>7 DEF IInv, LedgerInv
<1>10. \A i \in 1..(Len(shown) - 1) : st.rows[shown[i]] = "failed"
  BY <1>1, <1>4, <1>9 DEF IInv, VoiceInv
<1>11. started \subseteq Ran(order) BY DEF IInv, OrderInv
<1>12. \A m \in Models :
        /\ st.rows[m] \in {"failed", "interrupted"} => m \in st.started
        /\ st.rows[m] # "succeeded"
        /\ st.rows[m] = "out_of_time" => left = 0 /\ \E q \in at..Len(order) : m = order[q]
        /\ "interrupted" = "error" /\ st.rows[m] = "never_reached" =>
             \E q \in promoted' : order[q] = m
  BY <1>4, <1>7, <1>9 DEF OpenRows, OutRows
<1>13. started \subseteq st.started /\ st.started \subseteq Ran(order)
  BY <1>7, <1>11
<1>14. "interrupted" \in {"truncated", "cut_off", "error", "ended", "interrupted"}
       /\ ("interrupted" = "cut_off" /\ resumed => tracker = "tool" \/ ~policy.clean)
  OBVIOUS
<1> QED BY <1>1, <1>3, <1>8, <1>10, <1>12, <1>13, <1>14, EndKeeps

(* A request begins: nothing is left of the one before it.                 *)
LEMMA BeginHolds ==
  ASSUME IInv, BetweenRequests, NEW out \in policy.pauses, NEW limited, NEW answer,
         Begin(out, limited, answer)
  PROVE  IInv'
<1>1. PICK ord : ord = UsableIndexes(health, policy.mode, out, limited) OBVIOUS
<1>2. /\ ord \in Seq(Models) /\ Ordered(ord) /\ Ran(ord) \cap out = {}
      /\ ord = << >> => Models \subseteq out
      /\ Len(ord) \in Nat
  BY <1>1, UsableFacts
<1>3. PICK read : read = [m \in Models |-> IF policy.mode # "off" /\ m \notin out
                                           THEN Read(health[m]) ELSE health[m]]
  OBVIOUS
<1>4. read \in [Models -> ModelHealth]
  <2>1. \A m \in Models : health[m] \in ModelHealth BY DEF IInv, TypeOK
  <2>2. \A m \in Models : Read(health[m]) \in ModelHealth BY <2>1, HealthFacts
  <2> QED BY <1>3, <2>1, <2>2
<1>5. PICK told : told = [m \in Models |-> CASE m \in Ran(ord) -> "never_reached"
                                             [] m \in out -> "paused"
                                             [] OTHER -> "ejected"]
  OBVIOUS
<1>6. /\ told \in [Models -> Verdicts]
      /\ \A m \in Models : /\ m \in Ran(ord) => told[m] = "never_reached"
                           /\ m \notin Ran(ord) => told[m] \in {"paused", "ejected"}
  <2>1. \A m \in Ran(ord) : m \notin out BY <1>2
  <2> QED BY <1>5, <2>1 DEF Verdicts
<1>7. PICK st0 : st0 = [to |-> 0, ended |-> FALSE, left |-> policy.total, rows |-> told,
                        started |-> {}, health |-> read]
  OBVIOUS
<1>8. policy.total \in Nat \ {0} /\ policy.total \in 0..MaxTotal /\ MaxTotal \in Nat
  <2>1. policy.total \in 1..MaxTotal /\ MaxTotal \in Nat BY PolicyType, BoundsAssumption DEF IInv
  <2> QED BY <2>1
<1>9. st0 \in WalkState /\ st0.left = policy.total /\ st0.rows = told /\ st0.started = {}
  BY <1>4, <1>6, <1>7, <1>8 DEF WalkState
<1>10. PICK st : st = Prepare(st0, ord, From(ord, 1), answer) OBVIOUS
<1>11. 1 \in 1..(Len(ord) + 1) BY <1>2
<1>12. Walked(st0, ord, From(ord, 1), st) BY <1>2, <1>9, <1>10, <1>11, PrepareInOrder
<1>13. /\ st.to # 0 => st.to \in 1..Len(ord)
       /\ st.to = 0 /\ ~st.ended =>
            \A p \in 1..Len(ord) : st.rows[ord[p]] \in Passed \cup {"out_of_time"}
       /\ st.to # 0 => \A p \in 1..(st.to - 1) : st.rows[ord[p]] \in Passed
  BY <1>2, <1>11, <1>12, WalkedInOrder
<1>14. [i \in 1..Len(ord) |-> i] = From(ord, 1) BY <1>2 DEF From
<1>15. {ord[i] : i \in 1..Len(ord)} = Ran(ord) BY DEF Ran
<1>16. /\ requests' = requests + 1 /\ paused' = out /\ order' = ord /\ at' = st.to
       /\ rows' = st.rows /\ started' = st.started /\ health' = st.health
       /\ left' = policy.total /\ progress' = IF policy.stall > 0 THEN policy.total ELSE 0
       /\ until' = IF st.to = 0 THEN 0 ELSE ShareEnd(policy.total, Len(ord) + 1 - st.to)
       /\ slept' = 0 /\ spoke' = FALSE /\ aside' = FALSE /\ tracker' = "bare" /\ held' = << >> /\ shown' = << >>
       /\ resumed' = FALSE /\ failure' = "none" /\ promoted' = {}
       /\ IF st.to = 0 THEN phase' = "done" /\ result' = IF st.ended THEN "ended" ELSE "error"
                       ELSE phase' = "waiting" /\ result' = "none"
       /\ policy' = policy /\ others' = others
  <2> DEFINE read0 == [m \in Models |-> IF policy.mode # "off" /\ m \notin out
                                        THEN Read(health[m]) ELSE health[m]]
             ord0 == UsableIndexes(health, policy.mode, out, limited)
             usable0 == {ord0[i] : i \in 1..Len(ord0)}
             told0 == [m \in Models |-> CASE m \in usable0 -> "never_reached"
                                           [] m \in out -> "paused"
                                           [] OTHER -> "ejected"]
             walk0 == Prepare([to |-> 0, ended |-> FALSE, left |-> policy.total, rows |-> told0,
                               started |-> {}, health |-> read0],
                              ord0, [i \in 1..Len(ord0) |-> i], answer)
  <2>1. ord0 = ord /\ read0 = read BY <1>1, <1>3
  <2>2. usable0 = Ran(ord) BY <1>15, <2>1
  <2>3. told0 = told BY <1>5, <2>2
  <2>4. walk0 = st BY <1>7, <1>10, <1>14, <2>1, <2>3
  <2>5. /\ requests' = requests + 1 /\ paused' = out /\ order' = ord0 /\ at' = walk0.to
        /\ rows' = walk0.rows /\ started' = walk0.started /\ health' = walk0.health
        /\ left' = policy.total /\ progress' = IF policy.stall > 0 THEN policy.total ELSE 0
        /\ until' = IF walk0.to = 0 THEN 0
                    ELSE ShareEnd(policy.total, Len(ord0) + 1 - walk0.to)
        /\ slept' = 0 /\ spoke' = FALSE /\ aside' = FALSE /\ tracker' = "bare" /\ held' = << >> /\ shown' = << >>
        /\ resumed' = FALSE /\ failure' = "none" /\ promoted' = {}
        /\ IF walk0.to = 0
             THEN phase' = "done" /\ result' = IF walk0.ended THEN "ended" ELSE "error"
             ELSE phase' = "waiting" /\ result' = "none"
        /\ policy' = policy /\ others' = others
    BY Zenon DEF Begin
  <2> HIDE DEF read0, ord0, usable0, told0, walk0
  <2> QED BY <2>1, <2>4, <2>5
<1>17. /\ st \in WalkState /\ st.started \subseteq Ran(ord) /\ st.to \in Nat
       /\ st.rows \in [Models -> Verdicts] /\ st.started \subseteq Models
       /\ st.health \in [Models -> ModelHealth]
  BY <1>9, <1>12 DEF Walked, WalkState
<1>18. \A m \in Models :
         /\ st.rows[m] \in {told[m], "failed", "cooldown", "route_ended"}
         /\ m \notin Ran(ord) => st.rows[m] \in {told[m], "route_ended"}
         /\ st.rows[m] = "failed" => m \in st.started
         /\ st.rows[m] \in IF m \in Ran(ord) THEN OpenRows ELSE OutRows
  <2> SUFFICES ASSUME NEW m \in Models
               PROVE  /\ st.rows[m] \in {told[m], "failed", "cooldown", "route_ended"}
                      /\ m \notin Ran(ord) => st.rows[m] \in {told[m], "route_ended"}
                      /\ st.rows[m] = "failed" => m \in st.started
                      /\ st.rows[m] \in IF m \in Ran(ord) THEN OpenRows ELSE OutRows
    OBVIOUS
  <2>1. /\ st.rows[m] \in {told[m], "failed", "cooldown", "route_ended", "out_of_time"}
        /\ m \notin Ran(ord) => st.rows[m] \in {told[m], "route_ended"}
        /\ st.rows[m] = "failed" => told[m] = "failed" \/ m \in st.started
        /\ st.rows[m] = "out_of_time" => told[m] = "out_of_time"
    BY <1>8, <1>9, <1>12 DEF Walked
  <2>2. told[m] \in {"never_reached", "paused", "ejected"} BY <1>6
  <2> QED BY <1>6, <2>1, <2>2 DEF OpenRows, OutRows
<1>19. TypeOK'
  <2>1. until' \in 0..MaxTotal
    <3>1. CASE st.to = 0 BY <1>8, <1>16, <3>1
    <3>2. CASE st.to # 0
      <4>1. Len(ord) + 1 - st.to \in Nat \ {0} BY <1>2, <1>13, <3>2
      <4>2. until' \in 0..policy.total BY <1>8, <1>16, <3>2, <4>1, ShareFacts DEF IInv
      <4> QED BY <1>8, <4>2
    <3> QED BY <3>1, <3>2
  <2>2. progress' \in 0..MaxTotal /\ slept' \in 0..MaxTotal BY <1>8, <1>16
  <2>3. at' \in 0..Len(order') BY <1>2, <1>13, <1>16, <1>17
  <2>4. requests' \in 0..MaxRequests
    BY <1>16, BoundsAssumption DEF IInv, TypeOK, BetweenRequests
  <2>5. paused' \subseteq Models BY <1>16, PolicyType DEF IInv
  <2>6. phase' \in {"idle", "waiting", "closing", "probing", "done"}
        /\ result' \in {"none", "answered", "truncated", "cut_off", "error", "ended",
                        "interrupted"}
    BY <1>16
  <2>7. << >> \in Seq(Models) OBVIOUS
  <2> QED BY <1>2, <1>8, <1>16, <1>17, <2>1, <2>2, <2>3, <2>4, <2>5, <2>6, <2>7
          DEF IInv, TypeOK, Trackers
<1>20. OrderInv'
  <2>1. Ordered(order') BY <1>2, <1>16
  <2> QED BY <1>2, <1>16, <1>17, <2>1 DEF OrderInv
<1>21. SilenceInv'
  <2>1. SilenceKeepsTurns'
    BY <1>6, <1>16, <1>18 DEF SilenceKeepsTurns
  <2>2. ASSUME Active', policy.floor = 0, at' < Len(order')
        PROVE  left' > 0 /\ until' > 0 /\ left' >= until'
    <3>1. st.to # 0 BY <1>16, <2>2 DEF Active
    <3>2. Len(ord) + 1 - st.to \in Nat \ {0} /\ Len(ord) + 1 - st.to > 1
      BY <1>2, <1>13, <1>16, <2>2, <3>1
    <3>3. PICK n : n = Len(ord) + 1 - st.to OBVIOUS
    <3>4. ShareEnd(policy.total, n) \in 0..policy.total /\ ShareEnd(policy.total, n) > 0
      <4>1. n \in Nat \ {0} /\ n > 1 /\ policy.total \in Nat /\ policy.total > 0
        BY <1>8, <3>2, <3>3
      <4> QED BY <2>2, <4>1, ShareFacts DEF IInv
    <3>5. until' = ShareEnd(policy.total, n) BY <1>16, <3>1, <3>3
    <3> QED BY <1>8, <1>16, <3>4, <3>5
  <2> QED BY <1>16, <2>1, <2>2 DEF SilenceInv
<1>22. ResumeInv' BY <1>16 DEF ResumeInv, ResumeNeverWorse, Active
<1>23. VoiceInv'
  <2>1. Len(<< >>) = 0 OBVIOUS
  <2> QED BY <1>16, <2>1 DEF VoiceInv, OneVoice
<1>24. CASE st.to # 0
  <2>1. phase' = "waiting" /\ st.to \in 1..Len(ord) BY <1>13, <1>16, <1>24
  <2>2. LedgerInv'
    <3>1. ord[st.to] \in st.started BY <1>12, <1>24 DEF Walked
    <3>2. \A m \in Models : rows'[m] \in IF m \in Ran(order') THEN OpenRows ELSE OutRows
      BY <1>16, <1>18
    <3> QED BY <1>13, <1>16, <1>18, <1>24, <2>1, <3>1, <3>2 DEF LedgerInv, Current
  <2>3. StoryComplete' BY <2>1 DEF StoryComplete
  <2> QED BY <1>19, <1>20, <1>21, <1>22, <1>23, <2>2, <2>3 DEF IInv
<1>25. CASE st.to = 0
  <2>1. phase' = "done" /\ ~Active' /\ result' = IF st.ended THEN "ended" ELSE "error"
    BY <1>16, <1>25 DEF Active
  <2>2. LedgerInv' BY <1>16, <1>18, <2>1 DEF LedgerInv
  <2>3. \A m \in Models : st.rows[m] \notin {"succeeded", "interrupted"}
    BY <1>6, <1>18
  <2>4. ASSUME ~st.ended, NEW m \in Models PROVE st.rows[m] # "never_reached"
    <3>1. CASE m \in Ran(ord)
      <4>1. PICK p \in 1..Len(ord) : m = ord[p] BY <3>1 DEF Ran
      <4> QED BY <1>13, <1>25, <2>4, <4>1 DEF Passed
    <3>2. CASE m \notin Ran(ord) BY <1>6, <1>18, <3>2
    <3> QED BY <3>1, <3>2
  <2>5. StoryComplete' BY <1>16, <1>18, <2>1, <2>3, <2>4 DEF StoryComplete
  <2> QED BY <1>19, <1>20, <1>21, <1>22, <1>23, <2>2, <2>5 DEF IInv
<1> QED BY <1>24, <1>25

-----------------------------------------------------------------------------
(* A failure nobody has read anything of: the walk goes on.                *)

LEMMA CandidateFacts ==
  ASSUME TypeOK, NEW start \in 1..(Len(order) + 1), NEW prefer, NEW cs,
         cs = CandidateOrder(start, prefer)
  PROVE  /\ cs \in Seq(start..Len(order))
         /\ prefer = "none" => cs = From(order, start)
<1>1. order \in Seq(Models) /\ Len(order) \in Nat BY DEF TypeOK
<1>2. PICK all : all = From(order, start) OBVIOUS
<1>3. Positions(start) = all BY <1>2 DEF Positions, From
<1>4. all \in Seq(start..Len(order)) BY <1>1, <1>2 DEF From
<1>5. PICK preferred : preferred = {p \in 1..Len(order) : ProviderOf[order[p]] = prefer} OBVIOUS
<1>6. PICK a, b : a = Kept(all, preferred) /\ b = Kept(all, (1..Len(order)) \ preferred) OBVIOUS
<1>7. a \in Seq(start..Len(order)) /\ b \in Seq(start..Len(order))
  BY <1>4, <1>6, KeptProperties
<1>8. cs = IF prefer = "none" THEN all ELSE a \o b
  BY <1>3, <1>5, <1>6 DEF CandidateOrder
<1>9. a \o b \in Seq(start..Len(order)) BY <1>7
<1> QED BY <1>2, <1>4, <1>8, <1>9

(* What is behind the attempt in flight, and that attempt itself unless it *)
(* is walked again, passed or was jumped over.                             *)
Settled(st, start) ==
  /\ \A q \in 1..(at - 1) : st.rows[order[q]] \in Passed \/ q \in promoted
  /\ start = at + 1 => st.rows[Current] \in Passed \cup {"out_of_time"}

LEMMA OnwardsKeeps ==
  ASSUME IInv, Active, shown = << >>, NEW st, Sound(st), NEW start \in {at, at + 1},
         Settled(st, start), NEW prefer, NEW answer, Onwards(st, start, prefer, answer)
  PROVE  IInv'
<1>1. /\ order \in Seq(Models) /\ Ordered(order) /\ Len(order) \in Nat /\ at \in 1..Len(order)
      /\ TypeOK /\ Current \in Models
  BY BehindIsOther DEF IInv
<1>2. start \in 1..(Len(order) + 1) /\ at \in 1..(Len(order) + 1) /\ at <= start
      /\ start..Len(order) \subseteq at..Len(order)
  BY <1>1
<1>3. PICK cs : cs = CandidateOrder(start, prefer) OBVIOUS
<1>4. cs \in Seq(start..Len(order)) /\ (prefer = "none" => cs = From(order, start))
  BY <1>1, <1>2, <1>3, CandidateFacts
<1>5. cs \in Seq(at..Len(order)) BY <1>2, <1>4
<1>6. PICK next : next = Prepare(st, order, cs, answer) OBVIOUS
<1>7. /\ Walked(st, order, cs, next) /\ Sound(next)
      /\ \A q \in 1..(at - 1) : next.rows[order[q]] = st.rows[order[q]]
      /\ next.to # 0 => next.to \in at..Len(order) /\ left # 0
  BY <1>5, <1>6, WalkSound
<1>8. PICK last : last = Prepare(next, order, From(order, at), answer) OBVIOUS
<1>9. From(order, at) \in Seq(at..Len(order)) BY <1>1 DEF From
<1>10. /\ Walked(next, order, From(order, at), last) /\ Sound(last)
       /\ \A q \in 1..(at - 1) : last.rows[order[q]] = next.rows[order[q]]
       /\ last.to # 0 => last.to \in at..Len(order) /\ left # 0
  BY <1>7, <1>8, <1>9, WalkSound
<1>11. PICK jumped : jumped = {p \in start..(IF next.to = 0 THEN Len(order) ELSE next.to - 1) :
                                 /\ prefer # "none" /\ ~next.ended
                                 /\ next.rows[order[p]] \in {"never_reached", "route_ended"}}
  OBVIOUS
<1>12. PICK again \in BOOLEAN : again = (next.to = 0 /\ RateLimited /\ tries < policy.tries)
  OBVIOUS
<1>13. \/ /\ next.to # 0 /\ Attempt(next, next.to)
          /\ promoted' = promoted \cup jumped /\ resumed' = resumed
       \/ /\ next.to = 0 /\ again /\ last.to # 0 /\ Attempt(last, last.to)
          /\ promoted' = promoted /\ resumed' = resumed
       \/ /\ next.to = 0 /\ again /\ last.to = 0
          /\ End(last, IF last.ended THEN "ended" ELSE "error")
          /\ promoted' = promoted \cup jumped /\ resumed' = resumed
       \/ /\ next.to = 0 /\ ~again
          /\ End(next, IF next.ended THEN "ended" ELSE "error")
          /\ promoted' = promoted \cup jumped /\ resumed' = resumed
  <2>1. Positions(at) = From(order, at) BY DEF Positions, From
  <2> QED BY <1>3, <1>6, <1>8, <1>11, <1>12, <2>1 DEF Onwards
<1>14. ASSUME start = at + 1
       PROVE  next.rows[Current] \in Passed \cup {"out_of_time"}
  <2>1. \A i \in 1..Len(cs) : at < cs[i] BY <1>1, <1>4, <1>14
  <2>2. next.rows[Current] = st.rows[Current] BY <1>1, <1>7, <2>1 DEF Walked, Current
  <2> QED BY <1>14, <2>2 DEF Settled
<1>15. ASSUME NEW q \in 1..(at - 1), NEW r \in {next, last}
       PROVE  r.rows[order[q]] \in Passed \/ q \in promoted
  BY <1>7, <1>10 DEF Settled
<1>16. Len(shown) = 0 BY DEF IInv
<1>17. \A r \in {next, last} :
         /\ r \in WalkState /\ started \subseteq r.started /\ r.started \subseteq Ran(order)
         /\ \A m \in Models :
              /\ r.rows[m] \in {"failed", "interrupted"} => m \in r.started
              /\ r.rows[m] # "succeeded"
              /\ r.rows[m] = "out_of_time" => left = 0 /\ \E p \in at..Len(order) : m = order[p]
              /\ r.rows[m] = "never_reached" => m \in Ran(order)
  <2>1. \A r : Sound(r) =>
         /\ r \in WalkState /\ started \subseteq r.started /\ r.started \subseteq Ran(order)
         /\ \A m \in Models :
              /\ r.rows[m] \in {"failed", "interrupted"} => m \in r.started
              /\ r.rows[m] # "succeeded"
              /\ r.rows[m] = "out_of_time" => left = 0 /\ \E p \in at..Len(order) : m = order[p]
              /\ r.rows[m] = "never_reached" => m \in Ran(order)
    BY DEF Sound, OpenRows, OutRows
  <2> QED BY <1>7, <1>10, <2>1
<1>18. CASE next.to # 0 /\ Attempt(next, next.to) /\ promoted' = promoted \cup jumped
            /\ resumed' = resumed
  <2>1. next.to \in at..Len(order) /\ left # 0 /\ next.to \in 1..Len(order) BY <1>1, <1>7, <1>18
  <2>2. order[next.to] \in next.started /\ ~next.ended BY <1>7, <1>18 DEF Walked
  <2>3. \A m \in Models : next.rows[m] # "out_of_time" BY <1>7, <2>1 DEF Sound
  <2>4. ASSUME NEW q \in 1..(next.to - 1)
        PROVE  next.rows[order[q]] \in Passed \/ q \in promoted'
    <3>1. q \in 1..Len(order) /\ order[q] \in Models BY <1>1, <2>1
    <3>2. CASE q < at
      <4>1. q \in 1..(at - 1) BY <1>1, <3>1, <3>2
      <4> QED BY <1>15, <1>18, <4>1
    <3>3. CASE q = at /\ start = at + 1
      BY <1>14, <2>3, <3>1, <3>3 DEF Current
    <3>4. CASE q >= start /\ prefer = "none"
      <4>1. q \in start..(next.to - 1) BY <1>1, <1>2, <2>1, <3>1, <3>4
      <4>2. Walked(st, order, From(order, start), next) BY <1>4, <1>7, <3>4
      <4>3. \A p \in start..(next.to - 1) : next.rows[order[p]] \in Passed
        BY <1>1, <1>2, <1>18, <4>2, WalkedInOrder
      <4> QED BY <4>1, <4>3
    <3>5. CASE q >= start /\ prefer # "none"
      <4>1. q \in start..(next.to - 1) BY <1>1, <1>2, <2>1, <3>1, <3>5
      <4>2. next.rows[order[q]] \in OpenRows
        <5>1. order[q] \in Ran(order) BY <3>1 DEF Ran
        <5> QED BY <1>7, <2>3, <3>1, <5>1 DEF Sound
      <4>3. next.rows[order[q]] \in Passed \/ q \in jumped
        BY <1>11, <1>18, <2>2, <3>5, <4>1, <4>2 DEF OpenRows, Passed
      <4> QED BY <1>18, <4>3
    <3> QED BY <1>1, <1>2, <3>1, <3>2, <3>3, <3>4, <3>5
  <2> QED BY <1>7, <1>18, <2>1, <2>2, <2>4, AttemptKeeps
<1>19. CASE last.to # 0 /\ Attempt(last, last.to) /\ promoted' = promoted /\ resumed' = resumed
  <2>1. last.to \in at..Len(order) /\ left # 0 /\ last.to \in 1..Len(order) BY <1>1, <1>10, <1>19
  <2>2. order[last.to] \in last.started BY <1>10, <1>19 DEF Walked
  <2>3. \A p \in at..(last.to - 1) : last.rows[order[p]] \in Passed
    BY <1>1, <1>2, <1>10, <1>19, WalkedInOrder
  <2>4. ASSUME NEW q \in 1..(last.to - 1)
        PROVE  last.rows[order[q]] \in Passed \/ q \in promoted'
    <3>1. q \in 1..(at - 1) \/ q \in at..(last.to - 1) BY <1>1, <2>1
    <3> QED BY <1>15, <1>19, <2>3, <3>1
  <2> QED BY <1>10, <1>19, <2>1, <2>2, <2>4, AttemptKeeps
<1>20. CASE /\ last.to = 0 /\ End(last, IF last.ended THEN "ended" ELSE "error")
            /\ promoted' = promoted \cup jumped /\ resumed' = resumed
  <2>1. ASSUME ~last.ended, NEW m \in Models, last.rows[m] = "never_reached"
        PROVE  \E q \in promoted' : order[q] = m
    <3>1. PICK q \in 1..Len(order) : m = order[q] BY <1>17, <2>1 DEF Ran
    <3>2. CASE q < at
      <4>1. q \in 1..(at - 1) BY <1>1, <3>1, <3>2
      <4>2. q \in promoted BY <1>15, <2>1, <3>1, <4>1 DEF Passed
      <4> QED BY <1>20, <3>1, <4>2
    <3>3. CASE ~(q < at)
      <4>1. q \in at..Len(order) BY <1>1, <3>1, <3>3
      <4>2. last.rows[order[q]] \in Passed \cup {"out_of_time"}
        BY <1>1, <1>2, <1>10, <1>20, <2>1, <4>1, WalkedInOrder
      <4> QED BY <2>1, <3>1, <4>2 DEF Passed
    <3> QED BY <3>2, <3>3
  <2> QED BY <1>16, <1>17, <1>20, <2>1, EndKeeps
<1>21. CASE /\ next.to = 0 /\ End(next, IF next.ended THEN "ended" ELSE "error")
            /\ promoted' = promoted \cup jumped /\ resumed' = resumed
  <2>1. ASSUME ~next.ended, NEW m \in Models, next.rows[m] = "never_reached"
        PROVE  \E q \in promoted' : order[q] = m
    <3>1. PICK q \in 1..Len(order) : m = order[q] BY <1>17, <2>1 DEF Ran
    <3>2. CASE q < at
      <4>1. q \in 1..(at - 1) BY <1>1, <3>1, <3>2
      <4>2. q \in promoted BY <1>15, <2>1, <3>1, <4>1 DEF Passed
      <4> QED BY <1>21, <3>1, <4>2
    <3>3. CASE q = at /\ start = at + 1
      BY <1>14, <2>1, <3>1, <3>3 DEF Current, Passed
    <3>4. CASE q >= start /\ prefer = "none"
      <4>1. q \in start..Len(order) BY <1>1, <1>2, <3>1, <3>4
      <4>2. Walked(st, order, From(order, start), next) BY <1>4, <1>7, <3>4
      <4>3. next.rows[order[q]] \in Passed \cup {"out_of_time"}
        BY <1>1, <1>2, <1>21, <2>1, <4>1, <4>2, WalkedInOrder
      <4> QED BY <2>1, <3>1, <4>3 DEF Passed
    <3>5. CASE q >= start /\ prefer # "none"
      <4>1. q \in start..Len(order) BY <1>1, <1>2, <3>1, <3>5
      <4>2. q \in jumped BY <1>11, <1>21, <2>1, <3>1, <3>5, <4>1
      <4> QED BY <1>21, <3>1, <4>2
    <3> QED BY <1>1, <1>2, <3>1, <3>2, <3>3, <3>4, <3>5
  <2> QED BY <1>16, <1>17, <1>21, <2>1, EndKeeps
<1> QED BY <1>13, <1>18, <1>19, <1>20, <1>21

LEMMA ChargedFacts ==
  ASSUME IInv, NEW st \in WalkState, NEW m \in Models, NEW r, r = Charged(st, m)
  PROVE  /\ r \in WalkState /\ r.to = st.to /\ r.ended = st.ended /\ r.left = st.left
         /\ r.rows = st.rows /\ r.started = st.started
         /\ Sound(st) => Sound(r)
<1>1. st.health \in [Models -> ModelHealth] /\ st.health[m] \in ModelHealth BY DEF WalkState
<1>2. PICK h : h = RecordFailure(st.health[m], policy.mode, failure) OBVIOUS
<1>3. h \in ModelHealth BY <1>1, <1>2, HealthFacts
<1>4. PICK all : all = [st.health EXCEPT ![m] = h] OBVIOUS
<1>5. all \in [Models -> ModelHealth] BY <1>1, <1>3, <1>4
<1>6. r = [st EXCEPT !.health = all]
  BY <1>1, <1>2, <1>4 DEF Charged, WalkState
<1>7. /\ r \in WalkState /\ r.to = st.to /\ r.ended = st.ended /\ r.left = st.left
      /\ r.rows = st.rows /\ r.started = st.started
  BY <1>5, <1>6 DEF WalkState
<1> QED BY <1>7 DEF Sound

LEMMA FailedFacts ==
  ASSUME IInv, Active, NEW st, Sound(st), NEW r, r = Failed(st, Current)
  PROVE  /\ Sound(r) /\ r.to = st.to /\ r.ended = st.ended
         /\ r.started = st.started
         /\ \A m \in Models : r.rows[m] = IF m = Current THEN "failed" ELSE st.rows[m]
<1>1. /\ Current \in Models /\ Current \in started /\ Current \in Ran(order) BY BehindIsOther
<1>2. st \in WalkState /\ st.rows \in [Models -> Verdicts] BY DEF Sound, WalkState
<1>3. PICK rw : rw = [st.rows EXCEPT ![Current] = "failed"] OBVIOUS
<1>4. rw \in [Models -> Verdicts] BY <1>2, <1>3 DEF Verdicts
<1>5. r = [st EXCEPT !.rows = rw] BY <1>3 DEF Failed
<1>6. /\ r \in WalkState /\ r.to = st.to /\ r.ended = st.ended /\ r.left = st.left
      /\ r.started = st.started /\ r.rows = rw
  BY <1>2, <1>4, <1>5 DEF WalkState
<1>7. \A m \in Models : r.rows[m] = IF m = Current THEN "failed" ELSE st.rows[m]
  BY <1>1, <1>2, <1>3, <1>6
<1>8. Current \in st.started BY <1>1 DEF Sound
<1>9. Sound(r) BY <1>1, <1>6, <1>7, <1>8 DEF Sound, OpenRows
<1> QED BY <1>6, <1>7, <1>9

(* The route ends at the attempt in flight: what is behind it stays told.  *)
LEMMA RouteEnds ==
  ASSUME IInv, Active, NEW st, Sound(st), st.rows[Current] = "failed",
         \A q \in 1..(at - 1) : st.rows[order[q]] = rows[order[q]],
         NEW rw, rw = UnreachableAfter(st.rows, Current), NEW how, NEW h,
         NEW r, r = [st EXCEPT !.rows = rw, !.health = h], h \in [Models -> ModelHealth],
         End(r, how), how \in {"truncated", "cut_off", "ended"}, resumed' <=> resumed,
         how = "cut_off" /\ resumed => tracker = "tool" \/ ~policy.clean
  PROVE  IInv'
<1>1. /\ order \in Seq(Models) /\ Ordered(order) /\ at \in 1..Len(order) /\ Len(order) \in Nat
      /\ Current \in Models
  BY BehindIsOther
<1>2. st \in WalkState /\ st.rows \in [Models -> Verdicts] BY DEF Sound, WalkState
<1>3. rw \in [Models -> Verdicts] /\ \A m \in Models : rw[m] \in {st.rows[m], "route_ended"}
  BY <1>2 DEF UnreachableAfter, Verdicts
<1>4. /\ r \in WalkState /\ r.rows = rw /\ r.started = st.started
  BY <1>2, <1>3 DEF WalkState
<1>5. started \subseteq r.started /\ r.started \subseteq Ran(order) BY <1>4 DEF Sound
<1>6. ASSUME NEW m \in Models
      PROVE  /\ r.rows[m] \in {"failed", "interrupted"} => m \in r.started
             /\ r.rows[m] # "succeeded"
             /\ r.rows[m] = "out_of_time" => left = 0 /\ \E q \in at..Len(order) : m = order[q]
  <2>1. rw[m] \in {st.rows[m], "route_ended"} BY <1>3
  <2>2. /\ st.rows[m] = "failed" => m \in st.started
        /\ st.rows[m] \notin {"interrupted", "succeeded"}
        /\ st.rows[m] = "out_of_time" => left = 0 /\ \E q \in at..Len(order) : m = order[q]
    BY DEF Sound, OpenRows, OutRows
  <2> QED BY <1>4, <2>1, <2>2
<1>7. ASSUME NEW i \in 1..(Len(shown) - 1) PROVE r.rows[shown[i]] = "failed"
  <2>1. Behind(shown[i]) BY DEF IInv, VoiceInv
  <2>2. PICK p \in 1..(at - 1) : shown[i] = order[p] /\ rows[shown[i]] = "failed"
    BY <2>1 DEF Behind
  <2>3. p \in 1..Len(order) /\ p <= at /\ order[p] \in Models BY <1>1, <2>2
  <2>4. ~(IndexOf(order[p]) > IndexOf(Current))
    BY <1>1, <2>3, OrderedInjective DEF Current
  <2>5. rw[order[p]] = st.rows[order[p]] BY <2>3, <2>4 DEF UnreachableAfter
  <2> QED BY <1>4, <2>2, <2>5
<1>8. how # "error" /\ how \in {"truncated", "cut_off", "error", "ended", "interrupted"}
  OBVIOUS
<1>9. \A m \in Models :
        /\ r.rows[m] \in {"failed", "interrupted"} => m \in r.started
        /\ r.rows[m] # "succeeded"
        /\ r.rows[m] = "out_of_time" => left = 0 /\ \E q \in at..Len(order) : m = order[q]
        /\ how = "error" /\ r.rows[m] = "never_reached" => \E q \in promoted' : order[q] = m
  BY <1>6, <1>8
<1>10. r \in WalkState BY <1>4
<1> HIDE DEF WalkState
<1> QED BY <1>5, <1>7, <1>8, <1>9, <1>10, EndKeeps

LEMMA CommittedFailsHolds ==
  ASSUME IInv, phase = "closing", failure # "none", NEW answer, CommittedFails(answer)
  PROVE  IInv'
<1>1. Active BY DEF Active
<1>2. /\ order \in Seq(Models) /\ Ordered(order) /\ Len(order) \in Nat /\ at \in 1..Len(order)
      /\ Current \in Models /\ Current \in Ran(order)
      /\ \A p \in 1..Len(order) : order[p] \in Models /\ (p # at => order[p] # Current)
      /\ \A m : Behind(m) => m # Current /\ m \in Models /\ rows[m] = "failed"
  BY <1>1, BehindIsOther
<1>3. Sound(State) /\ State.rows = rows /\ State.to = 0 BY <1>1, StateSound
<1>4. PICK walk : walk = Prepare(State, order, From(order, at + 1), answer) OBVIOUS
<1>5. PICK next : next = IF CanResume THEN walk ELSE State OBVIOUS
<1>6. at + 1 \in 1..(Len(order) + 1) BY <1>2
<1>7. From(order, at + 1) \in Seq(at..Len(order)) BY <1>2 DEF From
<1>8. /\ Walked(State, order, From(order, at + 1), walk) /\ Sound(walk)
      /\ \A q \in 1..(at - 1) : walk.rows[order[q]] = rows[order[q]]
      /\ walk.to # 0 => left # 0
  BY <1>1, <1>3, <1>4, <1>7, WalkSound
<1>9. walk.to # 0 => /\ walk.to \in (at + 1)..Len(order)
                     /\ \A p \in (at + 1)..(walk.to - 1) : walk.rows[order[p]] \in Passed
  BY <1>2, <1>6, <1>8, WalkedInOrder
<1>10. Sound(next) /\ \A q \in 1..(at - 1) : next.rows[order[q]] = rows[order[q]]
  BY <1>3, <1>5, <1>8
<1>11. PICK lost : lost = Failed(next, Current) OBVIOUS
<1>12. /\ Sound(lost) /\ lost.to = next.to /\ lost.started = next.started
       /\ \A m \in Models : lost.rows[m] = IF m = Current THEN "failed" ELSE next.rows[m]
  BY <1>1, <1>10, <1>11, FailedFacts
<1>13. PICK st : st = Charged(lost, Current) OBVIOUS
<1>14. /\ Sound(st) /\ st.rows = lost.rows /\ st.started = lost.started
  <2>1. lost \in WalkState /\ Current \in Models BY <1>2, <1>12 DEF Sound
  <2>2. /\ st.rows = lost.rows /\ st.started = lost.started
        /\ Sound(lost) => Sound(st)
    BY <1>13, <2>1, ChargedFacts
  <2> QED BY <1>12, <2>2
<1>15. PICK rw : rw = UnreachableAfter(lost.rows, Current) OBVIOUS
<1>16. PICK over : over = [next EXCEPT !.rows = rw] OBVIOUS
<1>17. /\ shown # << >> /\ promoted' = promoted /\ (resumed' <=> (resumed \/ next.to # 0))
       /\ \/ next.to # 0 /\ Attempt(st, next.to)
          \/ /\ next.to = 0 /\ policy.clean /\ policy.messages /\ Closable
             /\ End(Charged(over, Current), "truncated")
          \/ /\ next.to = 0 /\ ~(policy.clean /\ policy.messages /\ Closable)
             /\ End(over, "cut_off")
  <2>1. Positions(at + 1) = From(order, at + 1) BY DEF Positions, From
  <2>2. next = IF CanResume THEN Prepare(State, order, Positions(at + 1), answer) ELSE State
    BY <1>4, <1>5, <2>1
  <2>3. [next.rows EXCEPT ![Current] = "failed"] = lost.rows
    BY <1>10, <1>11 DEF Failed, Sound, WalkState
  <2>4. over = [next EXCEPT !.rows = UnreachableAfter([@ EXCEPT ![Current] = "failed"], Current)]
    BY <1>15, <1>16, <2>3
  <2>5. st = Charged(Failed(next, Current), Current) BY <1>11, <1>13
  <2> QED BY <2>2, <2>4, <2>5 DEF CommittedFails, Committed, Continued
<1>18. CASE next.to # 0 /\ Attempt(st, next.to)
  <2>1. CanResume /\ next = walk BY <1>3, <1>5, <1>18
  <2>2. policy.messages /\ tracker = "text" BY <2>1 DEF CanResume
  <2>3. next.to \in (at + 1)..Len(order) /\ next.to \in 1..Len(order) /\ left # 0
    BY <1>2, <1>8, <1>9, <1>18, <2>1
  <2>4. order[next.to] \in st.started
    BY <1>8, <1>12, <1>14, <1>18, <2>1 DEF Walked
  <2>5. ASSUME NEW q \in 1..(next.to - 1) PROVE st.rows[order[q]] \in Passed \/ q \in promoted'
    <3>1. q \in 1..Len(order) /\ order[q] \in Models BY <1>2, <2>3
    <3>2. CASE q < at
      <4>1. q \in 1..(at - 1) BY <1>2, <3>1, <3>2
      <4>2. rows[order[q]] \in Passed \/ q \in promoted BY <1>1, <4>1 DEF IInv, LedgerInv
      <4>3. st.rows[order[q]] = rows[order[q]] BY <1>2, <1>10, <1>12, <1>14, <3>1, <3>2, <4>1
      <4> QED BY <1>17, <4>2, <4>3
    <3>3. CASE q = at BY <1>2, <1>12, <1>14, <3>3 DEF Passed, Current
    <3>4. CASE q > at
      <4>1. q \in (at + 1)..(next.to - 1) BY <1>2, <2>3, <3>1, <3>4
      <4>2. next.rows[order[q]] \in Passed BY <1>9, <1>18, <2>1, <4>1
      <4> QED BY <1>12, <1>14, <3>1, <4>2 DEF Passed
    <3> QED BY <1>2, <3>1, <3>2, <3>3, <3>4
  <2>6. ASSUME NEW m, Behind(m) \/ m = Current
        PROVE  \E q \in 1..(next.to - 1) : m = order[q] /\ st.rows[m] = "failed"
    <3>1. CASE Behind(m)
      <4>1. PICK q \in 1..(at - 1) : m = order[q] /\ rows[m] = "failed" BY <3>1 DEF Behind
      <4>2. q \in 1..(next.to - 1) BY <1>2, <2>3, <4>1
      <4>3. m # Current /\ m \in Models BY <1>2, <3>1
      <4>4. st.rows[m] = "failed" BY <1>10, <1>12, <1>14, <4>1, <4>3
      <4> QED BY <4>1, <4>2, <4>4
    <3>2. CASE m = Current
      <4>1. at \in 1..(next.to - 1) /\ m = order[at] BY <1>2, <2>3, <3>2 DEF Current
      <4> QED BY <1>2, <1>12, <1>14, <3>2, <4>1
    <3> QED BY <2>6, <3>1, <3>2
  <2>7. \A i \in 1..Len(shown) : Behind(shown[i]) \/ shown[i] = Current
    <3>1. /\ \A i \in 1..(Len(shown) - 1) : Behind(shown[i])
          /\ shown[Len(shown)] # Current => Behind(shown[Len(shown)])
      BY <1>1, <1>17 DEF IInv, VoiceInv
    <3>2. Len(shown) \in Nat BY DEF IInv, TypeOK
    <3>3. \A i \in 1..Len(shown) : i = Len(shown) \/ i \in 1..(Len(shown) - 1) BY <3>2
    <3> QED BY <3>1, <3>3
  <2>8. resumed' BY <1>17, <1>18
  <2> QED BY <1>1, <1>14, <1>18, <2>2, <2>3, <2>4, <2>5, <2>6, <2>7, <2>8, AttemptKeeps
<1>19. lost.rows[Current] = "failed" /\ \A q \in 1..(at - 1) : lost.rows[order[q]] = rows[order[q]]
  <2>1. \A q \in 1..(at - 1) : q \in 1..Len(order) /\ q # at BY <1>2
  <2> QED BY <1>2, <1>10, <1>12, <2>1
<1>20. next \in WalkState /\ lost \in WalkState BY <1>10, <1>12 DEF Sound
<1>21. over \in WalkState
  <2>1. rw \in [Models -> Verdicts]
    BY <1>15, <1>20 DEF UnreachableAfter, WalkState, Verdicts
  <2> QED BY <1>16, <1>20, <2>1 DEF WalkState
<1>22. CASE /\ next.to = 0 /\ policy.clean /\ policy.messages /\ Closable
            /\ End(Charged(over, Current), "truncated")
  <2>1. PICK r : r = Charged(over, Current) OBVIOUS
  <2>2. r = [lost EXCEPT !.rows = rw, !.health = r.health]
    BY <1>11, <1>16, <1>20, <2>1 DEF Charged, Failed, WalkState
  <2>3. r.health \in [Models -> ModelHealth]
    <3>1. r \in WalkState BY <1>2, <1>21, <2>1, ChargedFacts
    <3> QED BY <3>1 DEF WalkState
  <2>4. PICK h : h = r.health OBVIOUS
  <2>5. r = [lost EXCEPT !.rows = rw, !.health = h] /\ h \in [Models -> ModelHealth]
    BY <2>2, <2>3, <2>4
  <2>6. End(r, "truncated") /\ (resumed' <=> resumed) BY <1>17, <1>22, <2>1
  <2>7. "truncated" \in {"truncated", "cut_off", "ended"} /\ "truncated" # "cut_off" OBVIOUS
  <2> QED BY <1>1, <1>12, <1>15, <1>19, <2>5, <2>6, <2>7, RouteEnds
<1>23. CASE /\ next.to = 0 /\ ~(policy.clean /\ policy.messages /\ Closable)
            /\ End(over, "cut_off")
  <2>1. over = [lost EXCEPT !.rows = rw, !.health = over.health]
    BY <1>11, <1>16, <1>20 DEF Failed, WalkState
  <2>2. over.health \in [Models -> ModelHealth] BY <1>21 DEF WalkState
  <2>3. resumed => tracker = "tool" \/ ~policy.clean
    BY <1>1, <1>23 DEF IInv, ResumeInv, Closable
  <2>4. PICK h : h = over.health OBVIOUS
  <2>5. over = [lost EXCEPT !.rows = rw, !.health = h] /\ h \in [Models -> ModelHealth]
    BY <2>1, <2>2, <2>4
  <2>6. End(over, "cut_off") /\ (resumed' <=> resumed) BY <1>17, <1>23
  <2>7. "cut_off" \in {"truncated", "cut_off", "ended"} OBVIOUS
  <2> QED BY <1>1, <1>12, <1>15, <1>19, <2>3, <2>5, <2>6, <2>7, RouteEnds
<1> QED BY <1>17, <1>18, <1>22, <1>23

(* The model asked to go on has the row; the one that failed keeps its own. *)
LEMMA InterruptedAtSeamHolds ==
  ASSUME IInv, phase = "closing", failure # "none", NEW answer, InterruptedAtSeam(answer)
  PROVE  IInv'
<1>1. Active BY DEF Active
<1>2. /\ order \in Seq(Models) /\ Len(order) \in Nat /\ at \in 1..Len(order)
      /\ \A p \in 1..Len(order) : order[p] \in Models
      /\ Ordered(order)
  BY <1>1, BehindIsOther
<1>3. Sound(State) /\ State.rows = rows /\ State.to = 0 BY <1>1, StateSound
<1>4. PICK next : next = Prepare(State, order, From(order, at + 1), answer) OBVIOUS
<1>5. /\ next.to # 0
      /\ End([next EXCEPT !.rows[order[next.to]] = "interrupted"], "interrupted")
      /\ resumed' = resumed
  <2>1. Positions(at + 1) = From(order, at + 1) BY DEF Positions, From
  <2>2. State.to = 0 BY <1>3
  <2> QED BY <1>4, <2>1, <2>2 DEF InterruptedAtSeam, Continued
<1>6. From(order, at + 1) \in Seq(at..Len(order)) BY <1>2 DEF From
<1>7. /\ Walked(State, order, From(order, at + 1), next) /\ Sound(next)
      /\ \A q \in 1..(at - 1) : next.rows[order[q]] = rows[order[q]]
      /\ next.to \in at..Len(order)
  BY <1>1, <1>3, <1>4, <1>5, <1>6, WalkSound
<1>8. at + 1 \in 1..(Len(order) + 1) BY <1>2
<1>9. next.to \in (at + 1)..Len(order)
  BY <1>2, <1>5, <1>7, <1>8, WalkedInOrder
<1>10. PICK m : m = order[next.to] OBVIOUS
<1>11. m \in Models /\ m \in next.started
  BY <1>2, <1>5, <1>7, <1>9, <1>10 DEF Walked
<1>12. PICK rw : rw = [next.rows EXCEPT ![m] = "interrupted"] OBVIOUS
<1>13. next \in WalkState /\ next.rows \in [Models -> Verdicts] BY <1>7 DEF Sound, WalkState
<1>14. /\ rw \in [Models -> Verdicts]
       /\ \A x \in Models : rw[x] = IF x = m THEN "interrupted" ELSE next.rows[x]
  BY <1>11, <1>12, <1>13 DEF Verdicts
<1>15. PICK st : st = [next EXCEPT !.rows = rw] OBVIOUS
<1>16. /\ st \in WalkState /\ st.rows = rw /\ st.started = next.started
  BY <1>13, <1>14, <1>15 DEF WalkState
<1>17. End(st, "interrupted") /\ (resumed' <=> resumed)
  <2>1. [next EXCEPT !.rows[order[next.to]] = "interrupted"] = st
    BY <1>10, <1>12, <1>15
  <2> QED BY <1>5, <2>1
<1>18. started \subseteq st.started /\ st.started \subseteq Ran(order)
  BY <1>7, <1>16 DEF Sound
<1>19. \A x \in Models :
        /\ st.rows[x] \in {"failed", "interrupted"} => x \in st.started
        /\ st.rows[x] # "succeeded"
        /\ st.rows[x] = "out_of_time" => left = 0 /\ \E q \in at..Len(order) : x = order[q]
        /\ "interrupted" = "error" /\ st.rows[x] = "never_reached" =>
             \E q \in promoted' : order[q] = x
  BY <1>7, <1>11, <1>14, <1>16 DEF Sound, OpenRows, OutRows
<1>20. ASSUME NEW i \in 1..(Len(shown) - 1) PROVE st.rows[shown[i]] = "failed"
  <2>1. Behind(shown[i]) BY <1>1 DEF IInv, VoiceInv
  <2>2. PICK p \in 1..(at - 1) : shown[i] = order[p] /\ rows[shown[i]] = "failed"
    BY <2>1 DEF Behind
  <2>3. p \in 1..Len(order) /\ p # next.to /\ next.to \in 1..Len(order) /\ order[p] \in Models
    BY <1>2, <1>9, <2>2
  <2>4. order[p] # m BY <1>2, <1>10, <2>3, OrderedInjective
  <2> QED BY <1>7, <1>14, <1>16, <2>2, <2>3, <2>4
<1>21. "interrupted" \in {"truncated", "cut_off", "error", "ended", "interrupted"}
       /\ ("interrupted" = "cut_off" /\ resumed => tracker = "tool" \/ ~policy.clean)
  OBVIOUS
<1> QED BY <1>1, <1>16, <1>17, <1>18, <1>19, <1>20, <1>21, EndKeeps

LEMMA UncommittedFailsHolds ==
  ASSUME IInv, phase = "closing", failure # "none", NEW answer, UncommittedFails(answer)
  PROVE  IInv'
<1>1. Active BY DEF Active
<1>2. /\ order \in Seq(Models) /\ Ordered(order) /\ Len(order) \in Nat /\ at \in 1..Len(order)
      /\ Current \in Models
      /\ \A p \in 1..Len(order) : order[p] \in Models /\ (p # at => order[p] # Current)
      /\ \A q \in 1..(at - 1) : rows[order[q]] \in Passed \/ q \in promoted
  BY <1>1, BehindIsOther DEF IInv, LedgerInv
<1>3. Sound(State) /\ State.rows = rows /\ State.to = 0 /\ State.started = started
  BY <1>1, StateSound
<1>4. PICK lost : lost = Failed(State, Current) OBVIOUS
<1>5. /\ Sound(lost) /\ lost.started = started
      /\ \A m \in Models : lost.rows[m] = IF m = Current THEN "failed" ELSE rows[m]
  BY <1>1, <1>3, <1>4, FailedFacts
<1>6. PICK st : st = Charged(lost, Current) OBVIOUS
<1>7. /\ Sound(st) /\ st.started = started /\ st \in WalkState
      /\ \A m \in Models : st.rows[m] = IF m = Current THEN "failed" ELSE rows[m]
  <2>1. lost \in WalkState /\ Current \in Models BY <1>2, <1>5 DEF Sound
  <2>2. /\ st \in WalkState /\ st.rows = lost.rows /\ st.started = lost.started
        /\ Sound(lost) => Sound(st)
    BY <1>6, <2>1, ChargedFacts
  <2> QED BY <1>5, <2>2
<1>8. \A q \in 1..(at - 1) : st.rows[order[q]] = rows[order[q]]
  <2>1. \A q \in 1..(at - 1) : q \in 1..Len(order) /\ q # at BY <1>2
  <2> QED BY <1>2, <1>7, <2>1
<1>9. Settled(st, at + 1) BY <1>2, <1>7, <1>8 DEF Settled, Passed
<1>10. PICK retry : retry = Prepare(st, order, From(order, at), answer) OBVIOUS
<1>11. From(order, at) \in Seq(at..Len(order)) /\ at \in 1..(Len(order) + 1)
  BY <1>2 DEF From
<1>12. /\ Walked(st, order, From(order, at), retry) /\ Sound(retry)
       /\ \A q \in 1..(at - 1) : retry.rows[order[q]] = st.rows[order[q]]
       /\ retry.to # 0 => left # 0
  BY <1>1, <1>7, <1>10, <1>11, WalkSound
<1>13. /\ retry.to # 0 => /\ retry.to \in at..Len(order)
                          /\ \A p \in at..(retry.to - 1) : retry.rows[order[p]] \in Passed
  BY <1>2, <1>11, <1>12, WalkedInOrder
<1>14. Settled(retry, at + 1)
  <2>1. \A i \in 1..Len(From(order, at)) : at <= From(order, at)[i] BY <1>2, <1>11, FromFacts
  <2>2. retry.rows[Current] \in {st.rows[Current], "out_of_time"} \cup Passed
    BY <1>2, <1>12, <2>1 DEF Walked, Current
  <2> QED BY <1>2, <1>7, <1>8, <1>12, <2>2 DEF Settled, Passed
<1>15. shown = << >>
       /\ \/ \E rw : /\ rw = UnreachableAfter(st.rows, Current)
                     /\ End([st EXCEPT !.rows = rw], "ended") /\ resumed' = resumed
          \/ retry.to # 0 /\ Attempt(retry, retry.to) /\ promoted' = promoted /\ resumed' = resumed
          \/ Onwards(retry, at + 1, "none", answer)
          \/ Onwards(st, at + 1, ProviderOf[Current], answer)
          \/ /\ phase' = "probing" /\ rows' = st.rows /\ health' = st.health
             /\ UNCHANGED <<requests, others, started, failure, promoted, result>>
             /\ UNCHANGED <<settings, route, clock, client>>
          \/ Onwards(st, at + 1, "none", answer)
  <2>1. Positions(at) = From(order, at) BY DEF Positions, From
  <2>2. st = Charged(Failed(State, Current), Current) BY <1>4, <1>6
  <2>3. retry = Prepare(st, order, Positions(at), answer) BY <1>10, <2>1
  <2>4. [st EXCEPT !.rows = UnreachableAfter(@, Current)]
          = [st EXCEPT !.rows = UnreachableAfter(st.rows, Current)]
    BY <1>7 DEF WalkState
  <2> QED BY <2>2, <2>3, <2>4 DEF UncommittedFails, Committed
<1>16. ASSUME NEW rw, rw = UnreachableAfter(st.rows, Current),
              End([st EXCEPT !.rows = rw], "ended"), resumed' = resumed
       PROVE  IInv'
  <2>1. PICK h, r : h = st.health /\ r = [st EXCEPT !.rows = rw, !.health = h] OBVIOUS
  <2>2. r = [st EXCEPT !.rows = rw] /\ h \in [Models -> ModelHealth] BY <1>7, <2>1 DEF WalkState
  <2>3. End(r, "ended") /\ (resumed' <=> resumed) BY <1>16, <2>2
  <2>4. "ended" \in {"truncated", "cut_off", "ended"} /\ "ended" # "cut_off" OBVIOUS
  <2>5. Sound(st) /\ st.rows[Current] = "failed" BY <1>2, <1>7
  <2>6. rw = UnreachableAfter(st.rows, Current) /\ r = [st EXCEPT !.rows = rw, !.health = h]
        /\ h \in [Models -> ModelHealth]
    BY <1>16, <2>1, <2>2
  <2> QED BY <1>1, <1>8, <2>3, <2>4, <2>5, <2>6, RouteEnds
<1>17. CASE retry.to # 0 /\ Attempt(retry, retry.to) /\ promoted' = promoted /\ resumed' = resumed
  <2>1. retry.to \in 1..Len(order) /\ left # 0 /\ order[retry.to] \in retry.started
    BY <1>2, <1>12, <1>13, <1>17 DEF Walked
  <2>2. ASSUME NEW q \in 1..(retry.to - 1)
        PROVE  retry.rows[order[q]] \in Passed \/ q \in promoted'
    <3>1. q \in 1..(at - 1) \/ q \in at..(retry.to - 1) BY <1>2, <2>1
    <3> QED BY <1>2, <1>8, <1>12, <1>13, <1>17, <3>1
  <2> QED BY <1>1, <1>12, <1>15, <1>17, <2>1, <2>2, AttemptKeeps
<1>18. CASE Onwards(retry, at + 1, "none", answer)
  BY <1>1, <1>12, <1>14, <1>15, <1>18, OnwardsKeeps
<1>19. CASE Onwards(st, at + 1, ProviderOf[Current], answer)
  BY <1>1, <1>7, <1>9, <1>15, <1>19, OnwardsKeeps
<1>20. CASE Onwards(st, at + 1, "none", answer)
  BY <1>1, <1>7, <1>9, <1>15, <1>20, OnwardsKeeps
<1>21. CASE /\ phase' = "probing" /\ rows' = st.rows /\ health' = st.health
            /\ UNCHANGED <<requests, others, started, failure, promoted, result>>
            /\ UNCHANGED <<settings, route, clock, client>>
  <2>1. /\ policy' = policy /\ paused' = paused /\ order' = order /\ at' = at
        /\ started' = started /\ left' = left /\ until' = until /\ progress' = progress
        /\ slept' = slept /\ aside' = aside /\ spoke' = spoke /\ tracker' = tracker /\ held' = held /\ shown' = shown
        /\ resumed' = resumed /\ promoted' = promoted /\ requests' = requests
        /\ failure' = failure /\ result' = result /\ others' = others
    BY <1>21 DEF settings, route, clock, client
  <2>2. Active' /\ phase' # "done" BY <1>21 DEF Active
  <2>3. TypeOK'
    BY <1>7, <1>21, <2>1 DEF IInv, TypeOK, WalkState
  <2>4. OrderInv' BY <2>1 DEF IInv, OrderInv
  <2>5. LedgerInv'
    <3>1. \A m \in Models : rows'[m] = "failed" => m \in started
      BY <1>7, <1>21 DEF Sound
    <3>2. Current' = Current /\ Current \in started /\ Current \in Ran(order)
      BY <1>1, <2>1, BehindIsOther DEF Current
    <3>3. \A m \in Models : rows'[m] \in IF m \in Ran(order) THEN OpenRows ELSE OutRows
      BY <1>1, <1>7, <1>21, <3>2 DEF IInv, LedgerInv, OpenRows
    <3>4. \A q \in 1..(at - 1) : rows'[order[q]] \in Passed \/ q \in promoted
      BY <1>2, <1>8, <1>21
    <3>5. rows'[Current] = "failed" BY <1>2, <1>7, <1>21
    <3> QED BY <1>2, <1>15, <2>1, <2>2, <3>1, <3>2, <3>3, <3>4, <3>5 DEF LedgerInv
  <2>6. VoiceInv'
    <3>1. Len(shown) = 0 /\ Current' = Current BY <1>15, <2>1 DEF Current
    <3> QED BY <1>1, <1>15, <2>1, <2>2, <3>1 DEF IInv, VoiceInv
  <2>7. ResumeInv' BY <1>1, <2>1, <2>2 DEF IInv, ResumeInv, ResumeNeverWorse
  <2>8. SilenceInv'
    <3>1. \A m \in Models : rows'[m] # "out_of_time"
      BY <1>1, <1>7, <1>21 DEF IInv, LedgerInv, OpenRows, OutRows
    <3> QED BY <1>1, <1>21, <2>1, <2>2, <3>1 DEF IInv, SilenceInv, SilenceKeepsTurns
  <2>9. StoryComplete' BY <2>2 DEF StoryComplete
  <2> QED BY <2>3, <2>4, <2>5, <2>6, <2>7, <2>8, <2>9 DEF IInv
<1> QED BY <1>15, <1>16, <1>17, <1>18, <1>19, <1>20, <1>21

LEMMA ProbeAnswersHolds ==
  ASSUME IInv, NEW keyLimited \in BOOLEAN, NEW answer, ProbeAnswers(keyLimited, answer)
  PROVE  IInv'
<1>1. Active /\ phase = "probing" BY DEF Active, ProbeAnswers
<1>2. PICK start : start = IF keyLimited THEN at ELSE at + 1 OBVIOUS
<1>3. Onwards(State, start, "none", answer) /\ start \in {at, at + 1}
  BY <1>2 DEF ProbeAnswers
<1>4. shown = << >> /\ rows[Current] = "failed"
      /\ \A q \in 1..(at - 1) : rows[order[q]] \in Passed \/ q \in promoted
  BY <1>1 DEF IInv, LedgerInv
<1>5. Sound(State) /\ State.rows = rows BY <1>1, StateSound
<1>6. Settled(State, start) BY <1>4, <1>5 DEF Settled, Passed
<1> QED BY <1>1, <1>3, <1>4, <1>5, <1>6, OnwardsKeeps

-----------------------------------------------------------------------------
LEMMA StepHolds == IInv /\ [Next]_vars => IInv'
<1> SUFFICES ASSUME IInv, [Next]_vars PROVE IInv' OBVIOUS
<1>1. ASSUME BetweenRequests, NEW out \in policy.pauses, NEW limited \in SUBSET Providers,
             NEW answer \in [Models -> Answers], Begin(out, limited, answer)
      PROVE  IInv'
  BY <1>1, BeginHolds
<1>2. CASE Tick BY <1>2, TickHolds
<1>3. CASE TimesOut BY <1>3, StreamEndsHolds DEF TimesOut
<1>4. CASE Heartbeat BY <1>4, HeartbeatHolds
<1>5. ASSUME NEW content \in BOOLEAN, NEW t \in Trackers, Chunk(content, t) PROVE IInv'
  BY <1>5, ChunkHolds
<1>6. ASSUME NEW kind \in StreamKinds, ProviderFails(kind) PROVE IInv'
  BY <1>6, StreamEndsHolds DEF ProviderFails
<1>7. CASE Completes BY <1>7, StreamEndsHolds DEF Completes
<1>8. CASE Handles
  BY <1>8, SucceedsHolds, CommittedFailsHolds, UncommittedFailsHolds, ProbeAnswersHolds
     DEF Handles
<1>9. CASE Interrupt BY <1>9, InterruptHolds
<1>10. ASSUME NEW m \in Models, NEW good \in BOOLEAN, OtherReports(m, good) PROVE IInv'
  BY <1>10, OtherReportsHolds
<1>11. ASSUME NEW m \in Models, BenchEnds(m) PROVE IInv'
  BY <1>11, BenchEndsHolds
<1>12. CASE UNCHANGED vars
  <2>1. /\ health' = health /\ policy' = policy /\ requests' = requests /\ others' = others
        /\ phase' = phase /\ paused' = paused /\ order' = order /\ at' = at /\ rows' = rows
        /\ started' = started /\ left' = left /\ until' = until /\ progress' = progress
        /\ tracker' = tracker /\ held' = held /\ shown' = shown
        /\ resumed' = resumed /\ failure' = failure /\ promoted' = promoted
        /\ spoke' = spoke /\ slept' = slept /\ aside' = aside /\ result' = result
    BY <1>12 DEF vars
  <2>2. TypeOK' BY <2>1 DEF IInv, TypeOK
  <2>3. OrderInv' /\ LedgerInv' /\ SilenceInv'
    BY <2>1 DEF IInv, OrderInv, LedgerInv, SilenceInv, SilenceKeepsTurns, Active, Current
  <2>4. VoiceInv' /\ ResumeInv'
    BY <2>1 DEF IInv, VoiceInv, OneVoice, ResumeInv, ResumeNeverWorse, Active, Current, Behind
  <2>5. StoryComplete' BY <2>1 DEF IInv, StoryComplete, JumpedOver, Current
  <2> QED BY <2>2, <2>3, <2>4, <2>5 DEF IInv
<1>13. CASE Lingers BY <1>13, LingersHolds
<1>14. ASSUME phase = "closing", failure # "none", NEW answer, InterruptedAtSeam(answer)
      PROVE  IInv'
  BY <1>14, InterruptedAtSeamHolds
<1> QED
  BY <1>1, <1>2, <1>3, <1>4, <1>5, <1>6, <1>7, <1>8, <1>9, <1>10, <1>11, <1>12, <1>13,
     <1>14 DEF Next

LEMMA Invariance == Spec => []IInv
  BY InitHolds, StepHolds, PTL DEF Spec

-----------------------------------------------------------------------------
(* Every variable keeps its type, the registry's records and the walk's    *)
(* positions among them.                                                   *)
THEOREM WellTyped == Spec => []TypeOK
<1>1. IInv => TypeOK BY DEF IInv
<1> QED BY <1>1, Invariance, PTL

(* A client reads the words of one model, or a continuation asked for      *)
(* after every model before it had failed.                                 *)
THEOREM OneVoiceHeard == Spec => []OneVoice
<1>1. ASSUME IInv PROVE OneVoice
  <2>1. CASE Active
    <3>1. Len(shown) > 1 => resumed BY <1>1, <2>1 DEF IInv, VoiceInv
    <3>2. \A i \in 1..(Len(shown) - 1) : rows[shown[i]] = "failed"
      BY <1>1, <2>1, BehindIsOther DEF IInv, VoiceInv
    <3>3. ~policy.stream => shown = << >> BY <1>1, <2>1 DEF IInv, VoiceInv
    <3> QED BY <1>1, <2>1, <3>2, <3>3 DEF OneVoice, IInv, VoiceInv
  <2>2. CASE ~Active BY <1>1, <2>2 DEF IInv, VoiceInv
  <2> QED BY <2>1, <2>2
<1> QED BY <1>1, Invariance, PTL

(* The ledger published when a request ends accounts for the whole chain:  *)
(* one model answered, those ahead of it failed or were stepped over, and  *)
(* an exhausted chain left out none but those a 429's promotion jumped.    *)
THEOREM StoryIsComplete == Spec => []StoryComplete
<1>1. IInv => StoryComplete BY DEF IInv
<1> QED BY <1>1, Invariance, PTL

(* A paused model is never tried, whatever is benched, and a request is    *)
(* refused outright only when the whole route is paused.                   *)
THEOREM PausedStayOut == Spec => []PausedNeverTried
<1>1. IInv => PausedNeverTried BY DEF IInv, OrderInv, PausedNeverTried
<1> QED BY <1>1, Invariance, PTL

(* Silence alone cannot spend the turn of the models behind it: with pure  *)
(* shares none runs out of time untried before anything was sent, unless   *)
(* time went by asleep, closing a stream or probing a key.                 *)
THEOREM SilenceTakesNoTurn == Spec => []SilenceKeepsTurns
<1>1. IInv => SilenceKeepsTurns BY DEF IInv, SilenceInv
<1> QED BY <1>1, Invariance, PTL

(* An answer the next model was asked to finish ends in an error only      *)
(* inside a tool call or where clean endings are off.                      *)
THEOREM ResumeIsNoWorse == Spec => []ResumeNeverWorse
<1>1. IInv => ResumeNeverWorse BY DEF IInv, ResumeInv
<1> QED BY <1>1, Invariance, PTL
=============================================================================
