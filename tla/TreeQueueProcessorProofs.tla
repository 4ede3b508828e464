---------------------- MODULE TreeQueueProcessorProofs ----------------------
(***************************************************************************)
(* Theorems about one tree of prompts, for every set of prompts, claims    *)
(* and sessions.  First the aggregate of MessageTree: what the operations  *)
(* of its queue return; that queue, claim and node states agree, order is  *)
(* kept and verdicts stand; that every graph it can reach is one a restart *)
(* accepts, and a reply runs only after the prompts above it.  Then the    *)
(* tasks that drive it: no claim is ever parted from its task, the         *)
(* processor takes the aggregate through its own transitions only, and a   *)
(* task stopped before its runner began never begins it.                   *)
(***************************************************************************)
EXTENDS TreeQueueProcessor, WellFoundedInduction, TLAPS

(* The queue.  The recursion of Without is treated by least                *)
(* counter-examples: a least prefix that breaks a fact cannot be the empty *)
(* one, nor one that extends a prefix that keeps it.                       *)

(* The least-number principle in first-order form.                         *)
LEMMA LeastNatural ==
  ASSUME NEW T, T \subseteq Nat, T # {}
  PROVE  \E x \in T : \A y \in T : x <= y
<1>1. IsWellFoundedOn(OpToRel(<, Nat), Nat)
  BY NatLessThanWellFounded
<1>2. \E x \in T : \A y \in T : <<y, x>> \notin OpToRel(<, Nat)
  BY <1>1, WFMin
<1>3. \A x, y \in Nat : <<y, x>> \in OpToRel(<, Nat) <=> y < x
  BY DEF OpToRel
<1>4. \A x, y \in Nat : ~(y < x) => x <= y
  OBVIOUS
<1> QED
  BY <1>2, <1>3, <1>4

(* Appending adds one item to what is queued.                              *)
LEMMA AppendRange ==
  ASSUME NEW P, NEW q \in Seq(P), NEW item \in P
  PROVE  /\ Append(q, item) \in Seq(P)
         /\ Range(Append(q, item)) = Range(q) \cup {item}
         /\ IsInjective(q) /\ item \notin Range(q) => IsInjective(Append(q, item))
<1> DEFINE r == Append(q, item)
<1>1. /\ r \in Seq(P)
      /\ DOMAIN r = (DOMAIN q) \cup {Len(q) + 1}
      /\ \A i \in DOMAIN q : r[i] = q[i]
      /\ r[Len(q) + 1] = item
      /\ Len(q) + 1 \notin DOMAIN q
  OBVIOUS
<1> HIDE DEF r
<1>2. Range(r) = Range(q) \cup {item}
  BY <1>1 DEF Range
<1>3. IsInjective(q) /\ item \notin Range(q) => IsInjective(r)
  BY <1>1 DEF Range, IsInjective
<1> QED BY <1>1, <1>2, <1>3 DEF r

(* What the recursion of Without says of a function of the prefix length. *)
Keeps(f, q, items, n) ==
  f = [i \in 0..n |-> IF i = 0 THEN << >>
                      ELSE IF q[i] \in items THEN f[i - 1]
                      ELSE Append(f[i - 1], q[i])]

(* The recursion has a solution on every prefix.                           *)
LEMMA KeepsExists ==
  ASSUME NEW P, NEW q \in Seq(P), NEW items, NEW n \in 0..Len(q)
  PROVE  \E f : Keeps(f, q, items, n)
<1> DEFINE Bad == {m \in 0..Len(q) : ~ \E f : Keeps(f, q, items, m)}
<1>1. SUFFICES ASSUME Bad # {} PROVE FALSE
  OBVIOUS
<1>2. PICK m \in Bad : \A k \in Bad : m <= k
  <2>1. Bad \subseteq Nat
    OBVIOUS
  <2> HIDE DEF Bad
  <2> QED BY <1>1, <2>1, LeastNatural
<1>3. CASE m = 0
  <2> DEFINE f == [i \in 0..0 |-> << >>]
  <2>1. Keeps(f, q, items, 0)
    BY DEF Keeps
  <2> QED BY <2>1, <1>3
<1>4. CASE m # 0
  <2>1. m - 1 \in 0..Len(q) /\ m \in 1..Len(q)
    BY <1>4
  <2>2. m - 1 \notin Bad
    BY <1>2, <2>1
  <2>3. PICK f : Keeps(f, q, items, m - 1)
    BY <2>1, <2>2
  <2> DEFINE last == IF q[m] \in items THEN f[m - 1] ELSE Append(f[m - 1], q[m])
             g == [i \in 0..m |-> IF i = m THEN last ELSE f[i]]
  <2>4. Keeps(g, q, items, m)
    <3>1. \A i \in 0..m : g[i] = IF i = 0 THEN << >>
                                 ELSE IF q[i] \in items THEN g[i - 1]
                                 ELSE Append(g[i - 1], q[i])
      <4> SUFFICES ASSUME NEW i \in 0..m
                   PROVE g[i] = IF i = 0 THEN << >>
                                 ELSE IF q[i] \in items THEN g[i - 1]
                                 ELSE Append(g[i - 1], q[i])
        OBVIOUS
      <4>1. CASE i = m
        <5>1. g[i-1] = f[m-1] /\ g[i] = last BY <4>1, <2>1
        <5> QED BY <5>1, <4>1, <1>4
      <4>2. CASE i # m
        <5>1. i \in 0..m-1 BY <4>2, <2>1
        <5>2. g[i] = f[i] /\ (i # 0 => g[i-1] = f[i-1]) BY <4>2, <5>1, <2>1
        <5>3. f[i] = IF i = 0 THEN << >>
                                 ELSE IF q[i] \in items THEN f[i - 1]
                                 ELSE Append(f[i - 1], q[i])
          BY <2>3, <5>1 DEF Keeps
        <5> QED BY <5>2, <5>3
      <4> QED BY <4>1, <4>2
    <3> HIDE DEF last
    <3>2. DOMAIN g = 0..m /\ g = [i \in 0..m |-> g[i]] OBVIOUS
    <3> HIDE DEF g
    <3> QED BY <3>1, <3>2 DEF Keeps
  <2> QED BY <2>4
<1> QED BY <1>3, <1>4

(* Without is the last value of the recursion.                             *)
LEMMA WithoutKeeps ==
  ASSUME NEW P, NEW q \in Seq(P), NEW items
  PROVE  \E f : Keeps(f, q, items, Len(q)) /\ Without(q, items) = f[Len(q)]
<1> DEFINE f == CHOOSE f : Keeps(f, q, items, Len(q))
<1>1. Keeps(f, q, items, Len(q))
  <2>1. Len(q) \in 0..Len(q) OBVIOUS
  <2> QED BY <2>1, KeepsExists
<1>2. Without(q, items) = f[Len(q)]
  BY DEF Without, Keeps
<1> QED BY <1>1, <1>2

(* Removing items leaves a queue of the others, without repetition when    *)
(* there was none.                                                         *)
LEMMA WithoutProperties ==
  ASSUME NEW P, NEW q \in Seq(P), NEW items
  PROVE  /\ Without(q, items) \in Seq(P)
         /\ Range(Without(q, items)) = Range(q) \ items
         /\ IsInjective(q) => IsInjective(Without(q, items))
<1>1. PICK f : Keeps(f, q, items, Len(q)) /\ Without(q, items) = f[Len(q)]
  BY WithoutKeeps
<1>f. /\ f[0] = << >>
      /\ \A i \in 1..Len(q) : f[i] = IF q[i] \in items THEN f[i - 1]
                                     ELSE Append(f[i - 1], q[i])
  <2>1. \A i \in 0..Len(q) : f[i] = IF i = 0 THEN << >>
                                     ELSE IF q[i] \in items THEN f[i - 1]
                                     ELSE Append(f[i - 1], q[i])
    BY <1>1 DEF Keeps
  <2> QED BY <2>1
<1> DEFINE Good(i) == /\ f[i] \in Seq(P)
                      /\ Range(f[i]) = {q[j] : j \in 1..i} \ items
                      /\ IsInjective(q) => IsInjective(f[i])
           Bad == {i \in 0..Len(q) : ~Good(i)}
<1>2. ASSUME Bad # {} PROVE FALSE
  <2>1. PICK m \in Bad : \A k \in Bad : m <= k
    <3>1. Bad \subseteq Nat
      OBVIOUS
    <3> HIDE DEF Bad
    <3> QED BY <1>2, <3>1, LeastNatural
  <2>2. CASE m = 0
    <3>1. f[0] = << >> BY <1>f
    <3>2. Good(0) BY <3>1 DEF Range, IsInjective
    <3> QED BY <3>2, <2>2
  <2>3. CASE m # 0
    <3>1. m - 1 \in 0..Len(q) /\ m \in 1..Len(q) /\ q[m] \in P
      BY <2>3
    <3>2. Good(m - 1)
      <4>1. m - 1 \notin Bad BY <2>1, <3>1
      <4> QED BY <4>1, <3>1
    <3>3. 1..m = (1..m-1) \cup {m} BY <3>1
    <3>4. CASE q[m] \in items
      <4>1. f[m] = f[m - 1] BY <1>f, <3>1, <3>4
      <4>2. {q[j] : j \in 1..m} \ items = {q[j] : j \in 1..m-1} \ items BY <3>3, <3>4
      <4> QED BY <4>1, <4>2, <3>2
    <3>5. CASE q[m] \notin items
      <4>1. f[m] = Append(f[m - 1], q[m]) BY <1>f, <3>1, <3>5
      <4>2. f[m] \in Seq(P) BY <4>1, <3>1, <3>2
      <4>3. Range(f[m]) = Range(f[m-1]) \cup {q[m]} BY <4>1, <3>1, <3>2, AppendRange
      <4>4. {q[j] : j \in 1..m} \ items = ({q[j] : j \in 1..m-1} \ items) \cup {q[m]} BY <3>3, <3>5
      <4>5. ASSUME IsInjective(q) PROVE IsInjective(f[m])
        <5>1. q[m] \notin {q[j] : j \in 1..m-1} BY <4>5, <3>1 DEF IsInjective
        <5> QED BY <5>1, <4>5, <4>1, <3>1, <3>2, AppendRange
      <4> QED BY <4>2, <4>3, <4>4, <4>5, <3>2
    <3> QED BY <3>4, <3>5
  <2> QED BY <2>2, <2>3
<1>3. Good(Len(q))
  <2>1. Len(q) \in 0..Len(q) OBVIOUS
  <2> QED BY <2>1, <1>2
<1>4. {q[j] : j \in 1..Len(q)} = Range(q) BY DEF Range
<1> QED BY <1>1, <1>3, <1>4

(* A queue without its first item, and a put, in terms of what is queued.  *)
LEMMA TailProperties ==
  ASSUME NEW P, NEW q \in Seq(P), q # << >>, IsInjective(q)
  PROVE  /\ Tail(q) \in Seq(P)
         /\ Range(Tail(q)) = Range(q) \ {q[1]}
         /\ IsInjective(Tail(q))
<1> DEFINE r == Tail(q)
<1>1. /\ r \in Seq(P) /\ Len(q) \in Nat \ {0}
      /\ DOMAIN r = 1..(Len(q) - 1)
      /\ DOMAIN q = 1..Len(q)
      /\ \A i \in 1..(Len(q) - 1) : r[i] = q[i + 1]
  OBVIOUS
<1> HIDE DEF r
<1>2. IsInjective(r)
  <2>1. ASSUME NEW a \in DOMAIN r, NEW b \in DOMAIN r, r[a] = r[b] PROVE a = b
    <3>1. /\ a \in Nat /\ b \in Nat
          /\ a + 1 \in DOMAIN q /\ b + 1 \in DOMAIN q /\ q[a + 1] = q[b + 1]
      BY <1>1, <2>1
    <3>2. a + 1 = b + 1
      BY <3>1 DEF IsInjective
    <3> QED BY <3>1, <3>2
  <2> QED BY <2>1 DEF IsInjective
<1>3. \A i \in DOMAIN q : q[i] = q[1] => i = 1
  BY <1>1 DEF IsInjective
<1>4. ASSUME NEW x \in Range(r) PROVE x \in Range(q) \ {q[1]}
  <2>1. PICK i \in 1..(Len(q) - 1) : x = q[i + 1]
    BY <1>1, <1>4 DEF Range
  <2>2. i + 1 \in DOMAIN q /\ i + 1 # 1
    BY <1>1
  <2> QED BY <2>1, <2>2, <1>3 DEF Range
<1>5. ASSUME NEW x \in Range(q) \ {q[1]} PROVE x \in Range(r)
  <2>1. PICK i \in DOMAIN q : x = q[i] /\ i # 1
    BY <1>5 DEF Range
  <2>2. i - 1 \in DOMAIN r /\ r[i - 1] = x
    BY <1>1, <2>1
  <2> QED BY <2>2 DEF Range
<1> QED BY <1>1, <1>2, <1>4, <1>5 DEF r

LEMMA PutProperties ==
  ASSUME NEW P, NEW q \in Seq(P), NEW item \in P, IsInjective(q)
  PROVE  /\ Put(q, item) \in Seq(P)
         /\ Range(Put(q, item)) = Range(q) \cup {item}
         /\ IsInjective(Put(q, item))
  BY AppendRange DEF Put

-----------------------------------------------------------------------------
(* Which of two items comes first.                                         *)
Ahead(q, a, b) == \E i, j \in DOMAIN q : i < j /\ q[i] = a /\ q[j] = b

LEMMA AppendOrder ==
  ASSUME NEW P, NEW q \in Seq(P), NEW item \in P
  PROVE  /\ \A a, b : Ahead(q, a, b) => Ahead(Append(q, item), a, b)
         /\ \A a \in Range(q) : Ahead(Append(q, item), a, item)
<1> DEFINE r == Append(q, item)
<1>1. /\ Len(q) \in Nat /\ DOMAIN q = 1..Len(q)
      /\ DOMAIN r = 1..(Len(q) + 1)
      /\ \A i \in DOMAIN q : r[i] = q[i]
      /\ r[Len(q) + 1] = item
  OBVIOUS
<1> HIDE DEF r
<1>2. ASSUME NEW a, NEW b, Ahead(q, a, b) PROVE Ahead(r, a, b)
  BY <1>1, <1>2 DEF Ahead
<1>3. ASSUME NEW a \in Range(q) PROVE Ahead(r, a, item)
  <2>1. PICK i \in DOMAIN q : q[i] = a
    BY DEF Range
  <2>2. i \in DOMAIN r /\ Len(q) + 1 \in DOMAIN r /\ i < Len(q) + 1 /\ r[i] = a
    BY <1>1, <2>1
  <2> QED BY <1>1, <2>2 DEF Ahead
<1> QED BY <1>2, <1>3 DEF r

LEMMA TailOrder ==
  ASSUME NEW P, NEW q \in Seq(P), q # << >>, IsInjective(q), NEW a, NEW b, Ahead(q, a, b)
  PROVE  /\ b # q[1]
         /\ a # q[1] => Ahead(Tail(q), a, b)
<1> DEFINE r == Tail(q)
<1>1. /\ Len(q) \in Nat \ {0} /\ DOMAIN q = 1..Len(q)
      /\ DOMAIN r = 1..(Len(q) - 1)
      /\ \A i \in 1..(Len(q) - 1) : r[i] = q[i + 1]
  OBVIOUS
<1> HIDE DEF r
<1>2. PICK i \in DOMAIN q, j \in DOMAIN q : i < j /\ q[i] = a /\ q[j] = b
  BY DEF Ahead
<1>3. j # 1 /\ 1 \in DOMAIN q
  BY <1>1, <1>2
<1>4. b # q[1]
  BY <1>2, <1>3 DEF IsInjective
<1>5. ASSUME a # q[1] PROVE Ahead(r, a, b)
  <2>1. /\ i - 1 \in DOMAIN r /\ j - 1 \in DOMAIN r /\ i - 1 < j - 1
        /\ r[i - 1] = q[i] /\ r[j - 1] = q[j]
    BY <1>1, <1>2, <1>3, <1>5
  <2> QED BY <1>2, <2>1 DEF Ahead
<1> QED BY <1>4, <1>5 DEF r

(* Removing items leaves the others in their order.                        *)
LEMMA WithoutOrder ==
  ASSUME NEW P, NEW q \in Seq(P), NEW items, NEW a, NEW b, a \notin items, b \notin items,
         Ahead(q, a, b)
  PROVE  Ahead(Without(q, items), a, b)
<1>1. PICK f : Keeps(f, q, items, Len(q)) /\ Without(q, items) = f[Len(q)]
  BY WithoutKeeps
<1>f. /\ f[0] = << >>
      /\ \A i \in 1..Len(q) : f[i] = IF q[i] \in items THEN f[i - 1]
                                     ELSE Append(f[i - 1], q[i])
  <2>1. \A i \in 0..Len(q) : f[i] = IF i = 0 THEN << >>
                                     ELSE IF q[i] \in items THEN f[i - 1]
                                     ELSE Append(f[i - 1], q[i])
    BY <1>1 DEF Keeps
  <2> QED BY <2>1
<1> DEFINE Good(i) ==
             /\ f[i] \in Seq(P)
             /\ \A k \in 1..i : q[k] \notin items => q[k] \in Range(f[i])
             /\ \A j, k \in 1..i : j < k /\ q[j] = a /\ q[k] = b => Ahead(f[i], a, b)
           Bad == {i \in 0..Len(q) : ~Good(i)}
<1>2. ASSUME Bad # {} PROVE FALSE
  <2>1. PICK m \in Bad : \A k \in Bad : m <= k
    <3>1. Bad \subseteq Nat
      OBVIOUS
    <3> HIDE DEF Bad
    <3> QED BY <1>2, <3>1, LeastNatural
  <2>2. CASE m = 0
    <3>1. Good(0) BY <1>f
    <3> QED BY <3>1, <2>2
  <2>3. CASE m # 0
    <3>1. m - 1 \in 0..Len(q) /\ m \in 1..Len(q) /\ q[m] \in P
      BY <2>3
    <3>2. Good(m - 1)
      <4>1. m - 1 \notin Bad BY <2>1, <3>1
      <4> QED BY <4>1, <3>1
    <3>3. \A k \in 1..m : k = m \/ k \in 1..(m - 1)
      BY <3>1
    <3>4. CASE q[m] \in items
      <4>1. f[m] = f[m - 1] BY <1>f, <3>1, <3>4
      <4>2. \A k \in 1..m : q[k] \notin items => q[k] \in Range(f[m])
        BY <3>2, <3>3, <3>4, <4>1
      <4>3. ASSUME NEW j \in 1..m, NEW k \in 1..m, j < k, q[j] = a, q[k] = b
            PROVE  Ahead(f[m], a, b)
        <5>1. j \in 1..(m - 1) /\ k \in 1..(m - 1)
          BY <3>3, <3>4, <4>3
        <5> QED BY <5>1, <4>1, <4>3, <3>2
      <4> HIDE DEF Bad
      <4>4. Good(m) BY <4>1, <4>2, <4>3, <3>2
      <4> QED BY <4>4, <2>1 DEF Bad
    <3>5. CASE q[m] \notin items
      <4>1. f[m] = Append(f[m - 1], q[m]) BY <1>f, <3>1, <3>5
      <4>2. f[m] \in Seq(P) BY <4>1, <3>1, <3>2
      <4>3. Range(f[m]) = Range(f[m - 1]) \cup {q[m]} BY <4>1, <3>1, <3>2, AppendRange
      <4>4. \A k \in 1..m : q[k] \notin items => q[k] \in Range(f[m])
        BY <3>2, <3>3, <4>3
      <4>5. ASSUME NEW j \in 1..m, NEW k \in 1..m, j < k, q[j] = a, q[k] = b
            PROVE  Ahead(f[m], a, b)
        <5>1. j \in 1..(m - 1)
          BY <4>5, <3>1
        <5>2. CASE k = m
          <6>1. a \in Range(f[m - 1]) BY <5>1, <4>5, <3>2
          <6> QED BY <6>1, <5>2, <4>1, <4>5, <3>1, <3>2, AppendOrder
        <5>3. CASE k \in 1..(m - 1)
          <6>1. Ahead(f[m - 1], a, b) BY <5>1, <5>3, <4>5, <3>2
          <6> QED BY <6>1, <4>1, <3>1, <3>2, AppendOrder
        <5> QED BY <5>2, <5>3, <3>3
      <4>6. Good(m) BY <4>2, <4>4, <4>5
      <4> QED BY <4>6, <2>1
    <3> QED BY <3>4, <3>5
  <2> QED BY <2>2, <2>3
<1>3. Good(Len(q))
  <2>1. Len(q) \in 0..Len(q) OBVIOUS
  <2> QED BY <2>1, <1>2
<1>4. PICK i \in 1..Len(q), j \in 1..Len(q) : i < j /\ q[i] = a /\ q[j] = b
  BY DEF Ahead
<1> QED BY <1>1, <1>3, <1>4

-----------------------------------------------------------------------------
(* The schedule.                                                           *)

USE DEF nodes, Runnable, Pending, Refs

States == {"absent", "pending", "in_progress", "completed", "error"}

-----------------------------------------------------------------------------
(* The pieces the actions are made of, by type.                            *)

LEMMA InterruptedType ==
  ASSUME TypeOK, NEW S
  PROVE  Interrupted(S) \in ActiveClaim \cup {NoClaim}
  BY DEF TypeOK, ActiveClaim, Interrupted

LEMMA InterruptedClaim ==
  ASSUME NEW S, active \in ActiveClaim
  PROVE  Interrupted(S) \in ActiveClaim
  BY DEF ActiveClaim, Interrupted

LEMMA FailedType ==
  ASSUME TypeOK, NEW S
  PROVE  Failed(S) \in [Prompts -> States]
  BY DEF TypeOK, Failed, States

LEMMA ClaimType ==
  ASSUME TypeOK, NEW n \in Prompts, NEW ref \in Refs \cup {NoRef}, NEW c \in Claims,
         Claim(n, ref, c)
  PROVE  /\ state' \in [Prompts -> States]
         /\ active' \in ActiveClaim
<1>1. SessionBehind(ref) \in Sessions \cup {NoSession}
  BY NoneAssumption DEF TypeOK, SessionBehind
<1>2. state' \in [Prompts -> States]
  BY DEF TypeOK, Claim, States
<1>3. active' \in ActiveClaim
  BY <1>1 DEF Claim, ActiveClaim
<1> QED BY <1>2, <1>3

LEMMA ClaimOrQueueType ==
  ASSUME TypeOK, NEW n \in Prompts, NEW ref \in Refs \cup {NoRef}, NEW c \in Claims,
         ClaimOrQueue(n, ref, c)
  PROVE  /\ state' \in [Prompts -> States]
         /\ active' \in ActiveClaim \cup {NoClaim}
         /\ queue' \in Seq(Prompts)
<1>1. CASE active = NoClaim
  BY <1>1, ClaimType DEF ClaimOrQueue, TypeOK
<1>2. CASE active # NoClaim
  <2>1. Put(queue, n) \in Seq(Prompts)
    BY DEF TypeOK, Put
  <2> QED BY <1>2, <2>1 DEF ClaimOrQueue, TypeOK, States
<1> QED BY <1>1, <1>2

-----------------------------------------------------------------------------
(* Every step keeps the types: one case per operation.                     *)
LEMMA TypeStep == TypeOK /\ [Next]_vars => TypeOK'
<1> SUFFICES ASSUME TypeOK, [Next]_vars PROVE TypeOK'
  OBVIOUS
<1>1. ASSUME NEW n \in Prompts, NEW ref \in Refs, NEW c \in Claims,
             AddAndEnqueue(n, ref, c)
      PROVE  TypeOK'
  <2>1. ClaimOrQueue(n, ref, c)
    BY <1>1 DEF AddAndEnqueue
  <2> QED BY <1>1, <2>1, ClaimOrQueueType DEF AddAndEnqueue, TypeOK, States
<1>2. ASSUME NEW n \in Prompts, NEW c \in Claims, EnqueueOrClaim(n, c) PROVE TypeOK'
  <2>1. CASE state[n] = "pending"
    <3>1. ClaimOrQueue(n, parentRef[n], c) /\ UNCHANGED <<parentRef, hasStatus, session>>
      BY <1>2, <2>1 DEF EnqueueOrClaim
    <3>2. parentRef[n] \in Refs \cup {NoRef}
      BY DEF TypeOK
    <3> QED BY <3>1, <3>2, ClaimOrQueueType DEF TypeOK, States
  <2>2. CASE state[n] # "pending"
    BY <1>2, <2>2 DEF EnqueueOrClaim, TypeOK, vars
  <2> QED BY <2>1, <2>2
<1>3. ASSUME NEW id \in Claims, NEW c \in Claims, RunnerLeft(id), FinishAndClaimNext(id, c)
      PROVE  TypeOK'
  <2> DEFINE waiting == {i \in 1..Len(queue) : state[queue[i]] = "pending"}
  <2>1. UNCHANGED <<parentRef, hasStatus, session>>
    BY <1>3 DEF FinishAndClaimNext
  <2>2. CASE active' = NoClaim /\ queue' = << >> /\ UNCHANGED state
    BY <2>1, <2>2 DEF TypeOK
  <2>3. CASE \E i \in waiting : /\ Claim(queue[i], parentRef[queue[i]], c)
                                /\ queue' = SubSeq(queue, i + 1, Len(queue))
    <3>1. PICK i \in waiting : /\ Claim(queue[i], parentRef[queue[i]], c)
                               /\ queue' = SubSeq(queue, i + 1, Len(queue))
      BY <2>3
    <3>2. queue[i] \in Prompts /\ parentRef[queue[i]] \in Refs \cup {NoRef}
      BY DEF TypeOK
    <3>3. queue' \in Seq(Prompts)
      BY <3>1 DEF TypeOK
    <3> QED BY <2>1, <3>1, <3>2, <3>3, ClaimType DEF TypeOK, States
  <2> QED BY <1>3, <2>2, <2>3 DEF FinishAndClaimNext
<1>4. ASSUME NEW n \in Prompts, CancelNode(n) PROVE TypeOK'
  <2>1. queue' \in Seq(Prompts)
    BY <1>4, WithoutProperties DEF CancelNode, TypeOK
  <2>2. state' \in [Prompts -> States] /\ active' \in ActiveClaim \cup {NoClaim}
    BY <1>4, InterruptedType, FailedType DEF CancelNode
  <2> QED BY <1>4, <2>1, <2>2 DEF CancelNode, TypeOK, States
<1>5. CASE CancelAll
  <2>1. Failed(Prompts) \in [Prompts -> States] /\ Interrupted(nodes) \in ActiveClaim \cup {NoClaim}
    BY InterruptedType, FailedType
  <2>2. queue' = queue \/ queue' = << >>
    BY <1>5 DEF CancelAll
  <2>3. /\ state' = state \/ state' = Failed(Prompts)
        /\ active' = Interrupted(nodes)
        /\ UNCHANGED <<parentRef, hasStatus, session>>
    BY <1>5 DEF CancelAll
  <2>4. queue' \in Seq(Prompts)
    <3>1. << >> \in Seq(Prompts) /\ queue \in Seq(Prompts)
      BY DEF TypeOK
    <3> QED BY <2>2, <3>1, Zenon
  <2>5. state' \in [Prompts -> States]
    BY <2>1, <2>3 DEF TypeOK, States
  <2> QED BY <2>1, <2>3, <2>4, <2>5 DEF TypeOK, States
<1>6. ASSUME NEW ref \in Refs, RemoveMessageSubtree(ref) PROVE TypeOK'
  <2> DEFINE removed == ReplySubtree(ref)
             affected == removed \cup (IF ref[2] = "status" THEN {ref[1]} ELSE {})
  <2>1. active' \in ActiveClaim \cup {NoClaim}
    BY <1>6, InterruptedType DEF RemoveMessageSubtree
  <2>2. CASE LacksTarget(affected)
    <3>1. PICK met : /\ state' = Failed(met)
                     /\ queue' = Without(queue, met)
                     /\ UNCHANGED <<parentRef, hasStatus, session>>
      BY <1>6, <2>2 DEF RemoveMessageSubtree
    <3>2. Without(queue, met) \in Seq(Prompts)
      BY WithoutProperties DEF TypeOK
    <3>3. Failed(met) \in [Prompts -> States]
      BY FailedType
    <3> QED BY <2>1, <3>1, <3>2, <3>3 DEF TypeOK, States
  <2>3. CASE ~LacksTarget(affected)
    <3> HIDE DEF removed, affected
    <3>1. /\ state' = [n \in Prompts |-> IF n \in removed THEN "absent"
                                         ELSE IF n \in affected THEN "error"
                                         ELSE state[n]]
          /\ parentRef' = [n \in Prompts |-> IF n \in removed THEN NoRef ELSE parentRef[n]]
          /\ hasStatus' = [n \in Prompts |-> hasStatus[n] /\ n \notin affected]
          /\ session' = [n \in Prompts |-> IF n \in affected THEN NoSession ELSE session[n]]
          /\ queue' = Without(queue, affected)
      BY <1>6, <2>3 DEF RemoveMessageSubtree, removed, affected
    <3>2. Without(queue, affected) \in Seq(Prompts)
      BY WithoutProperties DEF TypeOK
    <3>3. hasStatus' \in [Prompts -> BOOLEAN]
      BY <3>1
    <3> QED BY <2>1, <3>1, <3>2, <3>3 DEF TypeOK
  <2> QED BY <2>2, <2>3
<1>7. ASSUME NEW id \in Claims, NEW s \in Sessions, RecordSession(id, s) PROVE TypeOK'
  BY <1>7 DEF RecordSession, TypeOK
<1>8. ASSUME NEW id \in Claims, NEW s \in Sessions \cup {NoSession}, CompleteClaim(id, s)
      PROVE  TypeOK'
  BY <1>8 DEF CompleteClaim, TypeOK
<1>9. ASSUME NEW id \in Claims, NEW propagate \in BOOLEAN, FailClaim(id, propagate)
      PROVE  TypeOK'
  BY <1>9, WithoutProperties DEF FailClaim, TypeOK
<1>10. CASE Restart
  BY <1>10, FailedType DEF Restart, TypeOK, States
<1>11. CASE UNCHANGED vars
  BY <1>11 DEF vars, TypeOK
<1> QED
  BY <1>1, <1>2, <1>3, <1>4, <1>5, <1>6, <1>7, <1>8, <1>9, <1>10, <1>11 DEF Next

(* Every value the aggregate stores has the type its fields are declared   *)
(* with: the claim fields, the references and sessions of the nodes.       *)
THEOREM TypeCorrect == Spec => []TypeOK
<1>1. Init => TypeOK
  BY RootAssumption DEF Init, TypeOK, ActiveClaim
<1> QED BY <1>1, TypeStep, PTL DEF Spec

-----------------------------------------------------------------------------
(* Scheduling: the queue, the claim and the node states agree.             *)

ScheduleInv == TypeOK /\ QueueIsPending /\ WaitingHasClaim /\ InProgressIsActive /\ ClaimKeepsNode

(* Removing a set from the queue and settling it keep the queue exact.     *)
LEMMA WithoutPending ==
  ASSUME TypeOK, QueueIsPending, NEW S
  PROVE  /\ Without(queue, S) \in Seq(Prompts)
         /\ Range(Without(queue, S)) = Pending \ S
         /\ IsInjective(Without(queue, S))
  BY WithoutProperties DEF TypeOK, QueueIsPending

LEMMA PutPending ==
  ASSUME TypeOK, QueueIsPending, NEW n \in Prompts
  PROVE  Range(Put(queue, n)) = Range(queue) \cup {n} /\ IsInjective(Put(queue, n))
<1>1. queue \in Seq(Prompts) /\ IsInjective(queue)
  BY DEF TypeOK, QueueIsPending
<1> QED BY <1>1, PutProperties

(* A queue stays empty when items are removed from it.                     *)
LEMMA WithoutEmpty ==
  ASSUME TypeOK, QueueIsPending, NEW S, Without(queue, S) # << >>
  PROVE  queue # << >>
<1>1. SUFFICES ASSUME queue = << >> PROVE FALSE
  OBVIOUS
<1>2. Range(Without(queue, S)) = {}
  BY <1>1, WithoutPending DEF QueueIsPending, Range
<1>3. Without(queue, S) \in Seq(Prompts)
  BY WithoutPending
<1>4. Without(queue, S)[1] \in Range(Without(queue, S))
  BY <1>3 DEF Range
<1> QED BY <1>2, <1>4

(* The shape every cancellation shares: a set S of prompts stops being     *)
(* runnable and leaves the queue, and the active claim is flagged when its *)
(* node is one of them.                                                    *)
LEMMA CancelSchedule ==
  ASSUME ScheduleInv, TypeOK', NEW S, NEW T,
         S \cap nodes \subseteq T,
         \A n \in T \ S : state[n] # "in_progress",
         active' = Interrupted(T),
         Range(queue') = Pending \ S, IsInjective(queue'),
         queue' # << >> => queue # << >>,
         \A n \in Prompts \ S : state'[n] = state[n],
         \A n \in Prompts \cap S : state'[n] \in {"absent", "completed", "error"}
  PROVE  ScheduleInv'
<1> USE DEF ScheduleInv
<1>1. QueueIsPending'
  BY DEF QueueIsPending
<1>2. WaitingHasClaim'
  <2>1. active # NoClaim => active' # NoClaim
    BY NoneAssumption, InterruptedClaim DEF TypeOK
  <2> QED BY <2>1 DEF WaitingHasClaim
<1>3. ASSUME NEW n \in Prompts, state'[n] = "in_progress"
      PROVE  active' # NoClaim /\ active'.node = n /\ ~active'.cancelled
  <2>1. n \notin S /\ state[n] = "in_progress"
    BY <1>3
  <2>2. active # NoClaim /\ active.node = n /\ ~active.cancelled
    BY <2>1 DEF InProgressIsActive
  <2>3. active' = active
    BY <2>1, <2>2 DEF Interrupted
  <2> QED BY <2>2, <2>3
<1>4. ASSUME active' # NoClaim, ~active'.cancelled
      PROVE  state'[active'.node] \in {"in_progress", "completed", "error"}
  <2>1. active' = active /\ active # NoClaim
    BY <1>4 DEF Interrupted, TypeOK, ActiveClaim
  <2>2. state[active.node] \in {"in_progress", "completed", "error"} /\ active.node \in nodes
    BY <1>4, <2>1 DEF ClaimKeepsNode, TypeOK, ActiveClaim
  <2>3. active.node \notin S
    <3>1. active.node \notin T
      BY <1>4, <2>1 DEF Interrupted, TypeOK, ActiveClaim
    <3> QED BY <3>1, <2>2
  <2> QED BY <2>1, <2>2, <2>3
<1> QED BY <1>1, <1>2, <1>3, <1>4 DEF InProgressIsActive, ClaimKeepsNode

LEMMA ScheduleStep == ScheduleInv /\ [Next]_vars => ScheduleInv'
<1> SUFFICES ASSUME ScheduleInv, [Next]_vars PROVE ScheduleInv'
  OBVIOUS
<1> USE DEF ScheduleInv
<1>t. TypeOK'
  BY TypeStep
<1>q. /\ queue \in Seq(Prompts) /\ Range(queue) = Pending /\ IsInjective(queue)
      /\ state \in [Prompts -> States]
      /\ active # NoClaim => active \in ActiveClaim
  BY DEF TypeOK, QueueIsPending, States
<1>e. queue = << >> <=> Pending = {}
  <2>1. queue # << >> => queue[1] \in Range(queue)
    BY <1>q DEF Range
  <2>2. queue = << >> => Range(queue) = {}
    BY DEF Range
  <2> QED BY <2>1, <2>2, <1>q
<1>1. ASSUME NEW n \in Prompts, NEW ref \in Refs, NEW c \in Claims,
             AddAndEnqueue(n, ref, c)
      PROVE  ScheduleInv'
  <2>1. n \notin nodes /\ ClaimOrQueue(n, ref, c)
    BY <1>1 DEF AddAndEnqueue
  <2>2. CASE active = NoClaim
    <3>1. Claim(n, ref, c) /\ queue' = queue
      BY <2>1, <2>2 DEF ClaimOrQueue
    <3>2. queue = << >> /\ Pending = {}
      BY <2>2, <1>e DEF WaitingHasClaim
    <3>3. Pending' = {}
      BY <3>1, <3>2, <1>q DEF Claim
    <3>4. active' \in ActiveClaim /\ active'.node = n /\ ~active'.cancelled
      BY <3>1, ClaimType DEF Claim
    <3>5. \A m \in Prompts : state'[m] = "in_progress" <=> m = n
      BY <3>1, <2>2, <1>q DEF Claim, InProgressIsActive
    <3> QED BY <1>t, <1>q, <3>1, <3>2, <3>3, <3>4, <3>5, NoneAssumption
        DEF QueueIsPending, WaitingHasClaim, InProgressIsActive, ClaimKeepsNode
  <2>3. CASE active # NoClaim
    <3>1. /\ state' = [state EXCEPT ![n] = "pending"]
          /\ queue' = Put(queue, n)
          /\ active' = active
      BY <2>1, <2>3 DEF ClaimOrQueue
    <3>2. Range(queue') = Pending \cup {n} /\ IsInjective(queue')
      <4>1. Range(Put(queue, n)) = Range(queue) \cup {n} /\ IsInjective(Put(queue, n))
        BY PutPending
      <4> QED BY <3>1, <4>1, <1>q
    <3>3. Pending' = Pending \cup {n}
      BY <3>1, <1>q
    <3>4. active.node # n \/ active.cancelled
      BY <2>1, <2>3, <1>q DEF ClaimKeepsNode, ActiveClaim
    <3> QED BY <1>t, <1>q, <2>3, <3>1, <3>2, <3>3, <3>4
        DEF QueueIsPending, WaitingHasClaim, InProgressIsActive, ClaimKeepsNode, ActiveClaim
  <2> QED BY <2>2, <2>3
<1>2. ASSUME NEW n \in Prompts, NEW c \in Claims, EnqueueOrClaim(n, c) PROVE ScheduleInv'
  <2>1. CASE state[n] = "pending"
    <3>1. n \in Range(queue) /\ active # NoClaim
      BY <2>1, <1>q, <1>e DEF WaitingHasClaim
    <3>2. /\ state' = [state EXCEPT ![n] = "pending"]
          /\ queue' = Put(queue, n)
          /\ active' = active
      BY <1>2, <2>1, <3>1 DEF EnqueueOrClaim, ClaimOrQueue
    <3>3. state' = state /\ queue' = queue
      BY <2>1, <3>1, <3>2, <1>q DEF Put
    <3> QED BY <1>t, <3>2, <3>3
        DEF QueueIsPending, WaitingHasClaim, InProgressIsActive, ClaimKeepsNode
  <2>2. CASE state[n] # "pending"
    BY <1>2, <1>t, <2>2 DEF EnqueueOrClaim, vars, QueueIsPending, WaitingHasClaim,
       InProgressIsActive, ClaimKeepsNode
  <2> QED BY <2>1, <2>2
<1>3. ASSUME NEW id \in Claims, NEW c \in Claims, RunnerLeft(id), FinishAndClaimNext(id, c)
      PROVE  ScheduleInv'
  <2> DEFINE waiting == {i \in 1..Len(queue) : state[queue[i]] = "pending"}
  <2>1. waiting = 1..Len(queue)
    BY <1>q DEF Range
  <2>2. active # NoClaim /\ \A m \in Prompts : state[m] # "in_progress"
    BY <1>3 DEF RunnerLeft, Holds, InProgressIsActive
  <2>3. CASE waiting = {} /\ active' = NoClaim /\ queue' = << >> /\ UNCHANGED state
    <3>1. Pending' = {}
      BY <2>1, <2>3, <1>q, <1>e
    <3>2. Range(queue') = {} /\ IsInjective(queue')
      BY <2>3 DEF Range, IsInjective
    <3> QED BY <1>t, <2>2, <2>3, <3>1, <3>2
        DEF QueueIsPending, WaitingHasClaim, InProgressIsActive, ClaimKeepsNode
  <2>4. ASSUME NEW i \in waiting, \A j \in waiting : i <= j,
               Claim(queue[i], parentRef[queue[i]], c),
               queue' = SubSeq(queue, i + 1, Len(queue))
        PROVE  ScheduleInv'
    <3>1. i = 1 /\ queue # << >> /\ queue[1] \in Prompts
      BY <2>1, <2>4, <1>q
    <3>2. queue' = Tail(queue)
      BY <2>4, <3>1, <1>q
    <3>3. Range(queue') = Pending \ {queue[1]} /\ IsInjective(queue')
      BY <3>1, <3>2, <1>q, TailProperties
    <3>4. state' = [state EXCEPT ![queue[1]] = "in_progress"]
      BY <2>4, <3>1 DEF Claim
    <3>5. Pending' = Pending \ {queue[1]}
      BY <3>1, <3>4, <1>q
    <3>6. active' \in ActiveClaim /\ active'.node = queue[1] /\ ~active'.cancelled
      <4>1. parentRef[queue[1]] \in Refs \cup {NoRef}
        BY <3>1 DEF TypeOK
      <4> QED BY <2>4, <3>1, <4>1, ClaimType DEF Claim
    <3>7. \A m \in Prompts : state'[m] = "in_progress" <=> m = queue[1]
      BY <2>2, <3>1, <3>4, <1>q
    <3> QED BY <1>t, <3>1, <3>3, <3>5, <3>6, <3>7, NoneAssumption
        DEF QueueIsPending, WaitingHasClaim, InProgressIsActive, ClaimKeepsNode
  <2> QED BY <1>3, <2>3, <2>4 DEF FinishAndClaimNext
<1>4. ASSUME NEW n \in Prompts, CancelNode(n) PROVE ScheduleInv'
  <2>1. /\ active' = Interrupted({n})
        /\ state' = Failed({n})
        /\ queue' = Without(queue, {n})
    BY <1>4 DEF CancelNode
  <2>2. Range(queue') = Pending \ {n} /\ IsInjective(queue') /\ (queue' # << >> => queue # << >>)
    BY <2>1, WithoutPending, WithoutEmpty
  <2>3. /\ \A m \in Prompts \ {n} : state'[m] = state[m]
        /\ state'[n] \in {"absent", "completed", "error"}
    BY <2>1, <1>q DEF Failed, States
  <2> QED BY <1>t, <2>1, <2>2, <2>3, CancelSchedule
<1>5. CASE CancelAll
  <2>1. active' = Interrupted(nodes)
    BY <1>5 DEF CancelAll
  <2>2. CASE LacksTarget(nodes)
    <3>1. state' = state /\ queue' = queue
      BY <1>5, <2>2 DEF CancelAll
    <3>2. \A n \in nodes \ {} : state[n] # "in_progress"
      BY <2>2 DEF LacksTarget, InProgressIsActive
    <3>3. /\ Range(queue') = Pending \ {} /\ IsInjective(queue')
          /\ queue' # << >> => queue # << >>
      BY <3>1, <1>q
    <3>4. /\ \A n \in Prompts \ {} : state'[n] = state[n]
          /\ \A n \in Prompts \cap {} : state'[n] \in {"absent", "completed", "error"}
          /\ {} \cap nodes \subseteq nodes
      BY <3>1
    <3> QED BY <1>t, <2>1, <3>2, <3>3, <3>4, CancelSchedule
  <2>3. CASE ~LacksTarget(nodes)
    <3>1. state' = Failed(Prompts) /\ queue' = << >>
      BY <1>5, <2>3 DEF CancelAll
    <3>2. Range(queue') = Pending \ Prompts /\ IsInjective(queue')
      BY <3>1 DEF Range, IsInjective
    <3>3. \A n \in Prompts : state'[n] \in {"absent", "completed", "error"}
      BY <3>1, <1>q DEF Failed, States
    <3> QED BY <1>t, <2>1, <3>1, <3>2, <3>3, CancelSchedule
  <2> QED BY <2>2, <2>3
<1>6. ASSUME NEW ref \in Refs, RemoveMessageSubtree(ref) PROVE ScheduleInv'
  <2> DEFINE removed == ReplySubtree(ref)
             affected == removed \cup (IF ref[2] = "status" THEN {ref[1]} ELSE {})
  <2>1. active' = Interrupted(affected)
    BY <1>6 DEF RemoveMessageSubtree
  <2>2. CASE LacksTarget(affected)
    <3>1. PICK met \in SUBSET affected : state' = Failed(met) /\ queue' = Without(queue, met)
      BY <1>6, <2>2 DEF RemoveMessageSubtree
    <3>a. affected \subseteq Prompts
      BY DEF ReplySubtree
    <3> HIDE DEF affected
    <3>2. \A n \in affected \ met : state[n] # "in_progress"
      BY <2>2, <3>a DEF LacksTarget, InProgressIsActive
    <3>3. Range(queue') = Pending \ met /\ IsInjective(queue') /\ (queue' # << >> => queue # << >>)
      BY <3>1, WithoutPending, WithoutEmpty
    <3>4. /\ \A m \in Prompts \ met : state'[m] = state[m]
          /\ \A m \in Prompts \cap met : state'[m] \in {"absent", "completed", "error"}
      BY <3>1, <1>q DEF Failed, States
    <3> QED BY <1>t, <2>1, <3>1, <3>2, <3>3, <3>4, CancelSchedule
  <2>3. CASE ~LacksTarget(affected)
    <3>1. /\ state' = [n \in Prompts |-> IF n \in removed THEN "absent"
                                         ELSE IF n \in affected THEN "error"
                                         ELSE state[n]]
          /\ queue' = Without(queue, affected)
      BY <1>6, <2>3 DEF RemoveMessageSubtree
    <3>2. removed \subseteq affected
      OBVIOUS
    <3> HIDE DEF affected, removed
    <3>3. /\ Range(queue') = Pending \ affected /\ IsInjective(queue')
          /\ queue' # << >> => queue # << >>
      BY <3>1, WithoutPending, WithoutEmpty
    <3>4. /\ \A m \in Prompts \ affected : state'[m] = state[m]
          /\ \A m \in Prompts \cap affected : state'[m] \in {"absent", "completed", "error"}
      BY <3>1, <3>2
    <3> QED BY <1>t, <2>1, <3>3, <3>4, CancelSchedule
  <2> QED BY <2>2, <2>3
<1>7. ASSUME NEW id \in Claims, NEW s \in Sessions, RecordSession(id, s) PROVE ScheduleInv'
  BY <1>7, <1>t DEF RecordSession, QueueIsPending, WaitingHasClaim, InProgressIsActive,
     ClaimKeepsNode
<1>8. ASSUME NEW id \in Claims, NEW s \in Sessions \cup {NoSession}, CompleteClaim(id, s)
      PROVE  ScheduleInv'
  BY <1>8, <1>t, <1>q DEF CompleteClaim, MayReport, Holds, QueueIsPending, WaitingHasClaim,
     InProgressIsActive, ClaimKeepsNode, ActiveClaim
<1>9. ASSUME NEW id \in Claims, NEW propagate \in BOOLEAN, FailClaim(id, propagate)
      PROVE  ScheduleInv'
  <2> DEFINE below == IF propagate THEN Descendants(active.node) \cap Pending ELSE {}
  <2>1. /\ active # NoClaim /\ active.node \in Prompts /\ active' = active
        /\ state' = [n \in Prompts |-> IF n \in below \cup {active.node} THEN "error" ELSE state[n]]
        /\ queue' = Without(queue, below)
        /\ state[active.node] \in {"in_progress", "error"}
    BY <1>9, <1>q DEF FailClaim, MayReport, Holds, ClaimKeepsNode, ActiveClaim
  <2>2. below \subseteq Pending
    OBVIOUS
  <2> HIDE DEF below
  <2>3. Range(queue') = Pending \ below /\ IsInjective(queue')
    BY <2>1, WithoutPending
  <2>4. Pending' = Pending \ below
    BY <2>1, <2>2
  <2>5. \A n \in Prompts : state'[n] # "in_progress"
    BY <2>1 DEF InProgressIsActive
  <2> QED BY <1>t, <2>1, <2>3, <2>4, <2>5
      DEF QueueIsPending, WaitingHasClaim, InProgressIsActive, ClaimKeepsNode
<1>10. CASE Restart
  <2>1. Pending' = {} /\ \A m \in Prompts : state'[m] # "in_progress"
    BY <1>10, <1>q DEF Restart, Failed
  <2>2. queue' = << >> /\ Range(queue') = {} /\ IsInjective(queue') /\ active' = NoClaim
    BY <1>10 DEF Restart, Range, IsInjective
  <2> QED BY <1>t, <2>1, <2>2 DEF QueueIsPending, WaitingHasClaim, InProgressIsActive, ClaimKeepsNode
<1>11. CASE UNCHANGED vars
  BY <1>11, <1>t DEF vars, QueueIsPending, WaitingHasClaim, InProgressIsActive, ClaimKeepsNode
<1> QED
  BY <1>1, <1>2, <1>3, <1>4, <1>5, <1>6, <1>7, <1>8, <1>9, <1>10, <1>11 DEF Next

LEMMA ScheduleInit == Init => ScheduleInv
<1> SUFFICES ASSUME Init PROVE ScheduleInv
  OBVIOUS
<1>1. TypeOK
  BY RootAssumption DEF Init, TypeOK, ActiveClaim
<1>2. Pending = {} /\ Range(queue) = {} /\ IsInjective(queue) /\ queue = << >>
  BY DEF Init, Range, IsInjective
<1>3. active \in ActiveClaim /\ active.node = Root /\ ~active.cancelled
  BY RootAssumption DEF Init, ActiveClaim
<1> QED BY <1>1, <1>2, <1>3, RootAssumption, NoneAssumption
    DEF Init, ScheduleInv, QueueIsPending, WaitingHasClaim, InProgressIsActive, ClaimKeepsNode

LEMMA ScheduleCorrect == Spec => []ScheduleInv
  BY ScheduleInit, ScheduleStep, PTL DEF Spec

(* The queue always holds exactly the pending prompts, each once.          *)
THEOREM QueueIsExact == Spec => []QueueIsPending
  BY ScheduleCorrect, PTL DEF ScheduleInv

(* Prompts wait only while a claim is out, so none is ever stranded.       *)
THEOREM WorkIsConserved == Spec => []WaitingHasClaim
  BY ScheduleCorrect, PTL DEF ScheduleInv

(* At most one prompt of a tree runs, under the claim that is out.         *)
THEOREM OneRunner == Spec => []InProgressIsActive
  BY ScheduleCorrect, PTL DEF ScheduleInv

(* Queue, graph and claim agree on who waits and who runs.                 *)
THEOREM ScheduleIsAgreed == Spec => []ScheduleAgrees
  BY QueueIsExact, WorkIsConserved, OneRunner, PTL DEF ScheduleAgrees

(* Only the prompt at the head of the queue is ever started.               *)
LEMMA OnlyHeadStarts ==
  ASSUME ScheduleInv, [Next]_vars, NEW m \in Pending, state'[m] = "in_progress"
  PROVE  queue # << >> /\ m = queue[1]
<1> USE DEF ScheduleInv
<1>q. /\ queue \in Seq(Prompts) /\ Range(queue) = Pending
      /\ state \in [Prompts -> States] /\ m \in Prompts /\ state[m] = "pending"
  BY DEF TypeOK, QueueIsPending, States
<1>e. queue # << >> /\ active # NoClaim
  BY <1>q DEF Range, WaitingHasClaim
<1>1. ASSUME NEW n \in Prompts, NEW ref \in Refs, NEW c \in Claims, AddAndEnqueue(n, ref, c)
      PROVE  m = queue[1]
  BY <1>1, <1>e, <1>q DEF AddAndEnqueue, ClaimOrQueue
<1>2. ASSUME NEW n \in Prompts, NEW c \in Claims, EnqueueOrClaim(n, c)
      PROVE  m = queue[1]
  BY <1>2, <1>e, <1>q DEF EnqueueOrClaim, ClaimOrQueue, vars
<1>3. ASSUME NEW id \in Claims, NEW c \in Claims, FinishAndClaimNext(id, c)
      PROVE  m = queue[1]
  <2> DEFINE waiting == {i \in 1..Len(queue) : state[queue[i]] = "pending"}
  <2>1. waiting = 1..Len(queue) /\ 1 \in waiting
    BY <1>q, <1>e DEF Range
  <2>2. PICK i \in waiting : (\A j \in waiting : i <= j) /\ Claim(queue[i], parentRef[queue[i]], c)
    BY <1>3, <2>1 DEF FinishAndClaimNext
  <2>3. i = 1
    BY <2>1, <2>2, <1>q
  <2> QED BY <2>2, <2>3, <1>q, <1>e DEF Claim
<1>4. ASSUME NEW n \in Prompts, CancelNode(n) PROVE FALSE
  BY <1>4, <1>q DEF CancelNode, Failed
<1>5. ASSUME CancelAll PROVE FALSE
  BY <1>5, <1>q DEF CancelAll, Failed
<1>6. ASSUME NEW ref \in Refs, RemoveMessageSubtree(ref) PROVE FALSE
  BY <1>6, <1>q DEF RemoveMessageSubtree, Failed
<1>7. ASSUME NEW id \in Claims, NEW s \in Sessions, RecordSession(id, s) PROVE FALSE
  BY <1>7, <1>q DEF RecordSession
<1>8. ASSUME NEW id \in Claims, NEW s \in Sessions \cup {NoSession}, CompleteClaim(id, s)
      PROVE  FALSE
  BY <1>8, <1>q DEF CompleteClaim
<1>9. ASSUME NEW id \in Claims, NEW propagate \in BOOLEAN, FailClaim(id, propagate) PROVE FALSE
  BY <1>9, <1>q DEF FailClaim
<1>10. ASSUME Restart PROVE FALSE
  BY <1>10, <1>q DEF Restart, Failed
<1>11. ASSUME UNCHANGED vars PROVE FALSE
  BY <1>11, <1>q DEF vars
<1> QED
  BY <1>e, <1>1, <1>2, <1>3, <1>4, <1>5, <1>6, <1>7, <1>8, <1>9, <1>10, <1>11 DEF Next

(* A prompt is never started ahead of one that queued before it.           *)
THEOREM Fifo == Spec => NoOvertaking
<1> DEFINE Order == \A i, j \in 1..Len(queue) :
              i < j /\ state'[queue[j]] = "in_progress" => state'[queue[i]] # "pending"
<1>1. ScheduleInv /\ ScheduleInv' /\ [Next]_vars => [Order]_vars
  <2> SUFFICES ASSUME ScheduleInv, ScheduleInv', [Next]_vars,
                      NEW i \in 1..Len(queue), NEW j \in 1..Len(queue), i < j,
                      state'[queue[j]] = "in_progress", state'[queue[i]] = "pending"
               PROVE  FALSE
    BY DEF Order
  <2>1. /\ queue[i] \in Pending /\ queue[j] \in Pending /\ IsInjective(queue)
        /\ DOMAIN queue = 1..Len(queue)
    BY DEF ScheduleInv, QueueIsPending, TypeOK, Range
  <2>2. queue[j] = queue[1] /\ 1 \in 1..Len(queue)
    BY <2>1, OnlyHeadStarts
  <2> QED BY <2>1, <2>2 DEF IsInjective
<1> QED BY <1>1, ScheduleCorrect, PTL DEF Spec, NoOvertaking

(* What one step may do to the state of one prompt.                        *)
Settles(n) == state[n] \in {"completed", "error"} =>
                state'[n] \in {"completed", "error", "absent"}
Reported(n) == state[n] # "completed" /\ state'[n] = "completed" =>
                 active # NoClaim /\ active.node = n /\ ~active.cancelled /\ active' = active

LEMMA StateStep ==
  ASSUME ScheduleInv, [Next]_vars, NEW n \in Prompts
  PROVE  Settles(n) /\ Reported(n)
<1> USE DEF Settles, Reported
<1>q. /\ queue \in Seq(Prompts) /\ Range(queue) = Pending
      /\ state \in [Prompts -> States]
  BY DEF ScheduleInv, TypeOK, QueueIsPending, States
<1>f. ASSUME NEW S, state' = Failed(S) PROVE Settles(n) /\ Reported(n)
  BY <1>f, <1>q DEF Failed
<1>1. ASSUME NEW m \in Prompts, NEW ref \in Refs, NEW c \in Claims, AddAndEnqueue(m, ref, c)
      PROVE  Settles(n) /\ Reported(n)
  BY <1>1, <1>q DEF AddAndEnqueue, ClaimOrQueue, Claim
<1>2. ASSUME NEW m \in Prompts, NEW c \in Claims, EnqueueOrClaim(m, c)
      PROVE  Settles(n) /\ Reported(n)
  BY <1>2, <1>q DEF EnqueueOrClaim, ClaimOrQueue, Claim, vars
<1>3. ASSUME NEW id \in Claims, NEW c \in Claims, FinishAndClaimNext(id, c)
      PROVE  Settles(n) /\ Reported(n)
  <2>1. state' = state \/ \E m \in Pending : state' = [state EXCEPT ![m] = "in_progress"]
    <3>1. \A i \in 1..Len(queue) : queue[i] \in Pending
      BY <1>q DEF Range
    <3> QED BY <1>3, <3>1 DEF FinishAndClaimNext, Claim
  <2> QED BY <2>1, <1>q
<1>4. ASSUME NEW m \in Prompts, CancelNode(m) PROVE Settles(n) /\ Reported(n)
  BY <1>4, <1>f DEF CancelNode
<1>5. CASE CancelAll
  BY <1>5, <1>f DEF CancelAll
<1>6. ASSUME NEW ref \in Refs, RemoveMessageSubtree(ref) PROVE Settles(n) /\ Reported(n)
  <2> DEFINE removed == ReplySubtree(ref)
             affected == removed \cup (IF ref[2] = "status" THEN {ref[1]} ELSE {})
  <2>1. \/ \E met : state' = Failed(met)
        \/ state' = [k \in Prompts |-> IF k \in removed THEN "absent"
                                       ELSE IF k \in affected THEN "error"
                                       ELSE state[k]]
    BY <1>6 DEF RemoveMessageSubtree
  <2> HIDE DEF removed, affected
  <2> QED BY <2>1, <1>f, <1>q
<1>7. ASSUME NEW id \in Claims, NEW s \in Sessions, RecordSession(id, s)
      PROVE  Settles(n) /\ Reported(n)
  BY <1>7 DEF RecordSession
<1>8. ASSUME NEW id \in Claims, NEW s \in Sessions \cup {NoSession}, CompleteClaim(id, s)
      PROVE  Settles(n) /\ Reported(n)
  BY <1>8, <1>q DEF CompleteClaim, MayReport, Holds
<1>9. ASSUME NEW id \in Claims, NEW propagate \in BOOLEAN, FailClaim(id, propagate)
      PROVE  Settles(n) /\ Reported(n)
  BY <1>9, <1>q DEF FailClaim
<1>10. CASE Restart
  BY <1>10, <1>f DEF Restart
<1>11. CASE UNCHANGED vars
  BY <1>11 DEF vars
<1> HIDE DEF Settles, Reported
<1> QED
  BY <1>1, <1>2, <1>3, <1>4, <1>5, <1>6, <1>7, <1>8, <1>9, <1>10, <1>11 DEF Next

(* A prompt that was completed, failed or stopped is never run again.      *)
THEOREM SettledForGood == Spec => SettledNeverRuns
<1> DEFINE A == \A n \in Prompts : state[n] \in {"completed", "error"}
                  => state'[n] \in {"completed", "error", "absent"}
<1>1. ScheduleInv /\ ScheduleInv' /\ [Next]_vars => [A]_vars
  BY StateStep DEF Settles
<1> QED BY <1>1, ScheduleCorrect, PTL DEF Spec, SettledNeverRuns

(* The report of a runner that was stopped never completes a prompt.       *)
THEOREM StoppedIsNotCompleted == Spec => CancelledNeverCompletes
<1> DEFINE A == \A n \in Prompts : state[n] # "completed" /\ state'[n] = "completed"
                  => active # NoClaim /\ active.node = n /\ ~active.cancelled /\ active' = active
<1>1. ScheduleInv /\ ScheduleInv' /\ [Next]_vars => [A]_vars
  BY StateStep DEF Reported
<1> QED BY <1>1, ScheduleCorrect, PTL DEF Spec, CancelledNeverCompletes

(* The verdict on a prompt stands, whatever comes late.                    *)
THEOREM VerdictIsFinal == Spec => VerdictsStand
  BY SettledForGood, StoppedIsNotCompleted DEF VerdictsStand

-----------------------------------------------------------------------------
(* The reply graph.                                                        *)

(* No set of nodes short of all of them holds the root and is closed under *)
(* replies: every node hangs below the root.                               *)
Connected == \A S \in SUBSET nodes : Root \in S /\ KeepsChildren(S) => S = nodes

GraphInv ==
  /\ nodes # {} => Root \in nodes
  /\ parentRef[Root] = NoRef
  /\ \A n \in nodes \ {Root} : parentRef[n] # NoRef /\ Resolves(parentRef[n])
  /\ \A n \in Runnable : hasStatus[n]
  /\ Connected

(* The nodes above a given set are what a restart collects.                *)
LEMMA ConnectedDescends == ASSUME Connected, Root \in nodes PROVE Descendants(Root) = nodes
<1>1. \A S \in SUBSET nodes : Root \in S /\ KeepsChildren(S) => S = nodes
  BY DEF Connected
<1>2. ASSUME NEW m \in nodes PROVE m \in Descendants(Root)
  BY <1>1, <1>2 DEF Descendants
<1> QED BY <1>2 DEF Descendants

LEMMA GraphIsRestorable == GraphInv => SnapshotRestorable
<1> SUFFICES ASSUME GraphInv, nodes # {} PROVE Restorable
  BY DEF SnapshotRestorable
<1>1. Descendants(Root) = nodes
  BY ConnectedDescends DEF GraphInv
<1> QED BY <1>1 DEF GraphInv, Restorable

(* What /clear collects: the replies to one message, at any depth.         *)
LEMMA ReplyClosed ==
  ASSUME NEW ref
  PROVE  /\ ReplySubtree(ref) \subseteq nodes
         /\ Resolves(ref) /\ ref[2] = "prompt" => ref[1] \in ReplySubtree(ref)
         /\ KeepsReplies(ReplySubtree(ref), ref)
<1> DEFINE closed == {S \in SUBSET nodes :
                        (ref[2] = "prompt" => ref[1] \in S) /\ KeepsReplies(S, ref)}
           R == ReplySubtree(ref)
<1>1. R = {m \in nodes : \A S \in closed : m \in S}
  BY DEF ReplySubtree
<1>2. \A S \in closed : R \subseteq S /\ KeepsReplies(S, ref)
  BY <1>1
<1>3. ASSUME NEW k \in nodes, IsReply(k),
             parentRef[k] = ref \/ (Parent(k) \in R /\ Resolves(parentRef[k]))
      PROVE  k \in R
  <2> SUFFICES ASSUME NEW S \in closed PROVE k \in S
    BY <1>1
  <2>1. KeepsReplies(S, ref) /\ R \subseteq S
    BY <1>2
  <2> HIDE DEF closed, R
  <2> QED BY <1>3, <2>1 DEF KeepsReplies
<1>4. KeepsReplies(R, ref)
  <2> HIDE DEF R
  <2> QED BY <1>3 DEF KeepsReplies
<1>5. Resolves(ref) /\ ref[2] = "prompt" => ref[1] \in R
  BY <1>1 DEF Resolves
<1> QED BY <1>1, <1>4, <1>5

(* The root is collected with everything else, or not at all.              *)
LEMMA RootTakesAll ==
  ASSUME GraphInv, NEW ref \in Refs, Resolves(ref)
  PROVE  ReplySubtree(ref) = nodes \/ Root \notin ReplySubtree(ref)
<1> DEFINE R == ReplySubtree(ref)
<1>r. /\ R \subseteq nodes
      /\ ref[2] = "prompt" => ref[1] \in R
      /\ KeepsReplies(R, ref)
  BY ReplyClosed
<1>1. CASE ref = <<Root, "prompt">>
  <2>1. Root \in R
    BY <1>1, <1>r
  <2>2. KeepsChildren(R)
    <3> SUFFICES ASSUME NEW k \in nodes, IsReply(k), Parent(k) \in R PROVE k \in R
      BY DEF KeepsChildren
    <3>1. k # Root
      BY DEF IsReply, GraphInv
    <3>2. Resolves(parentRef[k])
      BY <3>1 DEF GraphInv
    <3> HIDE DEF R
    <3> QED BY <3>2, <1>r DEF KeepsReplies
  <2> HIDE DEF R
  <2>3. R = nodes
    BY <2>1, <2>2, <1>r DEF GraphInv, Connected
  <2> QED BY <2>3 DEF R
<1>2. CASE ref # <<Root, "prompt">>
  <2> DEFINE S == nodes \ {Root}
  <2>1. ref[2] = "prompt" => ref[1] \in S
    BY <1>2 DEF Resolves
  <2>2. KeepsReplies(S, ref)
    BY DEF KeepsReplies, IsReply, GraphInv
  <2>3. R \subseteq S
    BY <2>1, <2>2 DEF ReplySubtree
  <2> QED BY <2>3
<1> QED BY <1>1, <1>2

-----------------------------------------------------------------------------
(* Steps.                                                                  *)

(* A step that keeps the graph and makes nothing runnable that was not.    *)
LEMMA SameGraph ==
  ASSUME GraphInv, nodes' = nodes, UNCHANGED <<parentRef, hasStatus>>,
         Runnable' \subseteq Runnable
  PROVE  GraphInv'
<1> USE DEF GraphInv
<1>1. \A n : Resolves(parentRef[n])' <=> Resolves(parentRef[n])
  BY DEF Resolves
<1>2. \A S : KeepsChildren(S)' <=> KeepsChildren(S)
  BY DEF KeepsChildren, IsReply, Parent
<1> HIDE DEF nodes, Runnable
<1>3. Connected'
  BY <1>2 DEF Connected
<1> QED BY <1>1, <1>3

LEMMA AddKeepsGraph ==
  ASSUME TypeOK, GraphInv, NEW n \in Prompts, NEW ref \in Refs, NEW c \in Claims,
         AddAndEnqueue(n, ref, c)
  PROVE  GraphInv'
<1>1. /\ n \notin nodes /\ Resolves(ref)
      /\ parentRef' = [parentRef EXCEPT ![n] = ref]
      /\ hasStatus' = [hasStatus EXCEPT ![n] = TRUE]
      /\ \E x \in {"pending", "in_progress"} : state' = [state EXCEPT ![n] = x]
  BY DEF AddAndEnqueue, ClaimOrQueue, Claim
<1>2. nodes' = nodes \cup {n} /\ Runnable' = Runnable \cup {n}
  BY <1>1 DEF TypeOK
<1>3. Root \in nodes /\ n # Root
  BY <1>1 DEF GraphInv, Resolves
<1>4. /\ \A k \in nodes : parentRef'[k] = parentRef[k] /\ hasStatus'[k] = hasStatus[k]
      /\ parentRef'[n] = ref /\ hasStatus'[n] = TRUE
  BY <1>1 DEF TypeOK
<1>5. ASSUME NEW k \in nodes' \ {Root} PROVE parentRef'[k] # NoRef /\ Resolves(parentRef[k])'
  <2>1. CASE k = n
    BY <1>1, <1>2, <1>4, <2>1, NoneAssumption DEF Resolves
  <2>2. CASE k # n
    <3>1. k \in nodes \ {Root} /\ parentRef'[k] = parentRef[k]
      BY <1>2, <1>4, <2>2
    <3>2. parentRef[k] # NoRef /\ Resolves(parentRef[k])
      BY <3>1 DEF GraphInv
    <3> HIDE DEF nodes
    <3> QED BY <1>2, <1>4, <3>1, <3>2 DEF Resolves
  <2> QED BY <2>1, <2>2
<1>6. Connected'
  <2> SUFFICES ASSUME NEW S \in SUBSET (nodes'), Root \in S, KeepsChildren(S)' PROVE S = nodes'
    BY DEF Connected
  <2> DEFINE T == S \ {n}
  <2> HIDE DEF nodes
  <2>1. T \subseteq nodes /\ Root \in T
    BY <1>2, <1>3
  <2>2. KeepsChildren(T)
    <3> SUFFICES ASSUME NEW k \in nodes, IsReply(k), Parent(k) \in T PROVE k \in T
      BY DEF KeepsChildren
    <3>1. IsReply(k)' /\ Parent(k)' \in S /\ k \in nodes' /\ k # n
      BY <1>1, <1>2, <1>4 DEF IsReply, Parent
    <3> QED BY <3>1 DEF KeepsChildren
  <2>3. T = nodes
    BY <2>1, <2>2 DEF GraphInv, Connected
  <2>4. n \in S
    <3>1. IsReply(n)' /\ Parent(n)' \in S /\ n \in nodes'
      BY <1>1, <1>2, <1>4, <2>3, NoneAssumption DEF IsReply, Parent, Resolves
    <3> QED BY <3>1 DEF KeepsChildren
  <2> QED BY <1>2, <2>3, <2>4
<1>7. \A k \in Runnable' : hasStatus'[k]
  BY <1>2, <1>4 DEF GraphInv
<1>8. parentRef'[Root] = NoRef
  BY <1>3, <1>4 DEF GraphInv
<1> HIDE DEF nodes, Runnable
<1> QED BY <1>2, <1>3, <1>5, <1>6, <1>7, <1>8 DEF GraphInv

LEMMA RemoveKeepsGraph ==
  ASSUME TypeOK, GraphInv, NEW ref \in Refs, RemoveMessageSubtree(ref)
  PROVE  GraphInv'
<1> DEFINE removed == ReplySubtree(ref)
           owner == IF ref[2] = "status" THEN {ref[1]} ELSE {}
           affected == removed \cup owner
<1>0. Resolves(ref)
  BY DEF RemoveMessageSubtree
<1>1. CASE LacksTarget(affected)
  <2>1. PICK met \in SUBSET affected : state' = Failed(met)
    BY <1>1 DEF RemoveMessageSubtree
  <2>2. UNCHANGED <<parentRef, hasStatus>>
    BY <1>1 DEF RemoveMessageSubtree
  <2>3. nodes' = nodes /\ Runnable' \subseteq Runnable
    BY <2>1 DEF Failed
  <2> QED BY <2>2, <2>3, SameGraph
<1>2. CASE ~LacksTarget(affected)
  <2>1. /\ state' = [n \in Prompts |-> IF n \in removed THEN "absent"
                                       ELSE IF n \in affected THEN "error"
                                       ELSE state[n]]
        /\ parentRef' = [n \in Prompts |-> IF n \in removed THEN NoRef ELSE parentRef[n]]
        /\ hasStatus' = [n \in Prompts |-> hasStatus[n] /\ n \notin affected]
    BY <1>2 DEF RemoveMessageSubtree
  <2>r. removed \subseteq nodes /\ KeepsReplies(removed, ref)
    BY ReplyClosed
  <2>o. owner \subseteq nodes /\ owner \subseteq Prompts
    BY <1>0 DEF Resolves
  <2>2. nodes' = nodes \ removed /\ Runnable' = Runnable \ affected
    <3> HIDE DEF removed, owner
    <3> QED BY <2>1, <2>o
  <2>3. removed = nodes \/ Root \notin removed
    BY <1>0, RootTakesAll
  <2>4. \A n \in Prompts \ removed : parentRef'[n] = parentRef[n]
    BY <2>1
  <2>5. parentRef'[Root] = NoRef
    BY <2>1, RootAssumption DEF GraphInv
  <2>6. nodes' # {} => Root \in nodes'
    BY <2>2, <2>3 DEF GraphInv
  <2>7. ASSUME NEW n \in nodes' \ {Root} PROVE parentRef'[n] # NoRef /\ Resolves(parentRef[n])'
    <3>1. n \in nodes \ {Root} /\ n \notin removed /\ parentRef'[n] = parentRef[n]
      BY <2>2, <2>4
    <3>2. parentRef[n] # NoRef /\ Resolves(parentRef[n]) /\ parentRef[n] \in Refs
      BY <3>1 DEF GraphInv, TypeOK
    <3>3. parentRef[n] # ref /\ Parent(n) \notin removed
      <4> HIDE DEF removed
      <4> QED BY <2>r, <3>1, <3>2 DEF KeepsReplies, IsReply
    <3>4. parentRef[n][1] \in nodes'
      <4> HIDE DEF removed
      <4> QED BY <2>2, <3>2, <3>3 DEF Resolves, Parent
    <3>5. parentRef[n][2] = "status" => hasStatus'[parentRef[n][1]]
      <4> SUFFICES ASSUME parentRef[n][2] = "status" PROVE hasStatus'[parentRef[n][1]]
        OBVIOUS
      <4>1. hasStatus[parentRef[n][1]] /\ parentRef[n][1] \in Prompts
        BY <3>2 DEF Resolves
      <4>2. parentRef[n][1] \notin owner
        BY <3>2, <3>3
      <4> HIDE DEF removed, owner
      <4> QED BY <2>1, <3>3, <4>1, <4>2 DEF Parent
    <3> HIDE DEF nodes
    <3> QED BY <3>1, <3>2, <3>4, <3>5 DEF Resolves
  <2>8. \A n \in Runnable' : hasStatus'[n]
    <3> HIDE DEF affected
    <3> QED BY <2>1, <2>2 DEF GraphInv
  <2>9. Connected'
    <3> SUFFICES ASSUME NEW S \in SUBSET (nodes'), Root \in S, KeepsChildren(S)' PROVE S = nodes'
      BY DEF Connected
    <3> DEFINE T == S \cup removed
    <3>1. nodes \subseteq Prompts
      OBVIOUS
    <3> HIDE DEF nodes, removed
    <3>2. T \subseteq nodes /\ Root \in T
      BY <2>2, <2>r
    <3>3. KeepsChildren(T)
      <4> SUFFICES ASSUME NEW k \in nodes, IsReply(k), Parent(k) \in T, k \notin removed PROVE k \in S
        BY DEF KeepsChildren
      <4>1. k # Root
        BY DEF IsReply, GraphInv
      <4>2. Resolves(parentRef[k])
        BY <4>1 DEF GraphInv
      <4>3. Parent(k) \in S
        BY <2>r, <4>2 DEF KeepsReplies
      <4>4. k \in nodes' /\ parentRef'[k] = parentRef[k]
        BY <2>2, <2>4, <3>1
      <4> QED BY <4>3, <4>4 DEF KeepsChildren, IsReply, Parent
    <3>4. T = nodes
      BY <3>2, <3>3 DEF GraphInv, Connected
    <3> QED BY <2>2, <3>4
  <2> HIDE DEF nodes, Runnable
  <2> QED BY <2>5, <2>6, <2>7, <2>8, <2>9 DEF GraphInv
<1> QED BY <1>1, <1>2

LEMMA GraphStep == ScheduleInv /\ GraphInv /\ [Next]_vars => GraphInv'
<1> SUFFICES ASSUME ScheduleInv, GraphInv, [Next]_vars PROVE GraphInv'
  OBVIOUS
<1>t. /\ TypeOK /\ queue \in Seq(Prompts) /\ Range(queue) = Pending
      /\ state \in [Prompts -> States]
      /\ active # NoClaim => active \in ActiveClaim
  BY DEF ScheduleInv, TypeOK, QueueIsPending, States
<1>1. ASSUME NEW n \in Prompts, NEW ref \in Refs, NEW c \in Claims, AddAndEnqueue(n, ref, c)
      PROVE  GraphInv'
  BY <1>1, <1>t, AddKeepsGraph
<1>2. ASSUME NEW n \in Prompts, NEW c \in Claims, EnqueueOrClaim(n, c) PROVE GraphInv'
  <2>1. UNCHANGED <<parentRef, hasStatus>>
    BY <1>2 DEF EnqueueOrClaim, vars
  <2>2. nodes' = nodes /\ Runnable' \subseteq Runnable
    BY <1>2, <1>t DEF EnqueueOrClaim, ClaimOrQueue, Claim, vars
  <2> QED BY <2>1, <2>2, SameGraph
<1>3. ASSUME NEW id \in Claims, NEW c \in Claims, FinishAndClaimNext(id, c) PROVE GraphInv'
  <2>1. UNCHANGED <<parentRef, hasStatus>>
    BY <1>3 DEF FinishAndClaimNext
  <2>2. state' = state \/ \E n \in Pending : state' = [state EXCEPT ![n] = "in_progress"]
    <3>1. \A i \in 1..Len(queue) : queue[i] \in Pending
      BY <1>t DEF Range
    <3> QED BY <1>3, <3>1 DEF FinishAndClaimNext, Claim
  <2>3. nodes' = nodes /\ Runnable' \subseteq Runnable
    BY <2>2, <1>t
  <2> QED BY <2>1, <2>3, SameGraph
<1>4. ASSUME NEW S, state' = Failed(S), UNCHANGED <<parentRef, hasStatus>> PROVE GraphInv'
  <2>1. nodes' = nodes /\ Runnable' \subseteq Runnable
    BY <1>4, <1>t DEF Failed
  <2> QED BY <1>4, <2>1, SameGraph
<1>5. ASSUME NEW n \in Prompts, CancelNode(n) PROVE GraphInv'
  BY <1>4, <1>5 DEF CancelNode
<1>6. CASE CancelAll
  <2>1. CASE LacksTarget(nodes)
    BY <1>6, <2>1, SameGraph DEF CancelAll
  <2>2. CASE ~LacksTarget(nodes)
    BY <1>4, <1>6, <2>2 DEF CancelAll
  <2> QED BY <2>1, <2>2
<1>7. ASSUME NEW ref \in Refs, RemoveMessageSubtree(ref) PROVE GraphInv'
  BY <1>7, <1>t, RemoveKeepsGraph
<1>8. ASSUME NEW id \in Claims, NEW s \in Sessions, RecordSession(id, s) PROVE GraphInv'
  BY <1>8, SameGraph DEF RecordSession
<1>9. ASSUME NEW id \in Claims, NEW s \in Sessions \cup {NoSession}, CompleteClaim(id, s)
      PROVE  GraphInv'
  <2>1. nodes' = nodes /\ Runnable' \subseteq Runnable
    BY <1>9, <1>t DEF CompleteClaim
  <2> QED BY <1>9, <2>1, SameGraph DEF CompleteClaim
<1>10. ASSUME NEW id \in Claims, NEW propagate \in BOOLEAN, FailClaim(id, propagate)
       PROVE  GraphInv'
  <2>1. nodes' = nodes /\ Runnable' \subseteq Runnable
    BY <1>10, <1>t DEF FailClaim, MayReport
  <2> QED BY <1>10, <2>1, SameGraph DEF FailClaim
<1>11. CASE Restart
  BY <1>4, <1>11 DEF Restart
<1>12. CASE UNCHANGED vars
  BY <1>12, SameGraph DEF vars
<1> QED
  BY <1>1, <1>2, <1>3, <1>5, <1>6, <1>7, <1>8, <1>9, <1>10, <1>11, <1>12 DEF Next

LEMMA GraphInit == Init => GraphInv
<1> SUFFICES ASSUME Init PROVE GraphInv
  OBVIOUS
<1>1. nodes = {Root} /\ Runnable = {Root} /\ hasStatus[Root] /\ parentRef[Root] = NoRef
  BY RootAssumption DEF Init
<1> HIDE DEF nodes, Runnable
<1>2. Connected
  BY <1>1 DEF Connected
<1> QED BY <1>1, <1>2 DEF GraphInv

(* Every graph a tree can save is one a restart accepts: rooted, connected, *)
(* without dangling references, its runnable prompts with a status.        *)
THEOREM SavedIsRestorable == Spec => []SnapshotRestorable
<1>1. GraphInv => SnapshotRestorable
  BY GraphIsRestorable
<1> QED BY <1>1, GraphInit, GraphStep, ScheduleCorrect, PTL DEF Spec

-----------------------------------------------------------------------------
(* The order of replies.                                                   *)

(* Of two waiting prompts on one branch the upper one is ahead in the      *)
(* queue, and nothing runs below a prompt that has not settled.            *)
OrderInv ==
  \A m \in Runnable, n \in Runnable : m # n /\ n \in Descendants(m) =>
    /\ state[n] # "in_progress"
    /\ m \in Pending => Ahead(queue, m, n)

LEMMA DescendantsLeast ==
  ASSUME NEW m \in nodes
  PROVE  /\ Descendants(m) \subseteq nodes
         /\ m \in Descendants(m)
         /\ KeepsChildren(Descendants(m))
<1> DEFINE D == Descendants(m)
           closed == {S \in SUBSET nodes : m \in S /\ KeepsChildren(S)}
<1>1. D = {k \in nodes : \A S \in closed : k \in S}
  BY DEF Descendants
<1>2. ASSUME NEW k \in nodes, IsReply(k), Parent(k) \in D PROVE k \in D
  <2> SUFFICES ASSUME NEW S \in closed PROVE k \in S
    BY <1>1
  <2> QED BY <1>1, <1>2 DEF KeepsChildren
<1> HIDE DEF D
<1>3. KeepsChildren(D)
  BY <1>2 DEF KeepsChildren
<1> QED BY <1>1, <1>3 DEF D

(* Nodes that leave put nobody below anyone.                               *)
LEMMA FewerDescendants ==
  ASSUME nodes' \subseteq nodes, \A k \in nodes' : parentRef'[k] = parentRef[k],
         NEW m \in nodes'
  PROVE  Descendants(m)' \subseteq Descendants(m)
<1> DEFINE D == Descendants(m)
<1>0. PICK S : S = D \cap nodes'
  OBVIOUS
<1>1. m \in D /\ KeepsChildren(D) /\ D \subseteq nodes
  BY DescendantsLeast
<1>2. KeepsChildren(S)'
  <2> SUFFICES ASSUME NEW k \in nodes', IsReply(k)', Parent(k)' \in S PROVE k \in S
    BY DEF KeepsChildren
  <2> HIDE DEF D, nodes
  <2>1. k \in nodes /\ IsReply(k) /\ Parent(k) \in D
    BY <1>0 DEF IsReply, Parent
  <2> QED BY <2>1, <1>0, <1>1 DEF KeepsChildren
<1>3. S \in SUBSET (nodes') /\ m \in S
  BY <1>0, <1>1
<1>4. Descendants(m)' \subseteq S
  <2> HIDE DEF nodes
  <2> QED BY <1>2, <1>3 DEF Descendants
<1> QED BY <1>0, <1>4

(* A new reply is below the nodes above it and above none.                 *)
LEMMA NewLeaf ==
  ASSUME GraphInv, NEW n \in Prompts \ nodes, NEW ref \in Refs, Resolves(ref),
         nodes' = nodes \cup {n}, parentRef'[n] = ref,
         \A k \in nodes : parentRef'[k] = parentRef[k]
  PROVE  /\ \A m \in nodes : Descendants(m)' \subseteq Descendants(m) \cup {n}
         /\ Descendants(n)' \subseteq {n}
<1>1. \A k \in nodes' : Parent(k)' # n \/ ~IsReply(k)'
  <2> SUFFICES ASSUME NEW k \in nodes', IsReply(k)' PROVE Parent(k)' # n
    OBVIOUS
  <2>1. CASE k = n
    BY <2>1 DEF Parent, Resolves
  <2>2. CASE k # n
    <3>1. k \in nodes /\ parentRef'[k] = parentRef[k] /\ parentRef[k] # NoRef
      BY <2>2 DEF IsReply
    <3>2. Resolves(parentRef[k])
      BY <3>1 DEF GraphInv
    <3> QED BY <3>1, <3>2 DEF Parent, Resolves
  <2> QED BY <2>1, <2>2
<1>2. ASSUME NEW m \in nodes PROVE Descendants(m)' \subseteq Descendants(m) \cup {n}
  <2> DEFINE D == Descendants(m)
  <2>0. PICK S : S = D \cup {n}
    OBVIOUS
  <2>1. m \in D /\ KeepsChildren(D) /\ D \subseteq nodes
    BY DescendantsLeast
  <2> HIDE DEF D, nodes
  <2>2. KeepsChildren(S)'
    <3> SUFFICES ASSUME NEW k \in nodes', IsReply(k)', Parent(k)' \in S, k # n PROVE k \in D
      BY <2>0 DEF KeepsChildren
    <3>1. k \in nodes /\ IsReply(k) /\ Parent(k) \in D
      BY <1>1, <2>0 DEF IsReply, Parent
    <3> QED BY <3>1, <2>1 DEF KeepsChildren
  <2>3. S \in SUBSET (nodes') /\ m \in S
    BY <2>0, <2>1
  <2>4. Descendants(m)' \subseteq S
    BY <2>2, <2>3 DEF Descendants
  <2> QED BY <2>0, <2>4 DEF D
<1>3. Descendants(n)' \subseteq {n}
  <2> HIDE DEF nodes
  <2>1. KeepsChildren({n})' /\ {n} \in SUBSET (nodes')
    BY <1>1 DEF KeepsChildren
  <2> QED BY <2>1 DEF Descendants
<1> QED BY <1>2, <1>3

(* Steps that only settle or remove prompts and keep the order of the rest. *)
LEMMA SettlingKeepsOrder ==
  ASSUME OrderInv, nodes' \subseteq nodes, \A k \in nodes' : parentRef'[k] = parentRef[k],
         \A k \in Runnable' : k \in Runnable /\ state'[k] = state[k],
         \A a, b \in Pending' : Ahead(queue, a, b) => Ahead(queue', a, b)
  PROVE  OrderInv'
<1> SUFFICES ASSUME NEW m \in Runnable', NEW n \in Runnable', m # n, n \in Descendants(m)'
             PROVE  state'[n] # "in_progress" /\ (m \in Pending' => Ahead(queue', m, n))
  BY DEF OrderInv
<1>1. m \in Runnable /\ n \in Runnable /\ state'[n] = state[n] /\ state'[m] = state[m]
  OBVIOUS
<1>2. n \in Descendants(m)
  <2>1. m \in nodes'
    OBVIOUS
  <2> QED BY <2>1, FewerDescendants
<1>3. state[n] # "in_progress" /\ (m \in Pending => Ahead(queue, m, n))
  BY <1>1, <1>2 DEF OrderInv
<1> QED BY <1>1, <1>3

LEMMA OrderStep == ScheduleInv /\ GraphInv /\ OrderInv /\ [Next]_vars => OrderInv'
<1> SUFFICES ASSUME ScheduleInv, GraphInv, OrderInv, [Next]_vars PROVE OrderInv'
  OBVIOUS
<1>t. /\ TypeOK /\ queue \in Seq(Prompts) /\ Range(queue) = Pending /\ IsInjective(queue)
      /\ state \in [Prompts -> States]
      /\ active = NoClaim => Pending = {}
  <2>1. ASSUME queue = << >> PROVE Range(queue) = {}
    BY <2>1 DEF Range
  <2> QED BY <2>1 DEF ScheduleInv, TypeOK, QueueIsPending, WaitingHasClaim, States
<1>s. ASSUME UNCHANGED parentRef, state' = state, queue' = queue PROVE OrderInv'
  BY <1>s, SettlingKeepsOrder
<1>f. ASSUME NEW S, state' = Failed(S), queue' = Without(queue, S), UNCHANGED parentRef
      PROVE  OrderInv'
  <2>1. nodes' = nodes
    BY <1>f, <1>t DEF Failed
  <2>2. \A k \in Runnable' : k \in Runnable /\ k \notin S /\ state'[k] = state[k]
    BY <1>f, <1>t DEF Failed
  <2>3. \A a, b \in Pending' : Ahead(queue, a, b) => Ahead(queue', a, b)
    BY <2>2, <1>f, <1>t, WithoutOrder
  <2> QED BY <1>f, <2>1, <2>2, <2>3, SettlingKeepsOrder
<1>n. ASSUME Runnable' = {} PROVE OrderInv'
  BY <1>n DEF OrderInv
<1>1. ASSUME NEW n \in Prompts, NEW ref \in Refs, NEW c \in Claims, AddAndEnqueue(n, ref, c)
      PROVE  OrderInv'
  <2>1. n \notin nodes /\ Resolves(ref) /\ ClaimOrQueue(n, ref, c)
        /\ parentRef' = [parentRef EXCEPT ![n] = ref]
    BY <1>1 DEF AddAndEnqueue
  <2>2. CASE active = NoClaim
    <3>1. state' = [state EXCEPT ![n] = "in_progress"]
      BY <2>1, <2>2 DEF ClaimOrQueue, Claim
    <3>2. Runnable = {}
      BY <2>2, <1>t DEF ScheduleInv, InProgressIsActive
    <3>3. Runnable' = {n}
      BY <3>1, <3>2, <1>t
    <3> HIDE DEF Runnable
    <3> QED BY <3>3 DEF OrderInv
  <2>3. CASE active # NoClaim
    <3>1. state' = [state EXCEPT ![n] = "pending"] /\ queue' = Put(queue, n)
      BY <2>1, <2>3 DEF ClaimOrQueue
    <3>2. queue' = Append(queue, n)
      BY <3>1, <2>1, <1>t DEF Put
    <3>3. /\ nodes' = nodes \cup {n} /\ Runnable' = Runnable \cup {n}
          /\ Pending' = Pending \cup {n} /\ state'[n] = "pending"
          /\ \A k \in nodes : state'[k] = state[k] /\ parentRef'[k] = parentRef[k]
          /\ parentRef'[n] = ref
      BY <3>1, <2>1, <1>t DEF TypeOK
    <3>4. /\ \A m \in nodes : Descendants(m)' \subseteq Descendants(m) \cup {n}
          /\ Descendants(n)' \subseteq {n}
      BY <3>3, <2>1, NewLeaf
    <3>5. SUFFICES ASSUME NEW m \in Runnable', NEW k \in Runnable', m # k, k \in Descendants(m)'
                   PROVE  state'[k] # "in_progress" /\ (m \in Pending' => Ahead(queue', m, k))
      BY DEF OrderInv
    <3>6. m \in Runnable /\ m \in nodes /\ m # n
      BY <3>3, <3>4, <3>5
    <3>7. CASE k = n
      <4>1. m \in Pending' => m \in Range(queue)
        BY <3>3, <3>6, <1>t
      <4> QED BY <4>1, <3>2, <3>3, <3>7, <1>t, AppendOrder
    <3>8. CASE k # n
      <4>1. k \in Runnable /\ k \in nodes /\ k \in Descendants(m)
        BY <3>3, <3>4, <3>5, <3>6, <3>8
      <4>2. state[k] # "in_progress" /\ (m \in Pending => Ahead(queue, m, k))
        BY <3>5, <3>6, <4>1 DEF OrderInv
      <4>3. m \in Pending' => Ahead(queue', m, k)
        <5>1. m \in Pending' => m \in Pending
          BY <3>3, <3>6
        <5> QED BY <5>1, <4>2, <3>2, <1>t, AppendOrder
      <4> QED BY <4>1, <4>2, <4>3, <3>3
    <3> QED BY <3>7, <3>8
  <2> QED BY <2>2, <2>3
<1>2. ASSUME NEW n \in Prompts, NEW c \in Claims, EnqueueOrClaim(n, c) PROVE OrderInv'
  <2>1. CASE state[n] = "pending"
    <3>1. /\ state' = [state EXCEPT ![n] = "pending"] /\ queue' = Put(queue, n)
          /\ UNCHANGED parentRef
      BY <1>2, <2>1, <1>t DEF EnqueueOrClaim, ClaimOrQueue
    <3>2. state' = state /\ queue' = queue
      BY <2>1, <3>1, <1>t DEF Put
    <3> QED BY <3>1, <3>2, <1>s
  <2>2. CASE state[n] # "pending"
    BY <1>2, <2>2, <1>s DEF EnqueueOrClaim, vars
  <2> QED BY <2>1, <2>2
<1>3. ASSUME NEW id \in Claims, NEW c \in Claims, RunnerLeft(id), FinishAndClaimNext(id, c)
      PROVE  OrderInv'
  <2> DEFINE waiting == {i \in 1..Len(queue) : state[queue[i]] = "pending"}
  <2>1. waiting = 1..Len(queue)
    BY <1>t DEF Range
  <2>2. Runnable = Pending
    BY <1>3, <1>t DEF RunnerLeft, Holds, ScheduleInv, InProgressIsActive
  <2>3. CASE waiting = {} /\ UNCHANGED state
    <3>1. Range(queue) = {}
      BY <2>1, <2>3, <1>t DEF Range
    <3> QED BY <3>1, <2>2, <2>3, <1>t, <1>n
  <2>4. ASSUME NEW i \in waiting, \A j \in waiting : i <= j,
               Claim(queue[i], parentRef[queue[i]], c),
               queue' = SubSeq(queue, i + 1, Len(queue)), UNCHANGED parentRef
        PROVE  OrderInv'
    <3> DEFINE h == queue[1]
    <3>1. i = 1 /\ queue # << >> /\ h \in Pending
      BY <2>1, <2>4, <1>t
    <3>2. queue' = Tail(queue)
      BY <2>4, <3>1, <1>t
    <3>3. state' = [state EXCEPT ![h] = "in_progress"]
      BY <2>4, <3>1 DEF Claim
    <3>4. /\ nodes' = nodes /\ Runnable' = Runnable /\ Pending' = Pending \ {h}
          /\ \A k \in Prompts : state'[k] = "in_progress" <=> k = h
      BY <3>1, <3>3, <2>2, <1>t
    <3> HIDE DEF h
    <3>5. SUFFICES ASSUME NEW m \in Runnable', NEW k \in Runnable', m # k, k \in Descendants(m)'
                   PROVE  state'[k] # "in_progress" /\ (m \in Pending' => Ahead(queue', m, k))
      BY DEF OrderInv
    <3>6. k \in Descendants(m)
      <4>1. m \in nodes'
        BY <3>5
      <4> QED BY <4>1, <3>4, <3>5, <2>4, FewerDescendants
    <3>7. Ahead(queue, m, k)
      BY <2>2, <3>4, <3>5, <3>6 DEF OrderInv
    <3>8. k # h /\ (m # h => Ahead(queue', m, k))
      BY <3>1, <3>2, <3>7, <1>t, TailOrder DEF h
    <3> QED BY <3>4, <3>8
  <2> QED BY <1>3, <2>3, <2>4 DEF FinishAndClaimNext
<1>4. ASSUME NEW n \in Prompts, CancelNode(n) PROVE OrderInv'
  BY <1>4, <1>f DEF CancelNode
<1>5. CASE CancelAll
  <2>1. CASE LacksTarget(nodes)
    BY <1>5, <2>1, <1>s DEF CancelAll
  <2>2. CASE ~LacksTarget(nodes)
    <3>1. Runnable' = {}
      BY <1>5, <2>2, <1>t DEF CancelAll, Failed
    <3> QED BY <3>1, <1>n
  <2> QED BY <2>1, <2>2
<1>6. ASSUME NEW ref \in Refs, RemoveMessageSubtree(ref) PROVE OrderInv'
  <2> DEFINE removed == ReplySubtree(ref)
             affected == removed \cup (IF ref[2] = "status" THEN {ref[1]} ELSE {})
  <2>1. CASE LacksTarget(affected)
    BY <1>6, <2>1, <1>f DEF RemoveMessageSubtree
  <2>2. CASE ~LacksTarget(affected)
    <3>1. /\ state' = [n \in Prompts |-> IF n \in removed THEN "absent"
                                         ELSE IF n \in affected THEN "error"
                                         ELSE state[n]]
          /\ parentRef' = [n \in Prompts |-> IF n \in removed THEN NoRef ELSE parentRef[n]]
          /\ queue' = Without(queue, affected)
      BY <1>6, <2>2 DEF RemoveMessageSubtree
    <3>2. removed \subseteq affected /\ affected \subseteq nodes
      BY <1>6, ReplyClosed DEF RemoveMessageSubtree, Resolves
    <3> HIDE DEF removed, affected
    <3>3. /\ nodes' \subseteq nodes
          /\ \A k \in nodes' : parentRef'[k] = parentRef[k]
          /\ \A k \in Runnable' : k \in Runnable /\ k \notin affected /\ state'[k] = state[k]
      BY <3>1, <3>2
    <3>4. \A a, b \in Pending' : Ahead(queue, a, b) => Ahead(queue', a, b)
      BY <3>1, <3>3, <1>t, WithoutOrder
    <3> QED BY <3>3, <3>4, SettlingKeepsOrder
  <2> QED BY <2>1, <2>2
<1>7. ASSUME NEW id \in Claims, NEW s \in Sessions, RecordSession(id, s) PROVE OrderInv'
  BY <1>7, <1>s DEF RecordSession
<1>8. ASSUME NEW id \in Claims, NEW s \in Sessions \cup {NoSession}, CompleteClaim(id, s)
      PROVE  OrderInv'
  <2>1. /\ nodes' = nodes /\ \A k \in Runnable' : k \in Runnable /\ state'[k] = state[k]
    BY <1>8, <1>t DEF CompleteClaim
  <2>2. UNCHANGED <<parentRef, queue>>
    BY <1>8 DEF CompleteClaim
  <2> QED BY <2>1, <2>2, SettlingKeepsOrder
<1>9. ASSUME NEW id \in Claims, NEW propagate \in BOOLEAN, FailClaim(id, propagate)
      PROVE  OrderInv'
  <2> DEFINE below == IF propagate THEN Descendants(active.node) \cap Pending ELSE {}
  <2>1. /\ state' = [n \in Prompts |-> IF n \in below \cup {active.node} THEN "error" ELSE state[n]]
        /\ queue' = Without(queue, below)
        /\ UNCHANGED parentRef
        /\ active.node \in nodes
    BY <1>9 DEF FailClaim, MayReport
  <2>2. below \subseteq nodes
    OBVIOUS
  <2> HIDE DEF below
  <2>3. /\ nodes' = nodes
        /\ \A k \in Runnable' : k \in Runnable /\ k \notin below /\ state'[k] = state[k]
    BY <2>1, <2>2
  <2>4. \A a, b \in Pending' : Ahead(queue, a, b) => Ahead(queue', a, b)
    BY <2>1, <2>3, <1>t, WithoutOrder
  <2> QED BY <2>1, <2>3, <2>4, SettlingKeepsOrder
<1>10. CASE Restart
  <2>1. Runnable' = {}
    BY <1>10, <1>t DEF Restart, Failed
  <2> QED BY <2>1, <1>n
<1>11. CASE UNCHANGED vars
  BY <1>11, <1>s DEF vars
<1> QED
  BY <1>1, <1>2, <1>3, <1>4, <1>5, <1>6, <1>7, <1>8, <1>9, <1>10, <1>11 DEF Next

(* A reply starts only when every prompt above it has settled, so the      *)
(* session it resumes is final.                                            *)
THEOREM AncestorsFirst == Spec => []AncestorsSettled
<1>1. Init => OrderInv
  BY RootAssumption DEF Init, OrderInv
<1>2. OrderInv => AncestorsSettled
  BY DEF OrderInv, AncestorsSettled
<1> QED BY <1>1, <1>2, OrderStep, GraphInit, GraphStep, ScheduleCorrect, PTL DEF Spec

-----------------------------------------------------------------------------
(* The tasks.                                                              *)

(* A task that was cancelled, or whose body was left, has its node settled: *)
(* what TreeQueueProcessor relies on when it ends a claim.                 *)
Stopped(id) == task[id].cancelled \/ task[id].phase \in {"dead", "failed"}

StoppedSettled == \A id \in Claims : Live(id) /\ Stopped(id) => state[active.node] # "in_progress"

TaskInv == ProcTypeOK /\ NoneStranded /\ StoppedSettled

ProcInv == ScheduleInv /\ GraphInv /\ TaskInv

LEMMA LaunchedIsTask ==
  ASSUME NEW b \in BOOLEAN
  PROVE  /\ Launched(b) \in Task /\ Launched(b) # NoTask
         /\ Launched(b).phase = "created" /\ ~Launched(b).cancelled
<1>1. Launched(b) \in Task
  BY DEF Launched, Task, Phases
<1>2. Launched(b).phase = "created" /\ ~Launched(b).cancelled
  BY DEF Launched
<1> QED BY <1>1, <1>2, NoTaskAssumption

(* What a step that only changes the phase of a live task does.            *)
LEMMA EnterSlots ==
  ASSUME ProcTypeOK, NEW id \in Claims, Live(id), NEW p \in Phases, Enters(id, p)
  PROVE  /\ task' \in [Claims -> Task \cup {NoTask}]
         /\ \A d \in Claims : task'[d] # NoTask <=> Live(d)
         /\ \A d \in Claims \ {id} : task'[d] = task[d]
         /\ task'[id].phase = p /\ task'[id].cancelled = task[id].cancelled
<1>1. task \in [Claims -> Task \cup {NoTask}] /\ task[id] \in Task
  BY DEF ProcTypeOK, Live
<1>2. task' = [task EXCEPT ![id].phase = p]
  BY DEF Enters
<1>3. [task[id] EXCEPT !.phase = p] \in Task
  BY <1>1 DEF Task
<1>4. task'[id] = [task[id] EXCEPT !.phase = p] /\ \A d \in Claims \ {id} : task'[d] = task[d]
  BY <1>1, <1>2
<1>5. task' \in [Claims -> Task \cup {NoTask}]
  BY <1>1, <1>2, <1>3
<1>6. task'[id].phase = p /\ task'[id].cancelled = task[id].cancelled
  BY <1>1, <1>4 DEF Task
<1>7. \A d \in Claims : task'[d] # NoTask <=> Live(d)
  BY <1>3, <1>4, NoTaskAssumption DEF Live
<1> QED BY <1>4, <1>5, <1>6, <1>7

(* What a cancellation does to the slots.                                  *)
LEMMA CancelSlots ==
  ASSUME ProcTypeOK, TypeOK, NEW S, CancelTask(S)
  PROVE  /\ task' \in [Claims -> Task \cup {NoTask}]
         /\ \A d \in Claims : /\ task'[d] # NoTask <=> Live(d)
                              /\ Live(d) => task'[d].phase = task[d].phase
                              /\ \/ task'[d] = task[d]
                                 \/ active # NoClaim /\ active.node \in S
<1>1. task \in [Claims -> Task \cup {NoTask}]
  BY DEF ProcTypeOK
<1>2. CASE active # NoClaim /\ active.node \in S /\ Live(active.id)
  <2> DEFINE a == active.id
  <2>1. a \in Claims /\ task[a] \in Task
    BY <1>1, <1>2 DEF TypeOK, ActiveClaim, Live
  <2>2. task' = [task EXCEPT ![a].cancelled = TRUE]
    BY <1>2 DEF CancelTask
  <2> HIDE DEF a
  <2>3. [task[a] EXCEPT !.cancelled = TRUE] \in Task
    BY <2>1 DEF Task
  <2>4. task'[a] = [task[a] EXCEPT !.cancelled = TRUE] /\ \A d \in Claims \ {a} : task'[d] = task[d]
    BY <1>1, <2>1, <2>2
  <2>5. task'[a].phase = task[a].phase
    BY <2>1, <2>4 DEF Task
  <2>6. task' \in [Claims -> Task \cup {NoTask}]
    BY <1>1, <2>1, <2>2, <2>3
  <2>7. \A d \in Claims : task'[d] # NoTask <=> Live(d)
    BY <2>1, <2>3, <2>4, NoTaskAssumption DEF Live
  <2> QED BY <1>2, <2>4, <2>5, <2>6, <2>7
<1>3. CASE ~(active # NoClaim /\ active.node \in S /\ Live(active.id))
  BY <1>1, <1>3 DEF CancelTask, Live
<1> QED BY <1>2, <1>3

-----------------------------------------------------------------------------
(* The processor's steps are steps of the aggregate.                       *)

(* A body is over only with its node settled.                              *)
LEMMA BodyLeft == ASSUME TaskInv, NEW id \in Claims, BodyOver(id) PROVE RunnerLeft(id)
<1>1. Live(id) /\ Holds(id)
  BY DEF BodyOver, TaskInv, NoneStranded, TaskIsClaim
<1>2. CASE Stopped(id)
  BY <1>1, <1>2 DEF TaskInv, StoppedSettled, RunnerLeft
<1>3. CASE task[id].phase = "running" /\ RunnerLeft(id)
  BY <1>3
<1> QED BY <1>2, <1>3 DEF BodyOver, Stopped

LEMMA StepSimulates == TaskInv /\ [ProcNext]_allVars => [Next]_vars
<1> SUFFICES ASSUME TaskInv, [ProcNext]_allVars PROVE [Next]_vars
  OBVIOUS
<1>1. ASSUME NEW n \in Prompts, NEW ref \in Refs, NEW c \in Claims, Admit(n, ref, c)
      PROVE  [Next]_vars
  BY <1>1 DEF Admit, Next
<1>2. ASSUME NEW n \in Prompts, NEW c \in Claims, Readmit(n, c) PROVE [Next]_vars
  BY <1>2 DEF Readmit, Next
<1>3. ASSUME NEW n \in Prompts, StopNode(n) PROVE [Next]_vars
  BY <1>3 DEF StopNode, Next
<1>4. ASSUME StopAll \/ ClearScope PROVE [Next]_vars
  BY <1>4 DEF StopAll, ClearScope, Next
<1>5. ASSUME NEW ref \in Refs, ClearReply(ref) PROVE [Next]_vars
  BY <1>5 DEF ClearReply, Next
<1>6. ASSUME NEW id \in Claims, TaskStep(id) PROVE [Next]_vars
  <2>1. CASE Enter(id) \/ Announced(id)
    BY <2>1 DEF Enter, Announced
  <2>2. ASSUME NEW s \in Sessions, RunnerRecords(id, s) PROVE Next
    BY <2>2 DEF RunnerRecords, Next
  <2>3. ASSUME NEW s \in Sessions \cup {NoSession}, RunnerCompletes(id, s) PROVE Next
    BY <2>3 DEF RunnerCompletes, Next
  <2>4. ASSUME NEW propagate \in BOOLEAN, RunnerFails(id, propagate) PROVE Next
    BY <2>4 DEF RunnerFails, Next
  <2>5. CASE RunnerRaises(id)
    <3>1. FailClaim(id, TRUE) \/ UNCHANGED vars
      BY <2>5 DEF RunnerRaises
    <3> QED BY <3>1 DEF Next
  <2>6. ASSUME NEW c \in Claims, Finish(id, c) PROVE Next
    <3>1. RunnerLeft(id) /\ FinishAndClaimNext(id, c)
      BY <2>6, BodyLeft DEF Finish
    <3> QED BY <3>1 DEF Next
  <2> QED BY <1>6, <2>1, <2>2, <2>3, <2>4, <2>5, <2>6 DEF TaskStep
<1>7. CASE Reboot
  BY <1>7 DEF Reboot, Next
<1>8. CASE UNCHANGED allVars
  BY <1>8 DEF allVars
<1> QED BY <1>1, <1>2, <1>3, <1>4, <1>5, <1>6, <1>7, <1>8 DEF ProcNext

-----------------------------------------------------------------------------
(* The invariant is kept.  Of the aggregate's steps, those that leave the  *)
(* claim where it is start no node.                                        *)

Starts(n) == state[n] # "in_progress" /\ state'[n] = "in_progress"

LEMMA CancelStartsNothing ==
  ASSUME TypeOK, NEW n \in Prompts,
         \/ \E m \in Prompts : CancelNode(m)
         \/ CancelAll
         \/ \E ref \in Refs : RemoveMessageSubtree(ref)
  PROVE  ~Starts(n)
<1>1. state \in [Prompts -> States]
  BY DEF TypeOK, States
<1>2. ASSUME NEW S, state' = Failed(S) PROVE ~Starts(n)
  BY <1>1, <1>2 DEF Failed, Starts
<1>3. ASSUME NEW ref \in Refs, RemoveMessageSubtree(ref) PROVE ~Starts(n)
  <2> DEFINE removed == ReplySubtree(ref)
             affected == removed \cup (IF ref[2] = "status" THEN {ref[1]} ELSE {})
  <2>1. \/ \E met : state' = Failed(met)
        \/ state' = [k \in Prompts |-> IF k \in removed THEN "absent"
                                       ELSE IF k \in affected THEN "error"
                                       ELSE state[k]]
    BY <1>3 DEF RemoveMessageSubtree
  <2> HIDE DEF removed, affected
  <2> QED BY <1>1, <1>2, <2>1 DEF Starts
<1>4. ASSUME NEW m \in Prompts, CancelNode(m) PROVE ~Starts(n)
  BY <1>2, <1>4 DEF CancelNode
<1>5. CASE CancelAll
  <2>1. UNCHANGED state \/ state' = Failed(Prompts)
    BY <1>5 DEF CancelAll
  <2> QED BY <1>2, <2>1 DEF Starts
<1> QED BY <1>3, <1>4, <1>5

LEMMA InterruptedHolds ==
  ASSUME TypeOK, NEW S, active' = Interrupted(S), NEW id \in Claims
  PROVE  /\ Holds(id)' <=> Holds(id)
         /\ Holds(id) => active'.node = active.node
<1>1. CASE active = NoClaim
  BY <1>1 DEF Interrupted, Holds
<1>2. CASE active # NoClaim
  <2>1. active \in ActiveClaim
    BY <1>2 DEF TypeOK
  <2>2. active' \in ActiveClaim /\ active' # NoClaim
    BY <2>1, InterruptedClaim, NoneAssumption
  <2>3. active'.id = active.id /\ active'.node = active.node
    BY <2>1 DEF Interrupted, ActiveClaim
  <2> QED BY <1>2, <2>2, <2>3 DEF Holds
<1> QED BY <1>1, <1>2

(* A cancellation stops the task it settles the node of.                   *)
LEMMA CancelKeepsTasks ==
  ASSUME TaskInv, TypeOK, NEW S, CancelTask(S), active' = Interrupted(S),
         \A n \in Prompts : ~Starts(n),
         active # NoClaim /\ active.node \in S => state'[active.node] # "in_progress"
  PROVE  /\ task' \in [Claims -> Task \cup {NoTask}]
         /\ TaskIsClaim' /\ StoppedSettled'
<1>1. ProcTypeOK /\ TaskIsClaim /\ StoppedSettled
  BY DEF TaskInv, NoneStranded
<1>2. task' \in [Claims -> Task \cup {NoTask}]
  BY <1>1, CancelSlots
<1>3. TaskIsClaim'
  BY <1>1, CancelSlots, InterruptedHolds DEF TaskIsClaim, Live
<1>4. ASSUME NEW id \in Claims, Live(id)', Stopped(id)' PROVE state'[active'.node] # "in_progress"
  <2>1. Live(id) /\ Holds(id) /\ active.node \in Prompts /\ active'.node = active.node
    BY <1>1, <1>4, CancelSlots, InterruptedHolds DEF Live, TaskIsClaim, Holds, TypeOK, ActiveClaim
  <2>2. CASE active.node \in S
    BY <2>1, <2>2 DEF Holds
  <2>3. CASE active.node \notin S
    <3>1. task'[id] = task[id]
      BY <1>1, <2>3, CancelSlots
    <3>2. Stopped(id)
      BY <1>4, <3>1 DEF Stopped
    <3> QED BY <1>1, <2>1, <3>2 DEF StoppedSettled, Starts
  <2> QED BY <2>2, <2>3
<1> QED BY <1>2, <1>3, <1>4 DEF StoppedSettled

(* A step of the aggregate that leaves the claim and the tasks alone.      *)
LEMMA QuietKeepsTasks ==
  ASSUME TaskInv, TypeOK, UNCHANGED <<active, task>>, \A n \in Prompts : ~Starts(n)
  PROVE  TaskIsClaim' /\ StoppedSettled'
<1>1. TaskIsClaim'
  BY DEF TaskInv, NoneStranded, TaskIsClaim, Live, Holds
<1>2. ASSUME NEW id \in Claims, Live(id)', Stopped(id)' PROVE state'[active'.node] # "in_progress"
  <2>1. Live(id) /\ Holds(id) /\ Stopped(id)
    BY <1>2 DEF TaskInv, NoneStranded, TaskIsClaim, Live, Stopped
  <2>2. active.node \in Prompts
    BY <2>1 DEF Holds, TypeOK, ActiveClaim
  <2> QED BY <2>1, <2>2 DEF TaskInv, StoppedSettled, Starts
<1> QED BY <1>1, <1>2 DEF StoppedSettled

(* A step of the one live task from a phase to another.                    *)
LEMMA EnterKeepsTasks ==
  ASSUME TaskInv, TypeOK, NEW id \in Claims, Live(id), NEW p \in Phases, Enters(id, p),
         UNCHANGED active, \A n \in Prompts : ~Starts(n),
         p \in {"dead", "failed"} => state'[active.node] # "in_progress"
  PROVE  /\ task' \in [Claims -> Task \cup {NoTask}]
         /\ TaskIsClaim' /\ StoppedSettled'
<1>1. /\ ProcTypeOK /\ TaskIsClaim /\ StoppedSettled
      /\ Holds(id) /\ active.id = id /\ active.node \in Prompts
  BY DEF TaskInv, NoneStranded, TaskIsClaim, Holds, TypeOK, ActiveClaim
<1>2. /\ task' \in [Claims -> Task \cup {NoTask}]
      /\ \A d \in Claims : task'[d] # NoTask <=> Live(d)
      /\ task'[id].phase = p /\ task'[id].cancelled = task[id].cancelled
  BY <1>1, EnterSlots
<1>3. TaskIsClaim'
  BY <1>1, <1>2 DEF TaskIsClaim, Live, Holds
<1>4. ASSUME NEW d \in Claims, Live(d)', Stopped(d)' PROVE state'[active'.node] # "in_progress"
  <2>1. d = id
    BY <1>1, <1>2, <1>4 DEF TaskIsClaim, Live, Holds
  <2>2. CASE task[id].cancelled
    <3>1. state[active.node] # "in_progress"
      BY <1>1, <2>2 DEF StoppedSettled, Stopped
    <3> QED BY <1>1, <3>1 DEF Starts
  <2>3. CASE ~task[id].cancelled
    <3>1. p \in {"dead", "failed"}
      BY <1>2, <1>4, <2>1, <2>3 DEF Stopped
    <3> QED BY <3>1
  <2> QED BY <2>2, <2>3
<1> QED BY <1>2, <1>3, <1>4 DEF StoppedSettled

LEMMA TaskStepInv ==
  ASSUME ProcInv, ScheduleInv', GraphInv', [ProcNext]_allVars
  PROVE  TaskInv'
<1>i. /\ TaskInv /\ TypeOK /\ ProcTypeOK /\ TaskIsClaim /\ StoppedSettled /\ DetachedIsDrained
      /\ task \in [Claims -> Task \cup {NoTask}] /\ published \in BOOLEAN
      /\ state \in [Prompts -> States]
      /\ active # NoClaim => active \in ActiveClaim
  BY DEF ProcInv, TaskInv, ProcTypeOK, NoneStranded, ScheduleInv, TypeOK, States
<1>n. active = NoClaim => \A id \in Claims : ~Live(id)
  BY <1>i DEF TaskIsClaim, Holds
<1>d. published' => DetachedIsDrained'
  BY DEF DetachedIsDrained
<1>l. ASSUME NEW c \in Claims, NEW b \in BOOLEAN, NEW n \in Prompts,
             NEW ref \in Refs \cup {NoRef}, Claim(n, ref, c),
             task' \in [Claims -> Task \cup {NoTask}],
             task'[c] = Launched(b), \A e \in Claims \ {c} : task'[e] = NoTask
      PROVE  TaskIsClaim' /\ StoppedSettled'
  <2>1. active' # NoClaim /\ active'.id = c
    <3>1. active' \in ActiveClaim
      BY <1>i, <1>l, ClaimType
    <3>2. active'.id = c
      BY <1>l DEF Claim
    <3> QED BY <3>1, <3>2, NoneAssumption
  <2>2. TaskIsClaim'
    BY <1>l, <2>1, LaunchedIsTask DEF TaskIsClaim, Live, Holds
  <2>3. ~Stopped(c)'
    <3>1. task'[c].phase = "created" /\ ~task'[c].cancelled
      BY <1>l, LaunchedIsTask
    <3> QED BY <3>1 DEF Stopped
  <2>4. \A e \in Claims \ {c} : ~Live(e)'
    BY <1>l DEF Live
  <2> QED BY <2>2, <2>3, <2>4 DEF StoppedSettled
<1>1. ASSUME NEW n \in Prompts, NEW ref \in Refs, NEW c \in Claims, Admit(n, ref, c)
      PROVE  TaskInv'
  <2>1. /\ published' = published /\ published /\ ClaimOrQueue(n, ref, c) /\ ~Live(c)
        /\ task' = IF active = NoClaim THEN [task EXCEPT ![c] = Launched(FALSE)] ELSE task
    BY <1>1 DEF Admit, AddAndEnqueue
  <2>2. CASE active = NoClaim
    <3>1. Claim(n, ref, c)
      BY <2>1, <2>2 DEF ClaimOrQueue
    <3>2. /\ task'[c] = Launched(FALSE) /\ \A e \in Claims \ {c} : task'[e] = NoTask
          /\ task' \in [Claims -> Task \cup {NoTask}]
      BY <1>i, <1>n, <2>1, <2>2, LaunchedIsTask DEF Live
    <3>3. TaskIsClaim' /\ StoppedSettled'
      BY <1>l, <3>1, <3>2
    <3> QED BY <1>d, <1>i, <2>1, <3>2, <3>3 DEF TaskInv, ProcTypeOK, NoneStranded
  <2>3. CASE active # NoClaim
    <3>1. state' = [state EXCEPT ![n] = "pending"] /\ UNCHANGED <<active, task>>
      BY <2>1, <2>3 DEF ClaimOrQueue
    <3>2. \A k \in Prompts : ~Starts(k)
      BY <1>i, <3>1 DEF Starts
    <3>3. TaskIsClaim' /\ StoppedSettled'
      BY <1>i, <3>1, <3>2, QuietKeepsTasks
    <3> QED BY <1>d, <1>i, <2>1, <3>1, <3>3 DEF TaskInv, ProcTypeOK, NoneStranded
  <2> QED BY <2>2, <2>3
<1>2. ASSUME NEW n \in Prompts, NEW c \in Claims, Readmit(n, c) PROVE TaskInv'
  <2>1. EnqueueOrClaim(n, c) /\ published' = published /\ published /\ task' = task
    BY <1>2 DEF Readmit, procVars
  <2>2. CASE state[n] = "pending"
    <3>1. active # NoClaim
      <4>1. n \in Range(queue) /\ queue \in Seq(Prompts)
        BY <2>2 DEF ProcInv, ScheduleInv, QueueIsPending, TypeOK, Pending
      <4>2. queue # << >>
        BY <4>1 DEF Range
      <4> QED BY <4>2 DEF ProcInv, ScheduleInv, WaitingHasClaim
    <3>2. state' = [state EXCEPT ![n] = "pending"] /\ UNCHANGED <<active, task>>
      BY <2>1, <2>2, <3>1 DEF EnqueueOrClaim, ClaimOrQueue
    <3>3. \A k \in Prompts : ~Starts(k)
      BY <1>i, <3>2 DEF Starts
    <3> QED BY <1>d, <1>i, <2>1, <3>2, <3>3, QuietKeepsTasks DEF TaskInv, ProcTypeOK, NoneStranded
  <2>3. CASE state[n] # "pending"
    <3>1. UNCHANGED <<state, active, task>>
      BY <2>1, <2>3 DEF EnqueueOrClaim, vars
    <3>2. \A k \in Prompts : ~Starts(k)
      BY <3>1 DEF Starts
    <3> QED BY <1>d, <1>i, <2>1, <3>1, <3>2, QuietKeepsTasks DEF TaskInv, ProcTypeOK, NoneStranded
  <2> QED BY <2>2, <2>3
<1>3. ASSUME NEW n \in Prompts, StopNode(n) PROVE TaskInv'
  <2>1. /\ published' = published /\ published /\ CancelNode(n) /\ CancelTask({n})
        /\ active' = Interrupted({n}) /\ state' = Failed({n})
    BY <1>3 DEF StopNode, CancelNode
  <2>2. \A k \in Prompts : ~Starts(k)
    BY <1>i, <2>1, CancelStartsNothing
  <2>3. active # NoClaim /\ active.node \in {n} => state'[active.node] # "in_progress"
    BY <1>i, <2>1 DEF Failed, Runnable
  <2>4. task' \in [Claims -> Task \cup {NoTask}] /\ TaskIsClaim' /\ StoppedSettled'
    BY <1>i, <2>1, <2>2, <2>3, CancelKeepsTasks
  <2> QED BY <1>d, <1>i, <2>1, <2>4 DEF TaskInv, ProcTypeOK, NoneStranded
<1>4. ASSUME CancelAll, CancelTask(nodes)
      PROVE  /\ task' \in [Claims -> Task \cup {NoTask}] /\ TaskIsClaim' /\ StoppedSettled'
             /\ ~LacksTarget(nodes) => Runnable' = {} /\ queue' = << >>
  <2>1. active' = Interrupted(nodes) /\ (UNCHANGED state \/ state' = Failed(Prompts))
    BY <1>4 DEF CancelAll
  <2>2. \A k \in Prompts : ~Starts(k)
    BY <1>4, <1>i, CancelStartsNothing
  <2>3. active # NoClaim /\ active.node \in nodes => state'[active.node] # "in_progress"
    <3>1. CASE LacksTarget(nodes)
      BY <1>4, <3>1 DEF LacksTarget, CancelAll
    <3>2. CASE ~LacksTarget(nodes)
      BY <1>4, <1>i, <3>2 DEF CancelAll, Failed, Runnable, ActiveClaim
    <3> QED BY <3>1, <3>2
  <2>4. task' \in [Claims -> Task \cup {NoTask}] /\ TaskIsClaim' /\ StoppedSettled'
    BY <1>4, <1>i, <2>1, <2>2, <2>3, CancelKeepsTasks
  <2>5. ~LacksTarget(nodes) => Runnable' = {} /\ queue' = << >>
    BY <1>4, <1>i DEF CancelAll, Failed, Runnable
  <2> QED BY <2>4, <2>5
<1>5. CASE StopAll
  BY <1>4, <1>5, <1>d, <1>i DEF StopAll, TaskInv, ProcTypeOK, NoneStranded
<1>6. CASE ClearScope
  <2>1. CancelAll /\ CancelTask(nodes) /\ published' = LacksTarget(nodes)
    BY <1>6 DEF ClearScope
  <2>2. /\ task' \in [Claims -> Task \cup {NoTask}] /\ TaskIsClaim' /\ StoppedSettled'
        /\ ~LacksTarget(nodes) => Runnable' = {} /\ queue' = << >>
    BY <1>4, <2>1
  <2>3. published' \in BOOLEAN
    BY <2>1 DEF LacksTarget
  <2>4. DetachedIsDrained'
    <3>1. ~published' <=> ~LacksTarget(nodes)
      BY <2>1
    <3> QED BY <2>2, <3>1 DEF DetachedIsDrained
  <2> QED BY <2>2, <2>3, <2>4 DEF TaskInv, ProcTypeOK, NoneStranded
<1>7. ASSUME NEW ref \in Refs, ClearReply(ref) PROVE TaskInv'
  <2> DEFINE removed == ReplySubtree(ref)
             affected == removed \cup (IF ref[2] = "status" THEN {ref[1]} ELSE {})
  <2>1. /\ RemoveMessageSubtree(ref) /\ CancelTask(affected) /\ published' = (Root \in nodes')
        /\ active' = Interrupted(affected)
    BY <1>7 DEF ClearReply, RemoveMessageSubtree
  <2>2. \A k \in Prompts : ~Starts(k)
    BY <1>i, <2>1, CancelStartsNothing
  <2>3. active # NoClaim /\ active.node \in affected => state'[active.node] # "in_progress"
    <3>0. affected \subseteq nodes
      BY <2>1, ReplyClosed DEF RemoveMessageSubtree, Resolves
    <3>1. CASE LacksTarget(affected)
      <4>1. state[active.node] = "error" /\ active.node \in Prompts
        BY <3>1 DEF LacksTarget, nodes
      <4> QED BY <4>1, <2>2 DEF Starts
    <3>2. CASE ~LacksTarget(affected)
      <4>1. state' = [k \in Prompts |-> IF k \in removed THEN "absent"
                                        ELSE IF k \in affected THEN "error"
                                        ELSE state[k]]
        BY <2>1, <3>2 DEF RemoveMessageSubtree
      <4> HIDE DEF removed, affected
      <4> QED BY <4>1, <1>i DEF ActiveClaim
    <3> QED BY <3>1, <3>2
  <2>4. task' \in [Claims -> Task \cup {NoTask}] /\ TaskIsClaim' /\ StoppedSettled'
    <3> HIDE DEF affected
    <3> QED BY <1>i, <2>1, <2>2, <2>3, CancelKeepsTasks
  <2>5. DetachedIsDrained'
    <3> SUFFICES ASSUME Root \notin nodes' PROVE Runnable' = {} /\ queue' = << >>
      BY <2>1 DEF DetachedIsDrained
    <3>1. nodes' = {}
      BY DEF GraphInv
    <3>2. Runnable' = {}
      BY <3>1 DEF Runnable, nodes
    <3>3. Range(queue') = {} /\ queue' \in Seq(Prompts)
      BY <3>1 DEF ScheduleInv, QueueIsPending, TypeOK, Pending, nodes
    <3>4. queue' # << >> => queue'[1] \in Range(queue')
      BY <3>3 DEF Range
    <3> QED BY <3>2, <3>3, <3>4
  <2>6. published' \in BOOLEAN
    BY <2>1
  <2> QED BY <2>4, <2>5, <2>6 DEF TaskInv, ProcTypeOK, NoneStranded
<1>8. ASSUME NEW id \in Claims, TaskStep(id) PROVE TaskInv'
  <2>e. ASSUME Live(id), published' = published, UNCHANGED <<active, queue>>,
               \A n \in Prompts : ~Starts(n), NEW p \in Phases, Enters(id, p),
               p \in {"dead", "failed"} => state'[active.node] # "in_progress",
               published \/ UNCHANGED state
        PROVE  TaskInv'
    <3>1. task' \in [Claims -> Task \cup {NoTask}] /\ TaskIsClaim' /\ StoppedSettled'
      BY <1>i, <2>e, EnterKeepsTasks
    <3>2. DetachedIsDrained'
      BY <1>i, <2>e DEF DetachedIsDrained, Runnable
    <3> QED BY <1>i, <2>e, <3>1, <3>2 DEF TaskInv, ProcTypeOK, NoneStranded
  <2>r. ASSUME Reports(id), UNCHANGED procVars, UNCHANGED active, \A n \in Prompts : ~Starts(n)
        PROVE  TaskInv'
    <3>1. TaskIsClaim' /\ StoppedSettled'
      BY <1>i, <2>r, QuietKeepsTasks DEF procVars
    <3> QED BY <1>d, <1>i, <2>r, <3>1 DEF Reports, procVars, TaskInv, ProcTypeOK, NoneStranded
  <2>f. ASSUME NEW propagate \in BOOLEAN, FailClaim(id, propagate)
        PROVE  /\ \A n \in Prompts : ~Starts(n)
               /\ UNCHANGED active /\ state'[active.node] = "error"
    <3>1. active.node \in Prompts
      BY <2>f DEF FailClaim, MayReport, nodes
    <3> QED BY <2>f, <3>1, <1>i DEF FailClaim, Starts
  <2>1. CASE Enter(id)
    <3>1. PICK p : p = IF task[id].cancelled THEN "dead"
                       ELSE IF task[id].announce THEN "announcing" ELSE "running"
      OBVIOUS
    <3>2. Live(id) /\ Enters(id, p) /\ UNCHANGED <<vars, published>> /\ p \in Phases
      BY <2>1, <3>1 DEF Enter, Phases
    <3>3. p \in {"dead", "failed"} => task[id].cancelled
      BY <3>1
    <3>4. p \in {"dead", "failed"} => state'[active.node] # "in_progress"
      BY <1>i, <3>2, <3>3 DEF StoppedSettled, Stopped, vars
    <3>5. UNCHANGED <<state, active, queue>> /\ \A n \in Prompts : ~Starts(n)
      BY <3>2 DEF vars, Starts
    <3> QED BY <2>e, <3>2, <3>4, <3>5
  <2>2. CASE Announced(id)
    <3>1. /\ Live(id) /\ Enters(id, "running") /\ published' = published
          /\ UNCHANGED <<state, active, queue>> /\ "running" \in Phases
      BY <2>2 DEF Announced, vars, Phases
    <3>2. \A n \in Prompts : ~Starts(n)
      BY <3>1 DEF Starts
    <3> QED BY <2>e, <3>1, <3>2
  <2>3. ASSUME NEW s \in Sessions, RunnerRecords(id, s) PROVE TaskInv'
    BY <2>3, <2>r DEF RunnerRecords, RecordSession, Starts
  <2>4. ASSUME NEW s \in Sessions \cup {NoSession}, RunnerCompletes(id, s) PROVE TaskInv'
    <3>1. Reports(id) /\ UNCHANGED procVars /\ UNCHANGED active
      BY <2>4 DEF RunnerCompletes, CompleteClaim
    <3>2. \A n \in Prompts : ~Starts(n)
      BY <2>4, <1>i DEF RunnerCompletes, CompleteClaim, Starts
    <3> QED BY <2>r, <3>1, <3>2
  <2>5. ASSUME NEW propagate \in BOOLEAN, RunnerFails(id, propagate) PROVE TaskInv'
    BY <2>5, <2>f, <2>r DEF RunnerFails
  <2>6. CASE RunnerRaises(id)
    <3>1. /\ Live(id) /\ published /\ published' = published /\ Enters(id, "failed")
          /\ "failed" \in Phases
      BY <2>6 DEF RunnerRaises, Reports, Phases
    <3>2. CASE FailClaim(id, TRUE)
      <4>1. /\ \A n \in Prompts : ~Starts(n)
            /\ UNCHANGED active /\ state'[active.node] # "in_progress"
        BY <2>f, <3>2
      <4>2. task' \in [Claims -> Task \cup {NoTask}] /\ TaskIsClaim' /\ StoppedSettled'
        BY <1>i, <3>1, <4>1, EnterKeepsTasks
      <4> QED BY <1>d, <1>i, <3>1, <4>2 DEF TaskInv, ProcTypeOK, NoneStranded
    <3>3. CASE (~MayReport(id) \/ state[active.node] = "completed") /\ UNCHANGED vars
      <4>1. Holds(id) /\ active.node \in Prompts
        BY <1>i, <3>1 DEF TaskIsClaim, Holds, ActiveClaim
      <4>2. state[active.node] # "in_progress"
        BY <3>3, <4>1 DEF MayReport, ProcInv, ScheduleInv, InProgressIsActive, nodes
      <4>3. UNCHANGED <<state, active, queue>> /\ \A n \in Prompts : ~Starts(n)
        BY <3>3 DEF vars, Starts
      <4> QED BY <2>e, <3>1, <4>2, <4>3
    <3> QED BY <2>6, <3>2, <3>3 DEF RunnerRaises
  <2>7. ASSUME NEW c \in Claims, Finish(id, c) PROVE TaskInv'
    <3>1. /\ Live(id) /\ ~Live(c) /\ c # id /\ published' = published
          /\ FinishAndClaimNext(id, c)
      BY <2>7 DEF Finish, BodyOver, FinishAndClaimNext
    <3>2. \A e \in Claims \ {id} : task[e] = NoTask
      BY <1>i, <3>1 DEF TaskIsClaim, Holds, Live
    <3>3. task' = [task EXCEPT ![id] = NoTask,
                               ![c] = IF published /\ active' # NoClaim
                                        THEN Launched(TRUE) ELSE NoTask]
      BY <2>7 DEF Finish
    <3>4. CASE active' = NoClaim /\ queue' = << >> /\ UNCHANGED state
      <4>1. \A e \in Claims : task'[e] = NoTask
        BY <1>i, <3>2, <3>3, <3>4
      <4>2. task' \in [Claims -> Task \cup {NoTask}]
        BY <1>i, <3>3, <3>4
      <4>3. TaskIsClaim' /\ StoppedSettled'
        BY <3>4, <4>1 DEF TaskIsClaim, StoppedSettled, Live, Holds
      <4>4. DetachedIsDrained'
        BY <1>i, <3>1, <3>4 DEF DetachedIsDrained, Runnable
      <4> QED BY <1>i, <3>1, <4>2, <4>3, <4>4 DEF TaskInv, ProcTypeOK, NoneStranded
    <3>5. ASSUME NEW i \in 1..Len(queue), Claim(queue[i], parentRef[queue[i]], c) PROVE TaskInv'
      <4>1. /\ queue # << >> /\ queue[i] \in Prompts
            /\ parentRef[queue[i]] \in Refs \cup {NoRef}
        BY <3>5, <1>i DEF TypeOK
      <4>2. published
        BY <1>i, <4>1 DEF DetachedIsDrained
      <4>3. active' # NoClaim
        BY <1>i, <3>5, <4>1, ClaimType, NoneAssumption
      <4>4. /\ task'[c] = Launched(TRUE) /\ \A e \in Claims \ {c} : task'[e] = NoTask
            /\ task' \in [Claims -> Task \cup {NoTask}]
        BY <1>i, <3>1, <3>2, <3>3, <4>2, <4>3, LaunchedIsTask
      <4>5. TaskIsClaim' /\ StoppedSettled'
        BY <1>l, <3>5, <4>1, <4>4
      <4> QED BY <1>d, <1>i, <3>1, <4>2, <4>4, <4>5 DEF TaskInv, ProcTypeOK, NoneStranded
    <3> QED BY <3>1, <3>4, <3>5 DEF FinishAndClaimNext
  <2> QED BY <1>8, <2>1, <2>2, <2>3, <2>4, <2>5, <2>6, <2>7 DEF TaskStep
<1>9. CASE Reboot
  <2>1. published /\ published' = published /\ active' = NoClaim /\ task' = [c \in Claims |-> NoTask]
    BY <1>9 DEF Reboot, Restart
  <2>2. \A c \in Claims : ~Live(c)' /\ ~Holds(c)'
    BY <2>1 DEF Live, Holds
  <2>3. task' \in [Claims -> Task \cup {NoTask}]
    BY <2>1
  <2> QED BY <1>d, <1>i, <2>1, <2>2, <2>3 DEF TaskInv, ProcTypeOK, NoneStranded, TaskIsClaim, StoppedSettled
<1>10. CASE UNCHANGED allVars
  BY <1>10, <1>i DEF allVars, vars, procVars, TaskInv, ProcTypeOK, NoneStranded, TaskIsClaim,
     StoppedSettled, Stopped, DetachedIsDrained, Live, Holds, Runnable
<1> QED BY <1>1, <1>2, <1>3, <1>5, <1>6, <1>7, <1>8, <1>9, <1>10 DEF ProcNext

LEMMA ProcStep == ProcInv /\ [ProcNext]_allVars => ProcInv'
<1> SUFFICES ASSUME ProcInv, [ProcNext]_allVars PROVE ProcInv'
  OBVIOUS
<1>1. [Next]_vars
  BY StepSimulates DEF ProcInv
<1>2. ScheduleInv' /\ GraphInv'
  BY <1>1, ScheduleStep, GraphStep DEF ProcInv
<1>3. TaskInv'
  BY <1>2, TaskStepInv
<1> QED BY <1>2, <1>3 DEF ProcInv

LEMMA ProcInitInv == ProcInit => ProcInv
<1> SUFFICES ASSUME ProcInit PROVE ProcInv
  OBVIOUS
<1>1. Init /\ published = TRUE
      /\ task = [c \in Claims |-> IF c = active.id THEN Launched(FALSE) ELSE NoTask]
  BY DEF ProcInit
<1>2. ScheduleInv /\ GraphInv
  BY <1>1, ScheduleInit, GraphInit
<1>3. active \in ActiveClaim /\ active # NoClaim /\ active.id \in Claims
  <2>1. active \in ActiveClaim
    BY <1>1, RootAssumption DEF Init, ActiveClaim
  <2>2. active.id \in Claims
    BY <2>1 DEF ActiveClaim
  <2> QED BY <2>1, <2>2, NoneAssumption
<1>4. task \in [Claims -> Task \cup {NoTask}]
  BY <1>1, LaunchedIsTask
<1>5. TaskIsClaim
  BY <1>1, <1>3, LaunchedIsTask DEF TaskIsClaim, Live, Holds
<1>6. ASSUME NEW id \in Claims, Live(id) PROVE ~Stopped(id)
  <2>1. task[id].phase = "created" /\ ~task[id].cancelled
    BY <1>1, <1>6, LaunchedIsTask DEF Live
  <2> QED BY <2>1 DEF Stopped
<1>7. StoppedSettled
  BY <1>6 DEF StoppedSettled
<1> QED BY <1>1, <1>2, <1>4, <1>5, <1>7
     DEF ProcInv, TaskInv, ProcTypeOK, NoneStranded, DetachedIsDrained

LEMMA ProcCorrect == ProcSpec => []ProcInv
  BY ProcInitInv, ProcStep, PTL DEF ProcSpec

-----------------------------------------------------------------------------
(* The manager and the tasks drive the tree through its own transitions    *)
(* only: whatever was proved of MessageTree holds of a tree under them,    *)
(* and a claim is never ended before its node has settled.                 *)
THEOREM DrivesTheTree == ProcSpec => Spec
<1>1. ProcInit => Init
  BY DEF ProcInit
<1>2. ProcInv /\ [ProcNext]_allVars => [Next]_vars
  BY StepSimulates DEF ProcInv
<1> QED BY <1>1, <1>2, ProcCorrect, PTL DEF ProcSpec, Spec

(* No claim is parted from its task, and a detached tree has drained: no   *)
(* prompt waits for a release that nobody is left to make.                 *)
THEOREM NobodyIsStranded == ProcSpec => []NoneStranded
  BY ProcCorrect, PTL DEF ProcInv, TaskInv

LEMMA StopStep ==
  ASSUME ProcInv, [ProcNext]_allVars, NEW id \in Claims,
         Live(id), task[id].cancelled, ~RunnerStarted(id), task'[id] # NoTask
  PROVE  task'[id].phase \notin {"running", "failed"}
<1>i. /\ ProcTypeOK /\ TypeOK /\ task \in [Claims -> Task \cup {NoTask}]
      /\ task[id].phase \notin {"running", "failed"}
  BY DEF ProcInv, TaskInv, ProcTypeOK, ScheduleInv, RunnerStarted
<1>s. ASSUME task'[id] = task[id] PROVE task'[id].phase \notin {"running", "failed"}
  BY <1>i, <1>s
<1>c. ASSUME NEW S, CancelTask(S) PROVE task'[id].phase \notin {"running", "failed"}
  BY <1>c, <1>i, CancelSlots
<1>e. ASSUME NEW d \in Claims, Live(d), NEW p \in Phases, Enters(d, p),
             d # id \/ p \notin {"running", "failed"}
      PROVE  task'[id].phase \notin {"running", "failed"}
  BY <1>e, <1>i, <1>s, EnterSlots
<1>1. ASSUME NEW n \in Prompts, NEW ref \in Refs, NEW c \in Claims, Admit(n, ref, c)
      PROVE  task'[id] = task[id]
  BY <1>1, <1>i DEF Admit, Live
<1>2. ASSUME NEW n \in Prompts, NEW c \in Claims, Readmit(n, c) PROVE task'[id] = task[id]
  BY <1>2 DEF Readmit, procVars
<1>3. ASSUME \/ \E n \in Prompts : StopNode(n)
             \/ StopAll \/ ClearScope
             \/ \E ref \in Refs : ClearReply(ref)
      PROVE  task'[id].phase \notin {"running", "failed"}
  <2>1. \E S : CancelTask(S)
    BY <1>3 DEF StopNode, StopAll, ClearScope, ClearReply
  <2> QED BY <1>c, <2>1
<1>4. ASSUME NEW d \in Claims, TaskStep(d) PROVE task'[id].phase \notin {"running", "failed"}
  <2>1. CASE Enter(d)
    <3>1. PICK p : p = IF task[d].cancelled THEN "dead"
                       ELSE IF task[d].announce THEN "announcing" ELSE "running"
      OBVIOUS
    <3>2. Live(d) /\ Enters(d, p) /\ p \in Phases
      BY <2>1, <3>1 DEF Enter, Phases
    <3>3. d # id \/ p \notin {"running", "failed"}
      BY <3>1
    <3> QED BY <1>e, <3>2, <3>3
  <2>2. CASE Announced(d)
    BY <2>2, <1>e DEF Announced, Phases
  <2>3. CASE RunnerRaises(d)
    <3>1. /\ Live(d) /\ Enters(d, "failed") /\ "failed" \in Phases
          /\ d # id
      BY <2>3, <1>i DEF RunnerRaises, Reports, Phases
    <3> QED BY <1>e, <3>1
  <2>4. ASSUME NEW c \in Claims, Finish(d, c) PROVE task'[id] = task[id]
    <3>1. c # id /\ d # id
      <4>1. ~Live(c) /\ c # d /\ task' = [task EXCEPT ![d] = NoTask,
                          ![c] = IF published /\ active' # NoClaim
                                   THEN Launched(TRUE) ELSE NoTask]
        BY <2>4 DEF Finish, FinishAndClaimNext
      <4>2. task'[d] = NoTask
        BY <4>1, <1>i
      <4> QED BY <4>1, <4>2
    <3> QED BY <2>4, <3>1, <1>i DEF Finish
  <2>5. ASSUME \/ \E s \in Sessions : RunnerRecords(d, s)
               \/ \E s \in Sessions \cup {NoSession} : RunnerCompletes(d, s)
               \/ \E propagate \in BOOLEAN : RunnerFails(d, propagate)
        PROVE  task'[id] = task[id]
    BY <2>5 DEF RunnerRecords, RunnerCompletes, RunnerFails, procVars
  <2> QED BY <1>4, <1>s, <2>1, <2>2, <2>3, <2>4, <2>5 DEF TaskStep
<1>5. ~Reboot
  BY DEF Reboot
<1>6. UNCHANGED allVars => task'[id] = task[id]
  BY DEF allVars, procVars
<1> QED BY <1>1, <1>2, <1>3, <1>4, <1>5, <1>6, <1>s DEF ProcNext

(* A stop that comes before the runner began keeps it from beginning, also *)
(* when it lands in the callbacks or before the task's first step.         *)
THEOREM StopsInTime == ProcSpec => StoppedNeverStarts
<1> DEFINE A == \A id \in Claims :
                  Live(id) /\ task[id].cancelled /\ ~RunnerStarted(id) /\ task'[id] # NoTask
                    => task'[id].phase \notin {"running", "failed"}
<1>1. ProcInv /\ [ProcNext]_allVars => [A]_allVars
  BY StopStep
<1> QED BY <1>1, ProcCorrect, PTL DEF ProcSpec, StoppedNeverStarts
=============================================================================
