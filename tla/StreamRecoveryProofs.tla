------------------------ MODULE StreamRecoveryProofs ------------------------
(***************************************************************************)
(* What the reader of one streamed answer may rely on, whatever the        *)
(* upstream sends and wherever it breaks off: for any tools, any settings, *)
(* any size of the hold-back and any number of chunks.                     *)
(***************************************************************************)
EXTENDS StreamRecovery, FiniteSetTheorems, WellFoundedInduction, TLAPS

(* The least-number principle in first-order form.                         *)
LEMMA LeastNatural ==
  ASSUME NEW T, T \subseteq Nat, T # {}
  PROVE  \E x \in T : \A y \in T : x <= y
<1>1. IsWellFoundedOn(OpToRel(<, Nat), Nat)
  BY NatLessThanWellFounded
<1>2. \E x \in T : \A y \in T : <<y, x>> \notin OpToRel(<, Nat)
  BY <1>1, WFMin
<1>3. \A x, y \in Nat : <<y, x>> \in OpToRel(<, Nat) <=> y < x
  BY DEF OpToRel
<1>4. \A x, y \in Nat : ~(y < x) => x <= y
  OBVIOUS
<1> QED
  BY <1>2, <1>3, <1>4

-----------------------------------------------------------------------------
(* Frames.                                                                  *)

Kinds == {"text", "thinking", "tool_use"}

Frame ==
  {MessageStart, MessageDelta, MessageStop}
    \cup {<<"start", b, k>> : b \in Nat, k \in Kinds}
    \cup {<<"delta", b, k, n>> : b \in Nat, k \in Kinds, n \in Nat}
    \cup {<<"stop", b>> : b \in Nat}

(* What a frame is, the block it is about, and the kind it gives it.        *)
FName(f)  == f[1]
FBlock(f) == f[2]
FKind(f)  == f[3]

LEMMA FrameParts ==
  ASSUME NEW f \in Frame
  PROVE  /\ FName(f) \in {"message_start", "message_delta", "message_stop", "start", "delta", "stop"}
         /\ FName(f) = "start" => FBlock(f) \in Nat /\ FKind(f) \in Kinds /\ f = <<"start", FBlock(f), FKind(f)>>
         /\ FName(f) = "delta" => FBlock(f) \in Nat /\ FKind(f) \in Kinds
         /\ FName(f) = "stop"  => FBlock(f) \in Nat /\ f = <<"stop", FBlock(f)>>
  BY DEF Frame, MessageStart, MessageDelta, MessageStop, FName, FBlock, FKind

LEMMA NewFrames ==
  ASSUME NEW b \in Nat, NEW k \in Kinds, NEW n \in Nat
  PROVE  /\ <<"start", b, k>> \in Frame /\ <<"stop", b>> \in Frame /\ <<"delta", b, k, n>> \in Frame
         /\ FName(<<"start", b, k>>) = "start" /\ FBlock(<<"start", b, k>>) = b
         /\ FKind(<<"start", b, k>>) = k
         /\ FName(<<"stop", b>>) = "stop" /\ FBlock(<<"stop", b>>) = b
         /\ FName(<<"delta", b, k, n>>) = "delta" /\ FBlock(<<"delta", b, k, n>>) = b
         /\ FKind(<<"delta", b, k, n>>) = k
         /\ <<"stop", b>> # <<"start", b, k>>
  BY DEF Frame, FName, FBlock, FKind

LEMMA EnvelopeFrames ==
  /\ MessageStart \in Frame /\ MessageDelta \in Frame /\ MessageStop \in Frame
  /\ FName(MessageStart) = "message_start" /\ FName(MessageDelta) = "message_delta"
  /\ FName(MessageStop) = "message_stop"
  BY DEF Frame, MessageStart, MessageDelta, MessageStop, FName

LEMMA FrameFacts ==
  ASSUME NEW f \in Frame
  PROVE  /\ f # Heartbeat
         /\ f[1] \in {"message_start", "message_delta", "message_stop", "start", "delta", "stop"}
         /\ f[1] = "start" => f[2] \in Nat /\ f[3] \in Kinds /\ f = <<"start", f[2], f[3]>>
         /\ f[1] = "delta" => f[2] \in Nat /\ f[3] \in Kinds /\ f[4] \in Nat
         /\ f[1] = "stop"  => f[2] \in Nat /\ f = <<"stop", f[2]>>
  BY DEF Frame, MessageStart, MessageDelta, MessageStop, Heartbeat

LEMMA AppendFacts ==
  ASSUME NEW S, NEW m \in Seq(S), NEW f \in S
  PROVE  /\ Append(m, f) \in Seq(S) /\ Len(Append(m, f)) = Len(m) + 1
         /\ \A i \in 1..Len(m) : Append(m, f)[i] = m[i]
         /\ Append(m, f)[Len(m) + 1] = f
         /\ Append(m, f) # << >>
  OBVIOUS

-----------------------------------------------------------------------------
(* The hold-back buffer.                                                    *)

Texts(m) == {i \in 1..Len(m) : Text(m[i])}

(* What the reader may get while the attempt goes on.                       *)
Deserved(m) ==
  \/ (\E i \in 1..Len(m) : Shows(m[i])) /\ Cardinality(Texts(m)) >= policy.chars
  \/ ~policy.window /\ policy.chars = 0
  \/ Len(m) >= MaxHeld

HoldType == [committed : BOOLEAN, frames : Seq(Frame), window : {"shut", "open", "over"}, chars : Nat]

(* s is a buffer with what the reader got, after the frames m of one        *)
(* attempt: it has all of them or none.                                     *)
Carries(s, m) ==
  /\ s = [hold |-> s.hold, wire |-> s.wire]
  /\ s.hold \in HoldType
  /\ IF s.hold.committed
       THEN s.hold.frames = << >> /\ s.wire = m
       ELSE s.hold.frames = m /\ s.wire = << >>

(* It let them go for a reason, and knows what it holds.                    *)
Honest(s, m) ==
  IF s.hold.committed THEN Deserved(m)
  ELSE /\ s.hold.window # "shut" => \E i \in 1..Len(m) : Shows(m[i])
       /\ s.hold.chars = Cardinality(Texts(m))

LEMMA TextsType ==
  ASSUME NEW m \in Seq(Frame)
  PROVE  IsFiniteSet(Texts(m)) /\ Cardinality(Texts(m)) \in Nat
<1>1. Len(m) \in Nat
  OBVIOUS
<1>2. IsFiniteSet(1..Len(m))
  BY <1>1, FS_Interval
<1>3. Texts(m) \subseteq 1..Len(m)
  BY DEF Texts
<1> QED BY <1>2, <1>3, FS_Subset, FS_CardinalityType

LEMMA TextsAppend ==
  ASSUME NEW m \in Seq(Frame), NEW f \in Frame
  PROVE  Cardinality(Texts(Append(m, f))) = Cardinality(Texts(m)) + (IF Text(f) THEN 1 ELSE 0)
<1> DEFINE g == Append(m, f)
<1>1. Len(m) \in Nat /\ 1..Len(g) = (1..Len(m)) \cup {Len(m) + 1} /\ Len(m) + 1 \notin 1..Len(m)
  BY AppendFacts
<1>2. \A i \in 1..Len(m) : g[i] = m[i]
  BY AppendFacts
<1>3. g[Len(m) + 1] = f
  BY AppendFacts
<1> HIDE DEF g
<1>4. Texts(g) = IF Text(f) THEN Texts(m) \cup {Len(m) + 1} ELSE Texts(m)
  <2>1. \A i \in 1..Len(m) : Text(g[i]) <=> Text(m[i])
    BY <1>2
  <2>2. Text(g[Len(m) + 1]) <=> Text(f)
    BY <1>3
  <2> QED BY <1>1, <2>1, <2>2 DEF Texts
<1>5. Len(m) + 1 \notin Texts(m)
  BY <1>1 DEF Texts
<1>6. Cardinality(Texts(m) \cup {Len(m) + 1}) = Cardinality(Texts(m)) + 1
  BY <1>5, TextsType, FS_AddElement
<1>7. Cardinality(Texts(g)) = Cardinality(Texts(m)) + (IF Text(f) THEN 1 ELSE 0)
  <2>1. Cardinality(Texts(m)) \in Nat BY TextsType
  <2> QED BY <1>4, <1>6, <2>1
<1> QED BY <1>7 DEF g

LEMMA DeservedStays ==
  ASSUME NEW m \in Seq(Frame), NEW f \in Frame, Deserved(m), policy.chars \in Nat
  PROVE  Deserved(Append(m, f))
<1>1. /\ Len(Append(m, f)) = Len(m) + 1 /\ Len(m) \in Nat
      /\ \A i \in 1..Len(m) : Append(m, f)[i] = m[i]
  BY AppendFacts
<1>2. CASE (\E i \in 1..Len(m) : Shows(m[i])) /\ Cardinality(Texts(m)) >= policy.chars
  <2>1. PICK i \in 1..Len(m) : Shows(m[i]) BY <1>2
  <2>2. i \in 1..Len(Append(m, f)) /\ Shows(Append(m, f)[i]) BY <1>1, <2>1
  <2>3. Cardinality(Texts(Append(m, f))) >= policy.chars
    BY <1>2, TextsAppend, TextsType
  <2> QED BY <2>2, <2>3 DEF Deserved
<1>3. CASE ~policy.window /\ policy.chars = 0
  BY <1>3 DEF Deserved
<1>4. CASE Len(m) >= MaxHeld
  BY <1>1, <1>4, BoundsAssumption DEF Deserved
<1> QED BY <1>2, <1>3, <1>4 DEF Deserved

LEMMA FreshHold ==
  /\ NewHold \in HoldType /\ ~NewHold.committed /\ NewHold.frames = << >>
  /\ NewHold.window = "shut" /\ NewHold.chars = 0
  /\ [NewHold EXCEPT !.committed = TRUE] \in HoldType
  /\ [NewHold EXCEPT !.committed = TRUE].committed
  /\ [NewHold EXCEPT !.committed = TRUE].frames = << >>
<1>1. << >> \in Seq(Frame)
  OBVIOUS
<1> QED BY <1>1 DEF NewHold, HoldType

LEMMA PushCarries ==
  ASSUME NEW s, NEW m \in Seq(Frame), NEW f \in Frame, policy \in Policy,
         Carries(s, m), Honest(s, m)
  PROVE  Carries(Push(s, f), Append(m, f)) /\ Honest(Push(s, f), Append(m, f))
<1> DEFINE g == Append(m, f)
           h == s.hold
           held == [h EXCEPT !.frames = Append(@, f), !.window = Opened(@, f),
                             !.chars = IF Text(f) THEN @ + 1 ELSE @]
<1>1. /\ g \in Seq(Frame) /\ Len(g) = Len(m) + 1 /\ Len(m) \in Nat
      /\ \A i \in 1..Len(m) : g[i] = m[i]
      /\ g[Len(m) + 1] = f
  BY AppendFacts
<1>2. h \in HoldType /\ policy.chars \in Nat /\ policy.window \in BOOLEAN
  BY DEF Carries, Policy
<1>3. CASE h.committed
  <2>1. Push(s, f) = [s EXCEPT !.wire = Append(@, f)]
    BY <1>3 DEF Push
  <2>2. Push(s, f).hold = h /\ Push(s, f).wire = g
        /\ Push(s, f) = [hold |-> Push(s, f).hold, wire |-> Push(s, f).wire]
    BY <2>1, <1>3 DEF Carries
  <2>3. Deserved(g)
    BY <1>2, <1>3, DeservedStays DEF Honest
  <2> QED BY <2>2, <2>3, <1>3 DEF Carries, Honest
<1>4. CASE ~h.committed /\ ~policy.window /\ policy.chars = 0
  <2>1. Push(s, f) = Flush([s EXCEPT !.hold.frames = Append(@, f)])
    BY <1>4 DEF Push
  <2>2. /\ Push(s, f).hold = [NewHold EXCEPT !.committed = TRUE] /\ Push(s, f).wire = << >> \o g
        /\ Push(s, f) = [hold |-> Push(s, f).hold, wire |-> Push(s, f).wire]
    <3>1. s.hold.frames = m /\ s.wire = << >> /\ s = [hold |-> h, wire |-> << >>]
      BY <1>4 DEF Carries
    <3>2. [h EXCEPT !.frames = Append(@, f)].committed = h.committed
          /\ [h EXCEPT !.frames = Append(@, f)].frames = g
      BY <1>2, <3>1 DEF HoldType
    <3>3. [s EXCEPT !.hold.frames = Append(@, f)]
            = [hold |-> [h EXCEPT !.frames = Append(@, f)], wire |-> << >>]
      BY <3>1
    <3>4. Push(s, f) = [hold |-> [NewHold EXCEPT !.committed = TRUE], wire |-> << >> \o g]
      <4> DEFINE k == [h EXCEPT !.frames = Append(@, f)]
      <4>1. ~k.committed /\ k.frames = g BY <3>2, <1>4
      <4> HIDE DEF k, g, h
      <4>2. Flush([hold |-> k, wire |-> << >>])
              = [hold |-> [NewHold EXCEPT !.committed = TRUE], wire |-> << >> \o g]
        BY <4>1 DEF Flush
      <4> QED BY <4>2, <2>1, <3>3 DEF k, h
    <3> QED BY <3>4
  <2>3. << >> \o g = g
    BY <1>1
  <2>4. Deserved(g)
    BY <1>4 DEF Deserved
  <2> QED BY <2>2, <2>3, <2>4, FreshHold DEF Carries, Honest
<1>5. CASE ~h.committed /\ ~(~policy.window /\ policy.chars = 0)
  <2>1. h.frames = m /\ s.wire = << >> /\ h.chars = Cardinality(Texts(m))
        /\ (h.window # "shut" => \E i \in 1..Len(m) : Shows(m[i]))
    BY <1>5 DEF Carries, Honest
  <2>2. /\ held \in HoldType /\ ~held.committed /\ held.frames = g
        /\ held.window = Opened(h.window, f)
        /\ held.chars = Cardinality(Texts(g))
    <3>1. Opened(h.window, f) \in {"shut", "open", "over"}
      BY <1>2 DEF Opened, HoldType
    <3>2. h.chars \in Nat /\ h.frames \in Seq(Frame)
      BY <1>2 DEF HoldType
    <3>3. held.chars = h.chars + (IF Text(f) THEN 1 ELSE 0)
      BY <1>2, <3>2 DEF HoldType
    <3>4. held.chars = Cardinality(Texts(g))
      BY <3>3, <2>1, TextsAppend
    <3>5. held.frames = g /\ held.window = Opened(h.window, f) /\ held.committed = h.committed
      BY <2>1, <1>2 DEF HoldType
    <3>6. held.chars \in Nat
      BY <3>2, <3>3
    <3>7. held \in HoldType
      BY <3>1, <3>5, <3>6, <1>1, <1>2 DEF HoldType
    <3> QED BY <3>4, <3>5, <3>7, <1>5
  <2>3. held.window # "shut" => \E i \in 1..Len(g) : Shows(g[i])
    <3>1. SUFFICES ASSUME held.window # "shut" PROVE \E i \in 1..Len(g) : Shows(g[i])
      OBVIOUS
    <3>2. CASE h.window # "shut"
      <4>1. PICK i \in 1..Len(m) : Shows(m[i]) BY <2>1, <3>2
      <4>2. i \in 1..Len(g) /\ g[i] = m[i] BY <1>1, <4>1
      <4> QED BY <4>1, <4>2
    <3>3. CASE h.window = "shut"
      <4>1. ~Scaffolding(f) BY <3>1, <3>3, <2>2 DEF Opened
      <4>2. Shows(f) BY <4>1, FrameFacts DEF Shows
      <4>3. Len(m) + 1 \in 1..Len(g) BY <1>1
      <4> QED BY <4>2, <4>3, <1>1
    <3> QED BY <3>2, <3>3
  <2> DEFINE full == Len(held.frames) >= MaxHeld
             due  == held.window = "over" /\ held.chars >= policy.chars
  <2>4. Push(s, f) = IF full \/ due THEN Flush([s EXCEPT !.hold = held]) ELSE [s EXCEPT !.hold = held]
    BY <1>5 DEF Push
  <2>5. [s EXCEPT !.hold = held] = [hold |-> held, wire |-> << >>]
    BY <2>1 DEF Carries
  <2> HIDE DEF held
  <2>6. CASE full \/ due
    <3>1. Push(s, f) = [hold |-> [NewHold EXCEPT !.committed = TRUE], wire |-> << >> \o g]
      BY <2>4, <2>5, <2>6, <2>2 DEF Flush
    <3>2. << >> \o g = g
      BY <1>1
    <3>3. Deserved(g)
      BY <2>6, <2>2, <2>3 DEF Deserved
    <3> DEFINE k == [NewHold EXCEPT !.committed = TRUE]
    <3>4. k \in HoldType /\ k.committed /\ k.frames = << >> BY FreshHold
    <3>5. Push(s, f) = [hold |-> k, wire |-> g] BY <3>1, <3>2
    <3> HIDE DEF k, g, full, due
    <3>6. Carries(Push(s, f), g) /\ Honest(Push(s, f), g)
      BY <3>3, <3>4, <3>5 DEF Carries, Honest
    <3> QED BY <3>6 DEF g
  <2>7. CASE ~(full \/ due)
    <3>1. Push(s, f) = [hold |-> held, wire |-> << >>]
      BY <2>4, <2>5, <2>7
    <3> QED BY <3>1, <2>2, <2>3 DEF Carries, Honest
  <2> QED BY <2>6, <2>7
<1> QED BY <1>3, <1>4, <1>5

(* Pushing: the recursion has a solution, and it carries the frames on.     *)
Pushing(after, s, frames, n) ==
  after = [i \in 0..n |-> IF i = 0 THEN s ELSE Push(after[i - 1], frames[i])]

LEMMA PushingExists ==
  ASSUME NEW s, NEW frames \in Seq(Frame), NEW n \in 0..Len(frames)
  PROVE  \E after : Pushing(after, s, frames, n)
<1> DEFINE Bad == {k \in 0..Len(frames) : ~ \E after : Pushing(after, s, frames, k)}
<1>1. SUFFICES ASSUME Bad # {} PROVE FALSE
  OBVIOUS
<1>2. PICK k \in Bad : \A j \in Bad : k <= j
  <2>1. Bad \subseteq Nat
    OBVIOUS
  <2> HIDE DEF Bad
  <2> QED BY <1>1, <2>1, LeastNatural
<1>3. CASE k = 0
  <2> DEFINE f == [i \in 0..0 |-> s]
  <2>1. Pushing(f, s, frames, 0)
    BY DEF Pushing
  <2> QED BY <2>1, <1>3
<1>4. CASE k # 0
  <2>1. k - 1 \in 0..Len(frames) /\ k \in 1..Len(frames)
    BY <1>4
  <2>2. k - 1 \notin Bad
    BY <1>2, <2>1
  <2>3. PICK f : Pushing(f, s, frames, k - 1)
    BY <2>1, <2>2
  <2> DEFINE last == Push(f[k - 1], frames[k])
             g == [i \in 0..k |-> IF i = k THEN last ELSE f[i]]
  <2>4. ASSUME NEW i \in 0..k
        PROVE  g[i] = IF i = 0 THEN s ELSE Push(g[i - 1], frames[i])
    <3>1. CASE i = k
      <4>1. g[i - 1] = f[k - 1] /\ g[i] = last BY <3>1, <2>1
      <4> QED BY <4>1, <3>1, <1>4
    <3>2. CASE i # k
      <4>1. i \in 0..k-1 BY <3>2, <2>1
      <4>2. g[i] = f[i] /\ (i # 0 => g[i - 1] = f[i - 1]) BY <3>2, <4>1, <2>1
      <4>3. f[i] = IF i = 0 THEN s ELSE Push(f[i - 1], frames[i])
        BY <2>3, <4>1 DEF Pushing
      <4> QED BY <4>2, <4>3
    <3> QED BY <3>1, <3>2
  <2>5. Pushing(g, s, frames, k)
    <3> HIDE DEF last
    <3>1. g = [i \in 0..k |-> g[i]] OBVIOUS
    <3> HIDE DEF g
    <3> QED BY <2>4, <3>1 DEF Pushing
  <2> QED BY <2>5
<1> QED BY <1>3, <1>4

LEMMA ConcatFacts ==
  ASSUME NEW m \in Seq(Frame), NEW g \in Seq(Frame)
  PROVE  /\ m \o g \in Seq(Frame) /\ Len(m \o g) = Len(m) + Len(g)
         /\ \A i \in 1..Len(m) : (m \o g)[i] = m[i]
         /\ \A i \in 1..Len(g) : (m \o g)[Len(m) + i] = g[i]
  OBVIOUS

(* The first n of the frames g after m.                                     *)
Upto(m, g, n) == m \o SubSeq(g, 1, n)

LEMMA UptoFacts ==
  ASSUME NEW m \in Seq(Frame), NEW g \in Seq(Frame)
  PROVE  /\ Upto(m, g, 0) = m /\ Upto(m, g, Len(g)) = m \o g
         /\ \A n \in 0..Len(g) : Upto(m, g, n) \in Seq(Frame)
         /\ \A n \in 1..Len(g) : Upto(m, g, n) = Append(Upto(m, g, n - 1), g[n])
<1>1. \A n \in 0..Len(g) : SubSeq(g, 1, n) \in Seq(Frame) /\ Len(SubSeq(g, 1, n)) = n
                           /\ \A i \in 1..n : SubSeq(g, 1, n)[i] = g[i]
  OBVIOUS
<1>2. SubSeq(g, 1, 0) = << >> /\ SubSeq(g, 1, Len(g)) = g
  BY <1>1
<1>3. m \o << >> = m
  OBVIOUS
<1>4. ASSUME NEW n \in 1..Len(g)
      PROVE  m \o SubSeq(g, 1, n) = Append(m \o SubSeq(g, 1, n - 1), g[n])
  <2> DEFINE a == SubSeq(g, 1, n)
             b == SubSeq(g, 1, n - 1)
  <2>1. /\ n - 1 \in 0..Len(g) /\ n \in 0..Len(g) /\ g[n] \in Frame
        /\ a \in Seq(Frame) /\ b \in Seq(Frame) /\ Len(a) = n /\ Len(b) = n - 1
        /\ \A i \in 1..n : a[i] = g[i]
        /\ \A i \in 1..n-1 : b[i] = g[i]
    BY <1>1
  <2> HIDE DEF a, b
  <2>2. Len(m) \in Nat OBVIOUS
  <2>3. m \o a \in Seq(Frame) /\ Append(m \o b, g[n]) \in Seq(Frame)
        /\ Len(m \o a) = Len(m) + n /\ Len(Append(m \o b, g[n])) = Len(m) + n
    BY <2>1
  <2>4. ASSUME NEW i \in 1..(Len(m) + n) PROVE (m \o a)[i] = Append(m \o b, g[n])[i]
    <3>1. CASE i \in 1..Len(m) BY <3>1, <2>1
    <3>2. CASE i \in (Len(m) + 1)..(Len(m) + n - 1)
      <4>1. PICK j \in 1..n-1 : i = Len(m) + j
        <5>1. i - Len(m) \in 1..n-1 /\ i = Len(m) + (i - Len(m)) BY <3>2, <2>1, <2>2
        <5> QED BY <5>1
      <4>2. (m \o a)[i] = a[j] /\ (m \o b)[i] = b[j]
        BY <4>1, <2>1, ConcatFacts
      <4>3. m \o b \in Seq(Frame) /\ Len(m \o b) = Len(m) + n - 1 BY <2>1, <2>2, ConcatFacts
      <4>4. Append(m \o b, g[n])[i] = (m \o b)[i] BY <4>3, <3>2, <2>1, <2>2
      <4>5. a[j] = g[j] /\ b[j] = g[j] BY <4>1, <2>1
      <4> QED BY <4>2, <4>4, <4>5
    <3>3. CASE i = Len(m) + n
      <4>1. (m \o a)[i] = a[n] BY <3>3, <2>1, <2>2
      <4>2. m \o b \in Seq(Frame) /\ Len(m \o b) = i - 1 BY <3>3, <2>1, <2>2
      <4>3. Append(m \o b, g[n])[i] = g[n] BY <4>2, <2>1, <2>2
      <4> QED BY <4>1, <4>3, <2>1
    <3> QED BY <2>1, <2>2, <3>1, <3>2, <3>3
  <2>5. m \o a = Append(m \o b, g[n])
    BY <2>3, <2>4
  <2> QED BY <2>5 DEF a, b
<1> QED BY <1>1, <1>2, <1>3, <1>4 DEF Upto

LEMMA PushedCarries ==
  ASSUME NEW s, NEW m \in Seq(Frame), NEW g \in Seq(Frame), policy \in Policy,
         Carries(s, m), Honest(s, m)
  PROVE  Carries(Pushed(s, g), m \o g) /\ Honest(Pushed(s, g), m \o g)
<1>1. PICK after : Pushing(after, s, g, Len(g)) /\ Pushed(s, g) = after[Len(g)]
  <2> DEFINE f == CHOOSE f : Pushing(f, s, g, Len(g))
  <2>1. Pushing(f, s, g, Len(g))
    <3>1. Len(g) \in 0..Len(g) OBVIOUS
    <3> QED BY <3>1, PushingExists
  <2>2. Pushed(s, g) = f[Len(g)]
    BY DEF Pushed, Pushing
  <2> QED BY <2>1, <2>2
<1>2. /\ after[0] = s
      /\ \A i \in 1..Len(g) : after[i] = Push(after[i - 1], g[i])
  <2>1. \A i \in 0..Len(g) : after[i] = IF i = 0 THEN s ELSE Push(after[i - 1], g[i])
    BY <1>1 DEF Pushing
  <2> QED BY <2>1
<1> DEFINE Fine(i) == Carries(after[i], Upto(m, g, i)) /\ Honest(after[i], Upto(m, g, i))
           Bad == {i \in 0..Len(g) : ~Fine(i)}
<1>3. ASSUME Bad # {} PROVE FALSE
  <2>1. PICK n \in Bad : \A k \in Bad : n <= k
    <3>1. Bad \subseteq Nat
      OBVIOUS
    <3> HIDE DEF Bad
    <3> QED BY <1>3, <3>1, LeastNatural
  <2>2. n # 0
    <3>1. Upto(m, g, 0) = m BY UptoFacts
    <3>2. after[0] = s BY <1>2
    <3>3. Fine(0) BY <3>1, <3>2
    <3> QED BY <3>3, <2>1
  <2>3. n - 1 \in 0..Len(g) /\ n \in 1..Len(g) /\ g[n] \in Frame
    BY <2>2
  <2>4. Fine(n - 1)
    <3>1. n - 1 \notin Bad
      <4>1. ~(n <= n - 1) BY <2>3
      <4> HIDE DEF Bad
      <4> QED BY <2>1, <4>1
    <3> QED BY <3>1, <2>3
  <2>5. Upto(m, g, n - 1) \in Seq(Frame) /\ Upto(m, g, n) = Append(Upto(m, g, n - 1), g[n])
    <3>1. /\ \A k \in 0..Len(g) : Upto(m, g, k) \in Seq(Frame)
          /\ \A k \in 1..Len(g) : Upto(m, g, k) = Append(Upto(m, g, k - 1), g[k])
      BY UptoFacts
    <3> QED BY <3>1, <2>3
  <2>6. after[n] = Push(after[n - 1], g[n])
    BY <1>2, <2>3
  <2>7. Fine(n)
    BY <2>3, <2>4, <2>5, <2>6, PushCarries
  <2> QED BY <2>7, <2>1
<1>4. Fine(Len(g))
  <2>1. Len(g) \in 0..Len(g) OBVIOUS
  <2> QED BY <1>3, <2>1
<1> QED BY <1>1, <1>4, UptoFacts
-----------------------------------------------------------------------------
(* The pieces a stream has sent of one call.                                *)

Part(f, b) == IF f[1] \in {"delta"} /\ f[2] = b THEN f[4] ELSE 0

Summing(sum, m, b, n) ==
  sum = [i \in 0..n |-> IF i = 0 THEN 0 ELSE sum[i - 1] + Part(m[i], b)]

LEMMA PartFacts ==
  ASSUME NEW f \in Frame, NEW b
  PROVE  /\ Part(f, b) \in Nat
         /\ FName(f) # "delta" => Part(f, b) = 0
         /\ FBlock(f) # b => Part(f, b) = 0
  BY FrameFacts DEF Part, FName, FBlock

LEMMA SummingExists ==
  ASSUME NEW m \in Seq(Frame), NEW b, NEW n \in 0..Len(m)
  PROVE  \E sum : Summing(sum, m, b, n)
<1> DEFINE Bad == {k \in 0..Len(m) : ~ \E sum : Summing(sum, m, b, k)}
<1>1. SUFFICES ASSUME Bad # {} PROVE FALSE
  OBVIOUS
<1>2. PICK k \in Bad : \A j \in Bad : k <= j
  <2>1. Bad \subseteq Nat
    OBVIOUS
  <2> HIDE DEF Bad
  <2> QED BY <1>1, <2>1, LeastNatural
<1>3. CASE k = 0
  <2> DEFINE f == [i \in 0..0 |-> 0]
  <2>1. Summing(f, m, b, 0)
    BY DEF Summing
  <2> QED BY <2>1, <1>3
<1>4. CASE k # 0
  <2>1. k - 1 \in 0..Len(m) /\ k \in 1..Len(m)
    BY <1>4
  <2>2. k - 1 \notin Bad
    BY <1>2, <2>1
  <2>3. PICK f : Summing(f, m, b, k - 1)
    BY <2>1, <2>2
  <2> DEFINE last == f[k - 1] + Part(m[k], b)
             g == [i \in 0..k |-> IF i = k THEN last ELSE f[i]]
  <2>4. ASSUME NEW i \in 0..k
        PROVE  g[i] = IF i = 0 THEN 0 ELSE g[i - 1] + Part(m[i], b)
    <3>1. CASE i = k
      <4>1. g[i - 1] = f[k - 1] /\ g[i] = last BY <3>1, <2>1
      <4> QED BY <4>1, <3>1, <1>4
    <3>2. CASE i # k
      <4>1. i \in 0..k-1 BY <3>2, <2>1
      <4>2. g[i] = f[i] /\ (i # 0 => g[i - 1] = f[i - 1]) BY <3>2, <4>1, <2>1
      <4>3. f[i] = IF i = 0 THEN 0 ELSE f[i - 1] + Part(m[i], b)
        BY <2>3, <4>1 DEF Summing
      <4> QED BY <4>2, <4>3
    <3> QED BY <3>1, <3>2
  <2>5. Summing(g, m, b, k)
    <3> HIDE DEF last
    <3>1. g = [i \in 0..k |-> g[i]] OBVIOUS
    <3> HIDE DEF g
    <3> QED BY <2>4, <3>1 DEF Summing
  <2> QED BY <2>5
<1> QED BY <1>3, <1>4

LEMMA PiecesSum ==
  ASSUME NEW m \in Seq(Frame), NEW b
  PROVE  \E sum : Summing(sum, m, b, Len(m)) /\ PiecesOf(m, b) = sum[Len(m)]
<1> DEFINE f == CHOOSE f : Summing(f, m, b, Len(m))
<1>1. Summing(f, m, b, Len(m))
  <2>1. Len(m) \in 0..Len(m) OBVIOUS
  <2> QED BY <2>1, SummingExists
<1>2. PiecesOf(m, b) = f[Len(m)]
  BY DEF PiecesOf, Summing, Part, At
<1> QED BY <1>1, <1>2

(* Of two streams that agree on their first n frames the sums agree so far. *)
LEMMA SumsAgree ==
  ASSUME NEW m \in Seq(Frame), NEW g \in Seq(Frame), NEW b, NEW f, NEW h,
         NEW k \in 0..Len(m), NEW j \in 0..Len(g), NEW n \in Nat, n <= k, n <= j,
         Summing(f, m, b, k), Summing(h, g, b, j),
         \A i \in 1..n : m[i] = g[i]
  PROVE  f[n] = h[n] /\ f[n] \in Nat
<1> DEFINE Fine(i) == f[i] = h[i] /\ f[i] \in Nat
           Bad == {i \in 0..n : ~Fine(i)}
<1>1. SUFFICES ASSUME Bad # {} PROVE FALSE
  <2>1. n \in 0..n OBVIOUS
  <2> QED BY <2>1
<1>2. PICK i \in Bad : \A x \in Bad : i <= x
  <2>1. Bad \subseteq Nat
    OBVIOUS
  <2> HIDE DEF Bad
  <2> QED BY <1>1, <2>1, LeastNatural
<1>3. /\ \A x \in 0..k : f[x] = IF x = 0 THEN 0 ELSE f[x - 1] + Part(m[x], b)
      /\ \A x \in 0..j : h[x] = IF x = 0 THEN 0 ELSE h[x - 1] + Part(g[x], b)
  BY DEF Summing
<1>4. i # 0
  <2>1. f[0] = 0 /\ h[0] = 0
    <3>1. 0 \in 0..k /\ 0 \in 0..j OBVIOUS
    <3> QED BY <1>3, <3>1
  <2> QED BY <2>1, <1>2
<1>5. i \in 1..n /\ i \in 0..k /\ i \in 0..j /\ i - 1 \in 0..n /\ i \in 1..Len(m)
  BY <1>4
<1>6. Fine(i - 1)
  <2>1. i - 1 \notin Bad
    <3>1. ~(i <= i - 1) BY <1>5
    <3> HIDE DEF Bad
    <3> QED BY <1>2, <3>1
  <2> QED BY <2>1, <1>5
<1>7. f[i] = f[i - 1] + Part(m[i], b) /\ h[i] = h[i - 1] + Part(m[i], b)
  BY <1>3, <1>4, <1>5
<1>8. Part(m[i], b) \in Nat
  <2>1. m[i] \in Frame BY <1>5
  <2> QED BY <2>1, FrameFacts DEF Part
<1>9. Fine(i)
  BY <1>6, <1>7, <1>8
<1> QED BY <1>9, <1>2

LEMMA PiecesType ==
  ASSUME NEW m \in Seq(Frame), NEW b
  PROVE  PiecesOf(m, b) \in Nat
<1>1. PICK f : Summing(f, m, b, Len(m)) /\ PiecesOf(m, b) = f[Len(m)]
  BY PiecesSum
<1>2. Len(m) \in 0..Len(m) /\ Len(m) \in Nat /\ Len(m) <= Len(m)
  OBVIOUS
<1> QED BY <1>1, <1>2, SumsAgree

LEMMA PiecesAppend ==
  ASSUME NEW m \in Seq(Frame), NEW f \in Frame, NEW b
  PROVE  PiecesOf(Append(m, f), b) = PiecesOf(m, b) + Part(f, b)
<1> DEFINE g == Append(m, f)
           n == Len(m)
<1>1. /\ g \in Seq(Frame) /\ Len(g) = n + 1 /\ n \in Nat
      /\ \A i \in 1..n : m[i] = g[i]
      /\ g[n + 1] = f
  BY AppendFacts
<1> HIDE DEF g
<1>2. PICK x : Summing(x, m, b, Len(m)) /\ PiecesOf(m, b) = x[Len(m)]
  BY PiecesSum
<1>3. PICK y : Summing(y, g, b, Len(g)) /\ PiecesOf(g, b) = y[Len(g)]
  BY <1>1, PiecesSum
<1>4. x[n] = y[n]
  <2>1. n \in 0..Len(m) /\ n + 1 \in 0..Len(g) /\ n <= n /\ n <= n + 1 BY <1>1
  <2> QED BY <1>1, <1>2, <1>3, <2>1, SumsAgree
<1>5. y[n + 1] = y[n] + Part(f, b)
  <2>1. \A i \in 0..Len(g) : y[i] = IF i = 0 THEN 0 ELSE y[i - 1] + Part(g[i], b)
    BY <1>3 DEF Summing
  <2>2. n + 1 \in 0..Len(g) /\ n + 1 # 0 /\ (n + 1) - 1 = n BY <1>1
  <2>3. y[n + 1] = y[(n + 1) - 1] + Part(g[n + 1], b) BY <2>1, <2>2
  <2> QED BY <2>2, <2>3, <1>1
<1> QED BY <1>1, <1>2, <1>3, <1>4, <1>5 DEF g

LEMMA PiecesZero ==
  ASSUME NEW m \in Seq(Frame), NEW b, \A i \in 1..Len(m) : FName(m[i]) = "delta" => FBlock(m[i]) # b
  PROVE  PiecesOf(m, b) = 0
<1>1. PICK f : Summing(f, m, b, Len(m)) /\ PiecesOf(m, b) = f[Len(m)]
  BY PiecesSum
<1>2. \A i \in 0..Len(m) : f[i] = IF i = 0 THEN 0 ELSE f[i - 1] + Part(m[i], b)
  BY <1>1 DEF Summing
<1>3. \A i \in 1..Len(m) : Part(m[i], b) = 0
  BY DEF Part, FName, FBlock
<1> DEFINE Bad == {i \in 0..Len(m) : f[i] # 0}
<1>4. ASSUME Bad # {} PROVE FALSE
  <2>1. PICK i \in Bad : \A x \in Bad : i <= x
    <3>1. Bad \subseteq Nat
      OBVIOUS
    <3> HIDE DEF Bad
    <3> QED BY <1>4, <3>1, LeastNatural
  <2>2. i # 0
    BY <1>2, <2>1
  <2>3. i \in 1..Len(m) /\ i - 1 \in 0..Len(m)
    BY <2>2
  <2>4. i - 1 \notin Bad
    <3>1. ~(i <= i - 1) BY <2>3
    <3> HIDE DEF Bad
    <3> QED BY <2>1, <3>1
  <2>5. f[i - 1] = 0
    BY <2>3, <2>4
  <2>6. f[i] = f[i - 1] + 0
    BY <1>2, <1>3, <2>2, <2>3
  <2> QED BY <2>5, <2>6, <2>1
<1>5. Len(m) \in 0..Len(m)
  OBVIOUS
<1> QED BY <1>1, <1>4, <1>5

-----------------------------------------------------------------------------
(* A stream that matches its blocks.                                        *)

LEMMA OpenBeforeStays ==
  ASSUME NEW m \in Seq(Frame), NEW f \in Frame, NEW b, NEW i \in 1..Len(m)+1
  PROVE  OpenBefore(Append(m, f), b, i) <=> OpenBefore(m, b, i)
<1>1. /\ Len(m) \in Nat
      /\ \A j \in 1..Len(m) : Append(m, f)[j] = m[j]
  BY AppendFacts
<1>2. \A j \in 1..i-1 : j \in 1..Len(m)
  BY <1>1
<1> QED BY <1>1, <1>2 DEF OpenBefore, At

LEMMA LegalAppend ==
  ASSUME NEW m \in Seq(Frame), NEW f \in Frame, Legal(m), m # << >>,
         \A i \in 1..Len(m) : FName(m[i]) # "message_stop",
         FName(f) # "message_start",
         FName(f) = "start" => \A j \in 1..Len(m) : FName(m[j]) = "start" => FBlock(m[j]) # FBlock(f),
         FName(f) \in {"delta", "stop"} => OpenBefore(m, FBlock(f), Len(m) + 1),
         FName(f) = "delta" => \E j \in 1..Len(m) : m[j] = <<"start", FBlock(f), FKind(f)>>
  PROVE  Legal(Append(m, f))
<1> DEFINE g == Append(m, f)
           n == Len(m)
<1>1. /\ g \in Seq(Frame) /\ Len(g) = n + 1 /\ n \in Nat
      /\ \A i \in 1..n : g[i] = m[i]
      /\ g[n + 1] = f
  BY AppendFacts
<1>2. n # 0
  OBVIOUS
<1>3. \A b : \A i \in 1..n+1 : OpenBefore(g, b, i) <=> OpenBefore(m, b, i)
  BY OpenBeforeStays
<1> HIDE DEF g
<1>4. ASSUME NEW i \in 1..Len(g)
      PROVE  /\ At(g, i, {"message_start"}) <=> i = 1
             /\ At(g, i, {"message_stop"}) => i = Len(g)
             /\ At(g, i, {"start"}) =>
                  \A j \in 1..i-1 : At(g, j, {"start"}) => g[j][2] # g[i][2]
             /\ At(g, i, {"delta", "stop"}) => OpenBefore(g, g[i][2], i)
             /\ At(g, i, {"delta"}) =>
                  \E j \in 1..i-1 : g[j] = <<"start", g[i][2], g[i][3]>>
  <2>1. CASE i \in 1..n
    <3>1. g[i] = m[i] /\ \A j \in 1..i-1 : j \in 1..n /\ g[j] = m[j]
      BY <1>1, <2>1
    <3>2. /\ At(m, i, {"message_start"}) <=> i = 1
          /\ At(m, i, {"start"}) =>
               \A j \in 1..i-1 : At(m, j, {"start"}) => m[j][2] # m[i][2]
          /\ At(m, i, {"delta", "stop"}) => OpenBefore(m, m[i][2], i)
          /\ At(m, i, {"delta"}) =>
               \E j \in 1..i-1 : m[j] = <<"start", m[i][2], m[i][3]>>
      BY <2>1 DEF Legal
    <3>3. ~At(g, i, {"message_stop"}) BY <2>1, <3>1 DEF At, FName
    <3>4. At(g, i, {"delta", "stop"}) => OpenBefore(g, g[i][2], i)
      <4>1. i \in 1..n+1 BY <1>1, <2>1
      <4> QED BY <3>1, <3>2, <1>3, <4>1 DEF At
    <3> QED BY <3>1, <3>2, <3>3, <3>4 DEF At
  <2>2. CASE i = n + 1
    <3>1. g[i] = f /\ i - 1 = n /\ i # 1 /\ i = Len(g) BY <1>1, <1>2, <2>2
    <3>2. At(g, i, {"delta", "stop"}) => OpenBefore(g, g[i][2], i)
      <4>1. n + 1 \in 1..n+1 BY <1>1
      <4> QED BY <3>1, <1>3, <4>1, <2>2 DEF At, FName, FBlock
    <3> QED BY <3>1, <3>2, <1>1 DEF At, FName, FBlock, FKind
  <2> QED BY <1>1, <2>1, <2>2
<1>5. Legal(g)
  BY <1>4 DEF Legal
<1> QED BY <1>5 DEF g

Stopped(m, b) == \E i \in 1..Len(m) : m[i] = <<"stop", b>>
Started(m, b, kind) == \E i \in 1..Len(m) : m[i] = <<"start", b, kind>>

(* The stream m has one start for each block, of its kind, a stop for each  *)
(* that is closed, and the pieces of each call; nothing ends it yet.        *)
Matches(bs, m) ==
  /\ bs \in Seq(Block) /\ m \in Seq(Frame) /\ m # << >>
  /\ Legal(m) /\ \A i \in 1..Len(m) : FName(m[i]) # "message_stop"
  /\ \A i \in 1..Len(m) : FName(m[i]) = "start" =>
       FBlock(m[i]) \in 1..Len(bs) /\ FKind(m[i]) = bs[FBlock(m[i])].kind
  /\ \A b \in 1..Len(bs) :
       /\ Started(m, b, bs[b].kind)
       /\ bs[b].open <=> ~Stopped(m, b)
       /\ bs[b].kind = "tool_use" => PiecesOf(m, b) = bs[b].pieces
  /\ \A i \in 1..Len(m) : FName(m[i]) \in {"delta", "stop"} => FBlock(m[i]) \in 1..Len(bs)

LEMMA OpenIsOpen ==
  ASSUME NEW bs, NEW m, Matches(bs, m), NEW b \in 1..Len(bs), bs[b].open
  PROVE  OpenBefore(m, b, Len(m) + 1)
<1>1. m \in Seq(Frame) /\ Len(m) \in Nat /\ Started(m, b, bs[b].kind) /\ ~Stopped(m, b)
  BY DEF Matches
<1>2. PICK i \in 1..Len(m) : m[i] = <<"start", b, bs[b].kind>>
  BY <1>1 DEF Started
<1>3. FName(m[i]) = "start" /\ FBlock(m[i]) = b
  BY <1>2 DEF FName, FBlock
<1>4. ASSUME NEW j \in 1..Len(m), FName(m[j]) = "stop" PROVE FBlock(m[j]) # b
  <2>1. m[j] \in Frame BY <1>1
  <2>2. m[j] = <<"stop", FBlock(m[j])>> BY <1>4, <2>1, FrameParts
  <2> QED BY <1>1, <2>2 DEF Stopped
<1>5. (Len(m) + 1) - 1 = Len(m)
  BY <1>1
<1> QED BY <1>3, <1>4, <1>5 DEF OpenBefore, At, FName, FBlock

LEMMA BlockFacts ==
  ASSUME NEW bs \in Seq(Block), NEW b \in 1..Len(bs)
  PROVE  /\ bs[b] \in Block /\ bs[b].kind \in Kinds /\ bs[b].open \in BOOLEAN
         /\ bs[b].pieces \in Nat /\ bs[b].pieces <= Whole
<1>1. bs[b] \in Block
  OBVIOUS
<1>2. \A x \in Block : /\ x.kind \in Kinds /\ x.open \in BOOLEAN
                       /\ x.pieces \in Nat /\ x.pieces <= Whole
  BY ToolAssumption DEF Block, Kinds
<1> QED BY <1>1, <1>2

LEMMA MarksAppend ==
  ASSUME NEW m \in Seq(Frame), NEW f \in Frame, NEW b, NEW k
  PROVE  /\ Stopped(Append(m, f), b) <=> Stopped(m, b) \/ f = <<"stop", b>>
         /\ Started(Append(m, f), b, k) <=> Started(m, b, k) \/ f = <<"start", b, k>>
<1>1. /\ Len(m) \in Nat /\ Len(Append(m, f)) = Len(m) + 1
      /\ \A j \in 1..Len(m) : Append(m, f)[j] = m[j]
      /\ Append(m, f)[Len(m) + 1] = f
  BY AppendFacts
<1>2. 1..Len(Append(m, f)) = (1..Len(m)) \cup {Len(m) + 1}
  BY <1>1
<1> QED BY <1>1, <1>2 DEF Stopped, Started

(* What holds of every frame holds of every frame with one more.            *)
LEMMA SplitAppend ==
  ASSUME NEW m \in Seq(Frame), NEW f \in Frame, NEW i \in 1..Len(Append(m, f))
  PROVE  (i \in 1..Len(m) /\ Append(m, f)[i] = m[i]) \/ (i = Len(m) + 1 /\ Append(m, f)[i] = f)
<1>1. /\ Len(m) \in Nat /\ Len(Append(m, f)) = Len(m) + 1
      /\ \A j \in 1..Len(m) : Append(m, f)[j] = m[j]
      /\ Append(m, f)[Len(m) + 1] = f
  BY AppendFacts
<1> QED BY <1>1

LEMMA MatchesStart ==
  ASSUME NEW bs, NEW m, Matches(bs, m), NEW kind \in Kinds
  PROVE  Matches(Append(bs, [kind |-> kind, open |-> TRUE, pieces |-> 0]),
                 Append(m, <<"start", Len(bs) + 1, kind>>))
<1> DEFINE new == [kind |-> kind, open |-> TRUE, pieces |-> 0]
           c == Append(bs, new)
           n == Len(bs) + 1
           f == <<"start", n, kind>>
           g == Append(m, f)
<1>1. bs \in Seq(Block) /\ m \in Seq(Frame) /\ m # << >> /\ Legal(m) /\ Len(bs) \in Nat
  BY DEF Matches
<1>2. new \in Block /\ new.kind = kind /\ new.open /\ new.pieces = 0
  BY ToolAssumption DEF Block, Kinds
<1>3. /\ f \in Frame /\ FName(f) = "start" /\ FBlock(f) = n /\ FKind(f) = kind /\ n \in Nat
      /\ \A b : f # <<"stop", b>>
  <2>1. n \in Nat BY <1>1
  <2>2. \A b : f # <<"stop", b>> OBVIOUS
  <2> HIDE DEF n
  <2> QED BY <2>1, <2>2, NewFrames
<1> HIDE DEF new
<1>4. /\ c \in Seq(Block) /\ Len(c) = n /\ c[n] = new
      /\ \A b \in 1..Len(bs) : c[b] = bs[b]
      /\ 1..n = (1..Len(bs)) \cup {n} /\ n \notin 1..Len(bs)
  BY <1>1, <1>2
<1> HIDE DEF c, f
<1>5. g \in Seq(Frame) /\ g # << >>
  BY <1>1, <1>3, AppendFacts
<1>6. \A i \in 1..Len(m) :
        /\ FName(m[i]) # "message_stop"
        /\ FName(m[i]) = "start" => FBlock(m[i]) \in 1..Len(bs) /\ FKind(m[i]) = bs[FBlock(m[i])].kind
        /\ FName(m[i]) \in {"delta", "stop"} => FBlock(m[i]) \in 1..Len(bs)
  BY DEF Matches
<1>11. \A x \in 1..Len(bs) : x # n /\ x \in 1..Len(c)
  BY <1>1, <1>4
<1>12. \A i \in 1..Len(m) : FName(m[i]) \in {"start", "delta", "stop"} => FBlock(m[i]) # n
  <2>1. SUFFICES ASSUME NEW i \in 1..Len(m), FName(m[i]) \in {"start", "delta", "stop"}
                 PROVE  FBlock(m[i]) # n
    OBVIOUS
  <2>2. FBlock(m[i]) \in 1..Len(bs) BY <1>6, <2>1
  <2> QED BY <2>2, <1>11
<1>7. Legal(g)
  <2>1. \A j \in 1..Len(m) : FName(m[j]) = "start" => FBlock(m[j]) # n
    BY <1>12
  <2> QED BY <1>1, <1>3, <1>6, <2>1, LegalAppend
<1>8. ASSUME NEW i \in 1..Len(g)
      PROVE  /\ FName(g[i]) # "message_stop"
             /\ FName(g[i]) = "start" => FBlock(g[i]) \in 1..Len(c) /\ FKind(g[i]) = c[FBlock(g[i])].kind
             /\ FName(g[i]) \in {"delta", "stop"} => FBlock(g[i]) \in 1..Len(c)
  <2>1. CASE i \in 1..Len(m) /\ g[i] = m[i]
    <3>1. FName(m[i]) = "start" => FBlock(m[i]) \in 1..Len(bs) /\ c[FBlock(m[i])] = bs[FBlock(m[i])]
      BY <2>1, <1>6, <1>4
    <3>2. FName(m[i]) \in {"start", "delta", "stop"} => FBlock(m[i]) \in 1..Len(c)
      BY <2>1, <1>6, <1>11
    <3> QED BY <2>1, <3>1, <3>2, <1>6
  <2>2. CASE g[i] = f
    BY <2>2, <1>2, <1>3, <1>4
  <2> QED BY <1>1, <1>3, <2>1, <2>2, SplitAppend
<1>9. ASSUME NEW b \in 1..Len(c)
      PROVE  /\ Started(g, b, c[b].kind)
             /\ c[b].open <=> ~Stopped(g, b)
             /\ c[b].kind = "tool_use" => PiecesOf(g, b) = c[b].pieces
  <2>1. /\ Stopped(g, b) <=> Stopped(m, b) \/ f = <<"stop", b>>
        /\ Started(g, b, c[b].kind) <=> Started(m, b, c[b].kind) \/ f = <<"start", b, c[b].kind>>
    BY <1>1, <1>3, MarksAppend
  <2>2. f # <<"stop", b>>
    BY <1>3
  <2>3. PiecesOf(g, b) = PiecesOf(m, b)
    <3>1. PiecesOf(g, b) = PiecesOf(m, b) + Part(f, b) BY <1>1, <1>3, PiecesAppend
    <3>2. Part(f, b) = 0 BY <1>3, PartFacts
    <3> QED BY <3>1, <3>2, <1>1, PiecesType
  <2>4. CASE b \in 1..Len(bs)
    <3>1. c[b] = bs[b] BY <2>4, <1>4
    <3>2. /\ Started(m, b, bs[b].kind)
          /\ bs[b].open <=> ~Stopped(m, b)
          /\ bs[b].kind = "tool_use" => PiecesOf(m, b) = bs[b].pieces
      BY <2>4 DEF Matches
    <3> QED BY <2>1, <2>2, <2>3, <3>1, <3>2
  <2>5. CASE b = n
    <3>1. c[b] = new BY <2>5, <1>4
    <3>2. f = <<"start", b, c[b].kind>> BY <3>1, <1>2, <2>5 DEF f
    <3>3. ~Stopped(m, b)
      <4>1. ASSUME NEW i \in 1..Len(m), m[i] = <<"stop", b>> PROVE FALSE
        <5>1. FName(m[i]) = "stop" /\ FBlock(m[i]) = b BY <4>1 DEF FName, FBlock
        <5> QED BY <5>1, <1>12, <2>5
      <4> QED BY <4>1 DEF Stopped
    <3>4. PiecesOf(m, b) = 0
      <4>1. \A i \in 1..Len(m) : FName(m[i]) = "delta" => FBlock(m[i]) # b BY <1>12, <2>5
      <4> QED BY <1>1, <4>1, PiecesZero
    <3> QED BY <2>1, <2>2, <2>3, <3>1, <3>2, <3>3, <3>4, <1>2
  <2> QED BY <1>4, <2>4, <2>5
<1>10. Matches(c, g)
  BY <1>4, <1>5, <1>7, <1>8, <1>9 DEF Matches
<1> QED BY <1>10 DEF c, f, new
(* A frame that starts no block: c is what it makes of the blocks.          *)
Moves(bs, c, f) ==
  /\ c \in Seq(Block) /\ Len(c) = Len(bs)
  /\ \A x \in 1..Len(bs) :
       /\ c[x].kind = bs[x].kind
       /\ c[x].open <=> bs[x].open /\ f # <<"stop", x>>
       /\ c[x].kind = "tool_use" => c[x].pieces = bs[x].pieces + Part(f, x)

(* It is about a block that is open.                                        *)
Touches(bs, f) ==
  /\ FBlock(f) \in 1..Len(bs) /\ bs[FBlock(f)].open
  /\ FName(f) = "delta" => FKind(f) = bs[FBlock(f)].kind

LEMMA MatchesMove ==
  ASSUME NEW bs, NEW m, Matches(bs, m), NEW c, NEW f \in Frame,
         FName(f) \in {"delta", "stop", "message_delta"},
         FName(f) \in {"delta", "stop"} => Touches(bs, f), Moves(bs, c, f)
  PROVE  Matches(c, Append(m, f))
<1> DEFINE g == Append(m, f)
<1>1. bs \in Seq(Block) /\ m \in Seq(Frame) /\ m # << >> /\ Legal(m) /\ Len(bs) \in Nat
  BY DEF Matches
<1>2. \A i \in 1..Len(m) :
        /\ FName(m[i]) # "message_stop"
        /\ FName(m[i]) = "start" => FBlock(m[i]) \in 1..Len(bs) /\ FKind(m[i]) = bs[FBlock(m[i])].kind
        /\ FName(m[i]) \in {"delta", "stop"} => FBlock(m[i]) \in 1..Len(bs)
  BY DEF Matches
<1>3. c \in Seq(Block) /\ Len(c) = Len(bs) /\ \A x \in 1..Len(bs) : c[x].kind = bs[x].kind
  BY DEF Moves
<1>4. g \in Seq(Frame) /\ g # << >>
  BY <1>1, AppendFacts
<1>5. Legal(g)
  <2>1. FName(f) \in {"delta", "stop"} => OpenBefore(m, FBlock(f), Len(m) + 1)
    BY OpenIsOpen DEF Touches
  <2>2. FName(f) = "delta" => \E j \in 1..Len(m) : m[j] = <<"start", FBlock(f), FKind(f)>>
    <3>1. SUFFICES ASSUME FName(f) = "delta"
                   PROVE  \E j \in 1..Len(m) : m[j] = <<"start", FBlock(f), FKind(f)>>
      OBVIOUS
    <3>2. FBlock(f) \in 1..Len(bs) /\ FKind(f) = bs[FBlock(f)].kind
      BY <3>1 DEF Touches
    <3>3. Started(m, FBlock(f), FKind(f))
      BY <3>2 DEF Matches
    <3> QED BY <3>3 DEF Started
  <2>3. FName(f) # "message_start" /\ FName(f) # "start"
    OBVIOUS
  <2> QED BY <1>1, <1>2, <2>1, <2>2, <2>3, LegalAppend
<1>6. ASSUME NEW i \in 1..Len(g)
      PROVE  /\ FName(g[i]) # "message_stop"
             /\ FName(g[i]) = "start" => FBlock(g[i]) \in 1..Len(c) /\ FKind(g[i]) = c[FBlock(g[i])].kind
             /\ FName(g[i]) \in {"delta", "stop"} => FBlock(g[i]) \in 1..Len(c)
  <2>1. CASE i \in 1..Len(m) /\ g[i] = m[i]
    BY <2>1, <1>2, <1>3
  <2>2. CASE g[i] = f
    BY <2>2, <1>3 DEF Touches
  <2> QED BY <1>1, <2>1, <2>2, SplitAppend
<1>7. ASSUME NEW x \in 1..Len(c)
      PROVE  /\ Started(g, x, c[x].kind)
             /\ c[x].open <=> ~Stopped(g, x)
             /\ c[x].kind = "tool_use" => PiecesOf(g, x) = c[x].pieces
  <2>1. /\ Stopped(g, x) <=> Stopped(m, x) \/ f = <<"stop", x>>
        /\ Started(g, x, c[x].kind) <=> Started(m, x, c[x].kind) \/ f = <<"start", x, c[x].kind>>
    BY <1>1, MarksAppend
  <2>2. PiecesOf(g, x) = PiecesOf(m, x) + Part(f, x)
    BY <1>1, PiecesAppend
  <2>3. x \in 1..Len(bs) /\ c[x].kind = bs[x].kind
    BY <1>3
  <2>4. /\ Started(m, x, bs[x].kind)
        /\ bs[x].open <=> ~Stopped(m, x)
        /\ bs[x].kind = "tool_use" => PiecesOf(m, x) = bs[x].pieces
    BY <2>3 DEF Matches
  <2>5. /\ c[x].open <=> bs[x].open /\ f # <<"stop", x>>
        /\ c[x].kind = "tool_use" => c[x].pieces = bs[x].pieces + Part(f, x)
    BY <2>3 DEF Moves
  <2> QED BY <2>1, <2>2, <2>3, <2>4, <2>5
<1>8. Matches(c, g)
  BY <1>3, <1>4, <1>5, <1>6, <1>7 DEF Matches
<1> QED BY <1>8

LEMMA SameBlocks ==
  ASSUME NEW a \in Seq(Block), NEW b \in Seq(Block), Len(a) = Len(b),
         \A x \in 1..Len(a) : a[x] = b[x]
  PROVE  a = b
  OBVIOUS

(* The blocks after the first n of the frames g: those are what c has.      *)
Mixed(bs, c, g, n) ==
  [x \in 1..Len(bs) |-> IF \E k \in 1..n : FBlock(g[k]) = x THEN c[x] ELSE bs[x]]

LEMMA MixedFacts ==
  ASSUME NEW bs \in Seq(Block), NEW c \in Seq(Block), Len(c) = Len(bs), NEW g, NEW n
  PROVE  /\ Mixed(bs, c, g, n) \in Seq(Block) /\ Len(Mixed(bs, c, g, n)) = Len(bs)
         /\ \A x \in 1..Len(bs) :
              Mixed(bs, c, g, n)[x] = IF \E k \in 1..n : FBlock(g[k]) = x THEN c[x] ELSE bs[x]
<1> DEFINE a == Mixed(bs, c, g, n)
<1>1. \A x \in 1..Len(bs) : a[x] = IF \E k \in 1..n : FBlock(g[k]) = x THEN c[x] ELSE bs[x]
  BY DEF Mixed
<1>2. DOMAIN a = 1..Len(bs) /\ a = [x \in 1..Len(bs) |-> a[x]]
  BY DEF Mixed
<1>3. \A x \in 1..Len(bs) : a[x] \in Block
  <2>1. \A x \in 1..Len(bs) : c[x] \in Block /\ bs[x] \in Block
    OBVIOUS
  <2> HIDE DEF a
  <2> QED BY <1>1, <2>1
<1> HIDE DEF a
<1>4. a \in [1..Len(bs) -> Block]
  BY <1>2, <1>3
<1>5. a \in Seq(Block) /\ Len(a) = Len(bs)
  <2>1. Len(bs) \in Nat
    OBVIOUS
  <2> QED BY <1>2, <1>4, <2>1
<1> QED BY <1>1, <1>5 DEF a

(* Several frames, each about a block of its own: one after the other.      *)
LEMMA MatchesMoves ==
  ASSUME NEW bs, NEW m, Matches(bs, m), NEW c \in Seq(Block), Len(c) = Len(bs),
         NEW g \in Seq(Frame),
         \A k \in 1..Len(g) : FName(g[k]) \in {"delta", "stop"} /\ Touches(bs, g[k]),
         \A j, k \in 1..Len(g) : FBlock(g[j]) = FBlock(g[k]) => j = k,
         \A x \in 1..Len(bs) :
           /\ c[x].kind = bs[x].kind
           /\ (\A k \in 1..Len(g) : FBlock(g[k]) # x) => c[x] = bs[x]
           /\ \A k \in 1..Len(g) : FBlock(g[k]) = x =>
                /\ c[x].open <=> bs[x].open /\ g[k] # <<"stop", x>>
                /\ c[x].kind = "tool_use" => c[x].pieces = bs[x].pieces + Part(g[k], x)
  PROVE  Matches(c, m \o g)
<1> DEFINE met(x, n) == \E k \in 1..n : FBlock(g[k]) = x
           at(n) == Mixed(bs, c, g, n)
           Fine(n) == Matches(at(n), Upto(m, g, n))
           Bad == {n \in 0..Len(g) : ~Fine(n)}
<1>1. bs \in Seq(Block) /\ m \in Seq(Frame) /\ Len(bs) \in Nat /\ Len(g) \in Nat
  BY DEF Matches
<1>2. \A n : at(n) \in Seq(Block) /\ Len(at(n)) = Len(bs)
  BY <1>1, MixedFacts
<1>3. \A n : \A x \in 1..Len(bs) : at(n)[x] = IF met(x, n) THEN c[x] ELSE bs[x]
  BY <1>1, MixedFacts
<1> HIDE DEF at
<1>4. ASSUME Bad # {} PROVE FALSE
  <2>1. PICK n \in Bad : \A k \in Bad : n <= k
    <3>1. Bad \subseteq Nat
      OBVIOUS
    <3> HIDE DEF Bad
    <3> QED BY <1>4, <3>1, LeastNatural
  <2>2. n # 0
    <3>1. \A x \in 1..Len(bs) : at(0)[x] = bs[x]
      BY <1>3
    <3>2. at(0) = bs
      BY <1>1, <1>2, <3>1, SameBlocks
    <3>3. Upto(m, g, 0) = m
      BY <1>1, UptoFacts
    <3>4. Fine(0)
      BY <3>2, <3>3
    <3> QED BY <3>4, <2>1
  <2>3. n - 1 \in 0..Len(g) /\ n \in 1..Len(g) /\ g[n] \in Frame /\ n \in Nat
    BY <2>2, <1>1
  <2>4. Fine(n - 1)
    <3>1. n - 1 \notin Bad
      <4>1. ~(n <= n - 1) BY <2>3
      <4> HIDE DEF Bad
      <4> QED BY <2>1, <4>1
    <3> QED BY <3>1, <2>3
  <2>5. Upto(m, g, n) = Append(Upto(m, g, n - 1), g[n])
    <3>1. \A k \in 1..Len(g) : Upto(m, g, k) = Append(Upto(m, g, k - 1), g[k])
      BY <1>1, UptoFacts
    <3> QED BY <3>1, <2>3
  <2>6. \A x : met(x, n) <=> met(x, n - 1) \/ FBlock(g[n]) = x
    <3>1. 1..n = (1..n-1) \cup {n} BY <2>3
    <3> QED BY <3>1
  <2>7. ~met(FBlock(g[n]), n - 1)
    <3>1. SUFFICES ASSUME NEW k \in 1..n-1, FBlock(g[k]) = FBlock(g[n]) PROVE FALSE
      OBVIOUS
    <3>2. k \in 1..Len(g) /\ k # n BY <2>3
    <3> QED BY <3>1, <3>2, <2>3
  <2> DEFINE y == FBlock(g[n])
  <2>8. y \in 1..Len(bs) /\ bs[y].open /\ FName(g[n]) \in {"delta", "stop"}
        /\ (FName(g[n]) = "delta" => FKind(g[n]) = bs[y].kind)
    BY <2>3 DEF Touches
  <2>9. at(n - 1)[y] = bs[y] /\ at(n)[y] = c[y]
    <3>1. /\ at(n - 1)[y] = IF met(y, n - 1) THEN c[y] ELSE bs[y]
          /\ at(n)[y] = IF met(y, n) THEN c[y] ELSE bs[y]
      <4>1. \A x \in 1..Len(bs) : at(n - 1)[x] = IF met(x, n - 1) THEN c[x] ELSE bs[x]
        BY <1>3
      <4>2. \A x \in 1..Len(bs) : at(n)[x] = IF met(x, n) THEN c[x] ELSE bs[x]
        BY <1>3
      <4> HIDE DEF y, met
      <4> QED BY <4>1, <4>2, <2>8
    <3>2. met(y, n) /\ ~met(y, n - 1)
      BY <2>6, <2>7
    <3> QED BY <3>1, <3>2
  <2>10. Touches(at(n - 1), g[n])
    BY <1>2, <2>8, <2>9 DEF Touches
  <2>11. Moves(at(n - 1), at(n), g[n])
    <3>1. ASSUME NEW x \in 1..Len(bs)
          PROVE  /\ at(n)[x].kind = at(n - 1)[x].kind
                 /\ at(n)[x].open <=> at(n - 1)[x].open /\ g[n] # <<"stop", x>>
                 /\ at(n)[x].kind = "tool_use" => at(n)[x].pieces = at(n - 1)[x].pieces + Part(g[n], x)
      <4>1. CASE x = y
        BY <2>3, <2>9, <4>1
      <4>2. CASE x # y
        <5>1. at(n)[x] = at(n - 1)[x] BY <1>3, <2>6, <4>2
        <5>2. g[n] # <<"stop", x>> BY <4>2 DEF FBlock
        <5>3. Part(g[n], x) = 0 BY <2>3, <4>2, PartFacts
        <5>4. at(n - 1)[x].pieces \in Nat BY <1>2, BlockFacts
        <5> QED BY <5>1, <5>2, <5>3, <5>4
      <4> QED BY <4>1, <4>2
    <3> QED BY <3>1, <1>2 DEF Moves
  <2>12. Matches(at(n), Append(Upto(m, g, n - 1), g[n]))
    <3>1. Matches(at(n - 1), Upto(m, g, n - 1)) BY <2>4
    <3> HIDE DEF Fine, y, met
    <3> QED BY <3>1, <2>3, <2>8, <2>10, <2>11, MatchesMove
  <2>13. Fine(n)
    BY <2>5, <2>12
  <2> QED BY <2>13, <2>1
<1>5. Fine(Len(g))
  <2>1. Len(g) \in 0..Len(g) BY <1>1
  <2> QED BY <1>4, <2>1
<1>6. at(Len(g)) = c
  <2>1. ASSUME NEW x \in 1..Len(bs) PROVE at(Len(g))[x] = c[x]
    <3>1. at(Len(g))[x] = IF met(x, Len(g)) THEN c[x] ELSE bs[x] BY <1>3
    <3>2. ~met(x, Len(g)) => c[x] = bs[x] OBVIOUS
    <3> QED BY <3>1, <3>2
  <2> QED BY <1>1, <1>2, <2>1, SameBlocks
<1>7. Upto(m, g, Len(g)) = m \o g
  BY <1>1, UptoFacts
<1> QED BY <1>5, <1>6, <1>7

-----------------------------------------------------------------------------
(* The ledger.                                                              *)

LEMMA AppendConcat ==
  ASSUME NEW m \in Seq(Frame), NEW g \in Seq(Frame), NEW f \in Frame
  PROVE  m \o Append(g, f) = Append(m \o g, f) /\ m \o Append(g, f) \in Seq(Frame)
  OBVIOUS

LEMMA ConcatAssociates ==
  ASSUME NEW m \in Seq(Frame), NEW g \in Seq(Frame), NEW h \in Seq(Frame)
  PROVE  m \o (g \o h) = (m \o g) \o h /\ g \o h \in Seq(Frame)
  OBVIOUS

LEMMA NothingAfter ==
  ASSUME NEW m \in Seq(Frame)
  PROVE  m \o << >> = m /\ << >> \in Seq(Frame)
  OBVIOUS

(* What a new block, a piece and a stop make of the blocks.                 *)
NewBlock(kind) == [kind |-> kind, open |-> TRUE, pieces |-> 0]
WithPieces(bs, i, kind, n) == [bs EXCEPT ![i].pieces = IF kind = "tool_use" THEN @ + n ELSE @]
Ended(bs, i) == [bs EXCEPT ![i].open = FALSE]

LEMMA BlockIsBlock ==
  ASSUME NEW kind \in Kinds, NEW open \in BOOLEAN, NEW pieces \in 0..Whole
  PROVE  [kind |-> kind, open |-> open, pieces |-> pieces] \in Block
  BY DEF Block, Kinds

LEMMA EndedFacts ==
  ASSUME NEW bs \in Seq(Block), NEW i \in 1..Len(bs)
  PROVE  /\ Ended(bs, i) \in Seq(Block) /\ Len(Ended(bs, i)) = Len(bs)
         /\ Ended(bs, i)[i].kind = bs[i].kind /\ Ended(bs, i)[i].open = FALSE
         /\ Ended(bs, i)[i].pieces = bs[i].pieces
         /\ \A x \in 1..Len(bs) : x # i => Ended(bs, i)[x] = bs[x]
<1> DEFINE b == [bs[i] EXCEPT !.open = FALSE]
<1>1. b \in Block /\ b.kind = bs[i].kind /\ b.open = FALSE /\ b.pieces = bs[i].pieces
  <2>1. bs[i] \in Block OBVIOUS
  <2> QED BY <2>1 DEF Block
<1> HIDE DEF b
<1>2. Ended(bs, i) = [bs EXCEPT ![i] = b]
  BY DEF Ended, b
<1> QED BY <1>1, <1>2

(* c is bs with n more pieces in block i.                                   *)
Gains(bs, c, i, n) ==
  /\ c \in Seq(Block) /\ Len(c) = Len(bs)
  /\ c[i].kind = bs[i].kind /\ c[i].open = bs[i].open
  /\ c[i].pieces = bs[i].pieces + (IF bs[i].kind = "tool_use" THEN n ELSE 0)
  /\ \A x \in 1..Len(bs) : x # i => c[x] = bs[x]

LEMMA WithPiecesFacts ==
  ASSUME NEW bs \in Seq(Block), NEW i \in 1..Len(bs), NEW n \in Nat, NEW kind \in Kinds,
         kind = bs[i].kind, kind = "tool_use" => bs[i].pieces + n <= Whole
  PROVE  Gains(bs, WithPieces(bs, i, kind, n), i, n)
<1> DEFINE b == [bs[i] EXCEPT !.pieces = IF kind = "tool_use" THEN @ + n ELSE @]
<1>1. /\ b \in Block /\ b.kind = bs[i].kind /\ b.open = bs[i].open
      /\ b.pieces = bs[i].pieces + (IF kind = "tool_use" THEN n ELSE 0)
  <2>1. bs[i] \in Block OBVIOUS
  <2>2. bs[i].pieces \in Nat /\ bs[i].pieces <= Whole BY BlockFacts
  <2>3. Whole \in Nat BY ToolAssumption
  <2>4. b.pieces = bs[i].pieces + (IF kind = "tool_use" THEN n ELSE 0)
    BY <2>1, <2>2 DEF Block
  <2>5. b.pieces \in 0..Whole
    BY <2>2, <2>3, <2>4
  <2>6. b.kind = bs[i].kind /\ b.open = bs[i].open /\ DOMAIN b = {"kind", "open", "pieces"}
        /\ b = [kind |-> bs[i].kind, open |-> bs[i].open, pieces |-> b.pieces]
    BY <2>1 DEF Block
  <2>7. bs[i].kind \in Kinds /\ bs[i].open \in BOOLEAN
    BY BlockFacts
  <2>8. b \in Block
    <3> HIDE DEF b
    <3> QED BY <2>5, <2>6, <2>7, BlockIsBlock
  <2> QED BY <2>4, <2>6, <2>8
<1> HIDE DEF b
<1>2. WithPieces(bs, i, kind, n) = [bs EXCEPT ![i] = b]
  BY DEF WithPieces, b
<1> QED BY <1>1, <1>2 DEF Gains

LEMMA EndedMatches ==
  ASSUME NEW bs, NEW m, Matches(bs, m), NEW i \in 1..Len(bs), bs[i].open
  PROVE  Matches(Ended(bs, i), Append(m, <<"stop", i>>))
<1> DEFINE f == <<"stop", i>>
           c == Ended(bs, i)
<1>1. bs \in Seq(Block) /\ i \in Nat
  BY DEF Matches
<1>2. f \in Frame /\ FName(f) = "stop" /\ FBlock(f) = i
  BY <1>1, NewFrames DEF Kinds
<1>3. /\ c \in Seq(Block) /\ Len(c) = Len(bs)
      /\ c[i].kind = bs[i].kind /\ c[i].open = FALSE /\ c[i].pieces = bs[i].pieces
      /\ \A x \in 1..Len(bs) : x # i => c[x] = bs[x]
  BY <1>1, EndedFacts
<1>4. Touches(bs, f)
  BY <1>2 DEF Touches
<1>5. ASSUME NEW x \in 1..Len(bs)
      PROVE  /\ c[x].kind = bs[x].kind
             /\ c[x].open <=> bs[x].open /\ f # <<"stop", x>>
             /\ c[x].kind = "tool_use" => c[x].pieces = bs[x].pieces + Part(f, x)
  <2>1. Part(f, x) = 0 BY <1>2, PartFacts
  <2>2. bs[x].pieces \in Nat BY <1>1, BlockFacts
  <2>3. f = <<"stop", x>> <=> x = i OBVIOUS
  <2> HIDE DEF f, c
  <2> QED BY <1>3, <2>1, <2>2, <2>3
<1> HIDE DEF f, c
<1>6. Moves(bs, c, f)
  BY <1>3, <1>5 DEF Moves
<1>7. Matches(c, Append(m, f))
  BY <1>2, <1>4, <1>6, MatchesMove
<1> QED BY <1>7 DEF c, f

LEMMA WithPiecesMatches ==
  ASSUME NEW bs, NEW m, Matches(bs, m), NEW i \in 1..Len(bs), bs[i].open, NEW n \in Nat, NEW kind \in Kinds,
         kind = bs[i].kind, kind = "tool_use" => bs[i].pieces + n <= Whole
  PROVE  Matches(WithPieces(bs, i, kind, n), Append(m, <<"delta", i, kind, n>>))
<1> DEFINE f == <<"delta", i, kind, n>>
           c == WithPieces(bs, i, kind, n)
<1>1. bs \in Seq(Block) /\ i \in Nat
  BY DEF Matches
<1>2. f \in Frame /\ FName(f) = "delta" /\ FBlock(f) = i /\ FKind(f) = kind
  <2>1. kind \in Kinds BY <1>1, BlockFacts
  <2> QED BY <1>1, <2>1, NewFrames
<1>3. /\ c \in Seq(Block) /\ Len(c) = Len(bs)
      /\ c[i].kind = bs[i].kind /\ c[i].open = bs[i].open
      /\ c[i].pieces = bs[i].pieces + (IF kind = "tool_use" THEN n ELSE 0)
      /\ \A x \in 1..Len(bs) : x # i => c[x] = bs[x]
  <2>1. Gains(bs, c, i, n) BY <1>1, WithPiecesFacts
  <2> QED BY <2>1 DEF Gains
<1>4. Touches(bs, f)
  BY <1>2 DEF Touches
<1>5. ASSUME NEW x \in 1..Len(bs)
      PROVE  /\ c[x].kind = bs[x].kind
             /\ c[x].open <=> bs[x].open /\ f # <<"stop", x>>
             /\ c[x].kind = "tool_use" => c[x].pieces = bs[x].pieces + Part(f, x)
  <2>1. Part(f, x) = IF x = i THEN n ELSE 0 BY DEF Part
  <2>2. bs[x].pieces \in Nat /\ bs[x].open \in BOOLEAN BY <1>1, BlockFacts
  <2>3. f # <<"stop", x>> OBVIOUS
  <2> HIDE DEF f, c
  <2>4. CASE x = i BY <1>3, <2>1, <2>2, <2>3, <2>4
  <2>5. CASE x # i BY <1>3, <2>1, <2>2, <2>3, <2>5
  <2> QED BY <2>4, <2>5
<1> HIDE DEF f, c
<1>6. Moves(bs, c, f)
  BY <1>3, <1>5 DEF Moves
<1>7. Matches(c, Append(m, f))
  BY <1>2, <1>4, <1>6, MatchesMove
<1> QED BY <1>7 DEF c, f

Ledger == [blocks : Seq(Block), content : [Content -> Nat], out : Seq(Frame), tools : [Tools -> ToolState]]

(* r is the ledger with these fields.                                       *)
Is(r, bs, content, out, tools) ==
  r = [blocks |-> bs, content |-> content, out |-> out, tools |-> tools]

LEMMA IsFields ==
  ASSUME NEW r, NEW bs, NEW content, NEW out, NEW tools, Is(r, bs, content, out, tools)
  PROVE  r.blocks = bs /\ r.content = content /\ r.out = out /\ r.tools = tools
  BY DEF Is

LEMMA IsLedger ==
  ASSUME NEW r, NEW bs \in Seq(Block), NEW content \in [Content -> Nat], NEW out \in Seq(Frame),
         NEW tools \in [Tools -> ToolState], Is(r, bs, content, out, tools)
  PROVE  r \in Ledger
  BY DEF Is, Ledger

LEMMA IsBlocks ==
  ASSUME NEW l, NEW bs, NEW content, NEW out, NEW tools, Is(l, bs, content, out, tools), NEW x
  PROVE  Is([l EXCEPT !.blocks = x], x, content, out, tools)
  BY DEF Is

LEMMA IsContent ==
  ASSUME NEW l, NEW bs, NEW content, NEW out, NEW tools, Is(l, bs, content, out, tools), NEW x
  PROVE  Is([l EXCEPT !.content = x], bs, x, out, tools)
  BY DEF Is

LEMMA IsOut ==
  ASSUME NEW l, NEW bs, NEW content, NEW out, NEW tools, Is(l, bs, content, out, tools), NEW x
  PROVE  Is([l EXCEPT !.out = x], bs, content, x, tools)
  BY DEF Is

LEMMA IsTools ==
  ASSUME NEW l, NEW bs, NEW content, NEW out, NEW tools, Is(l, bs, content, out, tools), NEW x
  PROVE  Is([l EXCEPT !.tools = x], bs, content, out, x)
  BY DEF Is

LEMMA LedgerFields ==
  ASSUME NEW l \in Ledger
  PROVE  /\ l.blocks \in Seq(Block) /\ l.content \in [Content -> Nat] /\ l.out \in Seq(Frame)
         /\ l.tools \in [Tools -> ToolState] /\ Len(l.blocks) \in Nat
         /\ Is(l, l.blocks, l.content, l.out, l.tools)
  BY DEF Is, Ledger

LEMMA EmitIs ==
  ASSUME NEW l, NEW bs, NEW content, NEW out, NEW tools, Is(l, bs, content, out, tools), NEW f
  PROVE  Is(Emit(l, f), bs, content, Append(out, f), tools)
  BY DEF Is, Emit

LEMMA StartBlockIs ==
  ASSUME NEW l \in Ledger, NEW kind
  PROVE  Is(StartBlock(l, kind), Append(l.blocks, NewBlock(kind)), l.content,
            Append(l.out, <<"start", Len(l.blocks) + 1, kind>>), l.tools)
<1> DEFINE r == [l EXCEPT !.blocks = Append(@, [kind |-> kind, open |-> TRUE, pieces |-> 0])]
<1>1. Is(r, Append(l.blocks, NewBlock(kind)), l.content, l.out, l.tools)
  <2>1. r = [l EXCEPT !.blocks = Append(l.blocks, NewBlock(kind))]
    BY DEF NewBlock
  <2>2. Is(l, l.blocks, l.content, l.out, l.tools)
    BY LedgerFields
  <2>3. Is([l EXCEPT !.blocks = Append(l.blocks, NewBlock(kind))],
           Append(l.blocks, NewBlock(kind)), l.content, l.out, l.tools)
    BY <2>2, IsBlocks
  <2> HIDE DEF r
  <2> QED BY <2>1, <2>3
<1>2. StartBlock(l, kind) = Emit(r, <<"start", Len(l.blocks) + 1, kind>>)
  BY DEF StartBlock
<1> HIDE DEF r
<1> QED BY <1>1, <1>2, EmitIs

LEMMA StopBlockIs ==
  ASSUME NEW l \in Ledger, NEW i
  PROVE  Is(StopBlock(l, i), Ended(l.blocks, i), l.content, Append(l.out, <<"stop", i>>), l.tools)
<1> DEFINE r == [l EXCEPT !.blocks[i].open = FALSE]
<1>1. Is(r, Ended(l.blocks, i), l.content, l.out, l.tools)
  <2>1. r = [l EXCEPT !.blocks = Ended(l.blocks, i)]
    BY DEF Ended
  <2>2. Is(l, l.blocks, l.content, l.out, l.tools)
    BY LedgerFields
  <2>3. Is([l EXCEPT !.blocks = Ended(l.blocks, i)],
           Ended(l.blocks, i), l.content, l.out, l.tools)
    BY <2>2, IsBlocks
  <2> HIDE DEF r
  <2> QED BY <2>1, <2>3
<1>2. StopBlock(l, i) = Emit(r, <<"stop", i>>)
  BY DEF StopBlock
<1> HIDE DEF r
<1> QED BY <1>1, <1>2, EmitIs

LEMMA BlockDeltaIs ==
  ASSUME NEW l \in Ledger, NEW i, NEW kind, NEW n
  PROVE  Is(BlockDelta(l, i, kind, n), WithPieces(l.blocks, i, kind, n), l.content,
            Append(l.out, <<"delta", i, kind, n>>), l.tools)
<1> DEFINE r == [l EXCEPT !.blocks[i].pieces = IF kind = "tool_use" THEN @ + n ELSE @]
<1>1. Is(r, WithPieces(l.blocks, i, kind, n), l.content, l.out, l.tools)
  <2>1. r = [l EXCEPT !.blocks = WithPieces(l.blocks, i, kind, n)]
    BY DEF WithPieces
  <2>2. Is(l, l.blocks, l.content, l.out, l.tools)
    BY LedgerFields
  <2>3. Is([l EXCEPT !.blocks = WithPieces(l.blocks, i, kind, n)],
           WithPieces(l.blocks, i, kind, n), l.content, l.out, l.tools)
    BY <2>2, IsBlocks
  <2> HIDE DEF r
  <2> QED BY <2>1, <2>3
<1>2. BlockDelta(l, i, kind, n) = Emit(r, <<"delta", i, kind, n>>)
  BY DEF BlockDelta
<1> HIDE DEF r
<1> QED BY <1>1, <1>2, EmitIs

(* The pointers of the ledger fit its blocks: the started content block of  *)
(* each kind is the open one, every started call has an open block of its   *)
(* own, and a call with no pointer to it was made whole.                    *)
Fits(bs, content, tools) ==
  /\ \A k \in Content : content[k] # 0 =>
       content[k] \in 1..Len(bs) /\ bs[content[k]].kind = k /\ bs[content[k]].open
  /\ \A b \in 1..Len(bs) : bs[b].open /\ bs[b].kind \in Content => content[bs[b].kind] = b
  /\ \A t \in Tools : tools[t].block # 0 =>
       /\ tools[t].block \in 1..Len(bs)
       /\ bs[tools[t].block].kind = "tool_use" /\ bs[tools[t].block].open
  /\ \A t, u \in Tools : tools[t].block = tools[u].block /\ tools[t].block # 0 => t = u
  /\ \A b \in 1..Len(bs) : bs[b].kind = "tool_use" /\ (\A t \in Tools : tools[t].block # b) =>
       ~bs[b].open /\ bs[b].pieces = Whole

(* After m and what it has made since, the ledger and the stream agree.     *)
Agrees(l, m) ==
  /\ l \in Ledger /\ m \in Seq(Frame)
  /\ Fits(l.blocks, l.content, l.tools)
  /\ Matches(l.blocks, m \o l.out)

(* What was there of the calls is there still; no block was added for one.  *)
Keeps(l, r) ==
  /\ r.tools = l.tools /\ Len(l.blocks) <= Len(r.blocks)
  /\ \A x \in 1..Len(l.blocks) :
       r.blocks[x].kind = l.blocks[x].kind /\ r.blocks[x].pieces = l.blocks[x].pieces
SameCalls(l, r) == ToolBlocks(r) = ToolBlocks(l)

LEMMA KeepsCompose ==
  ASSUME NEW a \in Ledger, NEW b \in Ledger, NEW c \in Ledger, Keeps(a, b), Keeps(b, c)
  PROVE  Keeps(a, c) /\ (SameCalls(a, b) /\ SameCalls(b, c) => SameCalls(a, c))
<1>1. Len(a.blocks) \in Nat /\ Len(b.blocks) \in Nat /\ Len(c.blocks) \in Nat
  BY LedgerFields
<1>2. \A x \in 1..Len(a.blocks) : x \in 1..Len(b.blocks)
  BY <1>1 DEF Keeps
<1> QED BY <1>1, <1>2 DEF Keeps, SameCalls

LEMMA StartContentAgrees ==
  ASSUME NEW l, NEW m, Agrees(l, m), NEW kind \in Content, l.content[kind] = 0
  PROVE  /\ Agrees(StartContent(l, kind), m)
         /\ Keeps(l, StartContent(l, kind)) /\ SameCalls(l, StartContent(l, kind))
         /\ StartContent(l, kind).content[kind] # 0
<1> DEFINE s == StartBlock(l, kind)
           r == StartContent(l, kind)
           n == Len(l.blocks) + 1
           f == <<"start", n, kind>>
           bs == Append(l.blocks, NewBlock(kind))
           content == [l.content EXCEPT ![kind] = n]
<1>1. /\ l \in Ledger /\ m \in Seq(Frame) /\ Fits(l.blocks, l.content, l.tools)
      /\ Matches(l.blocks, m \o l.out)
  BY DEF Agrees
<1>2. /\ l.blocks \in Seq(Block) /\ l.content \in [Content -> Nat] /\ l.out \in Seq(Frame)
      /\ l.tools \in [Tools -> ToolState] /\ Len(l.blocks) \in Nat
  BY <1>1, LedgerFields
<1>3. kind \in Kinds /\ NewBlock(kind) \in Block /\ n \in Nat /\ f \in Frame
  <2>1. kind \in Kinds BY DEF Content, Kinds
  <2>2. 0 \in 0..Whole BY ToolAssumption
  <2>3. NewBlock(kind) \in Block BY <2>1, <2>2, BlockIsBlock DEF NewBlock
  <2>4. n \in Nat BY <1>2
  <2> HIDE DEF n
  <2> QED BY <2>1, <2>3, <2>4, NewFrames
<1>4. NewBlock(kind).kind = kind /\ NewBlock(kind).open
  BY DEF NewBlock
<1>5. Is(s, bs, l.content, Append(l.out, f), l.tools)
  BY <1>1, StartBlockIs
<1>6. Is(r, bs, content, Append(l.out, f), l.tools)
  <2>1. s.content = l.content BY <1>5, IsFields
  <2>2. r = [s EXCEPT !.content = [s.content EXCEPT ![kind] = n]]
    BY DEF StartContent
  <2> HIDE DEF s, r
  <2> QED BY <1>5, <2>1, <2>2, IsContent
<1>7. /\ bs \in Seq(Block) /\ Len(bs) = n /\ bs[n] = NewBlock(kind)
      /\ \A x \in 1..Len(l.blocks) : bs[x] = l.blocks[x]
      /\ 1..n = (1..Len(l.blocks)) \cup {n} /\ n \notin 1..Len(l.blocks) /\ n # 0
  BY <1>2, <1>3
<1>8. content \in [Content -> Nat] /\ content[kind] = n /\ \A k \in Content : k # kind => content[k] = l.content[k]
  BY <1>2, <1>3
<1> HIDE DEF s, r, n, f, bs, content
<1>9. r \in Ledger /\ r.blocks = bs /\ r.content = content /\ r.out = Append(l.out, f) /\ r.tools = l.tools
  <2>1. Append(l.out, f) \in Seq(Frame) BY <1>2, <1>3
  <2>2. r \in Ledger BY <1>2, <1>6, <1>7, <1>8, <2>1, IsLedger
  <2> QED BY <1>6, <2>2, IsFields
<1>10. Matches(bs, m \o Append(l.out, f))
  <2>1. Matches(bs, Append(m \o l.out, f))
    BY <1>1, <1>3, MatchesStart DEF bs, f, n, NewBlock
  <2> QED BY <1>1, <1>2, <1>3, <2>1, AppendConcat
<1>11. kind # "tool_use"
  BY DEF Content
<1>12. Fits(bs, content, l.tools)
  <2>1. ASSUME NEW k \in Content, content[k] # 0
        PROVE  content[k] \in 1..Len(bs) /\ bs[content[k]].kind = k /\ bs[content[k]].open
    <3>1. CASE k = kind BY <3>1, <1>4, <1>7, <1>8
    <3>2. CASE k # kind
      <4>1. l.content[k] \in 1..Len(l.blocks) /\ l.blocks[l.content[k]].kind = k
            /\ l.blocks[l.content[k]].open
        BY <3>2, <2>1, <1>1, <1>8 DEF Fits
      <4> QED BY <3>2, <4>1, <1>7, <1>8
    <3> QED BY <3>1, <3>2
  <2>2. ASSUME NEW b \in 1..Len(bs), bs[b].open, bs[b].kind \in Content
        PROVE  content[bs[b].kind] = b
    <3>1. CASE b = n BY <3>1, <1>4, <1>7, <1>8
    <3>2. CASE b \in 1..Len(l.blocks)
      <4>1. l.content[l.blocks[b].kind] = b /\ bs[b] = l.blocks[b]
        BY <3>2, <2>2, <1>1, <1>7 DEF Fits
      <4>2. b # 0 BY <3>2
      <4>3. l.blocks[b].kind # kind BY <4>1, <4>2
      <4> QED BY <4>1, <4>3, <1>8, <2>2
    <3> QED BY <3>1, <3>2, <1>7
  <2>3. ASSUME NEW t \in Tools, l.tools[t].block # 0
        PROVE  /\ l.tools[t].block \in 1..Len(bs)
               /\ bs[l.tools[t].block].kind = "tool_use" /\ bs[l.tools[t].block].open
    BY <2>3, <1>1, <1>7 DEF Fits
  <2>4. \A t, u \in Tools : l.tools[t].block = l.tools[u].block /\ l.tools[t].block # 0 => t = u
    BY <1>1 DEF Fits
  <2>5. ASSUME NEW b \in 1..Len(bs), bs[b].kind = "tool_use", \A t \in Tools : l.tools[t].block # b
        PROVE  ~bs[b].open /\ bs[b].pieces = Whole
    <3>1. b \in 1..Len(l.blocks) /\ bs[b] = l.blocks[b] BY <2>5, <1>4, <1>7, <1>11
    <3> QED BY <3>1, <2>5, <1>1 DEF Fits
  <2> QED BY <2>1, <2>2, <2>3, <2>4, <2>5 DEF Fits
<1>13. Keeps(l, r) /\ SameCalls(l, r)
  <2>1. Len(l.blocks) <= n BY <1>2 DEF n
  <2>2. \A x \in 1..Len(bs) : bs[x].kind = "tool_use" <=> x \in 1..Len(l.blocks) /\ l.blocks[x].kind = "tool_use"
    BY <1>4, <1>7, <1>11
  <2>3. \A x \in 1..Len(l.blocks) : x \in 1..Len(bs) BY <1>7
  <2> QED BY <1>7, <1>9, <2>1, <2>2, <2>3 DEF Keeps, SameCalls, ToolBlocks
<1>14. Agrees(r, m) /\ r.content[kind] # 0
  BY <1>1, <1>7, <1>8, <1>9, <1>10, <1>12 DEF Agrees
<1> QED BY <1>13, <1>14 DEF r

LEMMA KeepsItself ==
  ASSUME NEW l \in Ledger
  PROVE  Keeps(l, l) /\ SameCalls(l, l)
<1>1. Len(l.blocks) \in Nat
  BY LedgerFields
<1> QED BY <1>1 DEF Keeps, SameCalls

LEMMA StopContentAgrees ==
  ASSUME NEW l, NEW m, Agrees(l, m), NEW kind \in Content
  PROVE  /\ Agrees(StopContent(l, kind), m)
         /\ Keeps(l, StopContent(l, kind)) /\ SameCalls(l, StopContent(l, kind))
         /\ StopContent(l, kind).content[kind] = 0
         /\ \A k \in Content : k # kind => StopContent(l, kind).content[k] = l.content[k]
<1>1. /\ l \in Ledger /\ m \in Seq(Frame) /\ Fits(l.blocks, l.content, l.tools)
      /\ Matches(l.blocks, m \o l.out)
  BY DEF Agrees
<1>2. /\ l.blocks \in Seq(Block) /\ l.content \in [Content -> Nat] /\ l.out \in Seq(Frame)
      /\ l.tools \in [Tools -> ToolState] /\ Len(l.blocks) \in Nat
  BY <1>1, LedgerFields
<1>3. CASE l.content[kind] = 0
  <2>1. StopContent(l, kind) = l BY <1>3 DEF StopContent
  <2> QED BY <2>1, <1>1, <1>3, KeepsItself
<1>4. CASE l.content[kind] # 0
  <2> DEFINE i == l.content[kind]
             s == StopBlock(l, i)
             r == StopContent(l, kind)
             f == <<"stop", i>>
             bs == Ended(l.blocks, i)
             content == [l.content EXCEPT ![kind] = 0]
  <2>1. i \in 1..Len(l.blocks) /\ l.blocks[i].kind = kind /\ l.blocks[i].open /\ i \in Nat
    BY <1>1, <1>2, <1>4 DEF Fits
  <2>2. f \in Frame
    <3> HIDE DEF i
    <3> QED BY <2>1, NewFrames DEF Kinds
  <2>3. Is(s, bs, l.content, Append(l.out, f), l.tools)
    BY <1>1, StopBlockIs
  <2>4. Is(r, bs, content, Append(l.out, f), l.tools)
    <3>1. s.content = l.content BY <2>3, IsFields
    <3>2. r = [s EXCEPT !.content = [s.content EXCEPT ![kind] = 0]]
      BY <1>4 DEF StopContent
    <3> HIDE DEF s, r
    <3> QED BY <2>3, <3>1, <3>2, IsContent
  <2>5. /\ bs \in Seq(Block) /\ Len(bs) = Len(l.blocks)
        /\ bs[i].kind = l.blocks[i].kind /\ bs[i].open = FALSE /\ bs[i].pieces = l.blocks[i].pieces
        /\ \A x \in 1..Len(l.blocks) : x # i => bs[x] = l.blocks[x]
    <3> HIDE DEF i
    <3> QED BY <1>2, <2>1, EndedFacts
  <2>6. /\ content \in [Content -> Nat] /\ content[kind] = 0
        /\ \A k \in Content : k # kind => content[k] = l.content[k]
    BY <1>2
  <2> HIDE DEF s, r, f, bs, content
  <2>7. r \in Ledger /\ r.blocks = bs /\ r.content = content /\ r.out = Append(l.out, f) /\ r.tools = l.tools
    <3>1. Append(l.out, f) \in Seq(Frame) BY <1>2, <2>2
    <3>2. r \in Ledger BY <1>2, <2>4, <2>5, <2>6, <3>1, IsLedger
    <3> QED BY <2>4, <3>2, IsFields
  <2>8. Matches(bs, m \o Append(l.out, f))
    <3>1. Matches(bs, Append(m \o l.out, f))
      BY <1>1, <2>1, EndedMatches DEF bs, f
    <3> QED BY <1>1, <1>2, <2>2, <3>1, AppendConcat
  <2>9. kind # "tool_use"
    BY DEF Content
  <2> HIDE DEF i
  <2>10. Fits(bs, content, l.tools)
    <3>1. ASSUME NEW k \in Content, content[k] # 0
          PROVE  content[k] \in 1..Len(bs) /\ bs[content[k]].kind = k /\ bs[content[k]].open
      <4>1. k # kind /\ content[k] = l.content[k] BY <3>1, <2>6
      <4>2. l.content[k] \in 1..Len(l.blocks) /\ l.blocks[l.content[k]].kind = k
            /\ l.blocks[l.content[k]].open
        BY <4>1, <3>1, <1>1 DEF Fits
      <4>3. l.content[k] # i BY <4>1, <4>2, <2>1
      <4> QED BY <4>1, <4>2, <4>3, <2>5
    <3>2. ASSUME NEW b \in 1..Len(bs), bs[b].open, bs[b].kind \in Content
          PROVE  content[bs[b].kind] = b
      <4>1. b # i BY <3>2, <2>5
      <4>2. bs[b] = l.blocks[b] /\ l.content[l.blocks[b].kind] = b
        BY <4>1, <3>2, <2>5, <1>1 DEF Fits
      <4>3. bs[b].kind # kind BY <4>1, <4>2 DEF i
      <4> QED BY <4>2, <4>3, <3>2, <2>6
    <3>3. ASSUME NEW t \in Tools, l.tools[t].block # 0
          PROVE  /\ l.tools[t].block \in 1..Len(bs)
                 /\ bs[l.tools[t].block].kind = "tool_use" /\ bs[l.tools[t].block].open
      <4>1. /\ l.tools[t].block \in 1..Len(l.blocks)
            /\ l.blocks[l.tools[t].block].kind = "tool_use" /\ l.blocks[l.tools[t].block].open
        BY <3>3, <1>1 DEF Fits
      <4>2. l.tools[t].block # i BY <4>1, <2>1, <2>9
      <4> QED BY <4>1, <4>2, <2>5
    <3>4. \A t, u \in Tools : l.tools[t].block = l.tools[u].block /\ l.tools[t].block # 0 => t = u
      BY <1>1 DEF Fits
    <3>5. ASSUME NEW b \in 1..Len(bs), bs[b].kind = "tool_use", \A t \in Tools : l.tools[t].block # b
          PROVE  ~bs[b].open /\ bs[b].pieces = Whole
      <4>1. b # i BY <3>5, <2>1, <2>5, <2>9
      <4>2. bs[b] = l.blocks[b] /\ b \in 1..Len(l.blocks) BY <4>1, <2>5
      <4> QED BY <4>2, <3>5, <1>1 DEF Fits
    <3> QED BY <3>1, <3>2, <3>3, <3>4, <3>5 DEF Fits
  <2>11. Keeps(l, r) /\ SameCalls(l, r)
    <3>1. \A x \in 1..Len(l.blocks) : bs[x].kind = l.blocks[x].kind /\ bs[x].pieces = l.blocks[x].pieces
      BY <2>5
    <3> QED BY <3>1, <2>5, <2>7, <1>2 DEF Keeps, SameCalls, ToolBlocks
  <2>12. Agrees(r, m)
    BY <1>1, <2>7, <2>8, <2>10 DEF Agrees
  <2>13. r.content[kind] = 0 /\ \A k \in Content : k # kind => r.content[k] = l.content[k]
    BY <2>6, <2>7
  <2> QED BY <2>11, <2>12, <2>13 DEF r
<1> QED BY <1>3, <1>4

(* Pieces of content change nothing of what the pointers are about.         *)
LEMMA FitsSame ==
  ASSUME NEW bs, NEW c, NEW content, NEW tools, Fits(bs, content, tools), Len(c) = Len(bs),
         \A x \in 1..Len(bs) :
           c[x].kind = bs[x].kind /\ c[x].open = bs[x].open /\ c[x].pieces = bs[x].pieces
  PROVE  Fits(c, content, tools)
<1>1. \A k \in Content : content[k] # 0 =>
        content[k] \in 1..Len(c) /\ c[content[k]].kind = k /\ c[content[k]].open
  BY DEF Fits
<1>2. \A b \in 1..Len(c) : c[b].open /\ c[b].kind \in Content => content[c[b].kind] = b
  BY DEF Fits
<1>3. \A t \in Tools : tools[t].block # 0 =>
        /\ tools[t].block \in 1..Len(c)
        /\ c[tools[t].block].kind = "tool_use" /\ c[tools[t].block].open
  BY DEF Fits
<1>4. \A t, u \in Tools : tools[t].block = tools[u].block /\ tools[t].block # 0 => t = u
  BY DEF Fits
<1>5. \A b \in 1..Len(c) : c[b].kind = "tool_use" /\ (\A t \in Tools : tools[t].block # b) =>
        ~c[b].open /\ c[b].pieces = Whole
  BY DEF Fits
<1> QED BY <1>1, <1>2, <1>3, <1>4, <1>5 DEF Fits

LEMMA ContentDeltaAgrees ==
  ASSUME NEW l, NEW m, Agrees(l, m), NEW kind \in Content, l.content[kind] # 0
  PROVE  /\ Agrees(ContentDelta(l, kind), m)
         /\ Keeps(l, ContentDelta(l, kind)) /\ SameCalls(l, ContentDelta(l, kind))
<1> DEFINE i == l.content[kind]
           r == ContentDelta(l, kind)
           f == <<"delta", i, kind, 1>>
           bs == WithPieces(l.blocks, i, kind, 1)
<1>1. /\ l \in Ledger /\ m \in Seq(Frame) /\ Fits(l.blocks, l.content, l.tools)
      /\ Matches(l.blocks, m \o l.out)
  BY DEF Agrees
<1>2. /\ l.blocks \in Seq(Block) /\ l.content \in [Content -> Nat] /\ l.out \in Seq(Frame)
      /\ l.tools \in [Tools -> ToolState] /\ Len(l.blocks) \in Nat
  BY <1>1, LedgerFields
<1>3. i \in 1..Len(l.blocks) /\ l.blocks[i].kind = kind /\ l.blocks[i].open /\ i \in Nat
  BY <1>1, <1>2 DEF Fits
<1>4. kind # "tool_use" /\ kind \in Kinds
  BY DEF Content, Kinds
<1>5. Is(r, bs, l.content, Append(l.out, f), l.tools)
  BY <1>1, BlockDeltaIs DEF ContentDelta
<1> HIDE DEF i
<1>6. f \in Frame
  BY <1>3, <1>4, NewFrames
<1>7. Gains(l.blocks, bs, i, 1)
  BY <1>2, <1>3, <1>4, WithPiecesFacts
<1>8. Matches(bs, Append(m \o l.out, f))
  BY <1>1, <1>3, <1>4, WithPiecesMatches
<1> HIDE DEF r, f, bs
<1>9. r \in Ledger /\ r.blocks = bs /\ r.content = l.content /\ r.out = Append(l.out, f) /\ r.tools = l.tools
  <2>1. Append(l.out, f) \in Seq(Frame) BY <1>2, <1>6
  <2>2. bs \in Seq(Block) BY <1>7 DEF Gains
  <2>3. r \in Ledger BY <1>2, <1>5, <2>1, <2>2, IsLedger
  <2> QED BY <1>5, <2>3, IsFields
<1>10. Len(bs) = Len(l.blocks)
      /\ \A x \in 1..Len(l.blocks) :
           bs[x].kind = l.blocks[x].kind /\ bs[x].open = l.blocks[x].open /\ bs[x].pieces = l.blocks[x].pieces
  <2>1. l.blocks[i].pieces \in Nat BY <1>2, <1>3, BlockFacts
  <2>2. /\ Len(bs) = Len(l.blocks)
        /\ bs[i].kind = l.blocks[i].kind /\ bs[i].open = l.blocks[i].open
        /\ bs[i].pieces = l.blocks[i].pieces + 0
        /\ \A x \in 1..Len(l.blocks) : x # i => bs[x] = l.blocks[x]
    BY <1>3, <1>4, <1>7 DEF Gains
  <2>3. bs[i].pieces = l.blocks[i].pieces BY <2>1, <2>2
  <2> QED BY <2>2, <2>3
<1>11. Fits(bs, l.content, l.tools)
  BY <1>1, <1>10, FitsSame
<1>12. Keeps(l, r) /\ SameCalls(l, r)
  BY <1>2, <1>9, <1>10 DEF Keeps, SameCalls, ToolBlocks
<1>13. m \o Append(l.out, f) = Append(m \o l.out, f)
  BY <1>1, <1>2, <1>6, AppendConcat
<1>14. Agrees(r, m)
  BY <1>1, <1>8, <1>9, <1>11, <1>13 DEF Agrees
<1> QED BY <1>12, <1>14 DEF r

(* A step of the ledger that touches no call.                               *)
Sound(l, r, m) == Agrees(r, m) /\ Keeps(l, r) /\ SameCalls(l, r)

LEMMA SoundComposes ==
  ASSUME NEW a, NEW b, NEW c, NEW m, Agrees(a, m), Sound(a, b, m), Sound(b, c, m)
  PROVE  Sound(a, c, m)
  BY KeepsCompose DEF Sound, Agrees

LEMMA EnsureBlockSound ==
  ASSUME NEW l, NEW m, Agrees(l, m), NEW kind \in Content, NEW other \in Content, kind # other
  PROVE  Sound(l, EnsureBlock(l, kind, other), m) /\ EnsureBlock(l, kind, other).content[kind] # 0
<1> DEFINE c == StopContent(l, other)
           r == EnsureBlock(l, kind, other)
<1>1. Sound(l, c, m)
  BY StopContentAgrees DEF Sound
<1>2. r = IF c.content[kind] = 0 THEN StartContent(c, kind) ELSE c
  BY DEF EnsureBlock
<1> HIDE DEF c, r
<1>3. CASE c.content[kind] = 0
  <2>1. Sound(c, StartContent(c, kind), m) /\ StartContent(c, kind).content[kind] # 0
    BY <1>1, <1>3, StartContentAgrees DEF Sound
  <2> QED BY <1>1, <1>2, <1>3, <2>1, SoundComposes DEF r
<1>4. CASE c.content[kind] # 0
  BY <1>1, <1>2, <1>4 DEF r
<1> QED BY <1>3, <1>4

Spoken(l)  == ContentDelta(EnsureText(l), "text")
Thought(l) == ContentDelta(EnsureThinking(l), "thinking")

LEMMA ContentSound ==
  ASSUME NEW l, NEW m, Agrees(l, m)
  PROVE  Sound(l, Spoken(l), m) /\ Sound(l, Thought(l), m) /\ Sound(l, CloseContentBlocks(l), m)
         /\ \A kind \in Content : CloseContentBlocks(l).content[kind] = 0
<1>1. "text" \in Content /\ "thinking" \in Content
  BY DEF Content
<1>2. ASSUME NEW kind \in Content, NEW other \in Content, kind # other
      PROVE  Sound(l, ContentDelta(EnsureBlock(l, kind, other), kind), m)
  <2> DEFINE e == EnsureBlock(l, kind, other)
  <2>1. Sound(l, e, m) /\ e.content[kind] # 0 BY <1>2, EnsureBlockSound
  <2> HIDE DEF e
  <2>2. Sound(e, ContentDelta(e, kind), m) BY <2>1, ContentDeltaAgrees DEF Sound
  <2>3. Sound(l, ContentDelta(e, kind), m) BY <2>1, <2>2, SoundComposes
  <2> QED BY <2>3 DEF e
<1>3. Sound(l, CloseContentBlocks(l), m) /\ \A kind \in Content : CloseContentBlocks(l).content[kind] = 0
  <2> DEFINE a == StopContent(l, "thinking")
             b == StopContent(a, "text")
  <2>1. Sound(l, a, m) /\ a.content["thinking"] = 0
    BY <1>1, StopContentAgrees DEF Sound
  <2> HIDE DEF a
  <2>2. Sound(a, b, m) /\ b.content["text"] = 0 /\ b.content["thinking"] = a.content["thinking"]
    BY <1>1, <2>1, StopContentAgrees DEF Sound
  <2>3. \A kind \in Content : b.content[kind] = 0
    BY <2>1, <2>2 DEF Content
  <2> HIDE DEF b
  <2>4. Sound(l, b, m) BY <2>1, <2>2, SoundComposes
  <2> QED BY <2>3, <2>4 DEF a, b, CloseContentBlocks
<1> QED BY <1>1, <1>2, <1>3 DEF Spoken, Thought, EnsureText, EnsureThinking

-----------------------------------------------------------------------------
(* The calls.                                                               *)

(* More pieces of a block change the pointers only if no call has it.       *)
LEMMA FitsPieces ==
  ASSUME NEW bs, NEW c, NEW content, NEW tools, Fits(bs, content, tools), Len(c) = Len(bs),
         \A x \in 1..Len(bs) : c[x].kind = bs[x].kind /\ c[x].open = bs[x].open,
         \A x \in 1..Len(bs) : c[x].pieces = bs[x].pieces \/ \E t \in Tools : tools[t].block = x
  PROVE  Fits(c, content, tools)
<1>1. \A k \in Content : content[k] # 0 =>
        content[k] \in 1..Len(c) /\ c[content[k]].kind = k /\ c[content[k]].open
  BY DEF Fits
<1>2. \A b \in 1..Len(c) : c[b].open /\ c[b].kind \in Content => content[c[b].kind] = b
  BY DEF Fits
<1>3. \A t \in Tools : tools[t].block # 0 =>
        /\ tools[t].block \in 1..Len(c)
        /\ c[tools[t].block].kind = "tool_use" /\ c[tools[t].block].open
  BY DEF Fits
<1>4. \A t, u \in Tools : tools[t].block = tools[u].block /\ tools[t].block # 0 => t = u
  BY DEF Fits
<1>5. \A b \in 1..Len(c) : c[b].kind = "tool_use" /\ (\A t \in Tools : tools[t].block # b) =>
        ~c[b].open /\ c[b].pieces = Whole
  BY DEF Fits
<1> QED BY <1>1, <1>2, <1>3, <1>4, <1>5 DEF Fits

(* Only where their blocks are matters of the calls.                        *)
LEMMA FitsTools ==
  ASSUME NEW bs, NEW content, NEW tools, NEW after, Fits(bs, content, tools),
         \A t \in Tools : after[t].block = tools[t].block
  PROVE  Fits(bs, content, after)
<1>1. \A t \in Tools : after[t].block # 0 =>
        /\ after[t].block \in 1..Len(bs)
        /\ bs[after[t].block].kind = "tool_use" /\ bs[after[t].block].open
  BY DEF Fits
<1>2. \A t, u \in Tools : after[t].block = after[u].block /\ after[t].block # 0 => t = u
  BY DEF Fits
<1>3. \A b \in 1..Len(bs) : bs[b].kind = "tool_use" /\ (\A t \in Tools : after[t].block # b) =>
        ~bs[b].open /\ bs[b].pieces = Whole
  BY DEF Fits
<1> QED BY <1>1, <1>2, <1>3 DEF Fits

Sent(l, t) == IF l.tools[t].block = 0 THEN 0 ELSE l.blocks[l.tools[t].block].pieces

(* A call was never given more than it has; what waits is of a call that    *)
(* may wait and was started.                                                *)
Pays(l, t) ==
  /\ l.tools[t].pre + l.tools[t].buffer + Sent(l, t) <= Whole
  /\ t \notin Buffered => l.tools[t].buffer = 0
  /\ l.tools[t].buffer # 0 => l.tools[t].block # 0
Budget(l) == \A t \in Tools : Pays(l, t)

LEMMA ToolFacts ==
  ASSUME NEW l \in Ledger, NEW t \in Tools
  PROVE  /\ l.tools[t] \in ToolState /\ l.tools[t].named \in BOOLEAN /\ l.tools[t].block \in Nat
         /\ l.tools[t].pre \in Nat /\ l.tools[t].pre <= Whole
         /\ l.tools[t].buffer \in Nat /\ l.tools[t].buffer <= Whole
<1>1. l.tools[t] \in ToolState
  BY LedgerFields
<1>2. \A s \in ToolState : /\ s.named \in BOOLEAN /\ s.block \in Nat
                           /\ s.pre \in Nat /\ s.pre <= Whole /\ s.buffer \in Nat /\ s.buffer <= Whole
  BY ToolAssumption DEF ToolState
<1> QED BY <1>1, <1>2

LEMMA ToolBlockFacts ==
  ASSUME NEW l, NEW m, Agrees(l, m), NEW t \in Tools
  PROVE  /\ Sent(l, t) \in Nat
         /\ l.tools[t].block # 0 =>
              /\ l.tools[t].block \in 1..Len(l.blocks) /\ Sent(l, t) = l.blocks[l.tools[t].block].pieces
              /\ l.blocks[l.tools[t].block].kind = "tool_use" /\ l.blocks[l.tools[t].block].open
<1>1. l \in Ledger /\ Fits(l.blocks, l.content, l.tools)
  BY DEF Agrees
<1>2. l.tools[t].block # 0 =>
        /\ l.tools[t].block \in 1..Len(l.blocks)
        /\ l.blocks[l.tools[t].block].kind = "tool_use" /\ l.blocks[l.tools[t].block].open
  BY <1>1 DEF Fits
<1>3. \A b \in 1..Len(l.blocks) : l.blocks[b].pieces \in Nat
  BY <1>1, LedgerFields, BlockFacts
<1> QED BY <1>2, <1>3 DEF Sent

LEMMA BudgetKept ==
  ASSUME NEW l, NEW m, Agrees(l, m), Budget(l), NEW r, Keeps(l, r)
  PROVE  Budget(r)
<1>1. SUFFICES ASSUME NEW t \in Tools PROVE Pays(r, t)
  BY DEF Budget
<1>2. r.tools[t] = l.tools[t]
  BY DEF Keeps
<1>3. Sent(r, t) = Sent(l, t)
  BY <1>2, ToolBlockFacts DEF Keeps, Sent
<1> QED BY <1>2, <1>3 DEF Budget, Pays

(* A call changes, but not where its block is.                              *)
WithTool(l, t, s) == [l EXCEPT !.tools = [l.tools EXCEPT ![t] = s]]

LEMMA ToolChanges ==
  ASSUME NEW l, NEW m, Agrees(l, m), NEW t \in Tools, NEW s \in ToolState,
         s.block = l.tools[t].block
  PROVE  /\ Agrees(WithTool(l, t, s), m)
         /\ WithTool(l, t, s).blocks = l.blocks /\ WithTool(l, t, s).out = l.out
         /\ WithTool(l, t, s).content = l.content
         /\ WithTool(l, t, s).tools[t] = s
         /\ \A u \in Tools : u # t => WithTool(l, t, s).tools[u] = l.tools[u]
         /\ \A u \in Tools : Sent(WithTool(l, t, s), u) = Sent(l, u)
<1> DEFINE r == WithTool(l, t, s)
<1> DEFINE tools == [l.tools EXCEPT ![t] = s]
<1>1. /\ l \in Ledger /\ m \in Seq(Frame) /\ Fits(l.blocks, l.content, l.tools)
      /\ Matches(l.blocks, m \o l.out)
  BY DEF Agrees
<1>2. /\ l.blocks \in Seq(Block) /\ l.content \in [Content -> Nat] /\ l.out \in Seq(Frame)
      /\ l.tools \in [Tools -> ToolState] /\ Is(l, l.blocks, l.content, l.out, l.tools)
  BY <1>1, LedgerFields
<1>3. tools \in [Tools -> ToolState] /\ tools[t] = s /\ \A u \in Tools : u # t => tools[u] = l.tools[u]
  BY <1>2
<1>4. Is(r, l.blocks, l.content, l.out, tools)
  BY <1>2, IsTools DEF WithTool
<1> HIDE DEF tools, r
<1>5. r \in Ledger /\ r.blocks = l.blocks /\ r.content = l.content /\ r.out = l.out /\ r.tools = tools
  <2>1. r \in Ledger BY <1>2, <1>3, <1>4, IsLedger
  <2> QED BY <1>4, <2>1, IsFields
<1>6. Fits(l.blocks, l.content, tools)
  <2>1. \A u \in Tools : tools[u].block = l.tools[u].block BY <1>3
  <2> QED BY <1>1, <2>1, FitsTools
<1>7. \A u \in Tools : Sent(r, u) = Sent(l, u)
  <2>1. \A u \in Tools : tools[u].block = l.tools[u].block BY <1>3
  <2> QED BY <1>5, <2>1 DEF Sent
<1>8. Agrees(r, m)
  BY <1>1, <1>3, <1>5, <1>6 DEF Agrees
<1> QED BY <1>3, <1>5, <1>7, <1>8 DEF r

(* n pieces more in the block of a call that was started.                   *)
LEMMA PiecesAgree ==
  ASSUME NEW l, NEW m, Agrees(l, m), NEW t \in Tools, l.tools[t].block # 0, NEW n \in Nat,
         Sent(l, t) + n <= Whole, NEW r, r = BlockDelta(l, l.tools[t].block, "tool_use", n)
  PROVE  /\ Agrees(r, m) /\ r.tools = l.tools /\ Len(r.blocks) = Len(l.blocks)
         /\ Sent(r, t) = Sent(l, t) + n
         /\ \A u \in Tools : u # t => Sent(r, u) = Sent(l, u)
<1> DEFINE i == l.tools[t].block
           f == <<"delta", i, "tool_use", n>>
           bs == WithPieces(l.blocks, i, "tool_use", n)
<1>1. /\ l \in Ledger /\ m \in Seq(Frame) /\ Fits(l.blocks, l.content, l.tools)
      /\ Matches(l.blocks, m \o l.out)
  BY DEF Agrees
<1>2. /\ l.blocks \in Seq(Block) /\ l.content \in [Content -> Nat] /\ l.out \in Seq(Frame)
      /\ l.tools \in [Tools -> ToolState] /\ Len(l.blocks) \in Nat
  BY <1>1, LedgerFields
<1>3. /\ i \in 1..Len(l.blocks) /\ Sent(l, t) = l.blocks[i].pieces
      /\ l.blocks[i].kind = "tool_use" /\ l.blocks[i].open /\ i \in Nat
  BY <1>1, <1>2, ToolBlockFacts
<1>4. "tool_use" \in Kinds
  BY DEF Kinds
<1>5. Is(r, bs, l.content, Append(l.out, f), l.tools)
  BY <1>1, BlockDeltaIs
<1>6. \A u \in Tools : u # t => l.tools[u].block # i
  BY <1>1 DEF Fits
<1>7. \E u \in Tools : l.tools[u].block = i
  OBVIOUS
<1>8. r.tools = l.tools
  BY <1>5, IsFields
<1>9. \A u \in Tools : l.tools[u].block # 0 => l.tools[u].block \in 1..Len(l.blocks)
  BY <1>1 DEF Fits
<1>10. Sent(r, t) = r.blocks[i].pieces
  BY <1>8 DEF Sent
<1> HIDE DEF i
<1>11. f \in Frame
  BY <1>3, <1>4, NewFrames
<1>12. Gains(l.blocks, bs, i, n)
  BY <1>2, <1>3, <1>4, WithPiecesFacts
<1>13. Matches(bs, Append(m \o l.out, f))
  BY <1>1, <1>3, <1>4, WithPiecesMatches
<1> HIDE DEF f, bs
<1>14. r \in Ledger /\ r.blocks = bs /\ r.content = l.content /\ r.out = Append(l.out, f)
  <2>1. Append(l.out, f) \in Seq(Frame) BY <1>2, <1>11
  <2>2. bs \in Seq(Block) BY <1>12 DEF Gains
  <2>3. r \in Ledger BY <1>2, <1>5, <2>1, <2>2, IsLedger
  <2> QED BY <1>5, <2>3, IsFields
<1>15. /\ Len(bs) = Len(l.blocks)
       /\ bs[i].kind = l.blocks[i].kind /\ bs[i].open = l.blocks[i].open
       /\ bs[i].pieces = l.blocks[i].pieces + n
       /\ \A x \in 1..Len(l.blocks) : x # i => bs[x] = l.blocks[x]
  BY <1>3, <1>12 DEF Gains
<1>16. Fits(bs, l.content, l.tools)
  <2>1. \A x \in 1..Len(l.blocks) : bs[x].kind = l.blocks[x].kind /\ bs[x].open = l.blocks[x].open
    BY <1>15
  <2>2. \A x \in 1..Len(l.blocks) : bs[x].pieces = l.blocks[x].pieces \/ \E u \in Tools : l.tools[u].block = x
    BY <1>7, <1>15
  <2> QED BY <1>1, <1>15, <2>1, <2>2, FitsPieces
<1>17. m \o Append(l.out, f) = Append(m \o l.out, f)
  BY <1>1, <1>2, <1>11, AppendConcat
<1>18. Agrees(r, m)
  BY <1>1, <1>8, <1>13, <1>14, <1>16, <1>17 DEF Agrees
<1>19. \A u \in Tools : u # t => Sent(r, u) = Sent(l, u)
  <2>1. \A u \in Tools : u # t /\ l.tools[u].block # 0 => bs[l.tools[u].block] = l.blocks[l.tools[u].block]
    BY <1>6, <1>9, <1>15
  <2> QED BY <1>8, <1>14, <2>1 DEF Sent
<1> QED BY <1>3, <1>8, <1>10, <1>14, <1>15, <1>18, <1>19

(* A call is told n pieces of its arguments: the ledger stays in order, and *)
(* the pieces are counted for it and for no other.                          *)
Told(l, r, m, t, n) ==
  /\ Agrees(r, m) /\ Budget(r)
  /\ r.tools[t].block = l.tools[t].block
  /\ r.tools[t].pre + r.tools[t].buffer + Sent(r, t)
       = l.tools[t].pre + l.tools[t].buffer + Sent(l, t) + n

LEMMA EmitToolArgsTells ==
  ASSUME NEW l, NEW m, Agrees(l, m), Budget(l), NEW t \in Tools, l.tools[t].block # 0, NEW n \in Nat,
         l.tools[t].pre + l.tools[t].buffer + Sent(l, t) + n <= Whole
  PROVE  Told(l, EmitToolArgs(l, t, n), m, t, n)
<1> DEFINE buffer == l.tools[t].buffer + n
           r == EmitToolArgs(l, t, n)
           put(x) == [l.tools[t] EXCEPT !.buffer = x]
           with(x) == WithTool(l, t, put(x))
<1>1. l \in Ledger
  BY DEF Agrees
<1>2. /\ l.tools[t] \in ToolState /\ l.tools[t].pre \in Nat /\ l.tools[t].buffer \in Nat
      /\ Sent(l, t) \in Nat /\ Whole \in Nat
  BY <1>1, ToolFacts, ToolBlockFacts, ToolAssumption
<1>3. \A u \in Tools : Pays(l, u)
  BY DEF Budget
<1>4. ASSUME NEW x \in 0..Whole
      PROVE  /\ put(x) \in ToolState /\ put(x).block = l.tools[t].block
             /\ put(x).pre = l.tools[t].pre /\ put(x).buffer = x
  BY <1>2 DEF ToolState
<1> HIDE DEF put
<1>5. ASSUME NEW x \in 0..Whole
      PROVE  /\ Agrees(with(x), m) /\ with(x).tools[t] = put(x)
             /\ \A u \in Tools : u # t => with(x).tools[u] = l.tools[u]
             /\ \A u \in Tools : Sent(with(x), u) = Sent(l, u)
  <2>1. PICK s \in ToolState : s = put(x) /\ s.block = l.tools[t].block
    BY <1>4
  <2> QED BY <2>1, ToolChanges
<1>6. /\ t \notin Buffered => r = BlockDelta(l, l.tools[t].block, "tool_use", n)
      /\ t \in Buffered /\ buffer = Whole => r = BlockDelta(with(0), l.tools[t].block, "tool_use", Whole)
      /\ t \in Buffered /\ buffer < Whole => r = with(buffer)
  <2>1. with(0) = [l EXCEPT !.tools[t].buffer = 0] /\ with(buffer) = [l EXCEPT !.tools[t].buffer = buffer]
    BY DEF put, WithTool
  <2> HIDE DEF with
  <2> QED BY <2>1, <1>2 DEF EmitToolArgs
<1> HIDE DEF r, with
<1>7. CASE t \notin Buffered
  <2>1. r = BlockDelta(l, l.tools[t].block, "tool_use", n) /\ l.tools[t].buffer = 0
    BY <1>3, <1>6, <1>7 DEF Pays
  <2>2. Sent(l, t) + n <= Whole
    BY <1>2
  <2>3. /\ Agrees(r, m) /\ r.tools = l.tools /\ Sent(r, t) = Sent(l, t) + n
        /\ \A u \in Tools : u # t => Sent(r, u) = Sent(l, u)
    BY <2>1, <2>2, PiecesAgree
  <2>4. Pays(r, t)
    BY <1>2, <2>1, <2>3, <1>3 DEF Pays
  <2>5. \A u \in Tools : u # t => Pays(r, u)
    BY <1>3, <2>3 DEF Pays
  <2>6. Budget(r)
    BY <2>4, <2>5 DEF Budget
  <2> QED BY <1>2, <2>3, <2>6 DEF Told, r
<1>8. CASE t \in Buffered /\ buffer = Whole
  <2> DEFINE w == with(0)
  <2>1. 0 \in 0..Whole
    BY <1>2
  <2>2. /\ Agrees(w, m) /\ w.tools[t] = put(0)
        /\ \A u \in Tools : u # t => w.tools[u] = l.tools[u]
        /\ \A u \in Tools : Sent(w, u) = Sent(l, u)
    BY <1>5, <2>1
  <2>3. put(0).block = l.tools[t].block /\ put(0).pre = l.tools[t].pre /\ put(0).buffer = 0
    BY <1>4, <2>1
  <2>4. Sent(w, t) + Whole <= Whole /\ Sent(l, t) = 0 /\ l.tools[t].pre = 0
    BY <1>2, <1>8, <2>2
  <2>5. r = BlockDelta(w, w.tools[t].block, "tool_use", Whole) /\ w.tools[t].block # 0
    BY <1>6, <1>8, <2>2, <2>3
  <2> HIDE DEF w
  <2>6. /\ Agrees(r, m) /\ r.tools = w.tools /\ Sent(r, t) = Sent(w, t) + Whole
        /\ \A u \in Tools : u # t => Sent(r, u) = Sent(w, u)
    BY <1>2, <2>2, <2>4, <2>5, PiecesAgree
  <2>7. Pays(r, t)
    BY <1>2, <1>8, <2>2, <2>3, <2>4, <2>6 DEF Pays
  <2>8. \A u \in Tools : u # t => Pays(r, u)
    BY <1>3, <2>2, <2>6 DEF Pays
  <2>9. Budget(r)
    BY <2>7, <2>8 DEF Budget
  <2>10. r.tools[t].pre + r.tools[t].buffer + Sent(r, t)
           = l.tools[t].pre + l.tools[t].buffer + Sent(l, t) + n
    BY <1>2, <1>8, <2>2, <2>3, <2>4, <2>6
  <2> QED BY <2>2, <2>3, <2>6, <2>9, <2>10 DEF Told, r
<1>9. CASE t \in Buffered /\ buffer < Whole
  <2>1. buffer \in 0..Whole
    BY <1>2, <1>9
  <2>2. /\ Agrees(r, m) /\ r.tools[t] = put(buffer)
        /\ \A u \in Tools : u # t => r.tools[u] = l.tools[u]
        /\ \A u \in Tools : Sent(r, u) = Sent(l, u)
    BY <1>5, <1>6, <1>9, <2>1
  <2>3. put(buffer).block = l.tools[t].block /\ put(buffer).pre = l.tools[t].pre
        /\ put(buffer).buffer = l.tools[t].buffer + n
    BY <1>4, <2>1
  <2>4. Pays(r, t)
    BY <1>2, <1>9, <2>2, <2>3 DEF Pays
  <2>5. \A u \in Tools : u # t => Pays(r, u)
    BY <1>3, <2>2 DEF Pays
  <2>6. Budget(r)
    BY <2>4, <2>5 DEF Budget
  <2> QED BY <1>2, <2>2, <2>3, <2>6 DEF Told, r
<1>10. buffer \in Nat /\ buffer <= Whole
  BY <1>2
<1>11. buffer = Whole \/ buffer < Whole
  <2>1. \A x, y \in Nat : x <= y => x = y \/ x < y
    OBVIOUS
  <2> QED BY <1>2, <1>10, <2>1
<1> QED BY <1>7, <1>8, <1>9, <1>11

(* A call is started: its block is the new one, what came early is counted. *)
Starting(l, t) ==
  [StartBlock(l, "tool_use") EXCEPT
     !.tools[t].block = Len(StartBlock(l, "tool_use").blocks), !.tools[t].pre = 0]

LEMMA StartingAgrees ==
  ASSUME NEW l, NEW m, Agrees(l, m), Budget(l), NEW t \in Tools, l.tools[t].block = 0
  PROVE  /\ Agrees(Starting(l, t), m) /\ Budget(Starting(l, t))
         /\ Starting(l, t).tools[t].block # 0
         /\ Starting(l, t).tools[t].pre = 0 /\ Starting(l, t).tools[t].buffer = 0
         /\ Sent(Starting(l, t), t) = 0
<1> DEFINE s == StartBlock(l, "tool_use")
           r == Starting(l, t)
           n == Len(l.blocks) + 1
           f == <<"start", n, "tool_use">>
           bs == Append(l.blocks, NewBlock("tool_use"))
           put == [l.tools[t] EXCEPT !.block = n, !.pre = 0]
           tools == [l.tools EXCEPT ![t] = put]
<1>1. /\ l \in Ledger /\ m \in Seq(Frame) /\ Fits(l.blocks, l.content, l.tools)
      /\ Matches(l.blocks, m \o l.out)
  BY DEF Agrees
<1>2. /\ l.blocks \in Seq(Block) /\ l.content \in [Content -> Nat] /\ l.out \in Seq(Frame)
      /\ l.tools \in [Tools -> ToolState] /\ Len(l.blocks) \in Nat /\ l.tools[t] \in ToolState
      /\ l.tools[t].buffer = 0
  BY <1>1, LedgerFields, ToolFacts DEF Budget, Pays
<1>3. NewBlock("tool_use") \in Block /\ n \in Nat /\ f \in Frame
  <2>1. "tool_use" \in Kinds BY DEF Kinds
  <2>2. 0 \in 0..Whole BY ToolAssumption
  <2>3. NewBlock("tool_use") \in Block BY <2>1, <2>2, BlockIsBlock DEF NewBlock
  <2>4. n \in Nat BY <1>2
  <2> HIDE DEF n
  <2> QED BY <2>1, <2>3, <2>4, NewFrames
<1>4. NewBlock("tool_use").kind = "tool_use" /\ NewBlock("tool_use").open
      /\ NewBlock("tool_use").pieces = 0
  BY DEF NewBlock
<1>5. Is(s, bs, l.content, Append(l.out, f), l.tools)
  BY <1>1, StartBlockIs
<1>7. /\ bs \in Seq(Block) /\ Len(bs) = n /\ bs[n] = NewBlock("tool_use")
      /\ \A x \in 1..Len(l.blocks) : bs[x] = l.blocks[x]
      /\ 1..n = (1..Len(l.blocks)) \cup {n} /\ n \notin 1..Len(l.blocks) /\ n # 0
      /\ \A x \in 1..Len(l.blocks) : x # n
  BY <1>2, <1>3
<1>6. Is(r, bs, l.content, Append(l.out, f), tools)
  <2>1. s.tools = l.tools /\ s.blocks = bs BY <1>5, IsFields
  <2>2. r = [s EXCEPT !.tools = [s.tools EXCEPT ![t] = [s.tools[t] EXCEPT !.block = Len(s.blocks), !.pre = 0]]]
    BY DEF Starting
  <2> HIDE DEF s, r, bs
  <2>3. r = [s EXCEPT !.tools = tools] BY <2>1, <2>2, <1>7
  <2> HIDE DEF tools
  <2> QED BY <1>5, <2>3, IsTools
<1>8. /\ put \in ToolState /\ put.block = n /\ put.pre = 0 /\ put.buffer = 0
  <2>1. 0 \in 0..Whole BY ToolAssumption
  <2> HIDE DEF n
  <2> QED BY <1>2, <1>3, <2>1 DEF ToolState
<1> HIDE DEF s, r, n, f, bs, put
<1>9. tools \in [Tools -> ToolState] /\ tools[t] = put /\ \A u \in Tools : u # t => tools[u] = l.tools[u]
  BY <1>2, <1>8
<1> HIDE DEF tools
<1>10. r \in Ledger /\ r.blocks = bs /\ r.content = l.content /\ r.out = Append(l.out, f) /\ r.tools = tools
  <2>1. Append(l.out, f) \in Seq(Frame) BY <1>2, <1>3
  <2>2. r \in Ledger BY <1>2, <1>6, <1>7, <1>9, <2>1, IsLedger
  <2> QED BY <1>6, <2>2, IsFields
<1>11. Matches(bs, m \o Append(l.out, f))
  <2>1. "tool_use" \in Kinds BY DEF Kinds
  <2>2. Matches(bs, Append(m \o l.out, f))
    BY <1>1, <2>1, MatchesStart DEF bs, f, n, NewBlock
  <2> QED BY <1>1, <1>2, <1>3, <2>2, AppendConcat
<1>12. Fits(bs, l.content, tools)
  <2>1. ASSUME NEW k \in Content, l.content[k] # 0
        PROVE  l.content[k] \in 1..Len(bs) /\ bs[l.content[k]].kind = k /\ bs[l.content[k]].open
    BY <2>1, <1>1, <1>7 DEF Fits
  <2>2. ASSUME NEW b \in 1..Len(bs), bs[b].open, bs[b].kind \in Content
        PROVE  l.content[bs[b].kind] = b
    <3>1. b # n BY <2>2, <1>4, <1>7 DEF Content
    <3>2. b \in 1..Len(l.blocks) /\ bs[b] = l.blocks[b] BY <3>1, <1>7
    <3> QED BY <3>2, <2>2, <1>1 DEF Fits
  <2>3. ASSUME NEW u \in Tools, tools[u].block # 0
        PROVE  /\ tools[u].block \in 1..Len(bs)
               /\ bs[tools[u].block].kind = "tool_use" /\ bs[tools[u].block].open
    <3>1. CASE u = t BY <3>1, <1>3, <1>4, <1>7, <1>8, <1>9
    <3>2. CASE u # t
      <4>1. tools[u] = l.tools[u] BY <3>2, <1>9
      <4>2. l.tools[u].block \in 1..Len(l.blocks) /\ l.blocks[l.tools[u].block].kind = "tool_use"
            /\ l.blocks[l.tools[u].block].open
        BY <4>1, <2>3, <1>1 DEF Fits
      <4> QED BY <4>1, <4>2, <1>7
    <3> QED BY <3>1, <3>2
  <2>4. ASSUME NEW u \in Tools, NEW v \in Tools, tools[u].block = tools[v].block, tools[u].block # 0
        PROVE  u = v
    <3>1. \A x \in Tools : x # t => tools[x].block = l.tools[x].block BY <1>9
    <3>2. \A x \in Tools : l.tools[x].block # n
      <4>1. \A x \in Tools : l.tools[x].block # 0 => l.tools[x].block \in 1..Len(l.blocks)
        BY <1>1 DEF Fits
      <4> QED BY <4>1, <1>7
    <3>3. tools[t].block = n BY <1>8, <1>9
    <3>4. \A x, y \in Tools : l.tools[x].block = l.tools[y].block /\ l.tools[x].block # 0 => x = y
      BY <1>1 DEF Fits
    <3> QED BY <3>1, <3>2, <3>3, <3>4, <2>4
  <2>5. ASSUME NEW b \in 1..Len(bs), bs[b].kind = "tool_use", \A u \in Tools : tools[u].block # b
        PROVE  ~bs[b].open /\ bs[b].pieces = Whole
    <3>1. b # n BY <2>5, <1>8, <1>9
    <3>2. b \in 1..Len(l.blocks) /\ bs[b] = l.blocks[b] BY <3>1, <1>7
    <3>3. \A u \in Tools : l.tools[u].block # b
      <4>1. b # 0 BY <3>2
      <4> QED BY <4>1, <2>5, <1>9
    <3> QED BY <3>2, <3>3, <2>5, <1>1 DEF Fits
  <2> QED BY <2>1, <2>2, <2>3, <2>4, <2>5 DEF Fits
<1>13. Agrees(r, m)
  BY <1>1, <1>10, <1>11, <1>12 DEF Agrees
<1>14. Sent(r, t) = 0
  BY <1>4, <1>7, <1>8, <1>9, <1>10 DEF Sent
<1>15. Budget(r)
  <2>1. Pays(r, t)
    BY <1>8, <1>9, <1>10, <1>14, ToolAssumption DEF Pays
  <2>2. ASSUME NEW u \in Tools, u # t PROVE Pays(r, u)
    <3>1. r.tools[u] = l.tools[u] BY <2>2, <1>9, <1>10
    <3>2. l.tools[u].block # 0 => l.tools[u].block \in 1..Len(l.blocks) BY <1>1 DEF Fits
    <3>3. Sent(r, u) = Sent(l, u) BY <3>1, <3>2, <1>7, <1>10 DEF Sent
    <3>4. Pays(l, u) BY DEF Budget
    <3> QED BY <3>1, <3>3, <3>4 DEF Pays
  <2> QED BY <2>1, <2>2 DEF Budget
<1> QED BY <1>7, <1>8, <1>9, <1>10, <1>13, <1>14, <1>15 DEF r

LEMMA StartToolTells ==
  ASSUME NEW l, NEW m, Agrees(l, m), Budget(l), NEW t \in Tools, l.tools[t].block = 0
  PROVE  /\ Agrees(StartTool(l, t), m) /\ Budget(StartTool(l, t))
         /\ StartTool(l, t).tools[t].block # 0
         /\ StartTool(l, t).tools[t].pre + StartTool(l, t).tools[t].buffer + Sent(StartTool(l, t), t)
              = l.tools[t].pre + l.tools[t].buffer + Sent(l, t)
<1> DEFINE s == Starting(l, t)
           r == StartTool(l, t)
           n == l.tools[t].pre
<1>1. /\ Agrees(s, m) /\ Budget(s) /\ s.tools[t].block # 0
      /\ s.tools[t].pre = 0 /\ s.tools[t].buffer = 0 /\ Sent(s, t) = 0
  BY StartingAgrees
<1>2. r = IF n = 0 THEN s ELSE EmitToolArgs(s, t, n)
  BY DEF StartTool, Starting
<1>3. l \in Ledger
  BY DEF Agrees
<1>4. n \in Nat /\ n <= Whole
  BY <1>3, ToolFacts
<1>5. l.tools[t].buffer = 0 /\ Sent(l, t) = 0
  BY DEF Budget, Pays, Sent
<1> HIDE DEF s, r
<1>6. CASE n = 0
  BY <1>1, <1>2, <1>5, <1>6 DEF r
<1>7. CASE n # 0
  <2>1. s.tools[t].pre + s.tools[t].buffer + Sent(s, t) + n <= Whole
    BY <1>1, <1>4
  <2> HIDE DEF n
  <2>2. Told(s, EmitToolArgs(s, t, n), m, t, n)
    BY <1>1, <1>4, <2>1, EmitToolArgsTells
  <2>3. Told(s, r, m, t, n)
    BY <1>2, <1>7, <2>2
  <2>4. r.tools[t].pre + r.tools[t].buffer + Sent(r, t) = n
    BY <1>1, <1>4, <2>3 DEF Told
  <2>5. l.tools[t].pre + l.tools[t].buffer + Sent(l, t) = n
    BY <1>4, <1>5 DEF n
  <2>6. Agrees(r, m) /\ Budget(r) /\ r.tools[t].block # 0
    BY <1>1, <2>3 DEF Told
  <2> QED BY <2>4, <2>5, <2>6 DEF r
<1> QED BY <1>6, <1>7

LEMMA ProcessToolCallAgrees ==
  ASSUME NEW l, NEW m, Agrees(l, m), Budget(l), NEW t \in Tools, NEW named \in BOOLEAN, NEW n \in Nat,
         l.tools[t].pre + l.tools[t].buffer + Sent(l, t) + n <= Whole
  PROVE  Agrees(ProcessToolCall(l, t, named, n), m) /\ Budget(ProcessToolCall(l, t, named, n))
<1> DEFINE r == ProcessToolCall(l, t, named, n)
           named2 == [l.tools[t] EXCEPT !.named = @ \/ named]
           told == WithTool(l, t, named2)
           on == IF told.tools[t].named /\ told.tools[t].block = 0 THEN StartTool(told, t) ELSE told
           more == [on.tools[t] EXCEPT !.pre = @ + n]
<1>1. l \in Ledger
  BY DEF Agrees
<1>2. /\ named2 \in ToolState /\ named2.block = l.tools[t].block
      /\ named2.pre = l.tools[t].pre /\ named2.buffer = l.tools[t].buffer
  <2>1. l.tools[t] \in ToolState BY <1>1, ToolFacts
  <2> QED BY <2>1 DEF ToolState
<1>3. r = CASE n = 0 -> on
            [] n > 0 /\ on.tools[t].block = 0 -> WithTool(on, t, more)
            [] n > 0 /\ on.tools[t].block # 0 -> EmitToolArgs(on, t, n)
  BY DEF ProcessToolCall, WithTool
<1> HIDE DEF r, named2
<1>4. /\ Agrees(told, m) /\ told.tools[t] = named2
      /\ \A u \in Tools : u # t => told.tools[u] = l.tools[u]
      /\ \A u \in Tools : Sent(told, u) = Sent(l, u)
  BY <1>2, ToolChanges
<1>5. Budget(told)
  <2>1. Pays(told, t)
    BY <1>2, <1>4 DEF Budget, Pays
  <2>2. \A u \in Tools : u # t => Pays(told, u)
    BY <1>4 DEF Budget, Pays
  <2> QED BY <2>1, <2>2 DEF Budget
<1>6. told.tools[t].pre + told.tools[t].buffer + Sent(told, t)
        = l.tools[t].pre + l.tools[t].buffer + Sent(l, t)
  BY <1>2, <1>4
<1> HIDE DEF told
<1>7. /\ Agrees(on, m) /\ Budget(on)
      /\ on.tools[t].pre + on.tools[t].buffer + Sent(on, t)
           = l.tools[t].pre + l.tools[t].buffer + Sent(l, t)
  <2>1. CASE told.tools[t].named /\ told.tools[t].block = 0
    <3>1. on = StartTool(told, t) BY <2>1
    <3> HIDE DEF on
    <3>2. /\ Agrees(StartTool(told, t), m) /\ Budget(StartTool(told, t))
          /\ StartTool(told, t).tools[t].pre + StartTool(told, t).tools[t].buffer
               + Sent(StartTool(told, t), t)
               = told.tools[t].pre + told.tools[t].buffer + Sent(told, t)
      BY <1>4, <1>5, <2>1, StartToolTells
    <3> QED BY <3>1, <3>2, <1>6
  <2>2. CASE ~(told.tools[t].named /\ told.tools[t].block = 0)
    <3>1. on = told BY <2>2
    <3> QED BY <3>1, <1>4, <1>5, <1>6
  <2> QED BY <2>1, <2>2
<1> HIDE DEF on
<1>8. on \in Ledger /\ on.tools[t].pre + on.tools[t].buffer + Sent(on, t) + n <= Whole
  BY <1>7 DEF Agrees
<1>9. CASE n = 0
  BY <1>3, <1>7, <1>9 DEF r
<1>10. CASE n > 0 /\ on.tools[t].block = 0
  <2>0. r = WithTool(on, t, more)
    BY <1>3, <1>10
  <2>1. /\ on.tools[t] \in ToolState /\ on.tools[t].pre \in Nat /\ on.tools[t].buffer \in Nat
        /\ Sent(on, t) \in Nat /\ Whole \in Nat
    BY <1>7, <1>8, ToolFacts, ToolBlockFacts, ToolAssumption
  <2>2. on.tools[t].pre + n \in 0..Whole
    BY <1>8, <2>1
  <2>3. /\ more \in ToolState /\ more.block = on.tools[t].block
        /\ more.pre = on.tools[t].pre + n /\ more.buffer = on.tools[t].buffer
    BY <2>1, <2>2 DEF ToolState
  <2> HIDE DEF more
  <2>4. /\ Agrees(r, m) /\ r.tools[t] = more
        /\ \A u \in Tools : u # t => r.tools[u] = on.tools[u]
        /\ \A u \in Tools : Sent(r, u) = Sent(on, u)
    BY <1>7, <2>0, <2>3, ToolChanges
  <2>5. \A u \in Tools : Pays(on, u)
    BY <1>7 DEF Budget
  <2>6. Pays(r, t)
    BY <1>8, <2>1, <2>3, <2>4, <2>5 DEF Pays
  <2>7. \A u \in Tools : u # t => Pays(r, u)
    BY <2>4, <2>5 DEF Pays
  <2> QED BY <2>4, <2>6, <2>7 DEF Budget, r
<1>11. CASE n > 0 /\ on.tools[t].block # 0
  <2>1. r = EmitToolArgs(on, t, n)
    BY <1>3, <1>11
  <2>2. Told(on, r, m, t, n)
    BY <1>7, <1>8, <1>11, <2>1, EmitToolArgsTells
  <2> QED BY <2>2 DEF Told, r
<1> QED BY <1>9, <1>10, <1>11

(* A call found whole in the text: a block of its own, made and ended.      *)
LEMMA FitsMore ==
  ASSUME NEW bs \in Seq(Block), NEW c, NEW content, NEW tools, Fits(bs, content, tools),
         Len(c) = Len(bs) + 1, \A x \in 1..Len(bs) : c[x] = bs[x],
         c[Len(bs) + 1].kind = "tool_use", ~c[Len(bs) + 1].open, c[Len(bs) + 1].pieces = Whole
  PROVE  Fits(c, content, tools)
<1>1. \A x \in 1..Len(c) : x \in 1..Len(bs) \/ x = Len(bs) + 1
  OBVIOUS
<1>2. \A x \in 1..Len(bs) : x \in 1..Len(c)
  OBVIOUS
<1>3. \A k \in Content : content[k] # 0 =>
        content[k] \in 1..Len(c) /\ c[content[k]].kind = k /\ c[content[k]].open
  BY <1>2 DEF Fits
<1>4. \A b \in 1..Len(c) : c[b].open /\ c[b].kind \in Content => content[c[b].kind] = b
  BY <1>1 DEF Fits
<1>5. \A t \in Tools : tools[t].block # 0 =>
        /\ tools[t].block \in 1..Len(c)
        /\ c[tools[t].block].kind = "tool_use" /\ c[tools[t].block].open
  BY <1>2 DEF Fits
<1>6. \A t, u \in Tools : tools[t].block = tools[u].block /\ tools[t].block # 0 => t = u
  BY DEF Fits
<1>7. \A b \in 1..Len(c) : c[b].kind = "tool_use" /\ (\A t \in Tools : tools[t].block # b) =>
        ~c[b].open /\ c[b].pieces = Whole
  BY <1>1 DEF Fits
<1> QED BY <1>3, <1>4, <1>5, <1>6, <1>7 DEF Fits

LEMMA HeuristicToolAgrees ==
  ASSUME NEW l, NEW m, Agrees(l, m)
  PROVE  Agrees(HeuristicTool(l), m) /\ Keeps(l, HeuristicTool(l)) /\ ToolBlocks(HeuristicTool(l)) # {}
<1> DEFINE c == CloseContentBlocks(l)
           s == StartBlock(c, "tool_use")
           n == Len(c.blocks) + 1
           d == BlockDelta(s, n, "tool_use", Whole)
           r == StopBlock(d, n)
           b1 == Append(c.blocks, NewBlock("tool_use"))
           b2 == WithPieces(b1, n, "tool_use", Whole)
           b3 == Ended(b2, n)
           o1 == Append(c.out, <<"start", n, "tool_use">>)
           o2 == Append(o1, <<"delta", n, "tool_use", Whole>>)
           o3 == Append(o2, <<"stop", n>>)
<1>1. Sound(l, c, m)
  BY ContentSound
<1> HIDE DEF c
<1>2. /\ c \in Ledger /\ m \in Seq(Frame) /\ Fits(c.blocks, c.content, c.tools)
      /\ Matches(c.blocks, m \o c.out)
  BY <1>1 DEF Sound, Agrees
<1>3. /\ c.blocks \in Seq(Block) /\ c.content \in [Content -> Nat] /\ c.out \in Seq(Frame)
      /\ c.tools \in [Tools -> ToolState] /\ Len(c.blocks) \in Nat
  BY <1>2, LedgerFields
<1>4. "tool_use" \in Kinds /\ NewBlock("tool_use") \in Block /\ n \in Nat /\ Whole \in Nat
  <2>1. "tool_use" \in Kinds BY DEF Kinds
  <2>2. 0 \in 0..Whole BY ToolAssumption
  <2>3. NewBlock("tool_use") \in Block BY <2>1, <2>2, BlockIsBlock DEF NewBlock
  <2> QED BY <1>3, <2>1, <2>3, ToolAssumption
<1>5. /\ b1 \in Seq(Block) /\ Len(b1) = n /\ n \in 1..Len(b1)
      /\ b1[n] = NewBlock("tool_use") /\ \A x \in 1..Len(c.blocks) : b1[x] = c.blocks[x]
  BY <1>3, <1>4
<1>6. b1[n].kind = "tool_use" /\ b1[n].open /\ b1[n].pieces = 0
  BY <1>5 DEF NewBlock
<1>7. Matches(b1, Append(m \o c.out, <<"start", n, "tool_use">>))
  BY <1>2, <1>4, MatchesStart DEF NewBlock
<1>8. Is(s, b1, c.content, o1, c.tools)
  BY <1>2, StartBlockIs
<1>9. HeuristicTool(l) = r
  <2>1. s.blocks = b1 BY <1>8, IsFields
  <2>2. Len(s.blocks) = n BY <1>5, <2>1
  <2> QED BY <2>2 DEF HeuristicTool, c
<1> HIDE DEF b1, n
<1>10. /\ <<"start", n, "tool_use">> \in Frame /\ <<"stop", n>> \in Frame
       /\ <<"delta", n, "tool_use", Whole>> \in Frame
  BY <1>4, NewFrames
<1>11. o1 \in Seq(Frame) /\ o2 \in Seq(Frame) /\ o3 \in Seq(Frame)
  BY <1>3, <1>10
<1> HIDE DEF s
<1>12. s \in Ledger /\ s.blocks = b1 /\ s.content = c.content /\ s.out = o1 /\ s.tools = c.tools
  <2>1. s \in Ledger BY <1>3, <1>5, <1>8, <1>11, IsLedger
  <2> HIDE DEF o1, o2, o3
  <2> QED BY <1>8, <2>1, IsFields
<1>13. Gains(b1, b2, n, Whole)
  BY <1>4, <1>5, <1>6, WithPiecesFacts
<1>14. /\ b2 \in Seq(Block) /\ Len(b2) = Len(b1) /\ n \in 1..Len(b2)
       /\ b2[n].kind = "tool_use" /\ b2[n].open /\ b2[n].pieces = Whole
       /\ \A x \in 1..Len(b1) : x # n => b2[x] = b1[x]
  BY <1>4, <1>5, <1>6, <1>13 DEF Gains
<1>15. Is(d, b2, c.content, o2, c.tools)
  BY <1>12, BlockDeltaIs
<1> HIDE DEF d
<1>16. d \in Ledger /\ d.blocks = b2 /\ d.content = c.content /\ d.out = o2 /\ d.tools = c.tools
  <2>1. d \in Ledger BY <1>3, <1>14, <1>15, <1>11, IsLedger
  <2> HIDE DEF o1, o2, o3
  <2> QED BY <1>15, <2>1, IsFields
<1>17. Matches(b2, Append(Append(m \o c.out, <<"start", n, "tool_use">>), <<"delta", n, "tool_use", Whole>>))
  BY <1>4, <1>5, <1>6, <1>7, WithPiecesMatches
<1> HIDE DEF b2
<1>18. /\ b3 \in Seq(Block) /\ Len(b3) = Len(b2)
       /\ b3[n].kind = "tool_use" /\ b3[n].open = FALSE /\ b3[n].pieces = Whole
       /\ \A x \in 1..Len(b2) : x # n => b3[x] = b2[x]
  BY <1>14, EndedFacts
<1>19. Is(r, b3, c.content, o3, c.tools)
  BY <1>16, StopBlockIs
<1> HIDE DEF r
<1>20. r \in Ledger /\ r.blocks = b3 /\ r.content = c.content /\ r.out = o3 /\ r.tools = c.tools
  <2>1. r \in Ledger BY <1>3, <1>18, <1>19, <1>11, IsLedger
  <2> HIDE DEF o1, o2, o3
  <2> QED BY <1>19, <2>1, IsFields
<1>21. Matches(b3, m \o o3)
  <2>1. Matches(b3, Append(Append(Append(m \o c.out, <<"start", n, "tool_use">>),
                                  <<"delta", n, "tool_use", Whole>>), <<"stop", n>>))
    BY <1>14, <1>17, EndedMatches
  <2>2. m \o o1 = Append(m \o c.out, <<"start", n, "tool_use">>)
    BY <1>2, <1>3, <1>10, AppendConcat
  <2>3. m \o o2 = Append(m \o o1, <<"delta", n, "tool_use", Whole>>)
    BY <1>2, <1>10, <1>11, AppendConcat
  <2>4. m \o o3 = Append(m \o o2, <<"stop", n>>)
    BY <1>2, <1>10, <1>11, AppendConcat
  <2> HIDE DEF o1, o2, o3, b3
  <2> QED BY <2>1, <2>2, <2>3, <2>4
<1> HIDE DEF b3, o1, o2, o3
<1>22. n = Len(c.blocks) + 1 /\ Len(b3) = Len(c.blocks) + 1
       /\ \A x \in 1..Len(c.blocks) : b3[x] = c.blocks[x]
  <2>1. n = Len(c.blocks) + 1 BY DEF n
  <2>2. \A x \in 1..Len(c.blocks) : x # n /\ x \in 1..Len(b1) BY <1>3, <1>5, <2>1
  <2> QED BY <1>5, <1>14, <1>18, <2>1, <2>2
<1>23. Fits(b3, c.content, c.tools)
  <2>1. b3[Len(c.blocks) + 1].kind = "tool_use" /\ ~b3[Len(c.blocks) + 1].open
        /\ b3[Len(c.blocks) + 1].pieces = Whole
    BY <1>18, <1>22
  <2> QED BY <1>2, <1>3, <1>22, <2>1, FitsMore
<1>24. Agrees(r, m)
  BY <1>2, <1>20, <1>21, <1>23 DEF Agrees
<1>25. Keeps(l, r)
  <2>1. Keeps(c, r)
    BY <1>3, <1>20, <1>22 DEF Keeps
  <2>2. l \in Ledger BY DEF Agrees
  <2> QED BY <1>1, <1>2, <1>20, <2>1, <2>2, KeepsCompose DEF Sound
<1>26. n \in ToolBlocks(r)
  BY <1>5, <1>14, <1>18, <1>20 DEF ToolBlocks
<1> QED BY <1>9, <1>24, <1>25, <1>26

-----------------------------------------------------------------------------
(* Blocks in order.                                                         *)

Rising(s, B, n) ==
  s \in [1..n -> B] /\ \A i, j \in 1..n : i < j => s[i] < s[j]

LEMMA RisingExists ==
  ASSUME NEW B, IsFiniteSet(B), B \subseteq Nat
  PROVE  \E s : Rising(s, B, Cardinality(B))
<1> DEFINE Lacks(k) == \E C \in SUBSET B : Cardinality(C) = k /\ ~ \E s : Rising(s, C, k)
           Bad == {k \in Nat : Lacks(k)}
<1>1. Cardinality(B) \in Nat
  BY FS_CardinalityType
<1>2. SUFFICES ASSUME Bad # {} PROVE FALSE
  <2>1. Cardinality(B) \notin Bad => ~Lacks(Cardinality(B))
    BY <1>1
  <2> QED BY <2>1
<1>3. PICK k \in Bad : \A j \in Bad : k <= j
  <2>1. Bad \subseteq Nat
    OBVIOUS
  <2> HIDE DEF Bad
  <2> QED BY <1>2, <2>1, LeastNatural
<1>4. PICK C \in SUBSET B : Cardinality(C) = k /\ ~ \E s : Rising(s, C, k)
  BY <1>3
<1>5. IsFiniteSet(C) /\ C \subseteq Nat /\ k \in Nat
  BY <1>3, <1>4, FS_Subset
<1>6. CASE k = 0
  <2> DEFINE s == [i \in 1..0 |-> 0]
  <2>1. Rising(s, C, 0)
    BY DEF Rising
  <2> QED BY <2>1, <1>4, <1>6
<1>7. CASE k # 0
  <2>1. C # {}
    BY <1>4, <1>7, FS_EmptySet
  <2>2. PICK x \in C : \A y \in C : x <= y
    BY <1>5, <2>1, LeastNatural
  <2>3. IsFiniteSet(C \ {x}) /\ Cardinality(C \ {x}) = k - 1
    BY <1>4, <1>5, <2>2, FS_RemoveElement
  <2>4. k - 1 \in Nat /\ k - 1 \notin Bad
    <3>1. k - 1 \in Nat /\ ~(k <= k - 1) BY <1>5, <1>7
    <3> HIDE DEF Bad
    <3> QED BY <3>1, <1>3
  <2>5. PICK s : Rising(s, C \ {x}, k - 1)
    <3>1. ~Lacks(k - 1) BY <2>4
    <3>2. C \ {x} \in SUBSET B OBVIOUS
    <3> QED BY <2>3, <3>1, <3>2
  <2> DEFINE z == [i \in 1..k |-> IF i = 1 THEN x ELSE s[i - 1]]
  <2>6. \A i \in 1..k : i # 1 => i - 1 \in 1..k-1 /\ s[i - 1] \in C \ {x}
    BY <1>5, <2>5 DEF Rising
  <2>7. \A i \in 1..k : z[i] = IF i = 1 THEN x ELSE s[i - 1]
    OBVIOUS
  <2>8. z \in [1..k -> C]
    BY <2>2, <2>6
  <2> HIDE DEF z
  <2>9. ASSUME NEW i \in 1..k, NEW j \in 1..k, i < j PROVE z[i] < z[j]
    <3>1. j # 1 /\ z[j] = s[j - 1] /\ j - 1 \in 1..k-1 /\ s[j - 1] \in C \ {x}
      BY <2>6, <2>7, <2>9
    <3>2. CASE i = 1
      <4>1. z[i] = x /\ x <= s[j - 1] /\ s[j - 1] # x BY <3>1, <3>2, <2>2, <2>7
      <4>2. x \in Nat /\ s[j - 1] \in Nat BY <1>5, <2>2, <3>1
      <4> QED BY <3>1, <4>1, <4>2
    <3>3. CASE i # 1
      <4>1. z[i] = s[i - 1] /\ i - 1 \in 1..k-1 /\ i - 1 < j - 1
        BY <2>6, <2>7, <2>9, <3>3
      <4> QED BY <3>1, <4>1, <2>5 DEF Rising
    <3> QED BY <3>2, <3>3
  <2>10. Rising(z, C, k)
    BY <2>8, <2>9 DEF Rising
  <2> QED BY <2>10, <1>4
<1> QED BY <1>6, <1>7

(* s names each of the blocks of B once.                                    *)
Enumerates(s, B) ==
  /\ s \in Seq(B)
  /\ \A j, k \in 1..Len(s) : s[j] = s[k] => j = k
  /\ \A x \in B : \E k \in 1..Len(s) : s[k] = x

LEMMA InOrderEnumerates ==
  ASSUME NEW N \in Nat, NEW B, B \subseteq 1..N
  PROVE  Enumerates(InOrder(B), B) /\ Enumerates(LastFirst(InOrder(B)), B)
<1> DEFINE n == Cardinality(B)
           s == InOrder(B)
           z == LastFirst(s)
<1>1. IsFiniteSet(B) /\ B \subseteq Nat
  <2>1. IsFiniteSet(1..N) BY FS_Interval
  <2>2. IsFiniteSet(B) BY <2>1, FS_Subset
  <2>3. \A x \in 1..N : x \in Nat OBVIOUS
  <2> QED BY <2>2, <2>3
<1>2. n \in Nat
  BY <1>1, FS_CardinalityType
<1>3. Rising(s, B, n)
  <2>1. \E x : Rising(x, B, n) BY <1>1, RisingExists
  <2>2. \E x \in [1..n -> B] : \A i, j \in 1..n : i < j => x[i] < x[j] BY <2>1 DEF Rising
  <2> QED BY <2>2 DEF Rising, InOrder
<1> HIDE DEF n, s
<1>4. s \in [1..n -> B] /\ s \in Seq(B) /\ Len(s) = n
  BY <1>2, <1>3 DEF Rising
<1>5. \A j, k \in 1..n : s[j] = s[k] => j = k
  <2>1. SUFFICES ASSUME NEW j \in 1..n, NEW k \in 1..n, s[j] = s[k], j # k PROVE FALSE
    OBVIOUS
  <2>2. s[j] \in Nat /\ s[k] \in Nat BY <1>1, <1>4
  <2>3. j < k => s[j] < s[k] BY <1>3 DEF Rising
  <2>4. k < j => s[k] < s[j] BY <1>3 DEF Rising
  <2> QED BY <1>2, <2>1, <2>2, <2>3, <2>4
<1>6. \A x \in B : \E k \in 1..n : s[k] = x
  <2>1. s \in Injection(1..n, B)
    BY <1>4, <1>5 DEF Injection, IsInjective
  <2>2. Cardinality(1..n) = n
    BY <1>2, FS_Interval
  <2>3. s \in Surjection(1..n, B)
    BY <1>1, <2>1, <2>2, FS_Injection DEF n
  <2> QED BY <2>3 DEF Surjection
<1>7. Enumerates(s, B)
  BY <1>4, <1>5, <1>6 DEF Enumerates
<1>8. z = [i \in 1..n |-> s[n + 1 - i]]
  BY <1>4 DEF LastFirst
<1> HIDE DEF z
<1>9. \A i \in 1..n : n + 1 - i \in 1..n /\ z[i] = s[n + 1 - i] /\ z[n + 1 - i] = s[i]
  <2>1. \A i \in 1..n : n + 1 - i \in 1..n /\ n + 1 - (n + 1 - i) = i BY <1>2
  <2> QED BY <1>8, <2>1
<1>10. z \in Seq(B) /\ Len(z) = n
  <2>1. z \in [1..n -> B] BY <1>4, <1>8, <1>9
  <2> QED BY <1>2, <1>8, <2>1
<1>11. \A j, k \in 1..n : z[j] = z[k] => j = k
  <2>1. SUFFICES ASSUME NEW j \in 1..n, NEW k \in 1..n, z[j] = z[k] PROVE j = k
    OBVIOUS
  <2>2. n + 1 - j = n + 1 - k BY <1>5, <1>9, <2>1
  <2> QED BY <1>2, <2>2
<1>12. \A x \in B : \E k \in 1..n : z[k] = x
  BY <1>6, <1>9
<1>13. Enumerates(z, B)
  BY <1>10, <1>11, <1>12 DEF Enumerates
<1> QED BY <1>7, <1>13 DEF s, z

StoppedBlocks(bs, s) ==
  [i \in 1..Len(bs) |-> IF \E k \in 1..Len(s) : s[k] = i THEN [bs[i] EXCEPT !.open = FALSE] ELSE bs[i]]
StopFrames(s) == [k \in 1..Len(s) |-> <<"stop", s[k]>>]

LEMMA IsBlocksAndOut ==
  ASSUME NEW l, NEW bs, NEW content, NEW out, NEW tools, Is(l, bs, content, out, tools), NEW x, NEW y
  PROVE  Is([l EXCEPT !.blocks = x, !.out = y], x, content, y, tools)
<1> DEFINE r == [l EXCEPT !.blocks = x]
<1>1. [l EXCEPT !.blocks = x, !.out = y] = [r EXCEPT !.out = y]
  OBVIOUS
<1>2. Is(r, x, content, out, tools)
  BY IsBlocks
<1> HIDE DEF r
<1> QED BY <1>1, <1>2, IsOut

LEMMA StopBlocksIs ==
  ASSUME NEW l \in Ledger, NEW s
  PROVE  Is(StopBlocks(l, s), StoppedBlocks(l.blocks, s), l.content, l.out \o StopFrames(s), l.tools)
<1>1. StopBlocks(l, s)
        = [l EXCEPT !.blocks = StoppedBlocks(l.blocks, s), !.out = l.out \o StopFrames(s)]
  BY DEF StopBlocks, StoppedBlocks, StopFrames
<1>2. Is(l, l.blocks, l.content, l.out, l.tools)
  BY LedgerFields
<1>3. PICK x, y : x = StoppedBlocks(l.blocks, s) /\ y = l.out \o StopFrames(s)
  OBVIOUS
<1>4. StopBlocks(l, s) = [l EXCEPT !.blocks = x, !.out = y]
  BY <1>1, <1>3
<1>6. Is([l EXCEPT !.blocks = x, !.out = y], x, l.content, y, l.tools)
  BY <1>2, IsBlocksAndOut
<1>5. Is(StopBlocks(l, s), x, l.content, y, l.tools)
  BY <1>4, <1>6
<1> QED BY <1>3, <1>5

LEMMA FramesInSeq ==
  ASSUME NEW n \in Nat, NEW g \in [1..n -> Frame]
  PROVE  g \in Seq(Frame) /\ Len(g) = n
  OBVIOUS

(* c is bs with the blocks of B stopped.                                    *)
Stops(bs, c, B) ==
  /\ c \in Seq(Block) /\ Len(c) = Len(bs)
  /\ \A x \in 1..Len(bs) :
       /\ c[x].kind = bs[x].kind /\ c[x].pieces = bs[x].pieces
       /\ c[x].open <=> bs[x].open /\ x \notin B
       /\ x \notin B => c[x] = bs[x]

LEMMA StoppedBlocksFacts ==
  ASSUME NEW bs \in Seq(Block), NEW s, NEW B, B \subseteq 1..Len(bs), Enumerates(s, B)
  PROVE  Stops(bs, StoppedBlocks(bs, s), B)
<1> DEFINE c == StoppedBlocks(bs, s)
           shut(x) == [bs[x] EXCEPT !.open = FALSE]
<1>1. \A x \in 1..Len(bs) : (\E k \in 1..Len(s) : s[k] = x) <=> x \in B
  BY DEF Enumerates
<1>2. c = [x \in 1..Len(bs) |-> IF \E k \in 1..Len(s) : s[k] = x THEN shut(x) ELSE bs[x]]
  BY DEF StoppedBlocks
<1>3. ASSUME NEW x \in 1..Len(bs)
      PROVE  /\ shut(x) \in Block /\ shut(x).kind = bs[x].kind /\ shut(x).pieces = bs[x].pieces
             /\ shut(x).open = FALSE /\ bs[x] \in Block /\ bs[x].open \in BOOLEAN
  <2>1. bs[x] \in Block OBVIOUS
  <2> QED BY <2>1 DEF Block
<1> HIDE DEF c, shut
<1>4. \A x \in 1..Len(bs) : c[x] = IF x \in B THEN shut(x) ELSE bs[x]
  BY <1>1, <1>2
<1>5. c \in [1..Len(bs) -> Block]
  BY <1>2, <1>3
<1>6. c \in Seq(Block) /\ Len(c) = Len(bs)
  <2>1. Len(bs) \in Nat OBVIOUS
  <2> QED BY <1>2, <1>5, <2>1
<1>7. ASSUME NEW x \in 1..Len(bs)
      PROVE  /\ c[x].kind = bs[x].kind /\ c[x].pieces = bs[x].pieces
             /\ c[x].open <=> bs[x].open /\ x \notin B
             /\ x \notin B => c[x] = bs[x]
  BY <1>3, <1>4
<1> QED BY <1>6, <1>7 DEF c, Stops

LEMMA StopFramesFacts ==
  ASSUME NEW N, N \subseteq Nat, NEW s \in Seq(N)
  PROVE  /\ StopFrames(s) \in Seq(Frame) /\ Len(StopFrames(s)) = Len(s)
         /\ \A k \in 1..Len(s) : /\ StopFrames(s)[k] = <<"stop", s[k]>>
                                 /\ FName(StopFrames(s)[k]) = "stop" /\ FBlock(StopFrames(s)[k]) = s[k]
<1> DEFINE g == StopFrames(s)
<1>1. Len(s) \in Nat /\ \A k \in 1..Len(s) : s[k] \in Nat
  <2>1. Len(s) \in Nat /\ \A k \in 1..Len(s) : s[k] \in N OBVIOUS
  <2> QED BY <2>1
<1>2. g = [k \in 1..Len(s) |-> <<"stop", s[k]>>]
  BY DEF StopFrames
<1>3. \A k \in 1..Len(s) : <<"stop", s[k]>> \in Frame /\ FName(<<"stop", s[k]>>) = "stop"
                           /\ FBlock(<<"stop", s[k]>>) = s[k]
  BY <1>1, NewFrames DEF Kinds
<1> HIDE DEF g
<1>4. g \in [1..Len(s) -> Frame]
  BY <1>2, <1>3
<1>5. g \in Seq(Frame) /\ Len(g) = Len(s)
  BY <1>1, <1>4, FramesInSeq
<1> QED BY <1>2, <1>3, <1>5 DEF g

(* r is l with the blocks of B stopped, and their frames made.              *)
Stopping(l, r, m, B) ==
  /\ r \in Ledger /\ Len(r.blocks) = Len(l.blocks) /\ r.content = l.content /\ r.tools = l.tools
  /\ \A x \in 1..Len(l.blocks) :
       /\ r.blocks[x].kind = l.blocks[x].kind /\ r.blocks[x].pieces = l.blocks[x].pieces
       /\ r.blocks[x].open <=> l.blocks[x].open /\ x \notin B
  /\ Matches(r.blocks, m \o r.out)

LEMMA StopBlocksMatches ==
  ASSUME NEW l \in Ledger, NEW m \in Seq(Frame), Matches(l.blocks, m \o l.out),
         NEW B, B \subseteq 1..Len(l.blocks), \A i \in B : l.blocks[i].open, NEW s, Enumerates(s, B)
  PROVE  Stopping(l, StopBlocks(l, s), m, B)
<1> DEFINE bs == l.blocks
           c == StoppedBlocks(bs, s)
           g == StopFrames(s)
           r == StopBlocks(l, s)
<1>1. /\ bs \in Seq(Block) /\ l.content \in [Content -> Nat] /\ l.out \in Seq(Frame)
      /\ l.tools \in [Tools -> ToolState] /\ Len(bs) \in Nat
  BY LedgerFields
<1>2. /\ c \in Seq(Block) /\ Len(c) = Len(bs)
      /\ \A x \in 1..Len(bs) :
           /\ c[x].kind = bs[x].kind /\ c[x].pieces = bs[x].pieces
           /\ c[x].open <=> bs[x].open /\ x \notin B
           /\ x \notin B => c[x] = bs[x]
  <2>1. Stops(bs, c, B) BY <1>1, StoppedBlocksFacts
  <2> HIDE DEF bs, c
  <2> QED BY <2>1 DEF Stops
<1>3. Is(r, c, l.content, l.out \o g, l.tools)
  BY StopBlocksIs
<1>4. B \subseteq Nat
  <2>1. \A x \in 1..Len(bs) : x \in Nat OBVIOUS
  <2> QED BY <2>1
<1>5. /\ g \in Seq(Frame) /\ Len(g) = Len(s)
      /\ \A k \in 1..Len(s) : g[k] = <<"stop", s[k]>> /\ FName(g[k]) = "stop" /\ FBlock(g[k]) = s[k]
  BY <1>4, StopFramesFacts DEF Enumerates
<1> HIDE DEF c, g, r, bs
<1>6. m \o (l.out \o g) = (m \o l.out) \o g /\ l.out \o g \in Seq(Frame)
  BY <1>1, <1>5, ConcatAssociates
<1>7. r \in Ledger
  BY <1>1, <1>2, <1>3, <1>6, IsLedger
<1>8. r.blocks = c /\ r.content = l.content /\ r.out = l.out \o g /\ r.tools = l.tools
  BY <1>3, IsFields
<1>9. \A k \in 1..Len(s) : s[k] \in B /\ s[k] \in 1..Len(bs) /\ bs[s[k]].open
  <2>1. \A k \in 1..Len(s) : s[k] \in B BY DEF Enumerates
  <2> QED BY <2>1 DEF bs
<1>10. Matches(c, (m \o l.out) \o g)
  <2>1. \A k \in 1..Len(g) : FName(g[k]) \in {"delta", "stop"} /\ Touches(bs, g[k])
    BY <1>5, <1>9 DEF Touches
  <2>2. \A j, k \in 1..Len(g) : FBlock(g[j]) = FBlock(g[k]) => j = k
    BY <1>5 DEF Enumerates
  <2>3. ASSUME NEW x \in 1..Len(bs)
        PROVE  /\ c[x].kind = bs[x].kind
               /\ (\A k \in 1..Len(g) : FBlock(g[k]) # x) => c[x] = bs[x]
               /\ \A k \in 1..Len(g) : FBlock(g[k]) = x =>
                    /\ c[x].open <=> bs[x].open /\ g[k] # <<"stop", x>>
                    /\ c[x].kind = "tool_use" => c[x].pieces = bs[x].pieces + Part(g[k], x)
    <3>1. (\A k \in 1..Len(g) : FBlock(g[k]) # x) => x \notin B
      BY <1>5 DEF Enumerates
    <3>2. ASSUME NEW k \in 1..Len(g), FBlock(g[k]) = x
          PROVE  /\ c[x].open <=> bs[x].open /\ g[k] # <<"stop", x>>
                 /\ c[x].kind = "tool_use" => c[x].pieces = bs[x].pieces + Part(g[k], x)
      <4>1. g[k] = <<"stop", x>> /\ x \in B /\ FName(g[k]) = "stop" /\ g[k] \in Frame
        BY <1>5, <1>9, <3>2
      <4>2. Part(g[k], x) = 0
        <5>1. FName(g[k]) # "delta" BY <4>1
        <5> QED BY <4>1, <5>1, PartFacts
      <4>3. bs[x].pieces \in Nat BY <1>1, BlockFacts
      <4> QED BY <1>2, <4>1, <4>2, <4>3
    <3> QED BY <1>2, <3>1, <3>2
  <2>4. Matches(bs, m \o l.out) BY DEF bs
  <2> QED BY <1>2, <1>5, <2>1, <2>2, <2>3, <2>4, MatchesMoves
<1>11. Matches(r.blocks, m \o r.out)
  BY <1>6, <1>8, <1>10
<1> QED BY <1>2, <1>7, <1>8, <1>11 DEF r, bs, Stopping

(* The same for pieces of several calls.                                    *)
FedBlocks(bs, B, n) ==
  [i \in 1..Len(bs) |-> IF i \in B THEN [bs[i] EXCEPT !.pieces = @ + n[i]] ELSE bs[i]]
DeltaFrames(s, n) == [k \in 1..Len(s) |-> <<"delta", s[k], "tool_use", n[s[k]]>>]

LEMMA DeltaBlocksIs ==
  ASSUME NEW l \in Ledger, NEW B, NEW n
  PROVE  Is(DeltaBlocks(l, B, n), FedBlocks(l.blocks, B, n), l.content,
            l.out \o DeltaFrames(InOrder(B), n), l.tools)
<1>1. DeltaBlocks(l, B, n)
        = [l EXCEPT !.blocks = FedBlocks(l.blocks, B, n), !.out = l.out \o DeltaFrames(InOrder(B), n)]
  BY Zenon DEF DeltaBlocks, FedBlocks, DeltaFrames
<1>2. Is(l, l.blocks, l.content, l.out, l.tools)
  BY LedgerFields
<1>3. PICK x, y : x = FedBlocks(l.blocks, B, n) /\ y = l.out \o DeltaFrames(InOrder(B), n)
  OBVIOUS
<1>4. DeltaBlocks(l, B, n) = [l EXCEPT !.blocks = x, !.out = y]
  BY <1>1, <1>3
<1>6. Is([l EXCEPT !.blocks = x, !.out = y], x, l.content, y, l.tools)
  BY <1>2, IsBlocksAndOut
<1>5. Is(DeltaBlocks(l, B, n), x, l.content, y, l.tools)
  BY <1>4, <1>6
<1> QED BY <1>3, <1>5

(* c is bs with n[x] pieces more in each block x of B.                      *)
Feeds(bs, c, B, n) ==
  /\ c \in Seq(Block) /\ Len(c) = Len(bs)
  /\ \A x \in 1..Len(bs) :
       /\ c[x].kind = bs[x].kind /\ c[x].open = bs[x].open
       /\ x \in B => c[x].pieces = bs[x].pieces + n[x]
       /\ x \notin B => c[x] = bs[x]

LEMMA FedBlocksFacts ==
  ASSUME NEW bs \in Seq(Block), NEW B, B \subseteq 1..Len(bs), NEW n,
         \A i \in B : n[i] \in Nat /\ bs[i].pieces + n[i] <= Whole
  PROVE  Feeds(bs, FedBlocks(bs, B, n), B, n)
<1> DEFINE c == FedBlocks(bs, B, n)
           fed(x) == [bs[x] EXCEPT !.pieces = @ + n[x]]
<1>1. c = [x \in 1..Len(bs) |-> IF x \in B THEN fed(x) ELSE bs[x]]
  BY DEF FedBlocks
<1>2. ASSUME NEW x \in B
      PROVE  /\ fed(x) \in Block /\ fed(x).kind = bs[x].kind /\ fed(x).open = bs[x].open
             /\ fed(x).pieces = bs[x].pieces + n[x]
  <2>1. x \in 1..Len(bs) /\ bs[x] \in Block OBVIOUS
  <2>2. /\ bs[x].pieces \in Nat /\ bs[x].kind \in Kinds /\ bs[x].open \in BOOLEAN
        /\ n[x] \in Nat /\ bs[x].pieces + n[x] <= Whole /\ Whole \in Nat
    BY <2>1, BlockFacts, ToolAssumption
  <2>3. bs[x].pieces + n[x] \in 0..Whole
    BY <2>2
  <2>4. /\ fed(x).kind = bs[x].kind /\ fed(x).open = bs[x].open
        /\ fed(x).pieces = bs[x].pieces + n[x]
        /\ fed(x) = [kind |-> bs[x].kind, open |-> bs[x].open, pieces |-> bs[x].pieces + n[x]]
    BY <2>1 DEF Block
  <2>5. [kind |-> bs[x].kind, open |-> bs[x].open, pieces |-> bs[x].pieces + n[x]] \in Block
    BY <2>2, <2>3, BlockIsBlock
  <2> QED BY <2>4, <2>5
<1> HIDE DEF c, fed
<1>3. \A x \in 1..Len(bs) : bs[x] \in Block
  OBVIOUS
<1>4. c \in [1..Len(bs) -> Block]
  BY <1>1, <1>2, <1>3
<1>5. c \in Seq(Block) /\ Len(c) = Len(bs)
  <2>1. Len(bs) \in Nat OBVIOUS
  <2> QED BY <1>1, <1>4, <2>1
<1>6. ASSUME NEW x \in 1..Len(bs)
      PROVE  /\ c[x].kind = bs[x].kind /\ c[x].open = bs[x].open
             /\ x \in B => c[x].pieces = bs[x].pieces + n[x]
             /\ x \notin B => c[x] = bs[x]
  BY <1>1, <1>2
<1> QED BY <1>5, <1>6 DEF c, Feeds

Feeding(g, s, n) ==
  /\ g \in Seq(Frame) /\ Len(g) = Len(s)
  /\ \A k \in 1..Len(s) :
       /\ g[k] = <<"delta", s[k], "tool_use", n[s[k]]>>
       /\ FName(g[k]) = "delta" /\ FBlock(g[k]) = s[k] /\ FKind(g[k]) = "tool_use"

LEMMA DeltaFramesFacts ==
  ASSUME NEW N, N \subseteq Nat, NEW s \in Seq(N), NEW n, \A i \in N : n[i] \in Nat
  PROVE  Feeding(DeltaFrames(s, n), s, n)
<1> DEFINE g == DeltaFrames(s, n)
           f(k) == <<"delta", s[k], "tool_use", n[s[k]]>>
<1>1. Len(s) \in Nat /\ \A k \in 1..Len(s) : s[k] \in Nat /\ n[s[k]] \in Nat
  <2>1. Len(s) \in Nat /\ \A k \in 1..Len(s) : s[k] \in N OBVIOUS
  <2> QED BY <2>1
<1>2. g = [k \in 1..Len(s) |-> f(k)]
  BY DEF DeltaFrames
<1>3. ASSUME NEW k \in 1..Len(s)
      PROVE  f(k) \in Frame /\ FName(f(k)) = "delta" /\ FBlock(f(k)) = s[k] /\ FKind(f(k)) = "tool_use"
  <2>1. s[k] \in Nat /\ n[s[k]] \in Nat /\ "tool_use" \in Kinds BY <1>1 DEF Kinds
  <2> QED BY <2>1, NewFrames
<1> HIDE DEF g
<1>4. g \in [1..Len(s) -> Frame]
  BY <1>2, <1>3
<1>5. g \in Seq(Frame) /\ Len(g) = Len(s)
  BY <1>1, <1>4, FramesInSeq
<1>6. \A k \in 1..Len(s) : g[k] = f(k)
  BY <1>2
<1> HIDE DEF f
<1>7. \A k \in 1..Len(s) : FName(g[k]) = "delta" /\ FBlock(g[k]) = s[k] /\ FKind(g[k]) = "tool_use"
  BY <1>3, <1>6
<1> QED BY <1>5, <1>6, <1>7 DEF f, g, Feeding

LEMMA DeltaBlocksAgree ==
  ASSUME NEW l, NEW m, Agrees(l, m), NEW B, NEW n,
         \A i \in B : /\ i # 0 /\ \E t \in Tools : l.tools[t].block = i
                      /\ n[i] \in Nat /\ l.blocks[i].pieces + n[i] <= Whole
  PROVE  /\ Agrees(DeltaBlocks(l, B, n), m)
         /\ Len(DeltaBlocks(l, B, n).blocks) = Len(l.blocks) /\ DeltaBlocks(l, B, n).tools = l.tools
         /\ \A x \in 1..Len(l.blocks) :
              /\ DeltaBlocks(l, B, n).blocks[x].kind = l.blocks[x].kind
              /\ x \in B => DeltaBlocks(l, B, n).blocks[x].pieces = l.blocks[x].pieces + n[x]
              /\ x \notin B => DeltaBlocks(l, B, n).blocks[x] = l.blocks[x]
<1> DEFINE bs == l.blocks
           s == InOrder(B)
           c == FedBlocks(bs, B, n)
           g == DeltaFrames(s, n)
           r == DeltaBlocks(l, B, n)
<1>0. /\ l \in Ledger /\ m \in Seq(Frame) /\ Fits(bs, l.content, l.tools) /\ Matches(bs, m \o l.out)
  BY DEF Agrees
<1>1. /\ bs \in Seq(Block) /\ l.content \in [Content -> Nat] /\ l.out \in Seq(Frame)
      /\ l.tools \in [Tools -> ToolState] /\ Len(bs) \in Nat
  BY <1>0, LedgerFields
<1>2. \A i \in B : i \in 1..Len(bs) /\ bs[i].kind = "tool_use" /\ bs[i].open
  BY <1>0 DEF Fits
<1>3. B \subseteq 1..Len(bs) /\ B \subseteq Nat
  <2>1. \A x \in 1..Len(bs) : x \in Nat OBVIOUS
  <2> QED BY <1>2, <2>1
<1>4. Enumerates(s, B)
  BY <1>1, <1>3, InOrderEnumerates
<1>5. /\ c \in Seq(Block) /\ Len(c) = Len(bs)
      /\ \A x \in 1..Len(bs) :
           /\ c[x].kind = bs[x].kind /\ c[x].open = bs[x].open
           /\ x \in B => c[x].pieces = bs[x].pieces + n[x]
           /\ x \notin B => c[x] = bs[x]
  <2>1. Feeds(bs, c, B, n) BY <1>1, <1>3, FedBlocksFacts
  <2> HIDE DEF bs, c
  <2> QED BY <2>1 DEF Feeds
<1>6. Is(r, c, l.content, l.out \o g, l.tools)
  BY <1>0, DeltaBlocksIs
<1>7. /\ g \in Seq(Frame) /\ Len(g) = Len(s)
      /\ \A k \in 1..Len(s) :
           /\ g[k] = <<"delta", s[k], "tool_use", n[s[k]]>>
           /\ FName(g[k]) = "delta" /\ FBlock(g[k]) = s[k] /\ FKind(g[k]) = "tool_use"
  <2>1. s \in Seq(B) BY <1>4 DEF Enumerates
  <2>2. \A i \in B : n[i] \in Nat OBVIOUS
  <2> HIDE DEF s
  <2>3. Feeding(g, s, n) BY <1>3, <2>1, <2>2, DeltaFramesFacts
  <2> HIDE DEF g
  <2> QED BY <2>3 DEF Feeding
<1>14. \A i \in B : \E t \in Tools : l.tools[t].block = i
  OBVIOUS
<1> HIDE DEF c, g, r, bs, s
<1>8. m \o (l.out \o g) = (m \o l.out) \o g /\ l.out \o g \in Seq(Frame)
  BY <1>0, <1>1, <1>7, ConcatAssociates
<1>9. r \in Ledger
  BY <1>1, <1>5, <1>6, <1>8, IsLedger
<1>10. r.blocks = c /\ r.content = l.content /\ r.out = l.out \o g /\ r.tools = l.tools
  <2>1. PICK y : y = l.out \o g OBVIOUS
  <2>2. Is(r, c, l.content, y, l.tools) BY <1>6, <2>1
  <2>3. r.blocks = c /\ r.content = l.content /\ r.out = y /\ r.tools = l.tools
    BY <2>2, IsFields
  <2> QED BY <2>1, <2>3
<1>11. \A k \in 1..Len(s) : s[k] \in B
  BY <1>4 DEF Enumerates
<1>12. Matches(c, (m \o l.out) \o g)
  <2>1. \A k \in 1..Len(g) : FName(g[k]) \in {"delta", "stop"} /\ Touches(bs, g[k])
    BY <1>2, <1>7, <1>11 DEF Touches
  <2>2. \A j, k \in 1..Len(g) : FBlock(g[j]) = FBlock(g[k]) => j = k
    BY <1>4, <1>7 DEF Enumerates
  <2>3. ASSUME NEW x \in 1..Len(bs)
        PROVE  /\ c[x].kind = bs[x].kind
               /\ (\A k \in 1..Len(g) : FBlock(g[k]) # x) => c[x] = bs[x]
               /\ \A k \in 1..Len(g) : FBlock(g[k]) = x =>
                    /\ c[x].open <=> bs[x].open /\ g[k] # <<"stop", x>>
                    /\ c[x].kind = "tool_use" => c[x].pieces = bs[x].pieces + Part(g[k], x)
    <3>1. (\A k \in 1..Len(g) : FBlock(g[k]) # x) => x \notin B
      BY <1>4, <1>7 DEF Enumerates
    <3>2. ASSUME NEW k \in 1..Len(g), FBlock(g[k]) = x
          PROVE  /\ c[x].open <=> bs[x].open /\ g[k] # <<"stop", x>>
                 /\ c[x].kind = "tool_use" => c[x].pieces = bs[x].pieces + Part(g[k], x)
      <4>1. g[k] = <<"delta", x, "tool_use", n[x]>> /\ x \in B
        BY <1>7, <1>11, <3>2
      <4>2. Part(g[k], x) = n[x] /\ g[k] # <<"stop", x>>
        BY <4>1 DEF Part
      <4> QED BY <1>5, <4>1, <4>2
    <3> QED BY <1>5, <3>1, <3>2
  <2> QED BY <1>0, <1>5, <1>7, <2>1, <2>2, <2>3, MatchesMoves
<1>13. Fits(c, l.content, l.tools)
  <2>1. \A x \in 1..Len(bs) : c[x].kind = bs[x].kind /\ c[x].open = bs[x].open
    BY <1>5
  <2>2. \A x \in 1..Len(bs) : c[x].pieces = bs[x].pieces \/ \E t \in Tools : l.tools[t].block = x
    BY <1>5, <1>14
  <2> QED BY <1>0, <1>5, <2>1, <2>2, FitsPieces
<1>15. Agrees(r, m)
  BY <1>0, <1>8, <1>9, <1>10, <1>12, <1>13 DEF Agrees
<1> QED BY <1>5, <1>10, <1>15 DEF r, bs

-----------------------------------------------------------------------------
(* The end of an answer.                                                    *)

(* r is l with no block left open.                                          *)
Shut(l, r, m) ==
  /\ r \in Ledger /\ m \in Seq(Frame) /\ Matches(r.blocks, m \o r.out)
  /\ \A x \in 1..Len(r.blocks) : ~r.blocks[x].open
  /\ Keeps(l, r) /\ SameCalls(l, r)

LEMMA StopBlocksKeeps ==
  ASSUME NEW l \in Ledger, NEW m \in Seq(Frame), Matches(l.blocks, m \o l.out),
         NEW B, B \subseteq 1..Len(l.blocks), \A x \in 1..Len(l.blocks) : l.blocks[x].open <=> x \in B,
         NEW s, Enumerates(s, B)
  PROVE  Shut(l, StopBlocks(l, s), m) /\ StopBlocks(l, s).content = l.content
<1> DEFINE r == StopBlocks(l, s)
<1>1. \A i \in B : l.blocks[i].open
  OBVIOUS
<1>2. /\ r \in Ledger /\ Len(r.blocks) = Len(l.blocks) /\ r.content = l.content /\ r.tools = l.tools
      /\ \A x \in 1..Len(l.blocks) :
           /\ r.blocks[x].kind = l.blocks[x].kind /\ r.blocks[x].pieces = l.blocks[x].pieces
           /\ r.blocks[x].open <=> l.blocks[x].open /\ x \notin B
      /\ Matches(r.blocks, m \o r.out)
  <2>1. Stopping(l, r, m, B) BY <1>1, StopBlocksMatches
  <2> HIDE DEF r
  <2> QED BY <2>1 DEF Stopping
<1> HIDE DEF r
<1>3. \A x \in 1..Len(r.blocks) : ~r.blocks[x].open
  BY <1>2
<1>4. Len(l.blocks) \in Nat
  BY LedgerFields
<1>5. Keeps(l, r) /\ SameCalls(l, r)
  BY <1>2, <1>4 DEF Keeps, SameCalls, ToolBlocks
<1>6. Shut(l, r, m)
  BY <1>2, <1>3, <1>5 DEF Shut
<1> QED BY <1>2, <1>6 DEF r

(* Closing every call and the content closes all there is.                  *)
LEMMA CloseAllShuts ==
  ASSUME NEW l, NEW m, Agrees(l, m)
  PROVE  Shut(l, CloseAllBlocks(l), m)
<1> DEFINE c == CloseContentBlocks(l)
           B == {l.tools[t].block : t \in Tools} \ {0}
           r == CloseAllBlocks(l)
<1>1. Sound(l, c, m) /\ \A kind \in Content : c.content[kind] = 0
  BY ContentSound
<1>2. r = StopBlocks(c, InOrder(B))
  BY DEF CloseAllBlocks
<1> HIDE DEF c, r
<1>3. /\ c \in Ledger /\ m \in Seq(Frame) /\ Fits(c.blocks, c.content, c.tools)
      /\ Matches(c.blocks, m \o c.out) /\ c.tools = l.tools
  BY <1>1 DEF Sound, Agrees, Keeps
<1>4. c.blocks \in Seq(Block) /\ Len(c.blocks) \in Nat
  BY <1>3, LedgerFields
<1>5. \A i \in B : i \in 1..Len(c.blocks) /\ c.blocks[i].open
  BY <1>3 DEF Fits
<1>6. ASSUME NEW x \in 1..Len(c.blocks), c.blocks[x].open PROVE x \in B
  <2>1. c.blocks[x].kind \in Kinds BY <1>4, BlockFacts
  <2>2. x # 0 OBVIOUS
  <2>3. c.blocks[x].kind \notin Content
    <3>1. c.blocks[x].kind \in Content => c.content[c.blocks[x].kind] = x BY <1>3, <1>6 DEF Fits
    <3> QED BY <3>1, <2>2, <1>1
  <2>4. c.blocks[x].kind = "tool_use" BY <2>1, <2>3 DEF Kinds, Content
  <2>5. \E t \in Tools : c.tools[t].block = x BY <2>4, <1>3, <1>6 DEF Fits
  <2> QED BY <2>2, <2>5, <1>3
<1> HIDE DEF B
<1>7. B \subseteq 1..Len(c.blocks)
  BY <1>5
<1>8. Enumerates(InOrder(B), B)
  BY <1>4, <1>7, InOrderEnumerates
<1>9. \A x \in 1..Len(c.blocks) : c.blocks[x].open <=> x \in B
  BY <1>5, <1>6
<1>10. Shut(c, StopBlocks(c, InOrder(B)), m)
  BY <1>3, <1>7, <1>8, <1>9, StopBlocksKeeps
<1>11. Shut(c, r, m)
  BY <1>2, <1>10
<1>12. Keeps(l, r) /\ SameCalls(l, r)
  <2>1. l \in Ledger /\ r \in Ledger BY <1>11 DEF Agrees, Shut
  <2> QED BY <2>1, <1>1, <1>3, <1>11, KeepsCompose DEF Sound, Shut
<1> QED BY <1>11, <1>12 DEF Shut, r

LEMMA CloseUnclosedShuts ==
  ASSUME NEW l, NEW m, Agrees(l, m)
  PROVE  Shut(l, CloseUnclosedBlocks(l), m)
<1> DEFINE B == {i \in 1..Len(l.blocks) : l.blocks[i].open}
           s == LastFirst(InOrder(B))
           d == StopBlocks(l, s)
           none == [kind \in Content |-> 0]
           r == CloseUnclosedBlocks(l)
<1>1. l \in Ledger /\ m \in Seq(Frame) /\ Matches(l.blocks, m \o l.out)
  BY DEF Agrees
<1>2. Len(l.blocks) \in Nat /\ B \subseteq 1..Len(l.blocks)
  BY <1>1, LedgerFields
<1>3. r = [d EXCEPT !.content = none]
  BY DEF CloseUnclosedBlocks
<1>4. \A x \in 1..Len(l.blocks) : l.blocks[x].open <=> x \in B
  OBVIOUS
<1> HIDE DEF B
<1>5. Enumerates(s, B)
  BY <1>2, InOrderEnumerates
<1> HIDE DEF s
<1>6. Shut(l, d, m)
  BY <1>1, <1>2, <1>4, <1>5, StopBlocksKeeps
<1>7. none \in [Content -> Nat]
  OBVIOUS
<1> HIDE DEF d, r, none
<1>8. /\ d.blocks \in Seq(Block) /\ d.out \in Seq(Frame) /\ d.tools \in [Tools -> ToolState]
      /\ Is(d, d.blocks, d.content, d.out, d.tools)
  BY <1>6, LedgerFields DEF Shut
<1>9. Is(r, d.blocks, none, d.out, d.tools)
  BY <1>3, <1>8, IsContent
<1>10. r \in Ledger
  BY <1>7, <1>8, <1>9, IsLedger
<1>11. r.blocks = d.blocks /\ r.out = d.out /\ r.tools = d.tools
  BY <1>9, IsFields
<1>12. Shut(l, r, m)
  BY <1>6, <1>10, <1>11 DEF Shut, Keeps, SameCalls, ToolBlocks
<1> QED BY <1>12 DEF r

(* What waits in the buffers is let go.                                     *)
LEMMA FlushedAgrees ==
  ASSUME NEW l, NEW m, Agrees(l, m), Budget(l), NEW call
  PROVE  /\ Agrees(Flushed(l, call), m) /\ Budget(Flushed(l, call))
         /\ Len(Flushed(l, call).blocks) = Len(l.blocks)
<1> DEFINE waiting == {t \in Tools : CallOf[t] = call /\ l.tools[t].buffer > 0}
           B == {l.tools[t].block : t \in waiting}
           left == [i \in B |-> IF call = "task" THEN 0 ELSE l.tools[CallIn(l, i)].buffer]
           d == DeltaBlocks(l, B, left)
           T == [t \in Tools |-> IF t \in waiting THEN [l.tools[t] EXCEPT !.buffer = 0] ELSE l.tools[t]]
           r == Flushed(l, call)
<1>1. l \in Ledger /\ Fits(l.blocks, l.content, l.tools)
  BY DEF Agrees
<1>2. \A t, u \in Tools : l.tools[t].block = l.tools[u].block /\ l.tools[t].block # 0 => t = u
  BY <1>1 DEF Fits
<1>3. \A t \in Tools : Pays(l, t)
  BY DEF Budget
<1>4. ASSUME NEW t \in Tools
      PROVE  /\ l.tools[t] \in ToolState /\ l.tools[t].pre \in Nat /\ l.tools[t].buffer \in Nat
             /\ l.tools[t].block \in Nat /\ Sent(l, t) \in Nat /\ Whole \in Nat
             /\ l.tools[t].block # 0 => Sent(l, t) = l.blocks[l.tools[t].block].pieces
  BY <1>1, ToolFacts, ToolBlockFacts, ToolAssumption
<1>5. ASSUME NEW t \in waiting
      PROVE  /\ t \in Tools /\ l.tools[t].block # 0
             /\ left[l.tools[t].block] \in Nat /\ left[l.tools[t].block] <= l.tools[t].buffer
  <2>1. t \in Tools /\ l.tools[t].buffer > 0 /\ l.tools[t].block # 0
    <3>1. t \in Tools /\ l.tools[t].buffer > 0 OBVIOUS
    <3>2. l.tools[t].buffer # 0 BY <3>1, <1>4
    <3> QED BY <3>1, <3>2, <1>3 DEF Pays
  <2>2. CallIn(l, l.tools[t].block) = t
    <3>1. CallIn(l, l.tools[t].block) \in Tools
          /\ l.tools[CallIn(l, l.tools[t].block)].block = l.tools[t].block
      BY <2>1 DEF CallIn
    <3> QED BY <3>1, <2>1, <1>2
  <2>3. left[l.tools[t].block] = IF call = "task" THEN 0 ELSE l.tools[t].buffer
    <3>1. l.tools[t].block \in B OBVIOUS
    <3> HIDE DEF B
    <3> QED BY <3>1, <2>2
  <2> HIDE DEF left, waiting
  <2> QED BY <2>1, <2>3, <1>4
<1>6. r = [d EXCEPT !.tools = T]
  <2>1. r = [DeltaBlocks(l, DOMAIN left, left) EXCEPT !.tools =
               [t \in Tools |-> IF t \in waiting THEN [d.tools[t] EXCEPT !.buffer = 0] ELSE d.tools[t]]]
    BY DEF Flushed
  <2>2. DOMAIN left = B
    OBVIOUS
  <2>3. d.tools = l.tools
    BY LedgerFields, <1>1, DeltaBlocksIs, IsFields
  <2> HIDE DEF left, B, d, waiting
  <2> QED BY <2>1, <2>2, <2>3 DEF d
<1>7. \A t \in Tools : T[t] = IF t \in waiting THEN [l.tools[t] EXCEPT !.buffer = 0] ELSE l.tools[t]
  OBVIOUS
<1>8. /\ T \in [Tools -> ToolState]
      /\ \A t \in Tools : T[t].block = l.tools[t].block /\ T[t].pre = l.tools[t].pre
      /\ \A t \in Tools : T[t].buffer = IF t \in waiting THEN 0 ELSE l.tools[t].buffer
  <2> HIDE DEF waiting
  <2>1. ASSUME NEW t \in Tools
        PROVE  /\ [l.tools[t] EXCEPT !.buffer = 0] \in ToolState
               /\ [l.tools[t] EXCEPT !.buffer = 0].block = l.tools[t].block
               /\ [l.tools[t] EXCEPT !.buffer = 0].pre = l.tools[t].pre
               /\ [l.tools[t] EXCEPT !.buffer = 0].buffer = 0
    <3>1. 0 \in 0..Whole BY ToolAssumption
    <3> QED BY <1>4, <3>1 DEF ToolState
  <2>2. \A t \in Tools : T[t] \in ToolState
    BY <1>4, <2>1
  <2> QED BY <1>4, <1>7, <2>1, <2>2
<1>9. \A i \in B : \E t \in waiting : l.tools[t].block = i
  OBVIOUS
<1>10. \A t \in waiting : l.tools[t].block \in B
  OBVIOUS
<1> HIDE DEF left, B, d, T, r
<1>11. ASSUME NEW i \in B
       PROVE  /\ i # 0 /\ \E t \in Tools : l.tools[t].block = i
              /\ left[i] \in Nat /\ l.blocks[i].pieces + left[i] <= Whole
  <2>1. PICK t \in waiting : l.tools[t].block = i
    BY <1>9
  <2>2. t \in Tools /\ i # 0 /\ left[i] \in Nat /\ left[i] <= l.tools[t].buffer
    BY <1>5, <2>1
  <2>3. Sent(l, t) = l.blocks[i].pieces
    BY <1>4, <2>1, <2>2
  <2>4. l.tools[t].pre + l.tools[t].buffer + Sent(l, t) <= Whole
    BY <1>3, <2>2 DEF Pays
  <2>5. l.blocks[i].pieces + left[i] <= Whole
    BY <1>4, <2>2, <2>3, <2>4
  <2> QED BY <2>1, <2>2, <2>5
<1>12. /\ Agrees(d, m) /\ Len(d.blocks) = Len(l.blocks) /\ d.tools = l.tools
       /\ \A x \in 1..Len(l.blocks) :
            /\ x \in B => d.blocks[x].pieces = l.blocks[x].pieces + left[x]
            /\ x \notin B => d.blocks[x] = l.blocks[x]
  BY <1>11, DeltaBlocksAgree DEF d
<1>13. /\ d \in Ledger /\ m \in Seq(Frame) /\ Fits(d.blocks, d.content, d.tools)
       /\ Matches(d.blocks, m \o d.out)
  BY <1>12 DEF Agrees
<1>14. /\ d.blocks \in Seq(Block) /\ d.content \in [Content -> Nat] /\ d.out \in Seq(Frame)
       /\ Is(d, d.blocks, d.content, d.out, d.tools)
  BY <1>13, LedgerFields
<1>15. Is(r, d.blocks, d.content, d.out, T)
  BY <1>6, <1>14, IsTools
<1>16. r \in Ledger
  BY <1>8, <1>14, <1>15, IsLedger
<1>17. r.blocks = d.blocks /\ r.content = d.content /\ r.out = d.out /\ r.tools = T
  BY <1>15, IsFields
<1>18. Fits(d.blocks, d.content, T)
  BY <1>8, <1>12, <1>13, FitsTools
<1>19. Agrees(r, m)
  BY <1>13, <1>16, <1>17, <1>18 DEF Agrees
<1>20. ASSUME NEW t \in Tools PROVE Pays(r, t)
  <2>1. /\ r.tools[t].block = l.tools[t].block /\ r.tools[t].pre = l.tools[t].pre
        /\ r.tools[t].buffer = IF t \in waiting THEN 0 ELSE l.tools[t].buffer
    BY <1>8, <1>17
  <2>2. CASE t \in waiting
    <3> DEFINE i == l.tools[t].block
    <3>1. i \in B /\ i # 0 /\ left[i] \in Nat /\ left[i] <= l.tools[t].buffer
      BY <1>5, <1>10, <2>2
    <3>2. i \in 1..Len(l.blocks)
      BY <1>1, <3>1 DEF Fits
    <3>3. Sent(r, t) = Sent(l, t) + left[i]
      <4>1. Sent(r, t) = d.blocks[i].pieces BY <1>17, <2>1, <3>1 DEF Sent
      <4>2. Sent(l, t) = l.blocks[i].pieces BY <3>1 DEF Sent
      <4> QED BY <1>12, <3>1, <3>2, <4>1, <4>2
    <3>4. r.tools[t].buffer = 0 BY <2>1, <2>2
    <3>5. r.tools[t].pre + r.tools[t].buffer + Sent(r, t) <= Whole
      <4>1. l.tools[t].pre + l.tools[t].buffer + Sent(l, t) <= Whole BY <1>3 DEF Pays
      <4> HIDE DEF i
      <4> QED BY <1>4, <2>1, <3>1, <3>3, <3>4, <4>1
    <3> QED BY <3>4, <3>5 DEF Pays
  <2>3. CASE t \notin waiting
    <3>1. Sent(r, t) = Sent(l, t)
      <4>1. CASE l.tools[t].block = 0 BY <4>1, <2>1 DEF Sent
      <4>2. CASE l.tools[t].block # 0
        <5>1. l.tools[t].block \notin B
          <6>1. SUFFICES ASSUME l.tools[t].block \in B PROVE FALSE OBVIOUS
          <6>2. PICK u \in waiting : l.tools[u].block = l.tools[t].block BY <1>9, <6>1
          <6>3. u = t BY <1>2, <1>5, <4>2, <6>2
          <6> QED BY <6>3, <2>3
        <5>2. l.tools[t].block \in 1..Len(l.blocks) BY <4>2, <1>1 DEF Fits
        <5>3. d.blocks[l.tools[t].block] = l.blocks[l.tools[t].block] BY <1>12, <5>1, <5>2
        <5> QED BY <5>3, <2>1, <1>17, <4>2 DEF Sent
      <4> QED BY <4>1, <4>2
    <3>2. r.tools[t].buffer = l.tools[t].buffer BY <2>1, <2>3
    <3> QED BY <1>3, <2>1, <3>1, <3>2 DEF Pays
  <2> QED BY <2>2, <2>3
<1>21. Budget(r)
  BY <1>20 DEF Budget
<1> QED BY <1>12, <1>17, <1>19, <1>21 DEF r

(* The upstream was asked for the rest of every call: each is whole.        *)
WholeCalls(l) == \A x \in ToolBlocks(l) : l.blocks[x].pieces = Whole

LEMMA RepairToolsAgrees ==
  ASSUME NEW l, NEW m, Agrees(l, m)
  PROVE  /\ Agrees(RepairTools(l), m) /\ WholeCalls(RepairTools(l))
         /\ Len(RepairTools(l).blocks) = Len(l.blocks)
<1> DEFINE D == {l.tools[t].block : t \in Tools} \ {0}
           rest == [i \in D |-> Whole - l.blocks[i].pieces]
           B == {i \in D : rest[i] > 0}
           r == RepairTools(l)
<1>1. l \in Ledger /\ Fits(l.blocks, l.content, l.tools)
  BY DEF Agrees
<1>2. l.blocks \in Seq(Block) /\ Whole \in Nat
  BY <1>1, LedgerFields, ToolAssumption
<1>3. r = DeltaBlocks(l, B, rest)
  <2>1. DOMAIN rest = D OBVIOUS
  <2> QED BY <2>1 DEF RepairTools
<1>4. ASSUME NEW i \in D
      PROVE  /\ i # 0 /\ i \in 1..Len(l.blocks) /\ \E t \in Tools : l.tools[t].block = i
             /\ rest[i] = Whole - l.blocks[i].pieces
             /\ l.blocks[i].pieces \in Nat /\ l.blocks[i].pieces <= Whole
  <2>1. i # 0 /\ \E t \in Tools : l.tools[t].block = i OBVIOUS
  <2>2. i \in 1..Len(l.blocks) BY <2>1, <1>1 DEF Fits
  <2>3. l.blocks[i].pieces \in Nat /\ l.blocks[i].pieces <= Whole BY <2>2, <1>2, BlockFacts
  <2>4. rest[i] = Whole - l.blocks[i].pieces OBVIOUS
  <2> QED BY <2>1, <2>2, <2>3, <2>4
<1>5. \A x : x # 0 /\ (\E t \in Tools : l.tools[t].block = x) => x \in D
  OBVIOUS
<1> HIDE DEF D, rest, r
<1>6. \A i \in B : /\ i # 0 /\ \E t \in Tools : l.tools[t].block = i
                   /\ rest[i] \in Nat /\ l.blocks[i].pieces + rest[i] <= Whole
  BY <1>2, <1>4
<1>7. /\ Agrees(r, m) /\ Len(r.blocks) = Len(l.blocks)
      /\ \A x \in 1..Len(l.blocks) :
           /\ r.blocks[x].kind = l.blocks[x].kind
           /\ x \in B => r.blocks[x].pieces = l.blocks[x].pieces + rest[x]
           /\ x \notin B => r.blocks[x] = l.blocks[x]
  <2> HIDE DEF B
  <2> QED BY <1>3, <1>6, DeltaBlocksAgree
<1>8. ASSUME NEW x \in 1..Len(r.blocks), r.blocks[x].kind = "tool_use" PROVE r.blocks[x].pieces = Whole
  <2>1. x \in 1..Len(l.blocks) /\ l.blocks[x].kind = "tool_use" /\ x # 0
        /\ l.blocks[x].pieces \in Nat /\ l.blocks[x].pieces <= Whole
    BY <1>2, <1>7, <1>8, BlockFacts
  <2>2. CASE x \in B
    BY <1>2, <1>4, <1>7, <2>1, <2>2
  <2>3. CASE x \notin B
    <3>1. r.blocks[x] = l.blocks[x] BY <1>7, <2>1, <2>3
    <3>2. CASE x \in D
      <4>1. ~(rest[x] > 0) /\ rest[x] = Whole - l.blocks[x].pieces BY <1>4, <2>3, <3>2
      <4> QED BY <1>2, <2>1, <3>1, <4>1
    <3>3. CASE x \notin D
      <4>1. \A t \in Tools : l.tools[t].block # x BY <1>5, <2>1, <3>3
      <4> QED BY <4>1, <1>1, <2>1, <3>1 DEF Fits
    <3> QED BY <3>2, <3>3
  <2> QED BY <2>2, <2>3
<1>9. WholeCalls(r)
  BY <1>8 DEF WholeCalls, ToolBlocks
<1> QED BY <1>7, <1>9 DEF r

-----------------------------------------------------------------------------
(* The last frames.                                                         *)

(* w is a legal stream that starts the blocks bs, no other, leaves none     *)
(* open, and has all the pieces of each call.                               *)
Ends(bs, w) ==
  /\ w \in Seq(Frame) /\ Legal(w) /\ Closed(w)
  /\ \A i \in 1..Len(w) : FName(w[i]) = "start" =>
       FBlock(w[i]) \in 1..Len(bs) /\ FKind(w[i]) = bs[FBlock(w[i])].kind
  /\ \A b \in 1..Len(bs) : bs[b].kind = "tool_use" => PiecesOf(w, b) = bs[b].pieces

LEMMA StoppedIsClosed ==
  ASSUME NEW bs, NEW w \in Seq(Frame), \A b \in 1..Len(bs) : Stopped(w, b),
         \A i \in 1..Len(w) : FName(w[i]) = "start" => FBlock(w[i]) \in 1..Len(bs)
  PROVE  Closed(w)
<1>1. SUFFICES ASSUME NEW i \in 1..Len(w), FName(w[i]) = "start"
               PROVE  ~OpenBefore(w, FBlock(w[i]), Len(w) + 1)
  BY DEF Closed, At, FName, FBlock
<1>2. PICK j \in 1..Len(w) : w[j] = <<"stop", FBlock(w[i])>>
  BY <1>1 DEF Stopped
<1>3. Len(w) \in Nat /\ (Len(w) + 1) - 1 = Len(w)
  OBVIOUS
<1>4. FName(w[j]) = "stop" /\ FBlock(w[j]) = FBlock(w[i])
  BY <1>2 DEF FName, FBlock
<1> QED BY <1>3, <1>4 DEF OpenBefore, At, FName, FBlock

LEMMA ShutEnds ==
  ASSUME NEW bs, NEW w, Matches(bs, w), \A b \in 1..Len(bs) : ~bs[b].open
  PROVE  Ends(bs, w)
<1>1. Closed(w)
  BY StoppedIsClosed DEF Matches
<1> QED BY <1>1 DEF Matches, Ends

LEMMA EnvelopeEnds ==
  ASSUME NEW bs, NEW m, Matches(bs, m), \A b \in 1..Len(bs) : ~bs[b].open, Len(bs) >= 1
  PROVE  /\ Ends(bs, Append(Append(m, MessageDelta), MessageStop))
         /\ Answers(Append(Append(m, MessageDelta), MessageStop))
<1> DEFINE v == Append(m, MessageDelta)
           w == Append(v, MessageStop)
<1>1. bs \in Seq(Block) /\ Len(bs) \in Nat
  BY DEF Matches
<1>2. Matches(bs, v)
  <2>1. Moves(bs, bs, MessageDelta)
    <3>1. \A x \in 1..Len(bs) : MessageDelta # <<"stop", x>> /\ Part(MessageDelta, x) = 0
      BY DEF MessageDelta, Part
    <3>2. \A x \in 1..Len(bs) : bs[x].pieces + 0 = bs[x].pieces
      BY <1>1, BlockFacts
    <3> QED BY <1>1, <3>1, <3>2 DEF Moves
  <2> QED BY <2>1, EnvelopeFrames, MatchesMove
<1> HIDE DEF v
<1>3. /\ v \in Seq(Frame) /\ v # << >> /\ Legal(v) /\ Len(v) \in Nat
      /\ \A i \in 1..Len(v) : FName(v[i]) # "message_stop"
      /\ \A i \in 1..Len(v) : FName(v[i]) = "start" =>
           FBlock(v[i]) \in 1..Len(bs) /\ FKind(v[i]) = bs[FBlock(v[i])].kind
      /\ \A b \in 1..Len(bs) :
           /\ Started(v, b, bs[b].kind) /\ Stopped(v, b)
           /\ bs[b].kind = "tool_use" => PiecesOf(v, b) = bs[b].pieces
  BY <1>2 DEF Matches
<1>4. /\ w \in Seq(Frame) /\ Len(w) = Len(v) + 1 /\ w # << >>
      /\ \A i \in 1..Len(v) : w[i] = v[i]
      /\ w[Len(v) + 1] = MessageStop
  BY <1>3, EnvelopeFrames, AppendFacts
<1>5. Legal(w)
  BY <1>3, EnvelopeFrames, LegalAppend
<1>6. \A b \in 1..Len(bs) : Stopped(w, b) /\ Started(w, b, bs[b].kind)
  BY <1>3, EnvelopeFrames, MarksAppend
<1>7. ASSUME NEW b \in 1..Len(bs), bs[b].kind = "tool_use" PROVE PiecesOf(w, b) = bs[b].pieces
  <2>1. PiecesOf(w, b) = PiecesOf(v, b) + Part(MessageStop, b)
    BY <1>3, EnvelopeFrames, PiecesAppend
  <2>2. Part(MessageStop, b) = 0
    BY DEF MessageStop, Part
  <2>3. bs[b].pieces \in Nat
    BY <1>1, BlockFacts
  <2> QED BY <1>3, <1>7, <2>1, <2>2, <2>3
<1> HIDE DEF w
<1>8. ASSUME NEW i \in 1..Len(w), FName(w[i]) = "start"
      PROVE  FBlock(w[i]) \in 1..Len(bs) /\ FKind(w[i]) = bs[FBlock(w[i])].kind
  <2>1. CASE i \in 1..Len(v) BY <1>3, <1>4, <1>8, <2>1
  <2>2. CASE i = Len(v) + 1 BY <1>4, <1>8, <2>2, EnvelopeFrames
  <2> QED BY <1>3, <1>4, <2>1, <2>2
<1>9. Closed(w)
  BY <1>4, <1>6, <1>8, StoppedIsClosed
<1>10. Ends(bs, w)
  BY <1>4, <1>5, <1>7, <1>8, <1>9 DEF Ends
<1>11. Answers(w)
  <2>1. At(w, Len(w), {"message_stop"})
    BY <1>4 DEF At, MessageStop
  <2>2. \E i \in 1..Len(w) : At(w, i, {"start"})
    <3>1. 1 \in 1..Len(bs) BY <1>1
    <3>2. PICK i \in 1..Len(w) : w[i] = <<"start", 1, bs[1].kind>>
      BY <1>6, <3>1 DEF Started
    <3> QED BY <3>2 DEF At
  <2> QED BY <1>4, <2>1, <2>2 DEF Answers
<1> QED BY <1>10, <1>11 DEF v, w

(* The envelope of a ledger that has closed its blocks.                     *)
LEMMA EnvelopeOut ==
  ASSUME NEW r \in Ledger, NEW m \in Seq(Frame)
  PROVE  /\ Envelope(r) \in Ledger /\ Envelope(r).blocks = r.blocks
         /\ m \o Envelope(r).out = Append(Append(m \o r.out, MessageDelta), MessageStop)
<1> DEFINE o1 == Append(r.out, MessageDelta)
           o2 == Append(o1, MessageStop)
<1>1. r.out \in Seq(Frame) /\ Is(r, r.blocks, r.content, r.out, r.tools)
  BY LedgerFields
<1>2. Is(Emit(r, MessageDelta), r.blocks, r.content, o1, r.tools)
  BY <1>1, EmitIs
<1>3. o1 \in Seq(Frame) /\ m \o o1 = Append(m \o r.out, MessageDelta)
  BY <1>1, EnvelopeFrames, AppendConcat, AppendFacts
<1> HIDE DEF o1
<1>4. Is(Envelope(r), r.blocks, r.content, o2, r.tools)
  BY <1>2, EmitIs DEF Envelope
<1>5. o2 \in Seq(Frame) /\ m \o o2 = Append(m \o o1, MessageStop)
  BY <1>3, EnvelopeFrames, AppendConcat, AppendFacts
<1> HIDE DEF o2
<1>6. Envelope(r).blocks = r.blocks /\ Envelope(r).out = o2
  BY <1>4, IsFields
<1>7. Envelope(r) \in Ledger
  BY <1>1, <1>4, <1>5, LedgerFields, IsLedger
<1> QED BY <1>3, <1>5, <1>6, <1>7

(* An answer has a block: a call, a text, or the blank one.                 *)
LEMMA SpokenHasABlock ==
  ASSUME NEW l, NEW m, Agrees(l, m)
  PROVE  Len(Spoken(l).blocks) >= 1
<1> DEFINE e == EnsureBlock(l, "text", "thinking")
<1>1. "text" \in Content /\ "thinking" \in Content
  BY DEF Content
<1>2. Sound(l, e, m) /\ e.content["text"] # 0
  BY <1>1, EnsureBlockSound
<1> HIDE DEF e
<1>3. Sound(e, ContentDelta(e, "text"), m)
  BY <1>1, <1>2, ContentDeltaAgrees DEF Sound
<1>4. e.content["text"] \in 1..Len(e.blocks)
  BY <1>1, <1>2 DEF Sound, Agrees, Fits
<1>5. Len(e.blocks) \in Nat /\ Len(ContentDelta(e, "text").blocks) \in Nat
  BY <1>2, <1>3, LedgerFields DEF Sound, Agrees
<1>6. Len(e.blocks) <= Len(ContentDelta(e, "text").blocks)
  BY <1>3 DEF Sound, Keeps
<1> QED BY <1>4, <1>5, <1>6 DEF e, Spoken, EnsureText

LEMMA BlankHasABlock ==
  ASSUME NEW l, NEW m, Agrees(l, m), Budget(l)
  PROVE  Agrees(Blank(l), m) /\ Budget(Blank(l)) /\ Len(Blank(l).blocks) >= 1
<1>1. Len(l.blocks) \in Nat
  BY LedgerFields DEF Agrees
<1>2. CASE ToolBlocks(l) = {} /\ ~Has(l, "text")
  <2>1. Blank(l) = Spoken(l) BY <1>2 DEF Blank, Spoken
  <2>2. Sound(l, Spoken(l), m) BY ContentSound
  <2> QED BY <2>1, <2>2, SpokenHasABlock, BudgetKept DEF Sound
<1>3. CASE ~(ToolBlocks(l) = {} /\ ~Has(l, "text"))
  <2>1. Blank(l) = l BY <1>3 DEF Blank
  <2>2. \E i \in 1..Len(l.blocks) : TRUE BY <1>3 DEF ToolBlocks, Has
  <2> QED BY <1>1, <2>1, <2>2
<1> QED BY <1>2, <1>3

-----------------------------------------------------------------------------
(* The states.                                                              *)

(* An attempt goes on: what the buffer and the reader have, what was made,  *)
(* and the ledger tell the same story.                                      *)
Running ==
  /\ Carries(Now, made) /\ Honest(Now, made)
  /\ ledger.out = << >> /\ Agrees(ledger, made) /\ Budget(ledger)
  /\ result = "none"

WellEnded == WireLegal /\ OneAttempt /\ CallsAreWhole

Inv ==
  /\ policy \in Policy
  /\ phase # "over" => Running
  /\ phase = "over" => WellEnded

LEMMA RunningLedger ==
  ASSUME Running
  PROVE  ledger \in Ledger /\ made \in Seq(Frame) /\ Matches(ledger.blocks, made)
<1>1. made \in Seq(Frame) /\ Matches(ledger.blocks, made \o << >>) /\ ledger \in Ledger
  BY DEF Running, Agrees
<1> QED BY <1>1, NothingAfter

LEMMA EmptyIsLegal ==
  Legal(<< >>) /\ Closed(<< >>)
<1>1. \A i \in 1..Len(<< >>) : FALSE
  OBVIOUS
<1> QED BY <1>1 DEF Legal, Closed

LEMMA InvSafe ==
  ASSUME Inv
  PROVE  WireLegal /\ OneAttempt /\ CallsAreWhole /\ HeldWhileSilent
<1>1. CASE phase # "over"
  <2>1. Running
    BY <1>1 DEF Inv
  <2>2. Legal(made)
    BY <2>1, RunningLedger DEF Matches
  <2>3. wire = << >> \/ wire = made
    BY <2>1 DEF Running, Carries, Now
  <2>4. WireLegal
    BY <1>1, <2>2, <2>3, EmptyIsLegal DEF WireLegal
  <2>5. OneAttempt
    BY <1>1, <2>3 DEF OneAttempt
  <2>6. CallsAreWhole
    BY <2>1 DEF Running, CallsAreWhole
  <2>7. HeldWhileSilent
    <3>1. CASE wire = << >>
      BY <3>1 DEF HeldWhileSilent
    <3>2. CASE hold.committed
      <4>1. wire = made /\ Deserved(made)
        BY <2>1, <3>2 DEF Running, Carries, Honest, Now
      <4> QED BY <4>1 DEF Deserved, HeldWhileSilent, Texts
    <3>3. CASE ~hold.committed
      BY <2>1, <3>1, <3>3 DEF Running, Carries, Now
    <3> QED BY <3>1, <3>2, <3>3
  <2> QED BY <2>4, <2>5, <2>6, <2>7
<1>2. CASE phase = "over"
  BY <1>2 DEF Inv, WellEnded, HeldWhileSilent
<1> QED BY <1>1, <1>2

(* A new ledger fits the frame that opens a message.                        *)
LEMMA NewLedgerAgrees ==
  NewLedger.out = << >> /\ Agrees(NewLedger, <<MessageStart>>) /\ Budget(NewLedger)
<1> DEFINE none == [k \in Content |-> 0]
           calls == [t \in Tools |-> [named |-> FALSE, block |-> 0, pre |-> 0, buffer |-> 0]]
           m == <<MessageStart>>
<1>1. Is(NewLedger, << >>, none, << >>, calls)
  BY DEF NewLedger, Is
<1>2. << >> \in Seq(Block) /\ << >> \in Seq(Frame) /\ none \in [Content -> Nat]
  OBVIOUS
<1>3. calls \in [Tools -> ToolState]
  <2>1. [named |-> FALSE, block |-> 0, pre |-> 0, buffer |-> 0] \in ToolState
    BY ToolAssumption DEF ToolState
  <2> QED BY <2>1
<1>4. \A t \in Tools : calls[t].block = 0 /\ calls[t].pre = 0 /\ calls[t].buffer = 0
  OBVIOUS
<1>5. \A k \in Content : none[k] = 0
  OBVIOUS
<1>6. m \in Seq(Frame) /\ Len(m) = 1 /\ m[1] = MessageStart /\ m # << >>
  BY EnvelopeFrames
<1> HIDE DEF none, calls, m
<1>7. /\ NewLedger.blocks = << >> /\ NewLedger.content = none
      /\ NewLedger.out = << >> /\ NewLedger.tools = calls
  BY <1>1, IsFields
<1>8. NewLedger \in Ledger
  BY <1>1, <1>2, <1>3, IsLedger
<1>9. \A b \in 1..Len(NewLedger.blocks) : FALSE
  BY <1>7
<1>10. Fits(NewLedger.blocks, NewLedger.content, NewLedger.tools)
  BY <1>4, <1>5, <1>7, <1>9 DEF Fits
<1>11. Matches(NewLedger.blocks, m)
  <2>1. \A i \in 1..Len(m) : i = 1 /\ m[i] = MessageStart
    BY <1>6
  <2>2. Legal(m)
    BY <1>6, <2>1 DEF Legal, At, MessageStart
  <2>3. \A i \in 1..Len(m) : FName(m[i]) = "message_start"
    BY <2>1, EnvelopeFrames
  <2> QED BY <1>2, <1>6, <1>7, <1>9, <2>2, <2>3 DEF Matches
<1>12. Agrees(NewLedger, m)
  <2>1. m \o NewLedger.out = m
    BY <1>6, <1>7, NothingAfter
  <2> QED BY <1>6, <1>8, <1>10, <1>11, <2>1 DEF Agrees
<1>13. Budget(NewLedger)
  <2>1. ASSUME NEW t \in Tools PROVE Pays(NewLedger, t)
    <3>1. Sent(NewLedger, t) = 0 BY <1>4, <1>7 DEF Sent
    <3> QED BY <1>4, <1>7, <3>1, ToolAssumption DEF Pays
  <2> QED BY <2>1 DEF Budget
<1> QED BY <1>7, <1>12, <1>13 DEF m

LEMMA BegunCarries ==
  ASSUME policy \in Policy
  PROVE  LET s == Begun([hold |-> NewHold, wire |-> << >>])
         IN  Carries(s, <<MessageStart>>) /\ Honest(s, <<MessageStart>>)
<1> DEFINE s0 == [hold |-> NewHold, wire |-> << >>]
<1>1. << >> \in Seq(Frame) /\ Append(<< >>, MessageStart) = <<MessageStart>>
  OBVIOUS
<1>2. Carries(s0, << >>)
  BY FreshHold DEF Carries
<1>3. Honest(s0, << >>)
  <2>1. Texts(<< >>) = {} BY DEF Texts
  <2>2. Cardinality(Texts(<< >>)) = 0 BY <2>1, FS_EmptySet
  <2> QED BY <2>2, FreshHold DEF Honest
<1> HIDE DEF s0
<1>4. Carries(Push(s0, MessageStart), Append(<< >>, MessageStart))
      /\ Honest(Push(s0, MessageStart), Append(<< >>, MessageStart))
  BY <1>1, <1>2, <1>3, EnvelopeFrames, PushCarries
<1> QED BY <1>1, <1>4 DEF Begun, s0

(* The settings stay, so what was deserved is deserved.                     *)
LEMMA HonestStays ==
  ASSUME policy' = policy, NEW s, NEW m, Honest(s, m), s = Now', m = made'
  PROVE  Honest(Now, made)'
  BY DEF Honest, Deserved, Shows, Scaffolding, Texts, Text, Now

(* What an action must show for the attempt to go on with ledger r after w. *)
LEMMA GoesOn ==
  ASSUME policy \in Policy, policy' = policy, result' = "none",
         NEW s, NEW w \in Seq(Frame), NEW r,
         Carries(s, w), Honest(s, w), hold' = s.hold, wire' = s.wire, made' = w,
         ledger' = r, r.out = << >>, Agrees(r, w), Budget(r), phase' # "over"
  PROVE  Inv'
<1>1. s = Now'
  BY DEF Carries, Now
<1>2. Carries(Now, made)'
  <2>1. Carries(Now', made') BY <1>1
  <2> QED BY <2>1 DEF Carries, Now
<1>3. Honest(Now, made)'
  BY <1>1, HonestStays
<1>4. Agrees(ledger, made)' /\ Budget(ledger)'
  OBVIOUS
<1>5. Running'
  BY <1>2, <1>3, <1>4 DEF Running
<1> QED BY <1>5 DEF Inv

(* A step of the ledger is handed on.                                       *)
LEMMA HandsOn ==
  ASSUME Inv, NEW r, Agrees(r, made), Budget(r), Chunk(r)
  PROVE  Inv'
<1> DEFINE s == Pushed(Now, r.out)
           w == made \o r.out
           l == [r EXCEPT !.out = << >>]
<1>1. /\ phase = "streaming" /\ phase' = phase /\ policy' = policy /\ result' = result
      /\ ledger' = l /\ made' = w /\ hold' = s.hold /\ wire' = s.wire
  BY DEF Chunk, Arrives, HandOn, Settles
<1>2. policy \in Policy /\ Running
  BY <1>1 DEF Inv
<1>3. /\ r \in Ledger /\ made \in Seq(Frame) /\ Fits(r.blocks, r.content, r.tools)
      /\ Matches(r.blocks, w)
  BY DEF Agrees
<1>4. /\ r.blocks \in Seq(Block) /\ r.content \in [Content -> Nat] /\ r.out \in Seq(Frame)
      /\ r.tools \in [Tools -> ToolState] /\ Is(r, r.blocks, r.content, r.out, r.tools)
  BY <1>3, LedgerFields
<1>5. Carries(s, w) /\ Honest(s, w)
  BY <1>2, <1>3, <1>4, PushedCarries DEF Running
<1>6. w \in Seq(Frame) /\ w \o << >> = w /\ << >> \in Seq(Frame)
  BY <1>3, <1>4, ConcatFacts, NothingAfter
<1> HIDE DEF s, w
<1>7. Is(l, r.blocks, r.content, << >>, r.tools)
  BY <1>4, IsOut
<1> HIDE DEF l
<1>8. l.blocks = r.blocks /\ l.content = r.content /\ l.out = << >> /\ l.tools = r.tools
  BY <1>7, IsFields
<1>9. l \in Ledger
  BY <1>4, <1>6, <1>7, IsLedger
<1>10. Agrees(l, w)
  BY <1>3, <1>6, <1>8, <1>9 DEF Agrees
<1>11. Budget(l)
  <2>1. Len(r.blocks) \in Nat BY <1>4
  <2>2. Keeps(r, l) BY <1>8, <2>1 DEF Keeps
  <2> QED BY <2>2, BudgetKept
<1> QED BY <1>1, <1>2, <1>5, <1>6, <1>8, <1>10, <1>11, GoesOn DEF Running

LEMMA ContentGoesOn ==
  ASSUME Inv, Reasoning \/ TextPart \/ Heuristic
  PROVE  Inv'
<1>1. Running
  BY DEF Inv, Reasoning, TextPart, Heuristic, Chunk, Arrives
<1>2. Agrees(ledger, made) /\ Budget(ledger)
  BY <1>1 DEF Running
<1>3. CASE Reasoning
  <2>1. Agrees(Thought(ledger), made) /\ Budget(Thought(ledger))
    BY <1>2, ContentSound, BudgetKept DEF Sound
  <2>2. Chunk(Thought(ledger)) BY <1>3 DEF Reasoning, Thought
  <2> QED BY <2>1, <2>2, HandsOn
<1>4. CASE TextPart
  <2>1. Agrees(Spoken(ledger), made) /\ Budget(Spoken(ledger))
    BY <1>2, ContentSound, BudgetKept DEF Sound
  <2>2. Chunk(Spoken(ledger)) BY <1>4 DEF TextPart, Spoken
  <2> QED BY <2>1, <2>2, HandsOn
<1>5. CASE Heuristic
  <2>1. Agrees(HeuristicTool(ledger), made) /\ Budget(HeuristicTool(ledger))
    BY <1>2, HeuristicToolAgrees, BudgetKept
  <2>2. Chunk(HeuristicTool(ledger)) BY <1>5 DEF Heuristic
  <2> QED BY <2>1, <2>2, HandsOn
<1> QED BY <1>3, <1>4, <1>5

LEMMA CallGoesOn ==
  ASSUME Inv, NEW t \in Tools, NEW named \in BOOLEAN, NEW n \in 0..Whole, ToolCall(t, named, n)
  PROVE  Inv'
<1> DEFINE c == CloseContentBlocks(ledger)
           r == ProcessToolCall(c, t, named, n)
<1>1. Given(ledger, t) + n <= Whole /\ Chunk(r)
  BY DEF ToolCall
<1>2. Running
  BY <1>1 DEF Inv, Chunk, Arrives
<1>3. Agrees(ledger, made) /\ Budget(ledger)
  BY <1>2 DEF Running
<1>4. Agrees(c, made) /\ Budget(c) /\ Keeps(ledger, c)
  BY <1>3, ContentSound, BudgetKept DEF Sound
<1> HIDE DEF c
<1>5. c.tools[t].pre + c.tools[t].buffer + Sent(c, t) + n <= Whole
  <2>1. c.tools[t] = ledger.tools[t]
    BY <1>4 DEF Keeps
  <2>2. Sent(c, t) = Sent(ledger, t)
    BY <1>3, <1>4, <2>1, ToolBlockFacts DEF Keeps, Sent
  <2> QED BY <1>1, <2>1, <2>2 DEF Given, Sent
<1>6. Agrees(r, made) /\ Budget(r)
  <2>1. n \in Nat BY ToolAssumption
  <2> QED BY <1>4, <1>5, <2>1, ProcessToolCallAgrees
<1> HIDE DEF r
<1> QED BY <1>1, <1>6, HandsOn

(* The rest of what happens while an attempt goes on.                       *)
LEMMA AttemptGoesOn ==
  ASSUME Inv, Open \/ Elapse \/ FinishReason
  PROVE  Inv'
<1>1. /\ Running /\ policy \in Policy /\ policy' = policy /\ result' = result
      /\ ledger' = ledger /\ made' = made /\ wire' = wire /\ phase' # "over"
  BY DEF Inv, Open, Elapse, FinishReason, Arrives
<1>2. ledger \in Ledger /\ made \in Seq(Frame)
  BY <1>1, RunningLedger
<1>3. hold \in HoldType
  BY <1>1 DEF Running, Carries, Now
<1>4. ASSUME NEW window \in {"shut", "open", "over"},
             hold' = [hold EXCEPT !.window = window],
             hold.committed \/ window = "shut" \/ hold.window # "shut"
      PROVE  Inv'
  <2> DEFINE h == [hold EXCEPT !.window = window]
             s == [hold |-> h, wire |-> wire]
  <2>1. /\ h \in HoldType /\ h.committed = hold.committed /\ h.frames = hold.frames
        /\ h.chars = hold.chars /\ h.window = window
    BY <1>3 DEF HoldType
  <2> HIDE DEF h
  <2>2. Carries(s, made) /\ s.hold = h /\ s.wire = wire
    BY <1>1, <2>1 DEF Running, Carries, Now
  <2>3. Honest(s, made)
    BY <1>1, <1>4, <2>1 DEF Running, Honest, Now
  <2> QED BY <1>1, <1>2, <1>4, <2>2, <2>3, GoesOn DEF Running, h
<1>5. ASSUME hold' = hold PROVE Inv'
  BY <1>1, <1>2, <1>5, GoesOn DEF Running, Now
<1>6. CASE Open
  <2>1. CASE hold.committed BY <1>5, <1>6, <2>1 DEF Open
  <2>2. CASE ~hold.committed BY <1>4, <1>6, <2>2 DEF Open
  <2> QED BY <2>1, <2>2
<1>7. CASE Elapse
  BY <1>4, <1>7 DEF Elapse
<1>8. CASE FinishReason
  BY <1>5, <1>8 DEF FinishReason
<1> QED BY <1>6, <1>7, <1>8

(* A new attempt, when the reader has nothing of the last.                  *)
LEMMA RetryGoesOn ==
  ASSUME Inv, phase # "over", ~hold.committed, RetriesEarly
  PROVE  Inv'
<1> DEFINE s == Begun([hold |-> NewHold, wire |-> << >>])
           w == <<MessageStart>>
<1>1. Running /\ policy \in Policy
  BY DEF Inv
<1>2. wire = << >>
  BY <1>1 DEF Running, Carries, Now
<1>3. /\ phase' # "over" /\ policy' = policy /\ result' = result /\ ledger' = NewLedger
      /\ made' = w /\ hold' = s.hold /\ wire' = s.wire
  BY <1>2 DEF RetriesEarly, Settles
<1>4. Carries(s, w) /\ Honest(s, w)
  BY <1>1, BegunCarries
<1>5. NewLedger.out = << >> /\ Agrees(NewLedger, w) /\ Budget(NewLedger) /\ w \in Seq(Frame)
  BY NewLedgerAgrees, EnvelopeFrames
<1> HIDE DEF s, w
<1> QED BY <1>1, <1>3, <1>4, <1>5, GoesOn DEF Running

-----------------------------------------------------------------------------
(* The end.                                                                 *)

(* Whatever was held goes out with the last frames.                         *)
LEMMA ConcludesDelivers ==
  ASSUME Inv, phase # "over", NEW r \in Ledger, NEW how, Concludes(r, how)
  PROVE  /\ phase' = "over" /\ result' = how /\ policy' = policy
         /\ wire' = made \o r.out /\ made' = made \o r.out /\ ledger'.blocks = r.blocks
<1> DEFINE p == Pushed(Now, r.out)
           w == made \o r.out
           l == [r EXCEPT !.out = << >>]
<1>1. /\ phase' = "over" /\ result' = how /\ policy' = policy /\ ledger' = l /\ made' = w
      /\ wire' = Flush(p).wire
  BY DEF Concludes, Settles
<1>2. Running /\ policy \in Policy
  BY DEF Inv
<1>3. /\ r.out \in Seq(Frame) /\ Is(r, r.blocks, r.content, r.out, r.tools)
  BY LedgerFields
<1>4. made \in Seq(Frame) /\ w \in Seq(Frame)
  BY <1>2, <1>3, RunningLedger, ConcatFacts
<1>5. Carries(p, w)
  BY <1>2, <1>3, <1>4, PushedCarries DEF Running
<1>6. Is(l, r.blocks, r.content, << >>, r.tools)
  BY <1>3, IsOut
<1> HIDE DEF p, w, l
<1>7. l.blocks = r.blocks
  BY <1>6, IsFields
<1>8. Flush(p).wire = w
  <2>1. CASE p.hold.committed
    BY <1>5, <2>1 DEF Carries, Flush
  <2>2. CASE ~p.hold.committed
    <3>1. p.hold.frames = w /\ p.wire = << >> BY <1>5, <2>2 DEF Carries
    <3>2. << >> \o w = w BY <1>4
    <3> QED BY <2>2, <3>1, <3>2 DEF Flush
  <2> QED BY <2>1, <2>2
<1> QED BY <1>1, <1>7, <1>8 DEF w

(* What must be shown of the ledger that the answer ends with.              *)
LEMMA EndsWell ==
  ASSUME Inv, phase # "over", NEW r \in Ledger, NEW how, Concludes(r, how), how # "none",
         Ends(r.blocks, made \o r.out),
         how # "failed" => Answers(made \o r.out),
         how = "recovered" => WholeCalls(r)
  PROVE  Inv'
<1> DEFINE w == made \o r.out
<1>1. /\ phase' = "over" /\ result' = how /\ policy' = policy
      /\ wire' = w /\ made' = w /\ ledger'.blocks = r.blocks
  BY ConcludesDelivers
<1> HIDE DEF w
<1>2. /\ w \in Seq(Frame) /\ Legal(w) /\ Closed(w)
      /\ \A i \in 1..Len(w) : FName(w[i]) = "start" =>
           FBlock(w[i]) \in 1..Len(r.blocks) /\ FKind(w[i]) = r.blocks[FBlock(w[i])].kind
      /\ \A b \in 1..Len(r.blocks) : r.blocks[b].kind = "tool_use" => PiecesOf(w, b) = r.blocks[b].pieces
  BY DEF Ends, w
<1>3. how # "failed" => Answers(w)
  BY DEF w
<1>4. WireLegal'
  <2>1. Legal(wire') /\ Closed(wire') /\ (result' # "failed" => Answers(wire'))
    BY <1>1, <1>2, <1>3
  <2> QED BY <2>1 DEF WireLegal
<1>5. OneAttempt'
  BY <1>1 DEF OneAttempt
<1>6. ASSUME result' = "recovered", NEW i \in 1..Len(w), At(w, i, {"start"}), w[i][3] = "tool_use"
      PROVE  PiecesOf(w, w[i][2]) = Whole
  <2>1. /\ FBlock(w[i]) = w[i][2] /\ FName(w[i]) = "start" /\ FKind(w[i]) = "tool_use"
    BY <1>6 DEF At, FName, FBlock, FKind
  <2>2. w[i][2] \in 1..Len(r.blocks) /\ r.blocks[w[i][2]].kind = "tool_use"
    BY <1>2, <2>1
  <2>3. r.blocks[w[i][2]].pieces = Whole
    BY <1>1, <1>6, <2>2 DEF WholeCalls, ToolBlocks
  <2> QED BY <1>2, <2>2, <2>3
<1>7. ASSUME \A i \in ToolBlocks(r) : r.blocks[i].pieces = Whole, NEW b \in ToolBlocks(r)
      PROVE  PiecesOf(w, b) = Whole
  BY <1>2, <1>7 DEF ToolBlocks
<1>8. CallsAreWhole'
  <2>1. ToolBlocks(ledger') = ToolBlocks(r)
    BY <1>1 DEF ToolBlocks
  <2>2. ToolsComplete(ledger') => \A i \in ToolBlocks(r) : r.blocks[i].pieces = Whole
    BY <1>1, <2>1 DEF ToolsComplete
  <2>3. result' = "failed" /\ ToolsComplete(ledger') =>
          \A b \in ToolBlocks(ledger') : PiecesOf(wire', b) = Whole
    BY <1>1, <1>7, <2>1, <2>2
  <2>4. result' = "recovered" =>
          \A i \in 1..Len(wire') : At(wire', i, {"start"}) /\ wire'[i][3] = "tool_use" =>
            PiecesOf(wire', wire'[i][2]) = Whole
    BY <1>1, <1>6
  <2> QED BY <2>3, <2>4 DEF CallsAreWhole
<1>9. policy' \in Policy
  BY <1>1 DEF Inv
<1> QED BY <1>1, <1>4, <1>5, <1>8, <1>9 DEF Inv, WellEnded

(* An answer that is told to its end, with its blocks closed.               *)
LEMMA EnvelopeEndsWell ==
  ASSUME Inv, phase # "over", NEW l, Agrees(l, made), Len(l.blocks) >= 1,
         NEW how, how \in {"completed", "recovered"}, how = "recovered" => WholeCalls(l),
         Concludes(Envelope(CloseAllBlocks(l)), how)
  PROVE  Inv'
<1> DEFINE c == CloseAllBlocks(l)
           e == Envelope(c)
<1>1. Shut(l, c, made)
  BY CloseAllShuts
<1> HIDE DEF c
<1>2. /\ c \in Ledger /\ made \in Seq(Frame) /\ Matches(c.blocks, made \o c.out)
      /\ \A x \in 1..Len(c.blocks) : ~c.blocks[x].open
      /\ Keeps(l, c) /\ SameCalls(l, c)
  BY <1>1 DEF Shut
<1>3. Len(c.blocks) \in Nat /\ Len(l.blocks) \in Nat
  BY <1>2, LedgerFields DEF Agrees
<1>4. Len(c.blocks) >= 1
  BY <1>2, <1>3 DEF Keeps
<1>5. e \in Ledger /\ e.blocks = c.blocks
      /\ made \o e.out = Append(Append(made \o c.out, MessageDelta), MessageStop)
  BY <1>2, EnvelopeOut
<1>6. WholeCalls(l) => WholeCalls(e)
  BY <1>2, <1>5 DEF WholeCalls, SameCalls, Keeps, ToolBlocks
<1>7. Concludes(e, how)
  BY DEF c
<1> HIDE DEF e
<1>8. Ends(e.blocks, made \o e.out) /\ Answers(made \o e.out)
  BY <1>2, <1>4, <1>5, EnvelopeEnds
<1> QED BY <1>5, <1>6, <1>7, <1>8, EndsWell

LEMMA FinishEnds ==
  ASSUME Inv, Finishes
  PROVE  Inv'
<1>1. phase # "over" /\ Running
  BY DEF Inv, Finishes
<1>2. PICK t \in Tails(ledger) :
        Concludes(Envelope(CloseAllBlocks(FlushBuffers(Blank(t)))), "completed")
  BY DEF Finishes
<1>3. Agrees(ledger, made) /\ Budget(ledger)
  BY <1>1 DEF Running
<1>4. Agrees(t, made) /\ Budget(t)
  <2>1. ASSUME NEW p \in Parsed(ledger)
        PROVE  Agrees(p, made) /\ Budget(p)
    <3>1. p \in {ledger, Thought(ledger), Spoken(ledger)}
      BY <2>1 DEF Parsed, Thought, Spoken
    <3>2. Agrees(Spoken(ledger), made) /\ Budget(Spoken(ledger))
      BY <1>3, ContentSound, BudgetKept DEF Sound
    <3>3. Agrees(Thought(ledger), made) /\ Budget(Thought(ledger))
      BY <1>3, ContentSound, BudgetKept DEF Sound
    <3> QED BY <1>3, <3>1, <3>2, <3>3
  <2>2. CASE t \in Parsed(ledger)
    BY <2>1, <2>2
  <2>3. CASE \E p \in Parsed(ledger) : t = HeuristicTool(p)
    <3>1. PICK p \in Parsed(ledger) : t = HeuristicTool(p)
      BY <2>3
    <3>2. Agrees(p, made) /\ Budget(p)
      BY <2>1
    <3>3. Agrees(HeuristicTool(p), made) /\ Budget(HeuristicTool(p))
      BY <3>2, HeuristicToolAgrees, BudgetKept
    <3> QED BY <3>1, <3>3
  <2> QED BY <1>2, <2>2, <2>3 DEF Tails
<1> DEFINE b == Blank(t)
           a == Flushed(b, "aliased")
           f == FlushBuffers(b)
<1>5. Agrees(b, made) /\ Budget(b) /\ Len(b.blocks) >= 1
  BY <1>4, BlankHasABlock
<1> HIDE DEF b
<1>6. Agrees(a, made) /\ Budget(a) /\ Len(a.blocks) = Len(b.blocks)
  BY <1>5, FlushedAgrees
<1>7. f = Flushed(a, "task")
  BY DEF FlushBuffers
<1> HIDE DEF a, f
<1>8. Agrees(f, made) /\ Len(f.blocks) = Len(a.blocks)
  BY <1>6, <1>7, FlushedAgrees
<1>9. Concludes(Envelope(CloseAllBlocks(f)), "completed")
  BY <1>2 DEF f, b
<1>10. Len(f.blocks) >= 1
  BY <1>5, <1>6, <1>8
<1> QED BY <1>1, <1>8, <1>9, <1>10, EnvelopeEndsWell

LEMMA RecoveryEnds ==
  ASSUME Inv, phase # "over", ledger.blocks # << >>, Recovers
  PROVE  Inv'
<1>1. Running
  BY DEF Inv
<1>2. PICK l \in Continued(ledger) : Concludes(Envelope(CloseAllBlocks(l)), "recovered")
  BY DEF Recovers
<1>3. Agrees(ledger, made) /\ ledger \in Ledger
  BY <1>1 DEF Running, Agrees
<1>4. Len(ledger.blocks) \in Nat /\ Len(ledger.blocks) >= 1
  <2>1. ledger.blocks \in Seq(Block) BY <1>3, LedgerFields
  <2> QED BY <2>1
<1>5. Agrees(l, made) /\ WholeCalls(l) /\ Len(l.blocks) >= 1
  <2>1. CASE ToolBlocks(ledger) # {}
    <3>1. l = RepairTools(ledger) BY <1>2, <2>1 DEF Continued
    <3> QED BY <1>3, <1>4, <3>1, RepairToolsAgrees
  <2>2. CASE ToolBlocks(ledger) = {}
    <3>1. l \in {Thought(ledger), Spoken(ledger), Spoken(Thought(ledger))}
      BY <1>2, <2>2 DEF Continued, Thought, Spoken
    <3>2. Sound(ledger, Thought(ledger), made) /\ Sound(ledger, Spoken(ledger), made)
      BY <1>3, ContentSound
    <3>3. Sound(ledger, Spoken(Thought(ledger)), made)
      <4>1. Sound(Thought(ledger), Spoken(Thought(ledger)), made)
        BY <3>2, ContentSound DEF Sound
      <4> QED BY <1>3, <3>2, <4>1, SoundComposes
    <3>4. Sound(ledger, l, made)
      BY <3>1, <3>2, <3>3
    <3>5. ToolBlocks(l) = {} /\ Len(ledger.blocks) <= Len(l.blocks) /\ Agrees(l, made)
      BY <2>2, <3>4 DEF Sound, SameCalls, Keeps
    <3>6. Len(l.blocks) \in Nat
      BY <3>5, LedgerFields DEF Agrees
    <3> QED BY <1>4, <3>5, <3>6 DEF WholeCalls
  <2> QED BY <2>1, <2>2
<1> QED BY <1>2, <1>5, EnvelopeEndsWell

LEMMA FailureEnds ==
  ASSUME Inv, phase # "over", Fails
  PROVE  Inv'
<1> DEFINE c == CloseUnclosedBlocks(ledger)
<1>1. Running /\ policy \in Policy
  BY DEF Inv
<1>2. CASE hold.committed \/ ToolsComplete(ledger)
  <2>1. Concludes(c, "failed")
    BY <1>2 DEF Fails
  <2>2. Shut(ledger, c, made)
    BY <1>1, CloseUnclosedShuts DEF Running
  <2> HIDE DEF c
  <2>3. c \in Ledger /\ Ends(c.blocks, made \o c.out)
    BY <2>2, ShutEnds DEF Shut
  <2> QED BY <2>1, <2>3, EndsWell
<1>3. CASE ~(hold.committed \/ ToolsComplete(ledger))
  <2>1. /\ phase' = "over" /\ result' = "failed"
        /\ policy' = policy /\ ledger' = ledger /\ wire' = wire
    BY <1>3 DEF Fails
  <2>2. wire = << >>
    BY <1>1, <1>3 DEF Running, Carries, Now
  <2>3. ~ToolsComplete(ledger')
    BY <1>3, <2>1
  <2>4. Legal(wire') /\ Closed(wire')
    BY <2>1, <2>2, EmptyIsLegal
  <2> QED BY <1>1, <2>1, <2>2, <2>3, <2>4 DEF Inv, WellEnded, WireLegal, OneAttempt, CallsAreWhole
<1> QED BY <1>2, <1>3

-----------------------------------------------------------------------------
(* The theorems.                                                            *)

LEMMA InitInv ==
  Init => Inv
<1>1. SUFFICES ASSUME Init PROVE Inv
  OBVIOUS
<1> DEFINE s == Begun([hold |-> NewHold, wire |-> << >>])
           w == <<MessageStart>>
<1>2. /\ policy \in Policy /\ phase # "over" /\ result = "none"
      /\ ledger = NewLedger /\ made = w /\ hold = s.hold /\ wire = s.wire
  BY <1>1, PolicyAssumption DEF Init
<1>3. Carries(s, w) /\ Honest(s, w)
  BY <1>2, BegunCarries
<1>4. NewLedger.out = << >> /\ Agrees(NewLedger, w) /\ Budget(NewLedger)
  BY NewLedgerAgrees
<1> HIDE DEF s, w
<1>5. Now = s
  BY <1>2, <1>3 DEF Carries, Now
<1>6. Running
  BY <1>2, <1>3, <1>4, <1>5 DEF Running
<1> QED BY <1>2, <1>6 DEF Inv

LEMMA NextInv ==
  Inv /\ [Next]_vars => Inv'
<1>1. SUFFICES ASSUME Inv, [Next]_vars PROVE Inv'
  OBVIOUS
<1>2. CASE Open \/ Elapse \/ FinishReason
  BY <1>1, <1>2, AttemptGoesOn
<1>3. CASE Reasoning \/ TextPart \/ Heuristic
  BY <1>1, <1>3, ContentGoesOn
<1>4. CASE \E t \in Tools, named \in BOOLEAN, n \in 0..Whole :
             (named \/ n > 0) /\ ToolCall(t, named, n)
  BY <1>1, <1>4, CallGoesOn
<1>5. CASE CreateFails
  BY <1>1, <1>5, FailureEnds DEF CreateFails
<1>6. CASE Finishes
  BY <1>1, <1>6, FinishEnds
<1>7. ASSUME NEW retryable \in BOOLEAN, StreamFails(retryable) PROVE Inv'
  <2>1. /\ phase # "over"
        /\ \/ ~hold.committed /\ RetriesEarly
           \/ ledger.blocks # << >> /\ Recovers
           \/ Fails
    BY <1>7 DEF StreamFails, AttemptFails
  <2> QED BY <1>1, <2>1, RetryGoesOn, RecoveryEnds, FailureEnds
<1>8. CASE UNCHANGED vars
  <2>1. /\ policy' = policy /\ phase' = phase /\ ledger' = ledger /\ made' = made
        /\ hold' = hold /\ wire' = wire /\ result' = result
    BY <1>8 DEF vars
  <2>2. CASE phase # "over"
    <3>1. Running /\ policy \in Policy
      BY <1>1, <2>2 DEF Inv
    <3>2. made \in Seq(Frame)
      BY <3>1, RunningLedger
    <3> QED BY <2>1, <2>2, <3>1, <3>2, GoesOn DEF Running, Now
  <2>3. CASE phase = "over"
    BY <1>1, <2>1, <2>3 DEF Inv, WellEnded, WireLegal, OneAttempt, CallsAreWhole
  <2> QED BY <2>2, <2>3
<1> QED BY <1>1, <1>2, <1>3, <1>4, <1>5, <1>6, <1>7, <1>8 DEF Next

LEMMA InvHolds ==
  Spec => []Inv
<1>1. Init => Inv
  BY InitInv
<1>2. Inv /\ [Next]_vars => Inv'
  BY NextInv
<1> QED BY <1>1, <1>2, PTL DEF Spec

(* Whatever the upstream sends and wherever it breaks off, what the reader  *)
(* of a streamed answer has been sent is a legal Anthropic stream: one      *)
(* message_start, no block index twice, deltas and stops only of open       *)
(* blocks; and when the answer is over every block is closed, and one that  *)
(* did not fail ends with message_stop.                                     *)
THEOREM WireIsLegal == Spec => []WireLegal
<1>1. Inv => WireLegal
  BY InvSafe
<1> QED BY <1>1, InvHolds, PTL

(* The reader gets all of one attempt or nothing: a retried attempt leaves  *)
(* no frame behind, and the hold-back buffer loses none it lets go.         *)
THEOREM OneAttemptOnly == Spec => []OneAttempt
<1>1. Inv => OneAttempt
  BY InvSafe
<1> QED BY <1>1, InvHolds, PTL

(* While an attempt goes on, the reader has a part of it only if that part  *)
(* has content and as much text as the operator asked for, or no hold-back  *)
(* is configured, or the buffer was full: the model can still be replaced.  *)
THEOREM SilenceIsHeld == Spec => []HeldWhileSilent
<1>1. Inv => HeldWhileSilent
  BY InvSafe
<1> QED BY <1>1, InvHolds, PTL

(* A recovered answer carries no half-written tool call, and calls that     *)
(* were whole reach the reader even when the attempt then fails for good.   *)
THEOREM CallsStayWhole == Spec => []CallsAreWhole
<1>1. Inv => CallsAreWhole
  BY InvSafe
<1> QED BY <1>1, InvHolds, PTL
=============================================================================
