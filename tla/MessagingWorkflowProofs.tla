---------------------- MODULE MessagingWorkflowProofs ----------------------
(***************************************************************************)
(* Whoever was told that a chat is cleared, or that everything is stopped, *)
(* is not contradicted later (OlderTurnsGone); between the commands the    *)
(* store holds what the repository holds (StoreAgrees); and every status   *)
(* and notice a chat shows can be cleared still (Accountable).  All for    *)
(* any prompts, commands and chats.                                        *)
(***************************************************************************)
EXTENDS MessagingWorkflow, TLAPS

States == {"absent", "pending", "in_progress", "completed", "error"}

(* The fields of a handler's record, and of a command's once it has come.  *)
TurnFields == {"at", "stop", "clear", "parent"}
Fields == {"kind", "chat", "ref", "gen", "at", "snap", "ids", "failed", "say"}

TypeInv ==
  /\ shape \in Shapes
  /\ stopGen \in Nat /\ clearGen \in [Chats -> Nat]
  /\ DOMAIN turn = Prompts /\ \A p \in Prompts : DOMAIN turn[p] = TurnFields
  /\ \A p \in Prompts : turn[p].stop \in Nat /\ turn[p].clear \in Nat
  /\ state \in [Prompts -> States] /\ stored \in [Prompts -> States]
  /\ DOMAIN op = Commands
  /\ \A c \in Commands : op[c].at # "idle" => DOMAIN op[c] = Fields

(* Generations only grow, and nobody holds one that was not drawn yet.     *)
GenInv ==
  /\ \A p \in Prompts : turn[p].stop <= stopGen /\ turn[p].clear <= clearGen[Chat(p)]
  /\ \A c \in Commands : op[c].at # "idle" =>
       /\ op[c].kind = "stop_all" => op[c].gen \in Nat /\ op[c].gen <= stopGen
       /\ op[c].kind = "clear_chat" =>
            op[c].chat \in Chats /\ op[c].gen \in Nat /\ op[c].gen <= clearGen[op[c].chat]

(* From its transition until its hand-over a command holds the lock.       *)
Held(c) == op[c].at \in {"draining", "handing"}

LockInv == \A c \in Commands : Held(c) => lock = c

(* A command that made its transition on every tree it was meant for.      *)
Drawn(c, kind) ==
  /\ op[c].at # "idle" /\ op[c].kind = kind
  /\ Acknowledged(c, kind) \/ (Held(c) /\ ~op[c].failed)

(* Prompt p was received before the boundary the command drew.             *)
OlderThanClear(p, c) ==
  turn[p].at # "new" /\ Chat(p) = op[c].chat /\ turn[p].clear < op[c].gen

OlderThanStop(p, c) == turn[p].at # "new" /\ turn[p].stop < op[c].gen

TreesInv ==
  \A c \in Commands, p \in Prompts :
    /\ Drawn(c, "clear_chat") /\ OlderThanClear(p, c) => state[p] = "absent"
    /\ Drawn(c, "stop_all") /\ OlderThanStop(p, c) => state[p] \notin {"pending", "in_progress"}

(* What a command is going to write revives nothing.                       *)
SnapInv ==
  \A c \in Commands : op[c].at = "handing" =>
    \A p \in Prompts : /\ p \in DOMAIN op[c].snap => op[c].snap[p] \in States
                       /\ p \in DOMAIN op[c].snap /\ state[p] = "absent"
                            => op[c].snap[p] = "absent"

StoreInv ==
  \A c \in Commands, p \in Prompts :
    Acknowledged(c, "clear_chat") /\ OlderThanClear(p, c) => stored[p] = "absent"

Inv == TypeInv /\ GenInv /\ LockInv /\ TreesInv /\ SnapInv /\ StoreInv

-----------------------------------------------------------------------------
(* What a step may do to the states: nothing, fail or remove some.          *)
Fades ==
  /\ state' \in [Prompts -> States]
  /\ \A p \in Prompts : \/ state'[p] = state[p]
                        \/ state'[p] = "absent"
                        \/ state[p] \in {"pending", "in_progress"} /\ state'[p] = "error"

(* What every command does when it is taken.                               *)
TakeEffect(c) ==
  /\ lock = Free /\ op[c].at = "idle"
  /\ UNCHANGED <<shape, turn, stored>>
  /\ Fades
  /\ DOMAIN op' = Commands /\ \A d \in Commands \ {c} : op'[d] = op[d]
  /\ DOMAIN op'[c] = Fields /\ op'[c].at # "idle"
  /\ lock' = c \/ (lock' = Free /\ op'[c].at \in {"reporting", "failed"})
  /\ op'[c].at = "handing" =>
       \A p \in Prompts : p \in DOMAIN op'[c].snap => op'[c].snap[p] = state'[p]
  /\ \/ op'[c].kind \in {"stop_reply", "clear_reply"} /\ UNCHANGED <<stopGen, clearGen>>
     \/ /\ op'[c].kind = "stop_all" /\ op'[c].gen = stopGen + 1
        /\ stopGen' = stopGen + 1 /\ clearGen' = clearGen
        /\ \/ op'[c].at = "failed"
           \/ \A p \in Prompts : state'[p] \notin {"pending", "in_progress"}
     \/ /\ op'[c].kind = "clear_chat" /\ op'[c].chat \in Chats
        /\ op'[c].gen = clearGen[op'[c].chat] + 1
        /\ stopGen' = stopGen
        /\ clearGen' = [clearGen EXCEPT ![op'[c].chat] = @ + 1]
        /\ op'[c].at \in {"draining", "handing"}
        /\ \/ op'[c].failed
           \/ \A p \in Prompts : Chat(p) = op'[c].chat => state'[p] = "absent"

LEMMA FailFades ==
  ASSUME TypeInv, NEW S, state' = Fail(S)
  PROVE  /\ Fades
         /\ \A p \in Prompts : p \in S => state'[p] \notin {"pending", "in_progress"}
<1>1. \A p \in Prompts : state'[p] = IF p \in S \cap Runnable THEN "error" ELSE state[p]
  BY DEF Fail
<1>2. \A p \in Prompts : p \in Runnable <=> state[p] \in {"pending", "in_progress"}
  BY DEF Runnable
<1>3. DOMAIN state' = Prompts /\ state' = [p \in Prompts |-> state'[p]]
  BY DEF Fail
<1>4. \A p \in Prompts : state'[p] \in States
  BY <1>1 DEF TypeInv, States
<1> QED BY <1>1, <1>2, <1>3, <1>4 DEF Fades

LEMMA TransitsEffect ==
  ASSUME TypeInv, NEW c \in Commands, NEW o, NEW S, NEW R,
         DOMAIN o = Fields, Transits(c, o, S, R)
  PROVE  /\ lock' = c
         /\ DOMAIN op' = Commands /\ \A d \in Commands \ {c} : op'[d] = op[d]
         /\ DOMAIN op'[c] = Fields /\ op'[c].at \in {"draining", "handing"}
         /\ op'[c].kind = o.kind /\ op'[c].chat = o.chat /\ op'[c].gen = o.gen
         /\ op'[c].at = "handing" =>
              \A p \in Prompts : p \in DOMAIN op'[c].snap => op'[c].snap[p] = state'[p]
<1> DEFINE at   == IF \E p \in S : runner[p] # "none" THEN "draining" ELSE "handing"
           snap == IF \E p \in S : runner[p] # "none" THEN << >> ELSE Snapshot(R, state')
<1>1. lock' = c /\ op' = [op EXCEPT ![c] = [o EXCEPT !.at = at, !.snap = snap]]
  BY DEF Transits
<1>2. at = "handing" => \A p \in Prompts : p \in DOMAIN snap => snap[p] = state'[p]
  BY DEF Snapshot
<1>3. at \in {"draining", "handing"}
  OBVIOUS
<1> HIDE DEF at, snap
<1>4. /\ DOMAIN op' = Commands /\ \A d \in Commands \ {c} : op'[d] = op[d]
      /\ op'[c] = [o EXCEPT !.at = at, !.snap = snap]
  BY <1>1 DEF TypeInv
<1>5. /\ DOMAIN op'[c] = Fields /\ op'[c].at = at /\ op'[c].snap = snap
      /\ op'[c].kind = o.kind /\ op'[c].chat = o.chat /\ op'[c].gen = o.gen
  BY <1>4 DEF Fields
<1> QED BY <1>1, <1>2, <1>3, <1>4, <1>5

(* A command that ends at once, or fails.                                  *)
LEMMA AtOnce ==
  ASSUME TypeInv, NEW c \in Commands, NEW r, DOMAIN r = Fields, op' = [op EXCEPT ![c] = r]
  PROVE  /\ DOMAIN op' = Commands /\ \A d \in Commands \ {c} : op'[d] = op[d]
         /\ op'[c] = r
BY DEF TypeInv

LEMMA StopReplyEffect ==
  ASSUME TypeInv, NEW c \in Commands, NEW ref \in Refs, StopReply(c, ref)
  PROVE  TakeEffect(c)
<1>o. PICK o : o = Command("stop_reply", Chat(ref[1]), ref)
  OBVIOUS
<1> DEFINE S == {ref[1]}
<1>1. /\ lock = Free /\ op[c].at = "idle"
      /\ UNCHANGED <<shape, gens, turn, stored>>
  BY DEF StopReply, Begins
<1>5. DOMAIN o = Fields /\ o.kind = "stop_reply" /\ o.at = "reporting"
  BY <1>o DEF Command, Fields
<1>2. CASE op' = [op EXCEPT ![c] = o] /\ UNCHANGED <<lock, state>>
  <2>1. op'[c] = o /\ DOMAIN op' = Commands /\ \A d \in Commands \ {c} : op'[d] = op[d]
    BY <1>2, <1>5, AtOnce
  <2>2. Fades
    BY <1>2 DEF Fades, TypeInv
  <2> QED BY <1>1, <1>2, <1>5, <2>1, <2>2 DEF TakeEffect, gens
<1>3. CASE op' = [op EXCEPT ![c] = [o EXCEPT !.at = "failed", !.ref = NoRef]] /\ UNCHANGED <<lock, state>>
  <2>3. PICK r : r = [o EXCEPT !.at = "failed", !.ref = NoRef]
    OBVIOUS
  <2>4. r.kind = "stop_reply" /\ r.at = "failed" /\ DOMAIN r = Fields
    BY <2>3, <1>5 DEF Fields
  <2>1. op'[c] = r /\ DOMAIN op' = Commands /\ \A d \in Commands \ {c} : op'[d] = op[d]
    BY <1>3, <2>3, <2>4, AtOnce
  <2>2. Fades
    BY <1>3 DEF Fades, TypeInv
  <2> QED BY <1>1, <1>3, <2>1, <2>2, <2>4 DEF TakeEffect, gens
<1>4. CASE state' = Fail(S) /\ Transits(c, [o EXCEPT !.say = (Cancelled(S) = {})], S, {home[ref[1]]})
  <2>1. PICK r : r = [o EXCEPT !.say = (Cancelled(S) = {})]
    OBVIOUS
  <2>2. PICK R : R = {home[ref[1]]}
    OBVIOUS
  <2>3. r.kind = "stop_reply" /\ DOMAIN r = Fields
    BY <2>1, <1>5 DEF Fields
  <2>4. Transits(c, r, S, R)
    BY <1>4, <2>1, <2>2
  <2>5. Fades
    BY <1>4, FailFades
  <2> QED BY <1>1, <2>3, <2>4, <2>5, TransitsEffect DEF TakeEffect, gens
<1> QED BY <1>2, <1>3, <1>4, <1>o DEF StopReply

LEMMA StopAllEffect ==
  ASSUME TypeInv, NEW c \in Commands, NEW k \in Chats, StopAll(c, k)
  PROVE  TakeEffect(c)
<1>o. PICK o : o = [Command("stop_all", k, NoRef) EXCEPT !.gen = stopGen + 1,
                      !.say = (Cancelled(Present) = {} \/ \E p \in Cancelled(Present) : Chat(p) # k)]
  OBVIOUS
<1>1. /\ lock = Free /\ op[c].at = "idle"
      /\ stopGen' = stopGen + 1 /\ UNCHANGED <<shape, clearGen, turn, stored>>
  BY DEF StopAll, Begins
<1>2. DOMAIN o = Fields /\ o.kind = "stop_all" /\ o.gen = stopGen + 1
  BY <1>o DEF Command, Fields
<1>3. CASE state' = Fail(Present) /\ Transits(c, o, Present, Roots)
  <2>1. PICK S : S = Present
    OBVIOUS
  <2>2. PICK R : R = Roots
    OBVIOUS
  <2>3. Transits(c, o, S, R) /\ state' = Fail(S)
    BY <1>3, <2>1, <2>2
  <2>4. Fades /\ \A p \in Prompts : p \in S => state'[p] \notin {"pending", "in_progress"}
    BY <2>3, FailFades
  <2>5. \A p \in Prompts : state'[p] \notin {"pending", "in_progress"}
    <3> SUFFICES ASSUME NEW p \in Prompts PROVE state'[p] \notin {"pending", "in_progress"}
      OBVIOUS
    <3>1. CASE p \in S
      BY <3>1, <2>4
    <3>2. CASE p \notin S
      <4>1. state[p] = "absent"
        BY <3>2, <2>1 DEF Present
      <4> QED BY <4>1, <2>4 DEF Fades
    <3> QED BY <3>1, <3>2
  <2> QED BY <1>1, <1>2, <2>3, <2>4, <2>5, TransitsEffect DEF TakeEffect
<1>4. CASE /\ \E S : state' = Fail(S)
           /\ op' = [op EXCEPT ![c] = [o EXCEPT !.at = "failed", !.ids = {}, !.ref = NoRef, !.say = FALSE]]
           /\ UNCHANGED lock
  <2>1. PICK r : r = [o EXCEPT !.at = "failed", !.ids = {}, !.ref = NoRef, !.say = FALSE]
    OBVIOUS
  <2>2. r.kind = "stop_all" /\ r.at = "failed" /\ r.gen = stopGen + 1 /\ DOMAIN r = Fields
    BY <2>1, <1>2 DEF Fields
  <2>3. op'[c] = r /\ DOMAIN op' = Commands /\ \A d \in Commands \ {c} : op'[d] = op[d]
    BY <1>4, <2>1, <2>2, AtOnce
  <2>4. Fades
    BY <1>4, FailFades
  <2> QED BY <1>1, <1>4, <2>2, <2>3, <2>4 DEF TakeEffect
<1>5. \/ state' = Fail(Present) /\ Transits(c, o, Present, Roots)
      \/ /\ \E S : state' = Fail(S)
         /\ op' = [op EXCEPT ![c] = [o EXCEPT !.at = "failed", !.ids = {}, !.ref = NoRef, !.say = FALSE]]
         /\ UNCHANGED lock
  BY <1>o DEF StopAll
<1> QED BY <1>3, <1>4, <1>5

LEMMA ClearReplyEffect ==
  ASSUME TypeInv, NEW c \in Commands, NEW ref \in Refs, ClearReply(c, ref)
  PROVE  TakeEffect(c)
<1> DEFINE owner == IF ref[2] = "status" THEN {ref[1]} ELSE {}
<1>r. PICK removed : removed = Subtree(ref)
  OBVIOUS
<1>a. PICK affected : affected = removed \cup owner
  OBVIOUS
<1>u. PICK u : u = Command("clear_reply", Chat(ref[1]), ref)
  OBVIOUS
<1>o. PICK o : o = [u EXCEPT !.ids = {Status(p) : p \in affected \ bare}]
  OBVIOUS
<1>1. /\ lock = Free /\ op[c].at = "idle"
      /\ UNCHANGED <<shape, gens, turn, stored>>
  BY DEF ClearReply, Begins
<1>2. /\ DOMAIN u = Fields /\ u.kind = "clear_reply" /\ u.at = "reporting"
      /\ DOMAIN o = Fields /\ o.kind = "clear_reply"
  BY <1>u, <1>o DEF Command, Fields
<1>3. CASE op' = [op EXCEPT ![c] = u] /\ UNCHANGED <<lock, state>>
  <2>1. op'[c] = u /\ DOMAIN op' = Commands /\ \A d \in Commands \ {c} : op'[d] = op[d]
    BY <1>3, <1>2, AtOnce
  <2>2. Fades
    BY <1>3 DEF Fades, TypeInv
  <2> QED BY <1>1, <1>2, <1>3, <2>1, <2>2 DEF TakeEffect, gens
<1>4. CASE /\ state' = [p \in Prompts |-> IF p \in removed THEN "absent" ELSE Fail(affected)[p]]
           /\ Transits(c, o, affected, {home[ref[1]]})
  <2>1. PICK R : R = {home[ref[1]]}
    OBVIOUS
  <2>2. Transits(c, o, affected, R)
    BY <1>4, <2>1
  <2>3. Fades
    <3>1. \A p \in Prompts : state'[p] = IF p \in removed THEN "absent"
                                         ELSE IF p \in affected \cap Runnable THEN "error" ELSE state[p]
      BY <1>4 DEF Fail
    <3>2. \A p \in Prompts : p \in Runnable <=> state[p] \in {"pending", "in_progress"}
      BY DEF Runnable
    <3>3. state' = [p \in Prompts |-> state'[p]]
      BY <1>4
    <3>4. \A p \in Prompts : state'[p] \in States
      BY <3>1 DEF TypeInv, States
    <3> QED BY <3>1, <3>2, <3>3, <3>4 DEF Fades
  <2> QED BY <1>1, <1>2, <2>2, <2>3, TransitsEffect DEF TakeEffect, gens
<1>5. CASE /\ \E met : state' = Fail(met)
           /\ op' = [op EXCEPT ![c] = [o EXCEPT !.at = "failed", !.ids = {}, !.ref = NoRef, !.say = FALSE]]
           /\ UNCHANGED lock
  <2>1. PICK r : r = [o EXCEPT !.at = "failed", !.ids = {}, !.ref = NoRef, !.say = FALSE]
    OBVIOUS
  <2>2. r.kind = "clear_reply" /\ r.at = "failed" /\ DOMAIN r = Fields
    BY <2>1, <1>2 DEF Fields
  <2>3. op'[c] = r /\ DOMAIN op' = Commands /\ \A d \in Commands \ {c} : op'[d] = op[d]
    BY <1>5, <2>1, <2>2, AtOnce
  <2>4. Fades
    BY <1>5, FailFades
  <2> QED BY <1>1, <1>5, <2>2, <2>3, <2>4 DEF TakeEffect, gens
<1>6. \/ op' = [op EXCEPT ![c] = u] /\ UNCHANGED <<lock, state>>
      \/ /\ state' = [p \in Prompts |-> IF p \in removed THEN "absent" ELSE Fail(affected)[p]]
         /\ Transits(c, o, affected, {home[ref[1]]})
      \/ /\ \E met : state' = Fail(met)
         /\ op' = [op EXCEPT ![c] = [o EXCEPT !.at = "failed", !.ids = {}, !.ref = NoRef, !.say = FALSE]]
         /\ UNCHANGED lock
  BY <1>r, <1>a, <1>u, <1>o DEF ClearReply
<1> QED BY <1>3, <1>4, <1>5, <1>6

LEMMA DetachFades ==
  ASSUME TypeInv, NEW S, state' = Detach(S)
  PROVE  Fades /\ \A p \in Prompts : p \in S => state'[p] = "absent"
<1>1. \A p \in Prompts : state'[p] = IF p \in S THEN "absent" ELSE state[p]
  BY DEF Detach
<1>2. state' = [p \in Prompts |-> state'[p]]
  BY DEF Detach
<1>3. \A p \in Prompts : state'[p] \in States
  BY <1>1 DEF TypeInv, States
<1> QED BY <1>1, <1>2, <1>3 DEF Fades

LEMMA ClearChatEffect ==
  ASSUME TypeInv, NEW c \in Commands, NEW k \in Chats, ClearChat(c, k)
  PROVE  TakeEffect(c)
<1>h. PICK here : here = {p \in Present : Chat(p) = k}
  OBVIOUS
<1>o. PICK o : o = [Command("clear_chat", k, NoRef) EXCEPT !.gen = clearGen[k] + 1,
                      !.ids = {m \in log : In(m, k)} \cup {Status(p) : p \in here \ bare}]
  OBVIOUS
<1>1. /\ lock = Free /\ op[c].at = "idle"
      /\ clearGen' = [clearGen EXCEPT ![k] = @ + 1]
      /\ UNCHANGED <<shape, stopGen, turn, stored>>
  BY DEF ClearChat, Begins
<1>2. DOMAIN o = Fields /\ o.kind = "clear_chat" /\ o.chat = k /\ o.gen = clearGen[k] + 1
      /\ o.snap = << >>
  BY <1>o DEF Command, Fields
<1>3. CASE state' = Detach(here) /\ Transits(c, o, here, {})
  <2>1. Fades /\ \A p \in Prompts : p \in here => state'[p] = "absent"
    BY <1>3, DetachFades
  <2>2. \A p \in Prompts : Chat(p) = k => state'[p] = "absent"
    <3> SUFFICES ASSUME NEW p \in Prompts, Chat(p) = k PROVE state'[p] = "absent"
      OBVIOUS
    <3>1. CASE p \in here
      BY <3>1, <2>1
    <3>2. CASE p \notin here
      <4>1. state[p] = "absent"
        BY <3>2, <1>h DEF Present
      <4> QED BY <4>1, <2>1 DEF Fades
    <3> QED BY <3>1, <3>2
  <2>3. /\ lock' = c
        /\ DOMAIN op' = Commands /\ \A d \in Commands \ {c} : op'[d] = op[d]
        /\ DOMAIN op'[c] = Fields /\ op'[c].at \in {"draining", "handing"}
        /\ op'[c].kind = "clear_chat" /\ op'[c].chat = k /\ op'[c].gen = clearGen[k] + 1
        /\ op'[c].at = "handing" =>
             \A p \in Prompts : p \in DOMAIN op'[c].snap => op'[c].snap[p] = state'[p]
    BY <1>2, <1>3, TransitsEffect
  <2> QED BY <1>1, <2>1, <2>2, <2>3 DEF TakeEffect
<1>4. CASE /\ \E S : state' = Detach(S)
           /\ lock' = c
           /\ op' = [op EXCEPT ![c] = [o EXCEPT !.at = "handing", !.failed = TRUE]]
  <2>1. PICK r : r = [o EXCEPT !.at = "handing", !.failed = TRUE]
    OBVIOUS
  <2>2. /\ r.kind = "clear_chat" /\ r.chat = k /\ r.gen = clearGen[k] + 1 /\ r.at = "handing"
        /\ r.failed /\ r.snap = << >> /\ DOMAIN r = Fields
    BY <2>1, <1>2 DEF Fields
  <2>3. op'[c] = r /\ DOMAIN op' = Commands /\ \A d \in Commands \ {c} : op'[d] = op[d]
    BY <1>4, <2>1, <2>2, AtOnce
  <2>4. Fades
    BY <1>4, DetachFades
  <2>5. \A p \in Prompts : p \in DOMAIN r.snap => r.snap[p] = state'[p]
    BY <2>2
  <2> QED BY <1>1, <1>4, <2>2, <2>3, <2>4, <2>5 DEF TakeEffect
<1>5. \/ state' = Detach(here) /\ Transits(c, o, here, {})
      \/ /\ \E S : state' = Detach(S)
         /\ lock' = c
         /\ op' = [op EXCEPT ![c] = [o EXCEPT !.at = "handing", !.failed = TRUE]]
  BY <1>h, <1>o DEF ClearChat
<1> QED BY <1>3, <1>4, <1>5

LEMMA TakeHasEffect ==
  ASSUME TypeInv, NEW c \in Commands, Take(c) PROVE TakeEffect(c)
BY StopReplyEffect, StopAllEffect, ClearReplyEffect, ClearChatEffect DEF Take

LEMMA FadesCalms ==
  ASSUME Fades, NEW p \in Prompts
  PROVE  /\ state[p] = "absent" => state'[p] = "absent"
         /\ state[p] \notin {"pending", "in_progress"}
              => state'[p] \notin {"pending", "in_progress"}
BY DEF Fades

LEMMA TakeKeepsInv ==
  ASSUME Inv, NEW c \in Commands, Take(c) PROVE Inv'
<1>1. TakeEffect(c)
  BY TakeHasEffect DEF Inv
<1>2. \A d \in Commands : ~Held(d)
  BY <1>1, FreeAssumption DEF TakeEffect, Inv, LockInv
<1>3. Fades /\ shape' = shape /\ turn' = turn /\ stored' = stored /\ lock = Free /\ op[c].at = "idle"
  BY <1>1 DEF TakeEffect
<1>4. /\ DOMAIN op' = Commands /\ \A d \in Commands \ {c} : op'[d] = op[d]
      /\ DOMAIN op'[c] = Fields /\ op'[c].at # "idle"
      /\ Held(c)' => lock' = c
      /\ op'[c].at = "handing" =>
           \A p \in Prompts : p \in DOMAIN op'[c].snap => op'[c].snap[p] = state'[p]
  BY <1>1 DEF TakeEffect, Held
<1>5. /\ stopGen' \in Nat /\ stopGen <= stopGen'
      /\ clearGen' \in [Chats -> Nat] /\ \A k \in Chats : clearGen[k] <= clearGen'[k]
  BY <1>1 DEF TakeEffect, Inv, TypeInv
<1>6. /\ op'[c].kind = "stop_all" => op'[c].gen = stopGen'
      /\ op'[c].kind = "clear_chat" => op'[c].chat \in Chats /\ op'[c].gen = clearGen'[op'[c].chat]
  BY <1>1 DEF TakeEffect, Inv, TypeInv
<1>7. /\ ~Acknowledged(c, "clear_chat")'
      /\ Drawn(c, "clear_chat")' => \A p \in Prompts : Chat(p) = op'[c].chat => state'[p] = "absent"
      /\ Drawn(c, "stop_all")' => \A p \in Prompts : state'[p] \notin {"pending", "in_progress"}
  BY <1>1 DEF TakeEffect, Drawn, Acknowledged, Held
<1>8. \A p \in Prompts : Chat(p)' = Chat(p) /\ Chat(p) \in Chats
  BY <1>3, ShapesAssumption DEF Chat, Inv, TypeInv
<1>t. TypeInv'
  BY <1>3, <1>4, <1>5 DEF Inv, TypeInv, Fades
<1>g. GenInv'
  <2>1. \A p \in Prompts : turn'[p].stop <= stopGen' /\ turn'[p].clear <= clearGen'[Chat(p)']
    <3> SUFFICES ASSUME NEW p \in Prompts
                 PROVE  turn'[p].stop <= stopGen' /\ turn'[p].clear <= clearGen'[Chat(p)']
      OBVIOUS
    <3>1. turn[p].stop <= stopGen /\ turn[p].clear <= clearGen[Chat(p)]
      BY DEF Inv, GenInv
    <3>2. turn[p].stop \in Nat /\ turn[p].clear \in Nat /\ stopGen \in Nat /\ clearGen[Chat(p)] \in Nat
      BY <1>8 DEF Inv, TypeInv
    <3>3. clearGen[Chat(p)] <= clearGen'[Chat(p)] /\ clearGen'[Chat(p)] \in Nat
      BY <1>5, <1>8
    <3> QED BY <3>1, <3>2, <3>3, <1>3, <1>5, <1>8
  <2>2. ASSUME NEW d \in Commands, op'[d].at # "idle"
        PROVE  /\ op'[d].kind = "stop_all" => op'[d].gen \in Nat /\ op'[d].gen <= stopGen'
               /\ op'[d].kind = "clear_chat" =>
                    op'[d].chat \in Chats /\ op'[d].gen \in Nat /\ op'[d].gen <= clearGen'[op'[d].chat]
    <3>1. CASE d = c
      BY <3>1, <1>5, <1>6
    <3>2. CASE d # c
      <4>1. op'[d] = op[d]
        BY <3>2, <1>4
      <4>2. /\ op[d].kind = "stop_all" => op[d].gen \in Nat /\ op[d].gen <= stopGen
            /\ op[d].kind = "clear_chat" =>
                 op[d].chat \in Chats /\ op[d].gen \in Nat /\ op[d].gen <= clearGen[op[d].chat]
        BY <2>2, <4>1 DEF Inv, GenInv
      <4>3. stopGen \in Nat /\ clearGen \in [Chats -> Nat]
        BY DEF Inv, TypeInv
      <4> QED BY <4>1, <4>2, <4>3, <1>5
    <3> QED BY <3>1, <3>2
  <2> QED BY <2>1, <2>2 DEF GenInv
<1>l. LockInv'
  <2> SUFFICES ASSUME NEW d \in Commands, Held(d)' PROVE lock' = d
    BY DEF LockInv
  <2>1. CASE d = c
    BY <2>1, <1>4
  <2>2. CASE d # c
    BY <2>2, <1>2, <1>4 DEF Held
  <2> QED BY <2>1, <2>2
<1>s. SnapInv'
  <2> SUFFICES ASSUME NEW d \in Commands, op'[d].at = "handing", NEW p \in Prompts,
                      p \in DOMAIN op'[d].snap
               PROVE  op'[d].snap[p] \in States /\ (state'[p] = "absent" => op'[d].snap[p] = "absent")
    BY DEF SnapInv
  <2>1. d = c
    BY <1>2, <1>4 DEF Held
  <2> QED BY <2>1, <1>4, <1>3 DEF Fades
<1>r. TreesInv'
  <2> SUFFICES ASSUME NEW d \in Commands, NEW p \in Prompts
               PROVE  /\ Drawn(d, "clear_chat")' /\ OlderThanClear(p, d)' => state'[p] = "absent"
                      /\ Drawn(d, "stop_all")' /\ OlderThanStop(p, d)'
                           => state'[p] \notin {"pending", "in_progress"}
    BY DEF TreesInv
  <2>1. CASE d = c
    BY <2>1, <1>7, <1>8 DEF OlderThanClear
  <2>2. CASE d # c
    <3>1. op'[d] = op[d] /\ turn' = turn /\ shape' = shape
      BY <2>2, <1>3, <1>4
    <3>2. /\ Drawn(d, "clear_chat")' /\ OlderThanClear(p, d)' => state[p] = "absent"
          /\ Drawn(d, "stop_all")' /\ OlderThanStop(p, d)' => state[p] \notin {"pending", "in_progress"}
      BY <3>1, <1>8 DEF Inv, TreesInv, Drawn, Acknowledged, Held, OlderThanClear, OlderThanStop
    <3> QED BY <3>2, <1>3, FadesCalms
  <2> QED BY <2>1, <2>2
<1>o. StoreInv'
  <2> SUFFICES ASSUME NEW d \in Commands, NEW p \in Prompts,
                      Acknowledged(d, "clear_chat")', OlderThanClear(p, d)'
               PROVE  stored'[p] = "absent"
    BY DEF StoreInv
  <2>1. d # c
    BY <1>7
  <2>2. op'[d] = op[d] /\ turn' = turn /\ shape' = shape /\ stored' = stored
    BY <2>1, <1>3, <1>4
  <2> QED BY <2>2, <1>8 DEF Inv, StoreInv, Acknowledged, OlderThanClear
<1> QED BY <1>t, <1>g, <1>l, <1>s, <1>r, <1>o DEF Inv

-----------------------------------------------------------------------------
(* The steps of prompts, runners and the notice: only the admission of a   *)
(* prompt with a current token revives it, only its reception gives it one. *)
CalmAt(p) ==
  /\ state[p] = "absent" => state'[p] = "absent"
  /\ state[p] \notin {"pending", "in_progress"} => state'[p] \notin {"pending", "in_progress"}

TurnKept(p) ==
  /\ turn'[p].stop = turn[p].stop /\ turn'[p].clear = turn[p].clear
  /\ turn'[p].at # "new" => turn[p].at # "new"

Fresh(p) == turn'[p].stop = stopGen /\ turn'[p].clear = clearGen[Chat(p)]

Quiet ==
  /\ UNCHANGED <<shape, gens, lock, op>>
  /\ DOMAIN turn' = Prompts /\ \A p \in Prompts : DOMAIN turn'[p] = TurnFields
  /\ \A p \in Prompts : TurnKept(p) \/ Fresh(p)
  /\ state' \in [Prompts -> States] /\ stored' \in [Prompts -> States]
  /\ \A p \in Prompts : CalmAt(p) \/ (Fresh(p) /\ TurnKept(p))
  /\ \A p \in Prompts : state'[p] = "absent" => state[p] = "absent"
  /\ \A p \in Prompts : stored'[p] = stored[p] \/ stored'[p] = state'[p]

LEMMA QuietKeepsInv ==
  ASSUME Inv, Quiet PROVE Inv'
<1>1. /\ shape' = shape /\ stopGen' = stopGen /\ clearGen' = clearGen /\ lock' = lock /\ op' = op
      /\ \A p \in Prompts : Chat(p)' = Chat(p) /\ Chat(p) \in Chats
  BY ShapesAssumption DEF Quiet, gens, Chat, Inv, TypeInv
<1>2. \A p \in Prompts : /\ turn'[p].stop \in Nat /\ turn'[p].stop <= stopGen
                         /\ turn'[p].clear \in Nat /\ turn'[p].clear <= clearGen[Chat(p)]
  <2> SUFFICES ASSUME NEW p \in Prompts
               PROVE  /\ turn'[p].stop \in Nat /\ turn'[p].stop <= stopGen
                      /\ turn'[p].clear \in Nat /\ turn'[p].clear <= clearGen[Chat(p)]
    OBVIOUS
  <2>1. TurnKept(p) \/ Fresh(p)
    BY DEF Quiet
  <2> QED BY <2>1, <1>1 DEF TurnKept, Fresh, Inv, TypeInv, GenInv
<1>t. TypeInv'
  BY <1>1, <1>2 DEF Quiet, Inv, TypeInv
<1>g. GenInv'
  BY <1>1, <1>2 DEF Inv, GenInv
<1>l. LockInv'
  BY <1>1 DEF Inv, LockInv, Held
<1>s. SnapInv'
  BY <1>1 DEF Quiet, Inv, SnapInv
<1>f. ASSUME NEW c \in Commands, NEW p \in Prompts, Fresh(p)
      PROVE  /\ Drawn(c, "clear_chat")' => ~OlderThanClear(p, c)'
             /\ Drawn(c, "stop_all")' => ~OlderThanStop(p, c)'
  <2>1. /\ Drawn(c, "clear_chat")' /\ Chat(p) = op[c].chat =>
             clearGen[Chat(p)] \in Nat /\ op[c].gen \in Nat /\ op[c].gen <= clearGen[Chat(p)]
        /\ Drawn(c, "stop_all")' => stopGen \in Nat /\ op[c].gen \in Nat /\ op[c].gen <= stopGen
    BY <1>1 DEF Drawn, Inv, TypeInv, GenInv
  <2> QED BY <1>1, <1>f, <2>1 DEF Fresh, OlderThanClear, OlderThanStop
<1>d. ASSUME NEW c \in Commands, NEW p \in Prompts, TurnKept(p)
      PROVE  /\ \A k \in {"clear_chat", "stop_all"} : Drawn(c, k)' => Drawn(c, k)
             /\ OlderThanClear(p, c)' => OlderThanClear(p, c)
             /\ OlderThanStop(p, c)' => OlderThanStop(p, c)
             /\ Acknowledged(c, "clear_chat")' => Acknowledged(c, "clear_chat")
  BY <1>1, <1>d DEF TurnKept, Drawn, Acknowledged, Held, OlderThanClear, OlderThanStop
<1>r. TreesInv'
  <2> SUFFICES ASSUME NEW c \in Commands, NEW p \in Prompts
               PROVE  /\ Drawn(c, "clear_chat")' /\ OlderThanClear(p, c)' => state'[p] = "absent"
                      /\ Drawn(c, "stop_all")' /\ OlderThanStop(p, c)'
                           => state'[p] \notin {"pending", "in_progress"}
    BY DEF TreesInv
  <2>1. CASE Fresh(p)
    BY <2>1, <1>f
  <2>2. CASE ~Fresh(p)
    <3>1. TurnKept(p) /\ CalmAt(p)
      BY <2>2 DEF Quiet
    <3>2. /\ Drawn(c, "clear_chat") /\ OlderThanClear(p, c) => state[p] = "absent"
          /\ Drawn(c, "stop_all") /\ OlderThanStop(p, c) => state[p] \notin {"pending", "in_progress"}
      BY DEF Inv, TreesInv
    <3> QED BY <3>1, <3>2, <1>d DEF CalmAt
  <2> QED BY <2>1, <2>2
<1>o. StoreInv'
  <2> SUFFICES ASSUME NEW c \in Commands, NEW p \in Prompts,
                      Acknowledged(c, "clear_chat")', OlderThanClear(p, c)'
               PROVE  stored'[p] = "absent"
    BY DEF StoreInv
  <2>1. Drawn(c, "clear_chat")'
    BY DEF Drawn, Acknowledged
  <2>2. state'[p] = "absent"
    BY <2>1, <1>r DEF TreesInv
  <2>3. TurnKept(p)
    BY <2>1, <1>f DEF Quiet
  <2>4. stored[p] = "absent"
    BY <2>3, <1>d DEF Inv, StoreInv
  <2> QED BY <2>2, <2>4 DEF Quiet
<1> QED BY <1>t, <1>g, <1>l, <1>s, <1>r, <1>o DEF Inv

LEMMA NoticeIsQuiet ==
  ASSUME Inv, NoticeStep PROVE Quiet
BY DEF NoticeStep, trees, Inv, TypeInv, Quiet, TurnKept, CalmAt

(* A prompt's handler goes on.                                             *)
LEMMA GoesKeeps ==
  ASSUME Inv, NEW p \in Prompts, NEW at, at # "new", turn[p].at # "new",
         turn' = [turn EXCEPT ![p].at = at]
  PROVE  /\ DOMAIN turn' = Prompts
         /\ \A q \in Prompts : DOMAIN turn'[q] = TurnFields /\ TurnKept(q)
<1>1. DOMAIN turn = Prompts /\ \A q \in Prompts : DOMAIN turn[q] = TurnFields
  BY DEF Inv, TypeInv
<1>2. /\ DOMAIN turn' = Prompts
      /\ \A q \in Prompts : turn'[q] = IF q = p THEN [turn[p] EXCEPT !.at = at] ELSE turn[q]
  BY <1>1
<1>3. \A q \in Prompts : DOMAIN turn'[q] = TurnFields
  BY <1>1, <1>2
<1>4. \A q \in Prompts : turn'[q].stop = turn[q].stop /\ turn'[q].clear = turn[q].clear
  BY <1>1, <1>2 DEF TurnFields
<1> QED BY <1>2, <1>3, <1>4 DEF TurnKept

LEMMA ReceiveIsQuiet ==
  ASSUME Inv, NEW p \in Prompts, Receive(p) PROVE Quiet
<1>1. PICK parent : turn' = [turn EXCEPT ![p] =
         [at |-> "sending", stop |-> stopGen, clear |-> clearGen[Chat(p)], parent |-> parent]]
  BY DEF Receive
<1>3. /\ DOMAIN turn' = Prompts
      /\ \A q \in Prompts : turn'[q] = IF q = p
         THEN [at |-> "sending", stop |-> stopGen, clear |-> clearGen[Chat(p)], parent |-> parent]
         ELSE turn[q]
  BY <1>1 DEF Inv, TypeInv
<1>5. DOMAIN turn' = Prompts /\ \A q \in Prompts : DOMAIN turn'[q] = TurnFields
  BY <1>3 DEF Inv, TypeInv, TurnFields
<1>6. \A q \in Prompts : TurnKept(q) \/ Fresh(q)
  BY <1>3 DEF TurnKept, Fresh
<1>7. UNCHANGED <<shape, gens, lock, op, state, stored>>
  BY DEF Receive, trees
<1> QED BY <1>5, <1>6, <1>7 DEF Quiet, CalmAt, Inv, TypeInv

LEMMA TurnIsQuiet ==
  ASSUME Inv, NEW p \in Prompts, TurnStep(p) PROVE Quiet
<1>1. CASE StatusSent(p) \/ Discard(p)
  <2>1. PICK at \in {"asking", "done"} : turn' = [turn EXCEPT ![p].at = at]
    BY <1>1 DEF StatusSent, Discard, Goes
  <2>2. turn[p].at # "new" /\ UNCHANGED <<shape, gens, lock, op, state, stored>>
    BY <1>1 DEF StatusSent, Discard, trees
  <2> QED BY <2>1, <2>2, GoesKeeps DEF Quiet, CalmAt, Inv, TypeInv
<1>2. CASE Admit(p)
  <2>1. PICK at \in {"done", "rejected"} : turn' = [turn EXCEPT ![p].at = at]
    BY <1>2 DEF Admit, Goes
  <2>2. turn[p].at # "new" /\ UNCHANGED <<shape, gens, lock, op>>
    BY <1>2 DEF Admit
  <2>3. /\ DOMAIN turn' = Prompts
        /\ \A q \in Prompts : DOMAIN turn'[q] = TurnFields /\ TurnKept(q)
    BY <2>1, <2>2, GoesKeeps
  <2>4. CASE UNCHANGED <<trees, stored>>
    BY <2>2, <2>3, <2>4 DEF trees, Quiet, CalmAt, Inv, TypeInv
  <2>5. CASE /\ Current(p)
             /\ \E r : Admitted(p, r) /\ SaveTree(r)
    <3>1. PICK r : Admitted(p, r) /\ SaveTree(r)
      BY <2>5
    <3>2. PICK s \in {"pending", "in_progress"} : state' = [state EXCEPT ![p] = s]
      BY <3>1 DEF Admitted
    <3>3. /\ state' \in [Prompts -> States]
          /\ \A q \in Prompts : state'[q] = IF q = p THEN s ELSE state[q]
      BY <3>2 DEF Inv, TypeInv, States
    <3>4. /\ stored' \in [Prompts -> States]
          /\ \A q \in Prompts : stored'[q] = stored[q] \/ stored'[q] = state'[q]
      BY <3>1, <3>3 DEF SaveTree, Inv, TypeInv
    <3>5. Fresh(p)
      BY <2>3, <2>5 DEF TurnKept, Fresh, Current
    <3> QED BY <2>2, <2>3, <3>3, <3>4, <3>5 DEF Quiet, CalmAt
  <2> QED BY <1>2, <2>4, <2>5 DEF Admit
<1> QED BY <1>1, <1>2 DEF TurnStep

(* A runner settles present prompts, and the claim is passed to a waiting  *)
(* one.                                                                    *)
LEMMA RunnerIsQuiet ==
  ASSUME Inv, NEW p \in Prompts, RunnerStep(p) PROVE Quiet
<1>0. state \in [Prompts -> States] /\ stored \in [Prompts -> States]
  BY DEF Inv, TypeInv
<1>1. UNCHANGED <<shape, gens, lock, op, turn>>
  BY DEF RunnerStep, RecordSession, Complete, FailClaim, Leave, Report
<1>2. stored' = stored \/ \E r : SaveTree(r)
  BY DEF RunnerStep, RecordSession, Complete, FailClaim, Leave, Report
<1>3. /\ state' \in [Prompts -> States]
      /\ \A q \in Prompts : CalmAt(q) /\ (state'[q] = "absent" => state[q] = "absent")
  <2>1. CASE RecordSession(p)
    BY <2>1, <1>0 DEF RecordSession, Report, CalmAt
  <2>2. CASE Complete(p)
    <3>1. state' = [state EXCEPT ![p] = "completed"] /\ state[p] # "absent"
      BY <2>2 DEF Complete, Report, Reports, Present
    <3> QED BY <3>1, <1>0 DEF CalmAt, States
  <2>3. CASE \E b \in BOOLEAN : FailClaim(p, b)
    <3>1. PICK b \in BOOLEAN : FailClaim(p, b)
      BY <2>3
    <3>2. PICK below : below = IF b THEN {q \in Below(p) : state[q] = "pending"} ELSE {}
      OBVIOUS
    <3>3. /\ state' = [q \in Prompts |-> IF q \in below \cup {p} THEN "error" ELSE state[q]]
          /\ state[p] # "absent"
      BY <3>1, <3>2 DEF FailClaim, Report, Reports, Present
    <3>4. \A q \in below : state[q] = "pending"
      BY <3>2
    <3> QED BY <3>3, <3>4, <1>0 DEF CalmAt, States
  <2>4. CASE Leave(p)
    <3>1. \/ state' = state
          \/ \E q \in Prompts : state[q] = "pending" /\ state' = [state EXCEPT ![q] = "in_progress"]
      BY <2>4 DEF Leave, Tree, Present
    <3> QED BY <3>1, <1>0 DEF CalmAt, States
  <2> QED BY <2>1, <2>2, <2>3, <2>4 DEF RunnerStep
<1>4. /\ stored' \in [Prompts -> States]
      /\ \A q \in Prompts : stored'[q] = stored[q] \/ stored'[q] = state'[q]
  BY <1>0, <1>2, <1>3 DEF SaveTree
<1> QED BY <1>1, <1>3, <1>4 DEF Quiet, TurnKept, Inv, TypeInv

-----------------------------------------------------------------------------
(* A command that was taken goes on: it keeps what it is, holds the lock   *)
(* from its drain to its hand-over, and writes the store only then.        *)
GoesOn(c) ==
  /\ UNCHANGED <<shape, stopGen, clearGen, turn, state>>
  /\ DOMAIN op' = Commands /\ \A d \in Commands \ {c} : op'[d] = op[d]
  /\ DOMAIN op'[c] = Fields /\ op[c].at # "idle" /\ op'[c].at # "idle"
  /\ op'[c].kind = op[c].kind /\ op'[c].chat = op[c].chat /\ op'[c].gen = op[c].gen
  /\ \/ /\ op[c].at = "draining" /\ op'[c].at = "handing" /\ op'[c].failed = op[c].failed
        /\ UNCHANGED <<lock, stored>>
        /\ \A p \in Prompts : p \in DOMAIN op'[c].snap => op'[c].snap[p] = state[p]
     \/ /\ op[c].at \in {"deleting", "reporting"} /\ op'[c].at = "done"
        /\ UNCHANGED <<lock, stored>>
     \/ /\ op[c].at = "handing" /\ op'[c].at \in {"failed", "deleting", "reporting", "done"}
        /\ op'[c].at # "failed" => ~op[c].failed
        /\ lock' = Free
        /\ stored' = [p \in Prompts |->
             IF p \in DOMAIN op[c].snap THEN op[c].snap[p]
             ELSE IF op[c].kind = "clear_chat" /\ Chat(p) = op[c].chat THEN "absent"
             ELSE stored[p]]

LEMMA EndsKeeps ==
  ASSUME Inv, NEW c \in Commands, op[c].at # "idle", NEW at, NEW ids, Ends(c, at, ids)
  PROVE  /\ DOMAIN op' = Commands /\ \A d \in Commands \ {c} : op'[d] = op[d]
         /\ DOMAIN op'[c] = Fields /\ op'[c].at = at
         /\ op'[c].kind = op[c].kind /\ op'[c].chat = op[c].chat /\ op'[c].gen = op[c].gen
<1>1. PICK ref : op' = [op EXCEPT ![c] =
         [Command(op[c].kind, op[c].chat, ref) EXCEPT !.gen = op[c].gen, !.at = at, !.ids = ids]]
  BY DEF Ends, Inv, TypeInv
<1>2. PICK o : o = Command(op[c].kind, op[c].chat, ref)
  OBVIOUS
<1>3. DOMAIN o = Fields /\ o.kind = op[c].kind /\ o.chat = op[c].chat
  BY <1>2 DEF Command, Fields
<1>4. /\ DOMAIN op' = Commands /\ \A d \in Commands \ {c} : op'[d] = op[d]
      /\ op'[c] = [o EXCEPT !.gen = op[c].gen, !.at = at, !.ids = ids]
  BY <1>1, <1>2 DEF Inv, TypeInv
<1> QED BY <1>3, <1>4 DEF Fields

LEMMA OpStepGoesOn ==
  ASSUME Inv, NEW c \in Commands, OpStep(c) PROVE GoesOn(c)
<1>1. CASE Drained(c)
  <2>1. PICK snap : /\ op' = [op EXCEPT ![c].at = "handing", ![c].snap = snap]
                    /\ \A p \in Prompts : p \in DOMAIN snap => snap[p] = state[p]
    <3>1. PICK R : op' = [op EXCEPT ![c].at = "handing", ![c].snap = Snapshot(R, state)]
      BY <1>1 DEF Drained
    <3>2. PICK snap : snap = Snapshot(R, state)
      OBVIOUS
    <3>3. \A p \in Prompts : p \in DOMAIN snap => snap[p] = state[p]
      BY <3>2 DEF Snapshot
    <3>4. op' = [op EXCEPT ![c].at = "handing", ![c].snap = snap]
      BY <3>1, <3>2
    <3> QED BY <3>3, <3>4
  <2>2. /\ op[c].at = "draining" /\ DOMAIN op[c] = Fields
        /\ UNCHANGED <<shape, stopGen, clearGen, turn, state, lock, stored>>
    BY <1>1 DEF Drained, gens, trees, Inv, TypeInv
  <2>3. /\ DOMAIN op' = Commands /\ \A d \in Commands \ {c} : op'[d] = op[d]
        /\ op'[c] = [[op[c] EXCEPT !.at = "handing"] EXCEPT !.snap = snap]
    BY <2>1 DEF Inv, TypeInv
  <2>4. /\ DOMAIN op'[c] = Fields /\ op'[c].at = "handing" /\ op'[c].snap = snap
        /\ op'[c].failed = op[c].failed
        /\ op'[c].kind = op[c].kind /\ op'[c].chat = op[c].chat /\ op'[c].gen = op[c].gen
    BY <2>2, <2>3 DEF Fields
  <2> QED BY <2>1, <2>2, <2>3, <2>4 DEF GoesOn
<1>2. CASE DeleteCollected(c) \/ SendFeedback(c)
  <2>1. /\ op[c].at \in {"deleting", "reporting"} /\ Ends(c, "done", {})
        /\ UNCHANGED <<shape, stopGen, clearGen, turn, state, lock, stored>>
    BY <1>2 DEF DeleteCollected, SendFeedback, gens, trees
  <2> QED BY <2>1, EndsKeeps DEF GoesOn
<1>3. CASE HandOver(c)
  <2>1. /\ op[c].at = "handing" /\ lock' = Free
        /\ UNCHANGED <<shape, stopGen, clearGen, turn, state>>
        /\ stored' = [p \in Prompts |->
             IF p \in DOMAIN op[c].snap THEN op[c].snap[p]
             ELSE IF op[c].kind = "clear_chat" /\ Chat(p) = op[c].chat THEN "absent"
             ELSE stored[p]]
    BY <1>3 DEF HandOver, gens, trees
  <2>2. PICK at \in {"failed", "deleting", "reporting", "done"} :
          (\E ids : Ends(c, at, ids)) /\ (at # "failed" => ~op[c].failed)
    BY <1>3 DEF HandOver
  <2>3. /\ DOMAIN op' = Commands /\ \A d \in Commands \ {c} : op'[d] = op[d]
        /\ DOMAIN op'[c] = Fields /\ op'[c].at = at
        /\ op'[c].kind = op[c].kind /\ op'[c].chat = op[c].chat /\ op'[c].gen = op[c].gen
    BY <2>1, <2>2, EndsKeeps
  <2> QED BY <2>1, <2>2, <2>3 DEF GoesOn
<1> QED BY <1>1, <1>2, <1>3 DEF OpStep

LEMMA GoesOnKeepsInv ==
  ASSUME Inv, NEW c \in Commands, GoesOn(c) PROVE Inv'
<1>1. /\ UNCHANGED <<shape, stopGen, clearGen, turn, state>>
      /\ DOMAIN op' = Commands /\ \A d \in Commands \ {c} : op'[d] = op[d]
      /\ DOMAIN op'[c] = Fields /\ op[c].at # "idle" /\ op'[c].at # "idle"
      /\ op'[c].kind = op[c].kind /\ op'[c].chat = op[c].chat /\ op'[c].gen = op[c].gen
  BY DEF GoesOn
<1>2. \A p \in Prompts : Chat(p)' = Chat(p)
  BY <1>1 DEF Chat
<1>3. \A d \in Commands : /\ op'[d].at = "idle" <=> op[d].at = "idle"
                          /\ op[d].at # "idle" => /\ op'[d].kind = op[d].kind
                                                  /\ op'[d].chat = op[d].chat
                                                  /\ op'[d].gen = op[d].gen
  BY <1>1
<1>4. \A d \in Commands, k \in {"clear_chat", "stop_all"} : Drawn(d, k)' => Drawn(d, k)
  <2> SUFFICES ASSUME NEW d \in Commands, NEW k \in {"clear_chat", "stop_all"}, Drawn(d, k)'
               PROVE  Drawn(d, k)
    OBVIOUS
  <2>1. CASE d # c
    BY <2>1, <1>1 DEF Drawn, Acknowledged, Held
  <2>2. CASE d = c
    BY <2>2, <1>1 DEF GoesOn, Drawn, Acknowledged, Held
  <2> QED BY <2>1, <2>2
<1>5. \A d \in Commands, p \in Prompts : /\ Drawn(d, "clear_chat")' /\ OlderThanClear(p, d)' => OlderThanClear(p, d)
                                         /\ Drawn(d, "stop_all")' /\ OlderThanStop(p, d)' => OlderThanStop(p, d)
  BY <1>1, <1>2, <1>3 DEF Drawn, OlderThanClear, OlderThanStop
<1>6. \A p \in Prompts : stored'[p] = stored[p] \/ (state[p] = "absent" => stored'[p] = "absent")
  <2>1. CASE op[c].at = "handing"
    BY <2>1 DEF GoesOn, Inv, SnapInv
  <2>2. CASE op[c].at # "handing"
    BY <2>2 DEF GoesOn
  <2> QED BY <2>1, <2>2
<1>7. stored' \in [Prompts -> States]
  BY DEF GoesOn, Inv, TypeInv, SnapInv, States
<1>t. TypeInv'
  BY <1>1, <1>7 DEF Inv, TypeInv
<1>g. GenInv'
  <2>1. \A p \in Prompts : turn'[p].stop <= stopGen' /\ turn'[p].clear <= clearGen'[Chat(p)']
    BY <1>1, <1>2 DEF Inv, GenInv
  <2> QED BY <2>1, <1>1, <1>3 DEF Inv, GenInv
<1>l. LockInv'
  <2> SUFFICES ASSUME NEW d \in Commands, Held(d)' PROVE lock' = d
    BY DEF LockInv
  <2>1. CASE d = c
    BY <2>1 DEF GoesOn, Held, Inv, LockInv
  <2>2. CASE d # c
    <3>1. Held(d) /\ lock = d
      BY <2>2, <1>1 DEF Held, Inv, LockInv
    <3>2. op[c].at \notin {"draining", "handing"}
      BY <3>1, <2>2 DEF Held, Inv, LockInv
    <3> QED BY <3>1, <3>2 DEF GoesOn
  <2> QED BY <2>1, <2>2
<1>s. SnapInv'
  <2> SUFFICES ASSUME NEW d \in Commands, op'[d].at = "handing", NEW p \in Prompts,
                      p \in DOMAIN op'[d].snap
               PROVE  op'[d].snap[p] \in States /\ (state'[p] = "absent" => op'[d].snap[p] = "absent")
    BY DEF SnapInv
  <2>1. CASE d = c
    <3>1. op'[d].snap[p] = state[p]
      BY <2>1 DEF GoesOn
    <3> QED BY <3>1, <1>1 DEF Inv, TypeInv
  <2>2. CASE d # c
    BY <2>2, <1>1 DEF Inv, SnapInv
  <2> QED BY <2>1, <2>2
<1>r. TreesInv'
  BY <1>1, <1>4, <1>5 DEF Inv, TreesInv
<1>o. StoreInv'
  <2> SUFFICES ASSUME NEW d \in Commands, NEW p \in Prompts,
                      Acknowledged(d, "clear_chat")', OlderThanClear(p, d)'
               PROVE  stored'[p] = "absent"
    BY DEF StoreInv
  <2>1. Drawn(d, "clear_chat")'
    BY <1>1 DEF Drawn, Acknowledged
  <2>2. Drawn(d, "clear_chat") /\ OlderThanClear(p, d) /\ state[p] = "absent"
    BY <2>1, <1>4, <1>5 DEF Inv, TreesInv
  <2>3. CASE Acknowledged(d, "clear_chat")
    BY <2>2, <2>3, <1>6 DEF Inv, StoreInv
  <2>4. CASE ~Acknowledged(d, "clear_chat")
    <3>1. d = c /\ op[c].at = "handing" /\ op[c].kind = "clear_chat"
      BY <2>4, <2>2, <1>1 DEF GoesOn, Drawn, Acknowledged
    <3>2. Chat(p) = op[c].chat
      BY <2>2, <3>1 DEF OlderThanClear
    <3>3. stored'[p] = IF p \in DOMAIN op[c].snap THEN op[c].snap[p] ELSE "absent"
      BY <3>1, <3>2 DEF GoesOn
    <3> QED BY <2>2, <3>1, <3>3 DEF Inv, SnapInv
  <2> QED BY <2>3, <2>4
<1> QED BY <1>t, <1>g, <1>l, <1>s, <1>r, <1>o DEF Inv

-----------------------------------------------------------------------------
LEMMA InitInv ==
  ASSUME Init PROVE Inv
<1>1. /\ shape \in Shapes /\ stopGen = 0 /\ clearGen = [k \in Chats |-> 0]
      /\ turn = [p \in Prompts |-> [at |-> IF p \in shape.sent THEN "new" ELSE "done",
                                    stop |-> 0, clear |-> 0, parent |-> NoRef]]
      /\ state = [p \in Prompts |-> "absent"] /\ stored = [p \in Prompts |-> "absent"]
      /\ op = [c \in Commands |-> [at |-> "idle"]]
  BY DEF Init
<1>2. \A p \in Prompts : Chat(p) \in Chats
  BY <1>1, ShapesAssumption DEF Chat
<1>3. DOMAIN op = Commands /\ \A c \in Commands : op[c].at = "idle"
  BY <1>1
<1>4. /\ DOMAIN turn = Prompts
      /\ \A p \in Prompts : /\ DOMAIN turn[p] = TurnFields
                            /\ turn[p].stop = 0 /\ turn[p].clear = 0
  BY <1>1 DEF TurnFields
<1>5. TypeInv
  BY <1>1, <1>3, <1>4 DEF TypeInv, States
<1>6. GenInv
  BY <1>1, <1>2, <1>3, <1>4 DEF GenInv
<1> QED BY <1>5, <1>6, <1>3 DEF Inv, LockInv, Held, TreesInv, Drawn, SnapInv, StoreInv, Acknowledged

LEMMA NextKeepsInv ==
  ASSUME Inv, [Next]_wfVars PROVE Inv'
<1>1. CASE UNCHANGED wfVars
  <2>1. Quiet
    BY <1>1 DEF wfVars, trees, Inv, TypeInv, Quiet, TurnKept, CalmAt
  <2> QED BY <2>1, QuietKeepsInv
<1>2. CASE \E p \in Prompts : Receive(p) \/ TurnStep(p) \/ RunnerStep(p)
  BY <1>2, ReceiveIsQuiet, TurnIsQuiet, RunnerIsQuiet, QuietKeepsInv
<1>3. CASE \E c \in Commands : Take(c)
  BY <1>3, TakeKeepsInv
<1>4. CASE \E c \in Commands : OpStep(c)
  BY <1>4, OpStepGoesOn, GoesOnKeepsInv
<1>5. CASE PublishStep
  <2>1. NoticeStep
    BY <1>5 DEF PublishStep, ReserveNotice, NoticeSent, FinalizeNotice, DiscardNotice, SettleNotice
  <2> QED BY <2>1, NoticeIsQuiet, QuietKeepsInv
<1> QED BY <1>1, <1>2, <1>3, <1>4, <1>5 DEF Next

LEMMA InvShows ==
  ASSUME Inv PROVE OlderTurnsGone
<1> SUFFICES ASSUME NEW c \in Commands, NEW p \in Prompts, turn[p].at # "new"
             PROVE  /\ Acknowledged(c, "clear_chat") /\ Chat(p) = op[c].chat /\ turn[p].clear < op[c].gen
                         => state[p] = "absent" /\ stored[p] = "absent"
                    /\ Acknowledged(c, "stop_all") /\ turn[p].stop < op[c].gen => p \notin Runnable
  BY DEF OlderTurnsGone
<1>1. /\ Acknowledged(c, "clear_chat") => Drawn(c, "clear_chat")
      /\ Acknowledged(c, "stop_all") => Drawn(c, "stop_all")
  BY DEF Acknowledged, Drawn
<1> QED BY <1>1 DEF Inv, TreesInv, StoreInv, OlderThanClear, OlderThanStop, Runnable

(* Whoever was told that a chat is cleared, or that everything is stopped,  *)
(* is not contradicted later by a prompt received before it.               *)
THEOREM OlderTurnsStayGone == Spec => []OlderTurnsGone
<1>1. Init => Inv
  BY InitInv
<1>2. Inv /\ [Next]_wfVars => Inv'
  BY NextKeepsInv
<1>3. Inv => OlderTurnsGone
  BY InvShows
<1> QED BY <1>1, <1>2, <1>3, PTL DEF Spec

-----------------------------------------------------------------------------
(* Where prompts live: a prompt of a tree is in the chat of its root, and   *)
(* in the tree of the prompt it replies to, which stays where it is.       *)
Placed(p) ==
  /\ turn[p].at = "done" /\ home[p] \in Prompts /\ Chat(home[p]) = Chat(p)
  /\ turn[p].parent # NoRef => /\ turn[p].parent[1] \in Prompts
                               /\ turn[turn[p].parent[1]].at = "done"
                               /\ home[turn[p].parent[1]] = home[p]

HomeInv ==
  /\ DOMAIN home = Prompts
  /\ \A p \in Prompts : turn[p].parent # NoRef => turn[p].parent = shape.to[p]
  /\ \A p \in Prompts : state[p] # "absent" => Placed(p)

(* A command under the lock that is still to take p out of the store.      *)
Covers(c, p) ==
  /\ Held(c)
  /\ \/ op[c].kind = "clear_chat" /\ Chat(p) = op[c].chat
     \/ op[c].kind = "clear_reply" /\ home[p] = home[op[c].ref[1]]

(* What a command is about to hand over is what the trees hold, but for     *)
(* verdicts that came since; a clear of a reply hands its whole tree over, *)
(* and a clear of a chat that did not fail has left nothing in its trees.  *)
HandInv ==
  \A c \in Commands :
    /\ op[c].at = "handing" => \A p \in Prompts : p \in DOMAIN op[c].snap =>
         /\ op[c].snap[p] = "absent" => state[p] = "absent"
         /\ op[c].snap[p] = "completed" => state[p] = "completed"
    /\ op[c].at = "handing" /\ op[c].kind = "clear_reply" =>
         \A p \in Prompts : home[p] = home[op[c].ref[1]] => p \in DOMAIN op[c].snap
    /\ Held(c) /\ op[c].kind = "clear_chat" /\ ~op[c].failed =>
         \A p \in Prompts : Chat(p) = op[c].chat => state[p] = "absent"

(* Store and trees differ in what a command under the lock covers only, or *)
(* in what a failed clear has taken out of the store.                      *)
AgreeInv ==
  \A p \in Prompts :
    /\ state[p] # "absent" /\ stored[p] = "absent" => ClearFailed(Chat(p))
    /\ state[p] = "absent" /\ stored[p] # "absent" => \E c \in Commands : Covers(c, p)
    /\ state[p] # "completed" /\ stored[p] = "completed" => \E c \in Commands : Covers(c, p)

WholeInv == Inv /\ HomeInv /\ HandInv /\ AgreeInv

(* The steps that move no prompt and take no command on.                   *)
Tame ==
  /\ UNCHANGED <<shape, lock, home, op>>
  /\ \A p \in Prompts :
       /\ state'[p] = "absent" <=> state[p] = "absent"
       /\ state[p] = "completed" => state'[p] = "completed"
       /\ stored'[p] = stored[p] \/ stored'[p] = state'[p]
       /\ turn[p].at = "done" => turn'[p].at = "done" /\ turn'[p].parent = turn[p].parent
       /\ turn'[p].parent # NoRef => turn'[p].parent = shape.to[p]

LEMMA TameKeeps ==
  ASSUME HomeInv, HandInv, AgreeInv, Tame PROVE HomeInv' /\ HandInv' /\ AgreeInv'
<1>1. /\ shape' = shape /\ lock' = lock /\ home' = home /\ op' = op
      /\ \A p \in Prompts : Chat(p)' = Chat(p)
  BY DEF Tame, Chat
<1>2. HomeInv'
  <2>1. ASSUME NEW p \in Prompts, state'[p] # "absent" PROVE Placed(p)'
    <3>1. Placed(p)
      BY <2>1 DEF HomeInv, Tame
    <3>2. turn'[p].at = "done" /\ turn'[p].parent = turn[p].parent
      BY <3>1 DEF Placed, Tame
    <3>3. Chat(home[p])' = Chat(home[p])
      BY <1>1 DEF Chat
    <3>4. turn[p].parent # NoRef =>
            turn[p].parent[1] \in Prompts /\ turn'[turn[p].parent[1]].at = "done"
      BY <3>1 DEF Placed, Tame
    <3> QED BY <3>1, <3>2, <3>3, <3>4, <1>1 DEF Placed
  <2> QED BY <2>1, <1>1 DEF HomeInv, Tame
<1>3. HandInv'
  BY <1>1 DEF HandInv, Tame, Held
<1>4. AgreeInv'
  <2> SUFFICES ASSUME NEW p \in Prompts
               PROVE  /\ state'[p] # "absent" /\ stored'[p] = "absent" => ClearFailed(Chat(p))'
                      /\ state'[p] = "absent" /\ stored'[p] # "absent" => \E c \in Commands : Covers(c, p)'
                      /\ state'[p] # "completed" /\ stored'[p] = "completed" => \E c \in Commands : Covers(c, p)'
    BY DEF AgreeInv
  <2>1. /\ ClearFailed(Chat(p))' <=> ClearFailed(Chat(p))
        /\ \A c \in Commands : Covers(c, p)' <=> Covers(c, p)
    BY <1>1 DEF ClearFailed, Covers, Held
  <2> QED BY <2>1 DEF AgreeInv, Tame
<1> QED BY <1>2, <1>3, <1>4

LEMMA NoticeIsTame ==
  ASSUME HomeInv, NoticeStep PROVE Tame
BY DEF NoticeStep, trees, Tame, HomeInv

LEMMA ReceiveIsTame ==
  ASSUME Inv, HomeInv, NEW p \in Prompts, Receive(p) PROVE Tame
<1>1. PICK parent : /\ turn' = [turn EXCEPT ![p] =
                         [at |-> "sending", stop |-> stopGen, clear |-> clearGen[Chat(p)], parent |-> parent]]
                    /\ parent # NoRef => parent = shape.to[p]
  BY DEF Receive
<1>2. \A q \in Prompts : turn'[q] = IF q = p
         THEN [at |-> "sending", stop |-> stopGen, clear |-> clearGen[Chat(p)], parent |-> parent]
         ELSE turn[q]
  BY <1>1 DEF Inv, TypeInv
<1>3. turn[p].at = "new" /\ UNCHANGED <<shape, lock, op, home, state, stored>>
  BY DEF Receive, trees
<1> QED BY <1>1, <1>2, <1>3 DEF Tame, HomeInv

(* A handler that goes on keeps its parent.                                *)
LEMMA GoesTame ==
  ASSUME Inv, NEW p \in Prompts, NEW at, turn[p].at # "done", turn' = [turn EXCEPT ![p].at = at]
  PROVE  /\ turn'[p].at = at /\ \A q \in Prompts \ {p} : turn'[q] = turn[q]
         /\ turn'[p].parent = turn[p].parent
<1>1. DOMAIN turn = Prompts /\ DOMAIN turn[p] = TurnFields
  BY DEF Inv, TypeInv
<1>2. turn'[p] = [turn[p] EXCEPT !.at = at] /\ \A q \in Prompts \ {p} : turn'[q] = turn[q]
  BY <1>1
<1> QED BY <1>1, <1>2 DEF TurnFields

LEMMA SentIsTame ==
  ASSUME Inv, HomeInv, NEW p \in Prompts, StatusSent(p) \/ Discard(p) PROVE Tame
<1>1. PICK at \in {"asking", "done"} : turn' = [turn EXCEPT ![p].at = at]
  BY DEF StatusSent, Discard, Goes
<1>2. turn[p].at # "done" /\ UNCHANGED <<shape, lock, op, home, state, stored>>
  BY DEF StatusSent, Discard, trees
<1>3. /\ \A q \in Prompts \ {p} : turn'[q] = turn[q]
      /\ turn'[p].parent = turn[p].parent
  BY <1>1, <1>2, GoesTame
<1> QED BY <1>2, <1>3 DEF Tame, HomeInv

LEMMA RunnerIsTame ==
  ASSUME Inv, HomeInv, NEW p \in Prompts, RunnerStep(p) PROVE Tame
<1>0. state \in [Prompts -> States]
  BY DEF Inv, TypeInv
<1>1. UNCHANGED <<shape, lock, op, turn, home>>
  BY DEF RunnerStep, RecordSession, Complete, FailClaim, Leave, Report
<1>2. \A q \in Prompts : stored'[q] = stored[q] \/ stored'[q] = state'[q]
  BY DEF RunnerStep, RecordSession, Complete, FailClaim, Leave, Report, SaveTree
<1>3. \A q \in Prompts : /\ state'[q] = "absent" <=> state[q] = "absent"
                         /\ state[q] = "completed" => state'[q] = "completed"
  <2>1. CASE RecordSession(p)
    BY <2>1 DEF RecordSession, Report
  <2>2. CASE Complete(p)
    <3>1. state' = [state EXCEPT ![p] = "completed"] /\ state[p] # "absent"
      BY <2>2 DEF Complete, Report, Reports, Present
    <3> QED BY <3>1, <1>0
  <2>3. CASE \E b \in BOOLEAN : FailClaim(p, b)
    <3>1. PICK b \in BOOLEAN : FailClaim(p, b)
      BY <2>3
    <3>2. PICK below : below = IF b THEN {q \in Below(p) : state[q] = "pending"} ELSE {}
      OBVIOUS
    <3>3. /\ state' = [q \in Prompts |-> IF q \in below \cup {p} THEN "error" ELSE state[q]]
          /\ state[p] # "absent" /\ state[p] # "completed"
      BY <3>1, <3>2 DEF FailClaim, Report, Reports, Present
    <3>4. \A q \in below : state[q] = "pending"
      BY <3>2
    <3> QED BY <3>3, <3>4
  <2>4. CASE Leave(p)
    <3>1. \/ state' = state
          \/ \E q \in Prompts : state[q] = "pending" /\ state' = [state EXCEPT ![q] = "in_progress"]
      BY <2>4 DEF Leave, Tree, Present
    <3> QED BY <3>1, <1>0
  <2> QED BY <2>1, <2>2, <2>3, <2>4 DEF RunnerStep
<1> QED BY <1>1, <1>2, <1>3 DEF Tame, HomeInv

-----------------------------------------------------------------------------
(* The admission of a prompt puts it where its parent is.                   *)
LEMMA AdmitKeeps ==
  ASSUME Inv, HomeInv, HandInv, AgreeInv, NEW p \in Prompts, Admit(p)
  PROVE  HomeInv' /\ HandInv' /\ AgreeInv'
<1>1. PICK parent, root, at :
        /\ parent = turn[p].parent
        /\ root = IF parent = NoRef THEN p ELSE home[parent[1]]
        /\ turn' = [turn EXCEPT ![p].at = at] /\ turn[p].at = "asking"
        /\ \/ UNCHANGED <<trees, stored>>
           \/ /\ Admitted(p, root) /\ SaveTree(root) /\ at = "done"
              /\ parent # NoRef => Resolves(parent)
  BY DEF Admit, Goes
<1>2. lock = Free /\ UNCHANGED <<shape, lock, op>>
  BY DEF Admit
<1>3. /\ turn'[p].at = at /\ \A q \in Prompts \ {p} : turn'[q] = turn[q]
      /\ turn'[p].parent = parent
  BY <1>1, GoesTame
<1>4. CASE UNCHANGED <<trees, stored>>
  <2>1. Tame
    BY <1>1, <1>2, <1>3, <1>4 DEF trees, Tame, HomeInv
  <2> QED BY <2>1, TameKeeps
<1>5. CASE /\ Admitted(p, root) /\ SaveTree(root) /\ at = "done"
           /\ parent # NoRef => Resolves(parent)
  <2>1. PICK s \in {"pending", "in_progress"} : state' = [state EXCEPT ![p] = s]
    BY <1>5 DEF Admitted
  <2>2. /\ state'[p] = s /\ \A q \in Prompts \ {p} : state'[q] = state[q]
        /\ home' = [home EXCEPT ![p] = root]
    BY <1>5, <2>1 DEF Admitted, Inv, TypeInv
  <2>3. /\ DOMAIN home' = Prompts /\ home'[p] = root
        /\ \A q \in Prompts \ {p} : home'[q] = home[q]
    BY <2>2 DEF HomeInv
  <2>4. \A q : Chat(q)' = Chat(q)
    BY <1>2 DEF Chat
  <2>5. ~Placed(p) /\ state[p] = "absent"
    BY <1>1 DEF Placed, HomeInv
  <2>6. Placed(p)'
    <3>1. CASE parent = NoRef
      BY <1>1, <1>3, <1>5, <2>3, <2>4, <3>1 DEF Placed, Chat
    <3>2. CASE parent # NoRef
      <4>1. PICK q \in Prompts : q = parent[1] /\ state[q] # "absent" /\ root = home[q]
        BY <1>1, <1>5, <3>2 DEF Resolves, Present
      <4>2. Placed(q) /\ q # p
        BY <2>5, <4>1 DEF HomeInv
      <4>3. parent = shape.to[p] /\ shape \in Shapes
        BY <1>1, <3>2 DEF HomeInv, Inv, TypeInv
      <4>4. Chat(q) = Chat(p)
        BY <3>2, <4>1, <4>3, ShapesAssumption DEF Chat
      <4>5. home'[q] = root /\ turn'[q].at = "done" /\ root \in Prompts /\ Chat(root) = Chat(p)
        BY <1>3, <2>3, <4>1, <4>2, <4>4 DEF Placed
      <4>6. Chat(home[p])' = Chat(p)'
        BY <2>3, <4>5, <1>2 DEF Chat
      <4>7. turn'[p].at = "done" /\ turn'[p].parent = parent /\ home'[p] = root
        BY <1>3, <1>5, <2>3
      <4> QED BY <4>1, <4>5, <4>6, <4>7 DEF Placed
    <3> QED BY <3>1, <3>2
  <2>7. ASSUME NEW q \in Prompts \ {p}, state'[q] # "absent" PROVE Placed(q)'
    <3>1. Placed(q) /\ turn'[q] = turn[q] /\ home'[q] = home[q]
      BY <1>3, <2>2, <2>3, <2>7 DEF HomeInv
    <3>2. Chat(home[q])' = Chat(q)'
      BY <3>1, <1>2 DEF Placed, Chat
    <3>3. turn[q].parent # NoRef => turn[q].parent[1] \in Prompts \ {p}
      BY <3>1, <1>1 DEF Placed
    <3> QED BY <1>3, <2>3, <3>1, <3>2, <3>3 DEF Placed
  <2>8. HomeInv'
    <3>1. \A q \in Prompts : turn'[q].parent # NoRef => turn'[q].parent = shape'.to[q]
      BY <1>1, <1>2, <1>3 DEF HomeInv
    <3> HIDE DEF Placed
    <3>2. \A q \in Prompts : state'[q] # "absent" => Placed(q)'
      BY <2>6, <2>7
    <3> QED BY <2>3, <3>1, <3>2 DEF HomeInv
  <2>9. \A c \in Commands : ~Held(c) /\ ~Held(c)'
    BY <1>2, FreeAssumption DEF Inv, LockInv, Held
  <2>10. HandInv'
    BY <2>9 DEF HandInv, Held
  <2>11. AgreeInv'
    <3> SUFFICES ASSUME NEW q \in Prompts, stored'[q] # state'[q]
                 PROVE  /\ state'[q] # "absent" /\ stored'[q] = "absent" => ClearFailed(Chat(q))'
                        /\ ~(state'[q] = "absent" /\ stored'[q] # "absent")
                        /\ ~(state'[q] # "completed" /\ stored'[q] = "completed")
      BY DEF AgreeInv
    <3>1. stored' = [r \in Prompts |-> IF home'[r] = root THEN state'[r] ELSE stored[r]]
      BY <1>5 DEF SaveTree
    <3>2. q # p /\ stored'[q] = stored[q]
      BY <2>3, <3>1
    <3>3. state'[q] = state[q]
      BY <2>2, <3>2
    <3>4. ClearFailed(Chat(q))' <=> ClearFailed(Chat(q))
      BY <1>2 DEF ClearFailed, Chat
    <3> QED BY <2>9, <3>2, <3>3, <3>4 DEF AgreeInv, Covers
  <2> QED BY <2>8, <2>10, <2>11
<1> QED BY <1>1, <1>4, <1>5

-----------------------------------------------------------------------------
(* What a command takes out of the trees when it is taken, it covers.       *)
TakeCovers(c) ==
  /\ home' = home
  /\ \A p \in Prompts : state[p] # "absent" /\ state'[p] = "absent" => Covers(c, p)'
  /\ op'[c].at = "handing" /\ op'[c].kind = "clear_reply" =>
       \A p \in Prompts : home[p] = home[op'[c].ref[1]] => p \in DOMAIN op'[c].snap

LEMMA TransitsCovers ==
  ASSUME TypeInv, NEW c \in Commands, NEW o, NEW S, NEW R, DOMAIN o = Fields, Transits(c, o, S, R)
  PROVE  /\ op'[c].ref = o.ref
         /\ op'[c].at = "handing" =>
              \A p \in Prompts : home[p] \in R => p \in DOMAIN op'[c].snap
<1> DEFINE at   == IF \E p \in S : runner[p] # "none" THEN "draining" ELSE "handing"
           snap == IF \E p \in S : runner[p] # "none" THEN << >> ELSE Snapshot(R, state')
<1>1. op' = [op EXCEPT ![c] = [o EXCEPT !.at = at, !.snap = snap]]
  BY DEF Transits
<1>2. at = "handing" => \A p \in Prompts : home[p] \in R => p \in DOMAIN snap
  BY DEF Snapshot
<1> HIDE DEF at, snap
<1>3. op'[c] = [o EXCEPT !.at = at, !.snap = snap]
  BY <1>1 DEF TypeInv
<1>4. op'[c].ref = o.ref /\ op'[c].at = at /\ op'[c].snap = snap
  BY <1>3 DEF Fields
<1> QED BY <1>2, <1>4

LEMMA FailKeepsPresent ==
  ASSUME NEW S, state' = Fail(S), NEW p \in Prompts, state'[p] = "absent" PROVE state[p] = "absent"
BY DEF Fail

LEMMA StopReplyCovers ==
  ASSUME TypeInv, NEW c \in Commands, NEW ref \in Refs, StopReply(c, ref)
  PROVE  TakeCovers(c)
<1>1. home' = home /\ \A p \in Prompts : state'[p] = "absent" => state[p] = "absent"
  BY FailKeepsPresent DEF StopReply
<1>o. PICK o : o = Command("stop_reply", Chat(ref[1]), ref)
  OBVIOUS
<1>2. DOMAIN o = Fields /\ o.kind = "stop_reply"
  BY <1>o DEF Command, Fields
<1>3. op'[c].kind = "stop_reply"
  <2>1. CASE op' = [op EXCEPT ![c] = o]
    BY <2>1, <1>2 DEF TypeInv
  <2>2. CASE op' = [op EXCEPT ![c] = [o EXCEPT !.at = "failed", !.ref = NoRef]]
    <3>1. op'[c] = [o EXCEPT !.at = "failed", !.ref = NoRef]
      BY <2>2 DEF TypeInv
    <3> QED BY <3>1, <1>2 DEF Fields
  <2>3. CASE Transits(c, [o EXCEPT !.say = (Cancelled({ref[1]}) = {})], {ref[1]}, {home[ref[1]]})
    <3>1. PICK r : r = [o EXCEPT !.say = (Cancelled({ref[1]}) = {})]
      OBVIOUS
    <3>2. PICK S, R : Transits(c, r, S, R)
      BY <2>3, <3>1
    <3>3. DOMAIN r = Fields /\ r.kind = "stop_reply"
      BY <3>1, <1>2 DEF Fields
    <3> QED BY <3>2, <3>3, TransitsEffect
  <2> QED BY <2>1, <2>2, <2>3, <1>o DEF StopReply
<1> QED BY <1>1, <1>3 DEF TakeCovers

LEMMA StopAllCovers ==
  ASSUME TypeInv, NEW c \in Commands, NEW k \in Chats, StopAll(c, k)
  PROVE  TakeCovers(c)
<1>1. home' = home /\ \A p \in Prompts : state'[p] = "absent" => state[p] = "absent"
  BY FailKeepsPresent DEF StopAll
<1>o. PICK o : o = [Command("stop_all", k, NoRef) EXCEPT !.gen = stopGen + 1,
                      !.say = (Cancelled(Present) = {} \/ \E p \in Cancelled(Present) : Chat(p) # k)]
  OBVIOUS
<1>2. DOMAIN o = Fields /\ o.kind = "stop_all"
  BY <1>o DEF Command, Fields
<1>3. op'[c].kind = "stop_all"
  <2>1. CASE op' = [op EXCEPT ![c] = [o EXCEPT !.at = "failed", !.ids = {}, !.ref = NoRef, !.say = FALSE]]
    <3>1. op'[c] = [o EXCEPT !.at = "failed", !.ids = {}, !.ref = NoRef, !.say = FALSE]
      BY <2>1 DEF TypeInv
    <3> QED BY <3>1, <1>2 DEF Fields
  <2>2. CASE Transits(c, o, Present, Roots)
    BY <2>2, <1>2, TransitsEffect
  <2> QED BY <2>1, <2>2, <1>o DEF StopAll
<1> QED BY <1>1, <1>3 DEF TakeCovers

(* The replies below a message are in its tree.                            *)
LEMMA SubtreeInTree ==
  ASSUME HomeInv, NEW ref, Resolves(ref), NEW p \in Subtree(ref)
  PROVE  p \in Prompts /\ home[p] = home[ref[1]]
<1> DEFINE S == {q \in Present : home[q] = home[ref[1]]}
<1>1. S \in SUBSET Present /\ ref[1] \in S
  BY DEF Resolves
<1>2. ASSUME NEW q \in Present, turn[q].parent # NoRef,
             turn[q].parent = ref \/ turn[q].parent[1] \in S
      PROVE  q \in S
  <2>1. home[turn[q].parent[1]] = home[q]
    BY <1>2 DEF HomeInv, Placed, Present
  <2> QED BY <2>1, <1>2
<1>3. p \in Present /\ p \in S
  BY <1>1, <1>2 DEF Subtree
<1> QED BY <1>3 DEF Present

LEMMA ClearReplyCovers ==
  ASSUME TypeInv, HomeInv, NEW c \in Commands, NEW ref \in Refs, ClearReply(c, ref)
  PROVE  TakeCovers(c)
<1> DEFINE owner == IF ref[2] = "status" THEN {ref[1]} ELSE {}
<1>r. PICK removed : removed = Subtree(ref)
  OBVIOUS
<1>a. PICK affected : affected = removed \cup owner
  OBVIOUS
<1>u. PICK u : u = Command("clear_reply", Chat(ref[1]), ref)
  OBVIOUS
<1>o. PICK o : o = [u EXCEPT !.ids = {Status(p) : p \in affected \ bare}]
  OBVIOUS
<1>1. home' = home
  BY DEF ClearReply
<1>2. /\ DOMAIN u = Fields /\ u.at = "reporting"
      /\ DOMAIN o = Fields /\ o.kind = "clear_reply" /\ o.ref = ref
  BY <1>u, <1>o DEF Command, Fields
<1>3. CASE op' = [op EXCEPT ![c] = u] /\ state' = state
  <2>1. op'[c] = u
    BY <1>3 DEF TypeInv
  <2> QED BY <1>1, <1>2, <1>3, <2>1 DEF TakeCovers
<1>4. CASE /\ Resolves(ref)
           /\ state' = [p \in Prompts |-> IF p \in removed THEN "absent" ELSE Fail(affected)[p]]
           /\ Transits(c, o, affected, {home[ref[1]]})
  <2>1. PICK R : R = {home[ref[1]]}
    OBVIOUS
  <2>2. Transits(c, o, affected, R)
    BY <1>4, <2>1
  <2>3. /\ op'[c].ref = ref /\ op'[c].kind = "clear_reply" /\ op'[c].at \in {"draining", "handing"}
        /\ op'[c].at = "handing" => \A p \in Prompts : home[p] \in R => p \in DOMAIN op'[c].snap
    BY <1>2, <2>2, TransitsEffect, TransitsCovers
  <2>4. ASSUME NEW p \in Prompts, state[p] # "absent", state'[p] = "absent" PROVE Covers(c, p)'
    <3>1. p \in removed
      BY <1>4, <2>4 DEF Fail
    <3>2. home[p] = home[ref[1]]
      BY <1>r, <1>4, <3>1, SubtreeInTree
    <3> QED BY <1>1, <2>3, <3>2 DEF Covers, Held
  <2> QED BY <1>1, <2>1, <2>3, <2>4 DEF TakeCovers
<1>5. CASE /\ \E met : state' = Fail(met)
           /\ op' = [op EXCEPT ![c] = [o EXCEPT !.at = "failed", !.ids = {}, !.ref = NoRef, !.say = FALSE]]
  <2>1. op'[c] = [o EXCEPT !.at = "failed", !.ids = {}, !.ref = NoRef, !.say = FALSE]
    BY <1>5 DEF TypeInv
  <2>2. op'[c].at = "failed"
    BY <1>2, <2>1 DEF Fields
  <2> QED BY <1>1, <1>5, <2>2, FailKeepsPresent DEF TakeCovers
<1>6. \/ op' = [op EXCEPT ![c] = u] /\ state' = state
      \/ /\ Resolves(ref)
         /\ state' = [p \in Prompts |-> IF p \in removed THEN "absent" ELSE Fail(affected)[p]]
         /\ Transits(c, o, affected, {home[ref[1]]})
      \/ /\ \E met : state' = Fail(met)
         /\ op' = [op EXCEPT ![c] = [o EXCEPT !.at = "failed", !.ids = {}, !.ref = NoRef, !.say = FALSE]]
  BY <1>r, <1>a, <1>u, <1>o DEF ClearReply
<1> QED BY <1>3, <1>4, <1>5, <1>6

LEMMA ClearChatCovers ==
  ASSUME TypeInv, HomeInv, NEW c \in Commands, NEW k \in Chats, ClearChat(c, k)
  PROVE  TakeCovers(c)
<1>h. PICK here : here = {p \in Present : Chat(p) = k}
  OBVIOUS
<1>o. PICK o : o = [Command("clear_chat", k, NoRef) EXCEPT !.gen = clearGen[k] + 1,
                      !.ids = {m \in log : In(m, k)} \cup {Status(p) : p \in here \ bare}]
  OBVIOUS
<1>1. UNCHANGED <<home, shape>>
  BY DEF ClearChat
<1>2. DOMAIN o = Fields /\ o.kind = "clear_chat" /\ o.chat = k
  BY <1>o DEF Command, Fields
<1>3. CASE state' = Detach(here) /\ Transits(c, o, here, {})
  <2>1. op'[c].kind = "clear_chat" /\ op'[c].chat = k /\ op'[c].at \in {"draining", "handing"}
    BY <1>2, <1>3, TransitsEffect
  <2>2. ASSUME NEW p \in Prompts, state[p] # "absent", state'[p] = "absent" PROVE Covers(c, p)'
    <3>1. Chat(p) = k
      BY <1>h, <1>3, <2>2 DEF Detach
    <3> QED BY <1>1, <2>1, <3>1 DEF Covers, Held, Chat
  <2> QED BY <1>1, <2>1, <2>2 DEF TakeCovers
<1>4. CASE /\ \E met \in SUBSET RootsIn(k) : state' = Detach({p \in Present : home[p] \in met})
           /\ op' = [op EXCEPT ![c] = [o EXCEPT !.at = "handing", !.failed = TRUE]]
  <2>1. op'[c] = [o EXCEPT !.at = "handing", !.failed = TRUE]
    BY <1>4 DEF TypeInv
  <2>2. op'[c].kind = "clear_chat" /\ op'[c].chat = k /\ op'[c].at = "handing"
    BY <1>2, <2>1 DEF Fields
  <2>3. ASSUME NEW p \in Prompts, state[p] # "absent", state'[p] = "absent" PROVE Covers(c, p)'
    <3>1. p \in Present /\ home[p] \in RootsIn(k)
      BY <1>4, <2>3 DEF Detach, Present
    <3>2. Chat(p) = k
      BY <3>1 DEF RootsIn, Present, HomeInv, Placed
    <3> QED BY <1>1, <2>2, <3>2 DEF Covers, Held, Chat
  <2> QED BY <1>1, <2>2, <2>3 DEF TakeCovers
<1>5. \/ state' = Detach(here) /\ Transits(c, o, here, {})
      \/ /\ \E met \in SUBSET RootsIn(k) : state' = Detach({p \in Present : home[p] \in met})
         /\ op' = [op EXCEPT ![c] = [o EXCEPT !.at = "handing", !.failed = TRUE]]
  BY <1>h, <1>o DEF ClearChat
<1> QED BY <1>3, <1>4, <1>5

LEMMA TakeAgrees ==
  ASSUME Inv, HomeInv, HandInv, AgreeInv, NEW c \in Commands, Take(c)
  PROVE  HomeInv' /\ HandInv' /\ AgreeInv'
<1>1. TakeEffect(c) /\ TakeCovers(c)
  BY TakeHasEffect, StopReplyCovers, StopAllCovers, ClearReplyCovers, ClearChatCovers DEF Take, Inv
<1>2. /\ shape' = shape /\ turn' = turn /\ stored' = stored /\ home' = home
      /\ Fades /\ lock = Free /\ op[c].at = "idle"
      /\ \A d \in Commands \ {c} : op'[d] = op[d]
      /\ \A p \in Prompts : state[p] # "absent" /\ state'[p] = "absent" => Covers(c, p)'
  BY <1>1 DEF TakeEffect, TakeCovers
<1>3. \A d \in Commands : ~Held(d)
  BY <1>2, FreeAssumption DEF Inv, LockInv
<1>4. \A p : Chat(p)' = Chat(p)
  BY <1>2 DEF Chat
<1>5. HomeInv'
  <2>1. ASSUME NEW p \in Prompts, state'[p] # "absent" PROVE Placed(p)'
    <3>1. Placed(p)
      BY <1>2, <2>1 DEF Fades, HomeInv
    <3> QED BY <1>2, <1>4, <3>1 DEF Placed, Chat
  <2> QED BY <1>2, <2>1 DEF HomeInv
<1>6. HandInv'
  <2> SUFFICES ASSUME NEW d \in Commands
               PROVE  /\ op'[d].at = "handing" => \A p \in Prompts : p \in DOMAIN op'[d].snap =>
                           /\ op'[d].snap[p] = "absent" => state'[p] = "absent"
                           /\ op'[d].snap[p] = "completed" => state'[p] = "completed"
                      /\ op'[d].at = "handing" /\ op'[d].kind = "clear_reply" =>
                           \A p \in Prompts : home[p] = home[op'[d].ref[1]] => p \in DOMAIN op'[d].snap
                      /\ Held(d)' /\ op'[d].kind = "clear_chat" /\ ~op'[d].failed =>
                           \A p \in Prompts : Chat(p) = op'[d].chat => state'[p] = "absent"
    BY <1>2, <1>4 DEF HandInv
  <2>1. CASE d # c
    BY <1>2, <1>3, <2>1 DEF Held
  <2>2. CASE d = c
    <3>1. op'[c].at = "handing" => \A p \in Prompts : p \in DOMAIN op'[c].snap => op'[c].snap[p] = state'[p]
      BY <1>1 DEF TakeEffect
    <3>2. op'[c].kind = "clear_chat" =>
            op'[c].failed \/ \A p \in Prompts : Chat(p) = op'[c].chat => state'[p] = "absent"
      BY <1>1 DEF TakeEffect
    <3> QED BY <1>1, <2>2, <3>1, <3>2 DEF TakeCovers
  <2> QED BY <2>1, <2>2
<1>7. AgreeInv'
  <2> SUFFICES ASSUME NEW p \in Prompts
               PROVE  /\ state'[p] # "absent" /\ stored[p] = "absent" => ClearFailed(Chat(p))'
                      /\ state'[p] = "absent" /\ stored[p] # "absent" => Covers(c, p)'
                      /\ state'[p] # "completed" /\ stored[p] = "completed" => Covers(c, p)'
    BY <1>2 DEF AgreeInv
  <2>1. /\ state[p] # "absent" /\ stored[p] = "absent" => ClearFailed(Chat(p))
        /\ state[p] = "absent" => stored[p] = "absent"
        /\ stored[p] = "completed" => state[p] = "completed"
    BY <1>3 DEF AgreeInv, Covers
  <2>2. ClearFailed(Chat(p)) => ClearFailed(Chat(p))'
    BY <1>2, <1>4 DEF ClearFailed
  <2> QED BY <1>2, <2>1, <2>2 DEF Fades
<1> QED BY <1>5, <1>6, <1>7

-----------------------------------------------------------------------------
(* A command that goes on: the drain ends with snapshots of whole trees.    *)
LEMMA DrainedCovers ==
  ASSUME Inv, NEW c \in Commands, Drained(c)
  PROVE  /\ op'[c].ref = op[c].ref /\ op'[c].at = "handing"
         /\ op[c].kind = "clear_reply" =>
              \A p \in Prompts : home[p] = home[op[c].ref[1]] => p \in DOMAIN op'[c].snap
<1>1. PICK R : /\ op' = [op EXCEPT ![c].at = "handing", ![c].snap = Snapshot(R, state)]
               /\ op[c].kind = "clear_reply" => R = {home[op[c].ref[1]]}
  BY DEF Drained
<1>2. PICK snap : snap = Snapshot(R, state)
  OBVIOUS
<1>3. DOMAIN op = Commands /\ DOMAIN op[c] = Fields
  BY DEF Drained, Inv, TypeInv
<1>4. op'[c] = [[op[c] EXCEPT !.at = "handing"] EXCEPT !.snap = snap]
  BY <1>1, <1>2, <1>3
<1>5. op'[c].ref = op[c].ref /\ op'[c].at = "handing" /\ op'[c].snap = snap
  BY <1>3, <1>4 DEF Fields
<1>6. \A p \in Prompts : home[p] \in R => p \in DOMAIN snap
  BY <1>2 DEF Snapshot
<1> QED BY <1>1, <1>5, <1>6

LEMMA OpStepAgrees ==
  ASSUME Inv, HomeInv, HandInv, AgreeInv, NEW c \in Commands, OpStep(c)
  PROVE  HomeInv' /\ HandInv' /\ AgreeInv'
<1>1. GoesOn(c)
  BY OpStepGoesOn
<1>2. /\ shape' = shape /\ turn' = turn /\ state' = state /\ home' = home
      /\ \A d \in Commands \ {c} : op'[d] = op[d]
      /\ op'[c].kind = op[c].kind /\ op'[c].chat = op[c].chat
  BY <1>1 DEF GoesOn, OpStep, Drained, HandOver, DeleteCollected, SendFeedback, trees
<1>3. \A p : Chat(p)' = Chat(p)
  BY <1>2 DEF Chat
<1>4. HomeInv'
  BY <1>2, <1>3 DEF HomeInv, Placed, Chat
<1>5. \A d \in Commands \ {c} :
        /\ op'[d].at = op[d].at /\ (Held(d)' <=> Held(d))
        /\ \A p \in Prompts : Covers(d, p)' <=> Covers(d, p)
  BY <1>2, <1>3 DEF Held, Covers
<1>6. ASSUME NEW p \in Prompts, op[c].at # "failed", ClearFailed(Chat(p)) PROVE ClearFailed(Chat(p))'
  BY <1>2, <1>3, <1>6 DEF ClearFailed
<1>7. CASE op[c].at = "draining"
  <2>1. Drained(c)
    BY <1>7 DEF OpStep, HandOver, DeleteCollected, SendFeedback
  <2>2. /\ op'[c].at = "handing" /\ op'[c].ref = op[c].ref /\ op'[c].failed = op[c].failed
        /\ stored' = stored
        /\ op[c].kind = "clear_reply" =>
             \A p \in Prompts : home[p] = home[op[c].ref[1]] => p \in DOMAIN op'[c].snap
        /\ \A p \in Prompts : p \in DOMAIN op'[c].snap => op'[c].snap[p] = state[p]
    BY <1>1, <1>7, <2>1, DrainedCovers DEF GoesOn
  <2>3. HandInv'
    <3> SUFFICES ASSUME NEW d \in Commands
                 PROVE  /\ op'[d].at = "handing" => \A p \in Prompts : p \in DOMAIN op'[d].snap =>
                             /\ op'[d].snap[p] = "absent" => state[p] = "absent"
                             /\ op'[d].snap[p] = "completed" => state[p] = "completed"
                        /\ op'[d].at = "handing" /\ op'[d].kind = "clear_reply" =>
                             \A p \in Prompts : home[p] = home[op'[d].ref[1]] => p \in DOMAIN op'[d].snap
                        /\ Held(d)' /\ op'[d].kind = "clear_chat" /\ ~op'[d].failed =>
                             \A p \in Prompts : Chat(p) = op'[d].chat => state[p] = "absent"
      BY <1>2, <1>3 DEF HandInv
    <3>1. CASE d # c
      BY <1>2, <1>5, <3>1 DEF HandInv
    <3>2. CASE d = c
      <4>1. Held(c)
        BY <1>7 DEF Held
      <4> QED BY <1>2, <2>2, <3>2, <4>1 DEF HandInv
    <3> QED BY <3>1, <3>2
  <2>4. \A d \in Commands, p \in Prompts : Covers(d, p)' <=> Covers(d, p)
    BY <1>2, <1>3, <1>5, <1>7, <2>2 DEF Covers, Held
  <2>5. AgreeInv'
    BY <1>2, <1>3, <1>6, <1>7, <2>2, <2>4 DEF AgreeInv
  <2> QED BY <1>4, <2>3, <2>5
<1>8. CASE op[c].at \in {"deleting", "reporting"}
  <2>1. op'[c].at = "done" /\ stored' = stored
    BY <1>1, <1>8 DEF GoesOn
  <2>2. ~Held(c) /\ ~Held(c)'
    BY <1>8, <2>1 DEF Held
  <2>3. HandInv'
    BY <1>2, <1>3, <1>5, <2>1, <2>2 DEF HandInv
  <2>4. \A d \in Commands, p \in Prompts : Covers(d, p)' <=> Covers(d, p)
    BY <1>5, <2>2 DEF Covers
  <2>5. AgreeInv'
    BY <1>2, <1>3, <1>6, <1>8, <2>1, <2>4 DEF AgreeInv
  <2> QED BY <1>4, <2>3, <2>5
<1>9. CASE op[c].at = "handing"
  <2>1. /\ op'[c].at \in {"failed", "deleting", "reporting", "done"}
        /\ op'[c].at # "failed" => ~op[c].failed
        /\ \A p \in Prompts : stored'[p] =
             IF p \in DOMAIN op[c].snap THEN op[c].snap[p]
             ELSE IF op[c].kind = "clear_chat" /\ Chat(p) = op[c].chat THEN "absent"
             ELSE stored[p]
    BY <1>1, <1>9 DEF GoesOn
  <2>2. Held(c) /\ ~Held(c)' /\ \A d \in Commands \ {c} : ~Held(d)
    BY <1>9, <2>1 DEF Held, Inv, LockInv
  <2>3. HandInv'
    BY <1>2, <1>3, <1>5, <2>1, <2>2 DEF HandInv, Held
  <2>4. AgreeInv'
    <3> SUFFICES ASSUME NEW p \in Prompts
                 PROVE  /\ state[p] # "absent" /\ stored'[p] = "absent" => ClearFailed(Chat(p))'
                        /\ state[p] = "absent" => stored'[p] = "absent"
                        /\ stored'[p] = "completed" => state[p] = "completed"
      BY <1>2 DEF AgreeInv
    <3>1. CASE p \in DOMAIN op[c].snap
      BY <1>9, <2>1, <3>1 DEF HandInv, Inv, SnapInv
    <3>2. CASE p \notin DOMAIN op[c].snap /\ op[c].kind = "clear_chat" /\ Chat(p) = op[c].chat
      <4>1. stored'[p] = "absent"
        BY <2>1, <3>2
      <4>2. state[p] # "absent" => op'[c].at = "failed"
        BY <2>1, <2>2, <3>2 DEF HandInv
      <4>3. op'[c].at = "failed" => ClearFailed(Chat(p))'
        BY <1>2, <1>3, <3>2 DEF ClearFailed
      <4> QED BY <4>1, <4>2, <4>3
    <3>3. CASE p \notin DOMAIN op[c].snap /\ ~(op[c].kind = "clear_chat" /\ Chat(p) = op[c].chat)
      <4>1. stored'[p] = stored[p]
        BY <2>1, <3>3
      <4>2. ~Covers(c, p)
        BY <1>9, <3>3 DEF Covers, HandInv
      <4>3. \A d \in Commands : ~Covers(d, p)
        BY <2>2, <4>2 DEF Covers
      <4> QED BY <1>6, <1>9, <4>1, <4>3 DEF AgreeInv
    <3> QED BY <3>1, <3>2, <3>3
  <2> QED BY <1>4, <2>3, <2>4
<1>10. op[c].at \in {"draining", "deleting", "reporting", "handing"}
  BY <1>1 DEF GoesOn
<1> QED BY <1>7, <1>8, <1>9, <1>10

-----------------------------------------------------------------------------
LEMMA WholeInit == ASSUME Init PROVE WholeInv
<1>1. /\ \A p \in Prompts : turn[p].parent = NoRef /\ state[p] = "absent" /\ stored[p] = "absent"
      /\ \A c \in Commands : op[c].at = "idle"
      /\ DOMAIN home = Prompts
  BY DEF Init
<1>2. HomeInv /\ HandInv /\ AgreeInv
  BY <1>1 DEF HomeInv, HandInv, AgreeInv, Held
<1> QED BY <1>2, InitInv DEF WholeInv

LEMMA WholeStep == ASSUME WholeInv, [Next]_wfVars PROVE WholeInv'
<1> USE DEF WholeInv
<1>1. Inv'
  BY NextKeepsInv
<1>2. HomeInv' /\ HandInv' /\ AgreeInv'
  <2>1. CASE UNCHANGED wfVars
    <3>1. Tame
      BY <2>1 DEF wfVars, trees, Tame, HomeInv
    <3> QED BY <3>1, TameKeeps
  <2>2. CASE \E p \in Prompts : Receive(p) \/ StatusSent(p) \/ Discard(p) \/ RunnerStep(p)
    BY <2>2, ReceiveIsTame, SentIsTame, RunnerIsTame, TameKeeps
  <2>3. CASE \E p \in Prompts : Admit(p)
    BY <2>3, AdmitKeeps
  <2>4. CASE \E c \in Commands : Take(c)
    BY <2>4, TakeAgrees
  <2>5. CASE \E c \in Commands : OpStep(c)
    BY <2>5, OpStepAgrees
  <2>6. CASE PublishStep
    <3>1. NoticeStep
      BY <2>6 DEF PublishStep, ReserveNotice, NoticeSent, FinalizeNotice, DiscardNotice, SettleNotice
    <3> QED BY <3>1, NoticeIsTame, TameKeeps
  <2> QED BY <2>1, <2>2, <2>3, <2>4, <2>5, <2>6 DEF Next, TurnStep
<1> QED BY <1>1, <1>2

(* Between the commands the store holds what the repository holds, but in   *)
(* a chat whose clear failed, for any prompts, commands and chats: no      *)
(* snapshot handed over late brings a prompt back, and none loses one.     *)
THEOREM StoreKeepsUp == Spec => []StoreAgrees
<1>1. Init => WholeInv
  BY WholeInit
<1>2. WholeInv /\ [Next]_wfVars => WholeInv'
  BY WholeStep
<1>3. WholeInv => StoreAgrees
  <2> SUFFICES ASSUME WholeInv, lock = Free, NEW p \in Prompts
               PROVE  /\ ClearFailed(Chat(p)) \/ (stored[p] = "absent" <=> state[p] = "absent")
                      /\ stored[p] = "completed" => state[p] = "completed"
    BY DEF StoreAgrees
  <2>1. \A c \in Commands : ~Covers(c, p)
    BY FreeAssumption DEF WholeInv, Inv, LockInv, Covers
  <2> QED BY <2>1 DEF WholeInv, AgreeInv
<1> QED BY <1>1, <1>2, <1>3, PTL DEF Spec
-----------------------------------------------------------------------------
(* What keeps a message the chats show accountable.                         *)
Named(m) ==
  /\ m[1] = "status" => m[2] \in Prompts /\ m = Status(m[2])
  /\ m[1] = "notice" => m = Notice

(* The messages are the bot's; a node without status is in a tree; and a   *)
(* notice is forgotten only when its chat does not show it any more.       *)
MessagesInv ==
  /\ \A m \in shown \cup log : Named(m)
  /\ bare \subseteq Present
  /\ DOMAIN notice = {"at", "gen"}
  /\ notice.at = "forgetting" => Notice \notin shown

(* The status of a prompt whose handler has not had its answer yet.        *)
Awaited(m) == m[1] = "status" /\ turn[m[2]].at \in {"asking", "rejected"}

(* What a command under the lock has collected: all its chat's log, but    *)
(* for the statuses that came since, when it is going to empty that log.   *)
Collected(c) ==
  /\ op[c].kind \in {"stop_reply", "stop_all", "clear_reply", "clear_chat"}
  /\ op[c].failed => op[c].kind = "clear_chat"
  /\ op[c].kind \in {"stop_reply", "stop_all"} => op[c].ids = {}
  /\ op[c].kind = "clear_chat" =>
       /\ \A m \in op[c].ids : m[1] # "feedback" => In(m, op[c].chat)
       /\ \A m \in log : m[1] # "feedback" /\ In(m, op[c].chat) => m \in op[c].ids \/ Awaited(m)

CollectedInv == \A c \in Commands : Held(c) => Collected(c)

(* One message is accounted for.                                           *)
Tracked(m) ==
  \/ m \in log \/ m \in refused \/ InHand(m)
  \/ m[1] = "status" /\ Resolves(<<m[2], "status">>)
  \/ \E chat \in Chats : In(m, chat) /\ ClearFailed(chat)

AccountInv == WholeInv /\ MessagesInv /\ CollectedInv /\ Accountable

(* The ids a command has, and whether a tree raised, when its transition    *)
(* is made and when its operation is over.                                 *)
LEMMA TransitsIds ==
  ASSUME TypeInv, NEW c \in Commands, NEW o, NEW S, NEW R, DOMAIN o = Fields, Transits(c, o, S, R)
  PROVE  op'[c].ids = o.ids /\ op'[c].failed = o.failed
<1> DEFINE at   == IF \E p \in S : runner[p] # "none" THEN "draining" ELSE "handing"
           snap == IF \E p \in S : runner[p] # "none" THEN << >> ELSE Snapshot(R, state')
<1>1. op' = [op EXCEPT ![c] = [o EXCEPT !.at = at, !.snap = snap]]
  BY DEF Transits
<1> HIDE DEF at, snap
<1>2. op'[c] = [o EXCEPT !.at = at, !.snap = snap]
  BY <1>1 DEF TypeInv
<1> QED BY <1>2 DEF Fields

LEMMA EndsIds ==
  ASSUME Inv, NEW c \in Commands, NEW at, NEW ids, Ends(c, at, ids)
  PROVE  op'[c].ids = ids
<1>1. PICK ref : op' = [op EXCEPT ![c] =
         [Command(op[c].kind, op[c].chat, ref) EXCEPT !.gen = op[c].gen, !.at = at, !.ids = ids]]
  BY DEF Ends, Inv, TypeInv
<1>2. PICK o : o = Command(op[c].kind, op[c].chat, ref)
  OBVIOUS
<1>3. DOMAIN o = Fields
  BY <1>2 DEF Command, Fields
<1>4. op'[c] = [o EXCEPT !.gen = op[c].gen, !.at = at, !.ids = ids]
  BY <1>1, <1>2 DEF Inv, TypeInv
<1> QED BY <1>3, <1>4 DEF Fields

-----------------------------------------------------------------------------
(* What a command does to the messages when it is taken: it sends and      *)
(* deletes none, and collects the status of every node it removes or bares. *)
TakeCollects(c) ==
  /\ UNCHANGED <<chats, notice>>
  /\ bare' \subseteq Present'
  /\ \A p \in Prompts : Resolves(<<p, "status">>) =>
       \/ Resolves(<<p, "status">>)'
       \/ Held(c)' /\ Status(p) \in op'[c].ids
  /\ Held(c)' => Collected(c)'

LEMMA FailResolves ==
  ASSUME NEW S, state' = Fail(S)
  PROVE  Present' = Present
BY DEF Fail, Present, Runnable

LEMMA StopReplyCollects ==
  ASSUME TypeInv, bare \subseteq Present, NEW c \in Commands, NEW ref \in Refs, StopReply(c, ref)
  PROVE  TakeCollects(c)
<1>1. Present' = Present /\ bare' = bare /\ UNCHANGED <<chats, notice>>
  <2>1. state' = state \/ \E S : state' = Fail(S)
    BY DEF StopReply
  <2> QED BY <2>1, FailResolves DEF StopReply, Present
<1>o. PICK o : o = Command("stop_reply", Chat(ref[1]), ref)
  OBVIOUS
<1>2. /\ DOMAIN o = Fields /\ o.kind = "stop_reply" /\ o.at = "reporting"
      /\ o.ids = {} /\ ~o.failed
  BY <1>o DEF Command, Fields
<1>3. Held(c)' => op'[c].kind = "stop_reply" /\ op'[c].ids = {} /\ ~op'[c].failed
  <2>1. CASE op' = [op EXCEPT ![c] = o]
    <3>1. op'[c] = o
      BY <2>1 DEF TypeInv
    <3> QED BY <3>1, <1>2 DEF Held
  <2>2. CASE op' = [op EXCEPT ![c] = [o EXCEPT !.at = "failed", !.ref = NoRef]]
    <3>1. op'[c] = [o EXCEPT !.at = "failed", !.ref = NoRef]
      BY <2>2 DEF TypeInv
    <3>2. op'[c].at = "failed"
      BY <3>1, <1>2 DEF Fields
    <3> QED BY <3>2 DEF Held
  <2>3. CASE Transits(c, [o EXCEPT !.say = (Cancelled({ref[1]}) = {})], {ref[1]}, {home[ref[1]]})
    <3>1. PICK r : r = [o EXCEPT !.say = (Cancelled({ref[1]}) = {})]
      OBVIOUS
    <3>2. PICK S, R : Transits(c, r, S, R)
      BY <2>3, <3>1
    <3>3. DOMAIN r = Fields /\ r.kind = "stop_reply" /\ r.ids = {} /\ ~r.failed
      BY <3>1, <1>2 DEF Fields
    <3> QED BY <3>2, <3>3, TransitsEffect, TransitsIds
  <2> QED BY <2>1, <2>2, <2>3, <1>o DEF StopReply
<1> QED BY <1>1, <1>3 DEF TakeCollects, Collected, Resolves

LEMMA StopAllCollects ==
  ASSUME TypeInv, bare \subseteq Present, NEW c \in Commands, NEW k \in Chats, StopAll(c, k)
  PROVE  TakeCollects(c)
<1>1. Present' = Present /\ bare' = bare /\ UNCHANGED <<chats, notice>>
  <2>1. \E S : state' = Fail(S)
    BY DEF StopAll
  <2> QED BY <2>1, FailResolves DEF StopAll
<1>o. PICK o : o = [Command("stop_all", k, NoRef) EXCEPT !.gen = stopGen + 1,
                      !.say = (Cancelled(Present) = {} \/ \E p \in Cancelled(Present) : Chat(p) # k)]
  OBVIOUS
<1>2. DOMAIN o = Fields /\ o.kind = "stop_all" /\ o.ids = {} /\ ~o.failed
  BY <1>o DEF Command, Fields
<1>3. Held(c)' => op'[c].kind = "stop_all" /\ op'[c].ids = {} /\ ~op'[c].failed
  <2>1. CASE op' = [op EXCEPT ![c] = [o EXCEPT !.at = "failed", !.ids = {}, !.ref = NoRef, !.say = FALSE]]
    <3>1. op'[c] = [o EXCEPT !.at = "failed", !.ids = {}, !.ref = NoRef, !.say = FALSE]
      BY <2>1 DEF TypeInv
    <3>2. op'[c].at = "failed"
      BY <3>1, <1>2 DEF Fields
    <3> QED BY <3>2 DEF Held
  <2>2. CASE Transits(c, o, Present, Roots)
    BY <2>2, <1>2, TransitsEffect, TransitsIds
  <2> QED BY <2>1, <2>2, <1>o DEF StopAll
<1> QED BY <1>1, <1>3 DEF TakeCollects, Collected, Resolves

LEMMA ClearReplyCollects ==
  ASSUME TypeInv, bare \subseteq Present, NEW c \in Commands, NEW ref \in Refs, ClearReply(c, ref)
  PROVE  TakeCollects(c)
<1>w. PICK owner : owner = IF ref[2] = "status" THEN {ref[1]} ELSE {}
  OBVIOUS
<1>r. PICK removed : removed = Subtree(ref)
  OBVIOUS
<1>a. PICK affected : affected = removed \cup owner
  OBVIOUS
<1>u. PICK u : u = Command("clear_reply", Chat(ref[1]), ref)
  OBVIOUS
<1>o. PICK o : o = [u EXCEPT !.ids = {Status(p) : p \in affected \ bare}]
  OBVIOUS
<1>1. UNCHANGED <<chats, notice>>
  BY DEF ClearReply
<1>2. /\ DOMAIN u = Fields /\ u.at = "reporting" /\ ~u.failed
      /\ DOMAIN o = Fields /\ o.kind = "clear_reply" /\ ~o.failed
      /\ o.ids = {Status(p) : p \in affected \ bare}
  BY <1>u, <1>o DEF Command, Fields
<1>3. CASE op' = [op EXCEPT ![c] = u] /\ UNCHANGED <<state, bare>>
  <2>1. op'[c] = u
    BY <1>3 DEF TypeInv
  <2>2. ~Held(c)'
    BY <1>2, <2>1 DEF Held
  <2> QED BY <1>1, <1>3, <2>2 DEF TakeCollects, Resolves, Present
<1>4. CASE /\ Resolves(ref)
           /\ state' = [p \in Prompts |-> IF p \in removed THEN "absent" ELSE Fail(affected)[p]]
           /\ bare' = (bare \cup owner) \ removed
           /\ Transits(c, o, affected, {home[ref[1]]})
  <2>1. PICK R : R = {home[ref[1]]}
    OBVIOUS
  <2>2. Transits(c, o, affected, R)
    BY <1>4, <2>1
  <2>3. /\ op'[c].kind = "clear_reply" /\ op'[c].at \in {"draining", "handing"}
        /\ op'[c].ids = {Status(p) : p \in affected \ bare} /\ ~op'[c].failed
    BY <1>2, <2>2, TransitsEffect, TransitsIds
  <2>4. owner \subseteq Present
    BY <1>4, <1>w DEF Resolves
  <2>5. Present' = Present \ removed
    BY <1>4 DEF Present, Fail, Runnable
  <2>6. bare' \subseteq Present'
    BY <1>4, <2>4, <2>5
  <2>7. ASSUME NEW p \in Prompts, Resolves(<<p, "status">>), ~Resolves(<<p, "status">>)'
        PROVE  Status(p) \in op'[c].ids
    <3>1. p \in Present /\ p \notin bare /\ ~(p \in Present' /\ p \notin bare')
      BY <2>7 DEF Resolves
    <3>2. p \in affected \ bare
      BY <3>1, <1>4, <1>a, <2>5
    <3> QED BY <3>2, <2>3
  <2>8. Held(c)' /\ Collected(c)'
    BY <2>3 DEF Held, Collected
  <2> QED BY <1>1, <2>6, <2>7, <2>8 DEF TakeCollects
<1>5. CASE /\ \E met : state' = Fail(met)
           /\ op' = [op EXCEPT ![c] = [o EXCEPT !.at = "failed", !.ids = {}, !.ref = NoRef, !.say = FALSE]]
           /\ bare' = bare
  <2>1. op'[c] = [o EXCEPT !.at = "failed", !.ids = {}, !.ref = NoRef, !.say = FALSE]
    BY <1>5 DEF TypeInv
  <2>2. op'[c].at = "failed"
    BY <1>2, <2>1 DEF Fields
  <2>3. Present' = Present
    BY <1>5, FailResolves
  <2> QED BY <1>1, <1>5, <2>2, <2>3 DEF TakeCollects, Resolves, Held
<1>6. \/ op' = [op EXCEPT ![c] = u] /\ UNCHANGED <<state, bare>>
      \/ /\ Resolves(ref)
         /\ state' = [p \in Prompts |-> IF p \in removed THEN "absent" ELSE Fail(affected)[p]]
         /\ bare' = (bare \cup owner) \ removed
         /\ Transits(c, o, affected, {home[ref[1]]})
      \/ /\ \E met : state' = Fail(met)
         /\ op' = [op EXCEPT ![c] = [o EXCEPT !.at = "failed", !.ids = {}, !.ref = NoRef, !.say = FALSE]]
         /\ bare' = bare
  BY <1>w, <1>r, <1>a, <1>u, <1>o DEF ClearReply
<1> QED BY <1>3, <1>4, <1>5, <1>6

LEMMA ClearChatCollects ==
  ASSUME TypeInv, HomeInv, bare \subseteq Present, NEW c \in Commands, NEW k \in Chats, ClearChat(c, k)
  PROVE  TakeCollects(c)
<1>h. PICK here : here = {p \in Present : Chat(p) = k}
  OBVIOUS
<1>i. PICK ids : ids = {m \in log : In(m, k)} \cup {Status(p) : p \in here \ bare}
  OBVIOUS
<1>o. PICK o : o = [Command("clear_chat", k, NoRef) EXCEPT !.gen = clearGen[k] + 1, !.ids = ids]
  OBVIOUS
<1>1. UNCHANGED <<shape, turn, chats, notice>>
  BY DEF ClearChat
<1>2. DOMAIN o = Fields /\ o.kind = "clear_chat" /\ o.chat = k /\ o.ids = ids
  BY <1>o DEF Command, Fields
<1>3. PICK S : /\ state' = Detach(S) /\ bare' = bare \ S
               /\ S \subseteq here
               /\ \/ Transits(c, o, here, {})
                  \/ op' = [op EXCEPT ![c] = [o EXCEPT !.at = "handing", !.failed = TRUE]]
  <2>1. \/ state' = Detach(here) /\ bare' = bare \ here /\ Transits(c, o, here, {})
        \/ /\ \E met \in SUBSET {r \in RootsIn(k) : ~Lacks(Tree(r))} :
                LET S == {p \in Present : home[p] \in met}
                IN  state' = Detach(S) /\ bare' = bare \ S
           /\ op' = [op EXCEPT ![c] = [o EXCEPT !.at = "handing", !.failed = TRUE]]
    BY <1>h, <1>i, <1>o DEF ClearChat
  <2>2. ASSUME NEW met \in SUBSET RootsIn(k)
        PROVE  {p \in Present : home[p] \in met} \subseteq here
    BY <1>h DEF RootsIn, Present, HomeInv, Placed
  <2>3. CASE state' = Detach(here) /\ bare' = bare \ here /\ Transits(c, o, here, {})
    BY <2>3
  <2>4. CASE \E met \in SUBSET {r \in RootsIn(k) : ~Lacks(Tree(r))} :
               LET S == {p \in Present : home[p] \in met}
               IN  state' = Detach(S) /\ bare' = bare \ S
    BY <2>1, <2>2, <2>4
  <2> QED BY <2>1, <2>3, <2>4
<1>4. /\ op'[c].kind = "clear_chat" /\ op'[c].chat = k /\ op'[c].ids = ids
      /\ op'[c].at \in {"draining", "handing"}
  <2>1. CASE Transits(c, o, here, {})
    BY <2>1, <1>2, TransitsEffect, TransitsIds
  <2>2. CASE op' = [op EXCEPT ![c] = [o EXCEPT !.at = "handing", !.failed = TRUE]]
    <3>1. op'[c] = [o EXCEPT !.at = "handing", !.failed = TRUE]
      BY <2>2 DEF TypeInv
    <3> QED BY <3>1, <1>2 DEF Fields
  <2> QED BY <1>3, <2>1, <2>2
<1>5. Present' = Present \ S
  BY <1>3 DEF Present, Detach
<1>6. ASSUME NEW p \in Prompts, Resolves(<<p, "status">>), ~Resolves(<<p, "status">>)'
      PROVE  Status(p) \in op'[c].ids
  <2>1. p \in Present /\ p \notin bare /\ ~(p \in Present' /\ p \notin bare')
    BY <1>6 DEF Resolves
  <2>2. p \in here \ bare
    BY <2>1, <1>3, <1>5
  <2> QED BY <2>2, <1>4, <1>i
<1>7. \A m : m[1] # "feedback" => (In(m, k)' <=> In(m, k))
  BY <1>1 DEF In, Chat
<1>8. Collected(c)'
  <2>1. \A m \in ids : m[1] # "feedback" => In(m, k)
    BY <1>h, <1>i DEF In, Status
  <2>2. \A m \in log : In(m, k) => m \in ids
    BY <1>i
  <2>3. log' = log
    BY <1>1 DEF chats
  <2> QED BY <1>4, <1>7, <2>1, <2>2, <2>3 DEF Collected
<1>9. Held(c)' /\ bare' \subseteq Present'
  BY <1>3, <1>4, <1>5 DEF Held
<1> QED BY <1>1, <1>6, <1>8, <1>9 DEF TakeCollects

LEMMA TakeAccounts ==
  ASSUME AccountInv, NEW c \in Commands, Take(c)
  PROVE  MessagesInv' /\ CollectedInv' /\ Accountable'
<1>1. TakeEffect(c) /\ TakeCollects(c)
  BY TakeHasEffect, StopReplyCollects, StopAllCollects, ClearReplyCollects, ClearChatCollects
     DEF Take, AccountInv, WholeInv, Inv, MessagesInv
<1>2. /\ UNCHANGED <<shape, turn, log, shown, refused, notice>> /\ lock = Free /\ op[c].at = "idle"
      /\ \A d \in Commands \ {c} : op'[d] = op[d]
  BY <1>1 DEF TakeEffect, TakeCollects, chats
<1>3. \A d \in Commands : ~Held(d)
  BY <1>2, FreeAssumption DEF AccountInv, WholeInv, Inv, LockInv
<1>4. MessagesInv'
  BY <1>1, <1>2 DEF AccountInv, MessagesInv, TakeCollects, Named
<1>5. CollectedInv'
  <2> SUFFICES ASSUME NEW d \in Commands, Held(d)' PROVE Collected(d)'
    BY DEF CollectedInv
  <2>1. d = c
    BY <1>2, <1>3 DEF Held
  <2> QED BY <1>1, <2>1 DEF TakeCollects
<1>6. Accountable'
  <2> SUFFICES ASSUME NEW m \in shown', m[1] # "feedback" PROVE Tracked(m)'
    BY DEF Accountable, Tracked
  <2>1. Tracked(m) /\ Named(m)
    BY <1>2 DEF AccountInv, Accountable, Tracked, MessagesInv
  <2>2. CASE m \in log \/ m \in refused
    BY <1>2, <2>2 DEF Tracked
  <2>3. CASE InHand(m)
    <3>1. \A d \in Commands : op[d].at \in {"draining", "handing", "deleting"} => op'[d] = op[d]
      BY <1>2
    <3> QED BY <1>2, <2>3, <3>1 DEF Tracked, InHand
  <2>4. CASE m[1] = "status" /\ Resolves(<<m[2], "status">>)
    <3>1. m[2] \in Prompts /\ m = Status(m[2])
      BY <2>1, <2>4 DEF Named
    <3>2. CASE Resolves(<<m[2], "status">>)'
      BY <2>4, <3>2 DEF Tracked
    <3>3. CASE Held(c)' /\ m \in op'[c].ids
      BY <3>3 DEF Tracked, InHand, Held
    <3> QED BY <1>1, <2>4, <3>1, <3>2, <3>3 DEF TakeCollects
  <2>5. CASE \E k \in Chats : In(m, k) /\ ClearFailed(k)
    <3>1. PICK k \in Chats : In(m, k) /\ ClearFailed(k)
      BY <2>5
    <3>2. In(m, k)'
      BY <1>2, <3>1 DEF In, Chat
    <3>3. ClearFailed(k)'
      BY <1>2, <3>1 DEF ClearFailed
    <3> QED BY <3>2, <3>3 DEF Tracked
  <2> QED BY <2>1, <2>2, <2>3, <2>4, <2>5 DEF Tracked
<1> QED BY <1>4, <1>5, <1>6

-----------------------------------------------------------------------------
(* A command that goes on: it hands over what it has collected, and what   *)
(* it deletes is gone or was refused.                                      *)
LEMMA OpStepAccounts ==
  ASSUME AccountInv, NEW c \in Commands, OpStep(c)
  PROVE  MessagesInv' /\ CollectedInv' /\ Accountable'
<1>1. GoesOn(c)
  BY OpStepGoesOn DEF AccountInv, WholeInv
<1>2. /\ UNCHANGED <<shape, turn, state, bare, notice>>
      /\ \A d \in Commands \ {c} : op'[d] = op[d]
      /\ op'[c].kind = op[c].kind /\ op'[c].chat = op[c].chat
  BY <1>1 DEF GoesOn, OpStep, Drained, HandOver, DeleteCollected, SendFeedback, trees
<1>3. /\ Present' = Present
      /\ \A p : Resolves(<<p, "status">>)' <=> Resolves(<<p, "status">>)
      /\ \A m : Awaited(m)' <=> Awaited(m)
      /\ \A m, k : m[1] # "feedback" => (In(m, k)' <=> In(m, k))
  BY <1>2 DEF Present, Resolves, Awaited, In, Chat
<1>4. \A k : op[c].at # "failed" /\ ClearFailed(k) => ClearFailed(k)'
  BY <1>2 DEF ClearFailed
<1>5. op[c].at # "failed"
  BY <1>1 DEF GoesOn
<1>6. \A d \in Commands \ {c} : (Held(d)' <=> Held(d))
  BY <1>2 DEF Held
<1>7. \A m : InHand(m) =>
        InHand(m)' \/ (op[c].at \in {"draining", "handing", "deleting"} /\ m \in op[c].ids)
  BY <1>2 DEF InHand
<1>8. Feedback(c)[1] = "feedback"
  BY DEF Feedback
<1>9. CASE Drained(c)
  <2>1. /\ op'[c].at = "handing" /\ op[c].at = "draining" /\ op'[c].failed = op[c].failed
        /\ UNCHANGED <<log, shown, refused>>
    BY <1>1, <1>9 DEF Drained, GoesOn, chats
  <2>2. op'[c].ids = op[c].ids
    <3>1. PICK snap : op' = [op EXCEPT ![c].at = "handing", ![c].snap = snap]
      BY <1>9 DEF Drained
    <3>2. op'[c] = [[op[c] EXCEPT !.at = "handing"] EXCEPT !.snap = snap]
      BY <3>1 DEF AccountInv, WholeInv, Inv, TypeInv
    <3>3. DOMAIN op[c] = Fields
      BY <2>1 DEF AccountInv, WholeInv, Inv, TypeInv
    <3> QED BY <3>2, <3>3 DEF Fields
  <2>3. MessagesInv'
    BY <1>2, <1>3, <2>1 DEF AccountInv, MessagesInv, Named
  <2>4. CollectedInv'
    <3> SUFFICES ASSUME NEW d \in Commands, Held(d)' PROVE Collected(d)'
      BY DEF CollectedInv
    <3>1. Held(d) /\ op'[d].ids = op[d].ids /\ op'[d].kind = op[d].kind /\ op'[d].chat = op[d].chat
          /\ op'[d].failed = op[d].failed
      BY <1>2, <1>6, <2>1, <2>2 DEF Held
    <3>2. Collected(d)
      BY <3>1 DEF AccountInv, CollectedInv
    <3> QED BY <1>3, <2>1, <3>1, <3>2 DEF Collected
  <2>5. Accountable'
    <3> SUFFICES ASSUME NEW m \in shown', m[1] # "feedback" PROVE Tracked(m)'
      BY DEF Accountable, Tracked
    <3>1. Tracked(m)
      BY <2>1 DEF AccountInv, Accountable, Tracked
    <3>2. InHand(m) => InHand(m)'
      BY <1>7, <2>1, <2>2 DEF InHand
    <3> QED BY <1>3, <1>4, <1>5, <2>1, <3>1, <3>2 DEF Tracked
  <2> QED BY <2>3, <2>4, <2>5
<1>10. CASE HandOver(c)
  <2>1. /\ op[c].at = "handing" /\ UNCHANGED <<shown, refused>>
        /\ log' = IF op[c].kind = "clear_chat" THEN {m \in log : ~In(m, op[c].chat)} ELSE log
    BY <1>10 DEF HandOver
  <2>2. Held(c) /\ Collected(c) /\ \A d \in Commands \ {c} : ~Held(d)
    BY <2>1 DEF Held, AccountInv, CollectedInv, WholeInv, Inv, LockInv
  <2>3. PICK at, ids : /\ Ends(c, at, ids) /\ at \in {"failed", "deleting", "reporting", "done"}
                       /\ at = "deleting" => ids = op[c].ids
                       /\ at \in {"reporting", "done"} => op[c].kind \notin {"clear_reply", "clear_chat"}
                       /\ op[c].failed => at = "failed"
                       /\ at = "failed" => op[c].failed \/ op[c].kind = "clear_chat"
    BY <1>10 DEF HandOver
  <2>4. op'[c].at = at /\ op'[c].ids = ids
    BY <2>1, <2>3, EndsKeeps, EndsIds DEF AccountInv, WholeInv
  <2>5. MessagesInv'
    BY <1>2, <1>3, <2>1 DEF AccountInv, MessagesInv, Named
  <2>6. CollectedInv'
    BY <1>6, <2>2, <2>3, <2>4 DEF CollectedInv, Held
  <2>7. at = "failed" => op[c].kind = "clear_chat" /\ \A k : k = op[c].chat => ClearFailed(k)'
    BY <1>2, <2>2, <2>3, <2>4 DEF Collected, ClearFailed
  <2>8. op[c].kind = "clear_chat" => op[c].chat \in Chats
    BY <2>1 DEF AccountInv, WholeInv, Inv, GenInv
  <2>9. Accountable'
    <3> SUFFICES ASSUME NEW m \in shown', m[1] # "feedback" PROVE Tracked(m)'
      BY DEF Accountable, Tracked
    <3>1. Tracked(m)
      BY <2>1 DEF AccountInv, Accountable, Tracked
    <3>2. CASE m \in op[c].ids
      <4>1. op[c].kind \in {"clear_reply", "clear_chat"}
        BY <2>2, <3>2 DEF Collected
      <4>2. CASE at = "deleting"
        BY <2>3, <2>4, <3>2, <4>2 DEF Tracked, InHand
      <4>3. CASE at = "failed"
        <5>1. PICK k \in Chats : k = op[c].chat
          BY <2>7, <2>8, <4>3
        <5>2. In(m, k)
          BY <2>2, <2>7, <3>2, <4>3, <5>1 DEF Collected
        <5>3. In(m, k)' /\ ClearFailed(k)'
          BY <1>3, <2>7, <4>3, <5>1, <5>2
        <5> QED BY <5>3 DEF Tracked
      <4> QED BY <2>3, <4>1, <4>2, <4>3
    <3>3. CASE m \notin op[c].ids /\ m \in log
      <4>1. CASE m \in log'
        BY <4>1 DEF Tracked
      <4>2. CASE m \notin log'
        <5>1. Awaited(m)
          BY <2>1, <2>2, <3>3, <4>2 DEF Collected
        <5> QED BY <1>2, <5>1 DEF Awaited, Tracked, InHand
      <4> QED BY <4>1, <4>2
    <3>4. CASE m \notin op[c].ids /\ m \notin log
      <4>1. InHand(m) => InHand(m)'
        BY <1>7, <3>4
      <4> QED BY <1>3, <1>4, <1>5, <2>1, <3>1, <3>4, <4>1 DEF Tracked
    <3> QED BY <3>2, <3>3, <3>4
  <2> QED BY <2>5, <2>6, <2>9
<1>11. CASE DeleteCollected(c) \/ SendFeedback(c)
  <2>1. op[c].at \in {"deleting", "reporting"} /\ Ends(c, "done", {})
    BY <1>11 DEF DeleteCollected, SendFeedback
  <2>2. op'[c].at = "done"
    BY <2>1, EndsKeeps DEF AccountInv, WholeInv
  <2>3. /\ shown' \subseteq shown \cup {Feedback(c)}
        /\ log' \subseteq log \cup {Feedback(c)}
        /\ refused \subseteq refused'
        /\ \A m \in log \ log' : op[c].at = "deleting" /\ m \in op[c].ids
        /\ op[c].at = "deleting" => \A m \in shown' : m \in op[c].ids => m \in refused'
    <3>1. CASE DeleteCollected(c)
      BY <3>1 DEF DeleteCollected, DeleteMessages
    <3>2. CASE SendFeedback(c)
      BY <3>2 DEF SendFeedback
    <3> QED BY <1>11, <3>1, <3>2
  <2>4. Named(Feedback(c)) /\ Notice # Feedback(c)
    BY DEF Named, Feedback, Notice
  <2>5. MessagesInv'
    <3>1. \A m \in shown' \cup log' : Named(m)
      BY <2>3, <2>4 DEF AccountInv, MessagesInv
    <3>2. notice.at = "forgetting" => Notice \notin shown'
      BY <2>3, <2>4 DEF AccountInv, MessagesInv
    <3>3. bare \subseteq Present /\ DOMAIN notice = {"at", "gen"}
      BY DEF AccountInv, MessagesInv
    <3> QED BY <1>2, <1>3, <3>1, <3>2, <3>3 DEF MessagesInv, Named
  <2>6. CollectedInv'
    <3> SUFFICES ASSUME NEW d \in Commands, Held(d)' PROVE Collected(d)'
      BY DEF CollectedInv
    <3>1. d # c /\ Held(d) /\ op'[d] = op[d]
      BY <1>2, <1>6, <2>2 DEF Held
    <3>2. Collected(d)
      BY <3>1 DEF AccountInv, CollectedInv
    <3>3. \A m \in log' : m[1] # "feedback" => m \in log
      BY <1>8, <2>3
    <3> QED BY <1>3, <3>1, <3>2, <3>3 DEF Collected
  <2>7. Accountable'
    <3> SUFFICES ASSUME NEW m \in shown', m[1] # "feedback" PROVE Tracked(m)'
      BY DEF Accountable, Tracked
    <3>1. m \in shown
      BY <1>8, <2>3
    <3>2. Tracked(m)
      BY <3>1 DEF AccountInv, Accountable, Tracked
    <3>3. CASE op[c].at = "deleting" /\ m \in op[c].ids
      BY <2>3, <3>3 DEF Tracked
    <3>4. CASE ~(op[c].at = "deleting" /\ m \in op[c].ids)
      <4>1. InHand(m) => InHand(m)'
        BY <1>7, <2>1, <3>4
      <4>2. (m \in log => m \in log') /\ (m \in refused => m \in refused')
        BY <2>3, <3>4
      <4> QED BY <1>3, <1>4, <1>5, <3>2, <4>1, <4>2 DEF Tracked
    <3> QED BY <3>3, <3>4
  <2> QED BY <2>5, <2>6, <2>7
<1> QED BY <1>9, <1>10, <1>11 DEF OpStep

-----------------------------------------------------------------------------
(* The steps that touch no message and no command.                         *)
LEMMA IdleAccounts ==
  ASSUME AccountInv, UNCHANGED <<shape, bare, chats, op, notice>>,
         \A p \in Prompts : state'[p] = "absent" <=> state[p] = "absent",
         \A p \in Prompts : turn[p].at \in {"asking", "rejected"} => turn'[p].at = turn[p].at
  PROVE  MessagesInv' /\ CollectedInv' /\ Accountable'
<1>1. /\ Present' = Present
      /\ \A p : Resolves(<<p, "status">>)' <=> Resolves(<<p, "status">>)
      /\ \A m, k : In(m, k)' <=> In(m, k)
      /\ UNCHANGED <<log, shown, refused, notice, op, bare>>
  BY DEF Present, Resolves, In, Chat, chats
<1>2. ASSUME NEW m \in shown \cup log, Awaited(m) PROVE Awaited(m)'
  BY <1>2 DEF Awaited, AccountInv, MessagesInv, Named
<1>3. MessagesInv'
  BY <1>1 DEF AccountInv, MessagesInv, Named
<1>4. CollectedInv'
  <2> SUFFICES ASSUME NEW c \in Commands, Held(c) PROVE Collected(c)'
    BY <1>1 DEF CollectedInv, Held
  <2>1. Collected(c)
    BY DEF AccountInv, CollectedInv
  <2> QED BY <1>1, <1>2, <2>1 DEF Collected
<1>5. Accountable'
  <2> SUFFICES ASSUME NEW m \in shown, m[1] # "feedback" PROVE Tracked(m)'
    BY <1>1 DEF Accountable, Tracked
  <2>1. Tracked(m)
    BY DEF AccountInv, Accountable, Tracked
  <2>2. InHand(m) => InHand(m)'
    BY <1>1, <1>2 DEF InHand, Awaited
  <2>3. \A k : ClearFailed(k)' <=> ClearFailed(k)
    BY <1>1 DEF ClearFailed
  <2> QED BY <1>1, <2>1, <2>2, <2>3 DEF Tracked
<1> QED BY <1>3, <1>4, <1>5

LEMMA ReceiveAccounts ==
  ASSUME AccountInv, NEW p \in Prompts, Receive(p)
  PROVE  MessagesInv' /\ CollectedInv' /\ Accountable'
<1>1. PICK t : turn' = [turn EXCEPT ![p] = t] /\ turn[p].at = "new"
  BY DEF Receive
<1>2. \A q \in Prompts : turn[q].at \in {"asking", "rejected"} => turn'[q].at = turn[q].at
  BY <1>1 DEF AccountInv, WholeInv, Inv, TypeInv
<1> QED BY <1>2, IdleAccounts DEF Receive, trees

LEMMA RunnerAccounts ==
  ASSUME AccountInv, NEW p \in Prompts, RunnerStep(p)
  PROVE  MessagesInv' /\ CollectedInv' /\ Accountable'
<1>1. UNCHANGED <<shape, bare, chats, op, notice, turn>>
  BY DEF RunnerStep, RecordSession, Complete, FailClaim, Leave, Report
<1>2. \A q \in Prompts : state'[q] = "absent" <=> state[q] = "absent"
  BY RunnerIsTame DEF Tame, AccountInv, WholeInv
<1> QED BY <1>1, <1>2, IdleAccounts

(* The status of a prompt is shown and recorded while its handler has it    *)
(* in hand, and leaves the log when it is deleted.                         *)
LEMMA StatusAccounts ==
  ASSUME AccountInv, NEW p \in Prompts, StatusSent(p) \/ Discard(p)
  PROVE  MessagesInv' /\ CollectedInv' /\ Accountable'
<1>1. PICK at \in {"asking", "done"} :
        /\ turn' = [turn EXCEPT ![p].at = at]
        /\ turn[p].at \in {"sending", "rejected"}
        /\ shown' \subseteq shown \cup {Status(p)} /\ log' \subseteq log \cup {Status(p)}
        /\ log \subseteq log' \cup {Status(p)} /\ refused \subseteq refused'
        /\ at = "done" => /\ log' \subseteq log /\ shown' \subseteq shown
                          /\ turn[p].at = "rejected" => Status(p) \notin log'
                          /\ Status(p) \in shown' => turn[p].at = "sending" \/ Status(p) \in refused'
                          /\ turn[p].at = "sending" => log' = log
  <2>1. CASE StatusSent(p)
    BY <2>1 DEF StatusSent, Goes
  <2>2. CASE Discard(p)
    BY <2>2 DEF Discard, Goes, DeleteMessages
  <2> QED BY <2>1, <2>2
<1>2. UNCHANGED <<shape, bare, state, op, notice>>
  BY DEF StatusSent, Discard, trees
<1>3. turn'[p].at = at /\ \A q \in Prompts \ {p} : turn'[q] = turn[q]
  BY <1>1, GoesTame DEF AccountInv, WholeInv
<1>4. /\ Present' = Present
      /\ \A q : Resolves(<<q, "status">>)' <=> Resolves(<<q, "status">>)
      /\ \A m, k : In(m, k)' <=> In(m, k)
      /\ \A k : ClearFailed(k)' <=> ClearFailed(k)
  BY <1>2 DEF Present, Resolves, In, Chat, ClearFailed
<1>5. /\ Named(Status(p)) /\ Status(p) # Notice
      /\ Status(p)[1] = "status" /\ Status(p)[2] = p
  BY DEF Named, Status, Notice
<1>6. ASSUME NEW m \in shown \cup log, m # Status(p), Awaited(m) PROVE Awaited(m)'
  <2>1. m[2] \in Prompts \ {p}
    BY <1>6 DEF Awaited, AccountInv, MessagesInv, Named
  <2> QED BY <1>3, <1>6, <2>1 DEF Awaited
<1>7. at = "asking" => Awaited(Status(p))'
  BY <1>3, <1>5 DEF Awaited
<1>8. MessagesInv'
  <2>1. \A m \in shown' \cup log' : Named(m)
    BY <1>1, <1>5 DEF AccountInv, MessagesInv
  <2>2. notice.at = "forgetting" => Notice \notin shown'
    BY <1>1, <1>5 DEF AccountInv, MessagesInv
  <2>3. bare \subseteq Present /\ DOMAIN notice = {"at", "gen"}
    BY DEF AccountInv, MessagesInv
  <2> QED BY <1>2, <1>4, <2>1, <2>2, <2>3 DEF MessagesInv, Named
<1>9. CollectedInv'
  <2> SUFFICES ASSUME NEW c \in Commands, Held(c) PROVE Collected(c)'
    BY <1>2 DEF CollectedInv, Held
  <2>1. Collected(c)
    BY DEF AccountInv, CollectedInv
  <2>2. ASSUME NEW m \in log', m[1] # "feedback", op[c].kind = "clear_chat", In(m, op[c].chat)
        PROVE  m \in op[c].ids \/ Awaited(m)'
    <3>1. CASE m # Status(p)
      BY <1>1, <1>6, <2>1, <2>2, <3>1 DEF Collected
    <3>2. CASE m = Status(p) /\ at = "asking"
      BY <1>7, <3>2
    <3>3. CASE m = Status(p) /\ at = "done"
      <4>1. turn[p].at = "sending" /\ m \in log
        BY <1>1, <2>2, <3>3
      <4>2. ~Awaited(m)
        BY <1>5, <3>3, <4>1 DEF Awaited
      <4> QED BY <2>1, <2>2, <4>1, <4>2 DEF Collected
    <3> QED BY <3>1, <3>2, <3>3
  <2> QED BY <1>2, <1>4, <2>1, <2>2 DEF Collected
<1>10. Accountable'
  <2> SUFFICES ASSUME NEW m \in shown', m[1] # "feedback" PROVE Tracked(m)'
    BY DEF Accountable, Tracked
  <2>1. CASE m # Status(p)
    <3>1. m \in shown /\ Tracked(m)
      BY <1>1, <2>1 DEF AccountInv, Accountable, Tracked
    <3>2. InHand(m) => InHand(m)'
      BY <1>2, <1>6, <2>1, <3>1 DEF InHand, Awaited
    <3>3. (m \in log => m \in log') /\ (m \in refused => m \in refused')
      BY <1>1, <2>1
    <3> QED BY <1>4, <3>1, <3>2, <3>3 DEF Tracked
  <2>2. CASE m = Status(p) /\ at = "asking"
    BY <1>7, <2>2 DEF Tracked, InHand, Awaited
  <2>3. CASE m = Status(p) /\ at = "done" /\ turn[p].at = "rejected"
    BY <1>1, <2>3 DEF Tracked
  <2>4. CASE m = Status(p) /\ at = "done" /\ turn[p].at = "sending"
    <3>1. m \in shown /\ Tracked(m) /\ log' = log
      BY <1>1, <2>4 DEF AccountInv, Accountable, Tracked
    <3>2. InHand(m) => InHand(m)'
      BY <1>2, <1>5, <2>4 DEF InHand
    <3> QED BY <1>1, <1>4, <3>1, <3>2 DEF Tracked
  <2> QED BY <1>1, <2>1, <2>2, <2>3, <2>4
<1> QED BY <1>8, <1>9, <1>10

(* The admission of a prompt hands its status from the handler to the tree, *)
(* or to the deletion of what was rejected.                                *)
LEMMA AdmitAccounts ==
  ASSUME AccountInv, NEW p \in Prompts, Admit(p)
  PROVE  MessagesInv' /\ CollectedInv' /\ Accountable'
<1>1. PICK root, at :
        /\ turn' = [turn EXCEPT ![p].at = at] /\ turn[p].at = "asking"
        /\ \/ at = "rejected" /\ UNCHANGED <<trees, stored>>
           \/ at = "done" /\ Admitted(p, root)
  BY DEF Admit, Goes
<1>2. lock = Free /\ UNCHANGED <<shape, log, shown, refused, op, notice>>
  BY DEF Admit, chats
<1>3. turn'[p].at = at /\ \A q \in Prompts \ {p} : turn'[q] = turn[q]
  BY <1>1, GoesTame DEF AccountInv, WholeInv
<1>4. bare' = bare
  BY <1>1 DEF Admitted, trees
<1>5. state[p] = "absent"
  BY <1>1 DEF AccountInv, WholeInv, HomeInv, Placed
<1>6. /\ \A q \in Prompts \ {p} : state'[q] = state[q]
      /\ at = "done" => state'[p] # "absent"
      /\ at = "rejected" => state'[p] = state[p]
  <2>1. CASE UNCHANGED <<trees, stored>> /\ at = "rejected"
    BY <2>1 DEF trees
  <2>2. CASE at = "done" /\ Admitted(p, root)
    <3>1. PICK s \in {"pending", "in_progress"} : state' = [state EXCEPT ![p] = s]
      BY <2>2 DEF Admitted
    <3> QED BY <2>2, <3>1 DEF AccountInv, WholeInv, Inv, TypeInv
  <2> QED BY <1>1, <2>1, <2>2
<1>7. Present' = IF at = "done" THEN Present \cup {p} ELSE Present
  BY <1>1, <1>5, <1>6 DEF Present
<1>8. /\ \A q : Resolves(<<q, "status">>) => Resolves(<<q, "status">>)'
      /\ at = "done" => Resolves(<<p, "status">>)'
      /\ \A m, k : In(m, k)' <=> In(m, k)
      /\ \A k : ClearFailed(k)' <=> ClearFailed(k)
  <2>1. p \notin bare
    BY <1>5 DEF AccountInv, MessagesInv, Present
  <2> QED BY <1>2, <1>4, <1>7, <2>1 DEF Resolves, In, Chat, ClearFailed
<1>9. MessagesInv'
  BY <1>2, <1>4, <1>7 DEF AccountInv, MessagesInv, Named
<1>10. CollectedInv'
  BY <1>2, FreeAssumption DEF CollectedInv, Held, AccountInv, WholeInv, Inv, LockInv
<1>11. Accountable'
  <2> SUFFICES ASSUME NEW m \in shown, m[1] # "feedback" PROVE Tracked(m)'
    BY <1>2 DEF Accountable, Tracked
  <2>1. Tracked(m) /\ Named(m)
    BY DEF AccountInv, Accountable, Tracked, MessagesInv
  <2>2. CASE m[1] = "status" /\ m[2] = p
    BY <1>1, <1>3, <1>8, <2>2 DEF Tracked, InHand
  <2>3. CASE ~(m[1] = "status" /\ m[2] = p)
    <3>1. InHand(m) => InHand(m)'
      BY <1>2, <1>3, <2>1, <2>3 DEF InHand, Named
    <3> QED BY <1>2, <1>8, <2>1, <3>1 DEF Tracked
  <2> QED BY <2>2, <2>3
<1> QED BY <1>9, <1>10, <1>11

(* The notice is in the hands of its publisher until it is in the log or   *)
(* deleted; the log changes between the commands only.                     *)
LEMMA NoticeAccounts ==
  ASSUME AccountInv, PublishStep
  PROVE  MessagesInv' /\ CollectedInv' /\ Accountable'
<1>1. UNCHANGED <<shape, turn, state, bare, op, lock>>
  BY DEF PublishStep, ReserveNotice, NoticeSent, FinalizeNotice, DiscardNotice, SettleNotice,
         NoticeStep, trees
<1>t. DOMAIN notice = {"at", "gen"}
  BY DEF AccountInv, MessagesInv
<1>2. /\ refused' = refused /\ DOMAIN notice' = {"at", "gen"}
      /\ shown' \subseteq shown \cup {Notice} /\ log' \subseteq log \cup {Notice}
      /\ log \subseteq log' \cup {Notice}
      /\ lock # Free => log' = log
      /\ notice'.at = "forgetting" => Notice \notin shown'
  <2>1. CASE ReserveNotice
    BY <2>1 DEF ReserveNotice, chats
  <2>2. CASE NoticeSent
    BY <1>t, <2>2 DEF NoticeSent
  <2>3. CASE FinalizeNotice
    BY <1>t, <2>3 DEF FinalizeNotice
  <2>4. CASE DiscardNotice
    BY <1>t, <2>4 DEF DiscardNotice
  <2>5. CASE SettleNotice
    BY <1>t, <2>5 DEF SettleNotice
  <2> QED BY <2>1, <2>2, <2>3, <2>4, <2>5 DEF PublishStep
<1>3. /\ Present' = Present
      /\ \A p : Resolves(<<p, "status">>)' <=> Resolves(<<p, "status">>)
      /\ \A m : Awaited(m)' <=> Awaited(m)
      /\ \A m, k : In(m, k)' <=> In(m, k)
      /\ \A k : ClearFailed(k)' <=> ClearFailed(k)
  BY <1>1 DEF Present, Resolves, Awaited, In, Chat, ClearFailed
<1>4. Named(Notice) /\ Notice[1] = "notice"
  BY DEF Named, Notice
<1>5. MessagesInv'
  <2>1. \A m \in shown' \cup log' : Named(m)
    BY <1>2, <1>4 DEF AccountInv, MessagesInv
  <2>2. bare \subseteq Present /\ DOMAIN notice = {"at", "gen"}
    BY DEF AccountInv, MessagesInv
  <2> QED BY <1>1, <1>2, <1>3, <2>1, <2>2 DEF MessagesInv, Named
<1>6. CollectedInv'
  <2> SUFFICES ASSUME NEW c \in Commands, Held(c) PROVE Collected(c)'
    BY <1>1 DEF CollectedInv, Held
  <2>1. Collected(c) /\ lock = c
    BY DEF AccountInv, CollectedInv, WholeInv, Inv, LockInv
  <2>2. log' = log
    BY <1>2, <2>1, FreeAssumption
  <2> QED BY <1>1, <1>3, <2>1, <2>2 DEF Collected
<1>7. Accountable'
  <2> SUFFICES ASSUME NEW m \in shown', m[1] # "feedback" PROVE Tracked(m)'
    BY DEF Accountable, Tracked
  <2>1. CASE m = Notice
    <3>1. m[1] = "notice"
      BY <1>4, <2>1
    <3>2. m \in shown => Tracked(m)
      BY DEF AccountInv, Accountable, Tracked
    <3>3. CASE ReserveNotice
      <4>1. m \in shown /\ log' = log /\ ~(notice.at \in {"finalizing", "discarding", "restoring"})
        BY <3>3 DEF ReserveNotice, chats
      <4>2. InHand(m) => InHand(m)'
        BY <1>1, <3>1, <4>1 DEF InHand
      <4> QED BY <1>2, <1>3, <3>2, <4>1, <4>2 DEF Tracked
    <3>4. CASE NoticeSent
      <4>1. CASE notice'.at = "finalizing"
        BY <3>1, <4>1 DEF Tracked, InHand
      <4>2. CASE notice'.at # "finalizing"
        <5>1. m \in shown /\ log' = log /\ notice.at = "sending"
          BY <1>t, <3>4, <4>2 DEF NoticeSent
        <5>2. InHand(m) => InHand(m)'
          BY <1>1, <3>1, <5>1 DEF InHand
        <5> QED BY <1>2, <1>3, <3>2, <5>1, <5>2 DEF Tracked
      <4> QED BY <4>1, <4>2
    <3>5. CASE FinalizeNotice
      <4>1. CASE log' = log \cup {Notice}
        BY <2>1, <4>1 DEF Tracked
      <4>2. CASE notice'.at = "discarding"
        BY <3>1, <4>2 DEF Tracked, InHand
      <4> QED BY <1>t, <3>5, <4>1, <4>2 DEF FinalizeNotice
    <3>6. CASE DiscardNotice
      <4>1. notice'.at = "restoring"
        BY <1>t, <2>1, <3>6 DEF DiscardNotice
      <4> QED BY <3>1, <4>1 DEF Tracked, InHand
    <3>7. CASE SettleNotice
      <4>1. notice.at # "forgetting"
        BY <2>1, <3>7 DEF SettleNotice, AccountInv, MessagesInv
      <4>2. log' = log \cup {Notice}
        BY <3>7, <4>1 DEF SettleNotice
      <4> QED BY <2>1, <4>2 DEF Tracked
    <3> QED BY <3>3, <3>4, <3>5, <3>6, <3>7 DEF PublishStep
  <2>2. CASE m # Notice
    <3>1. m \in shown /\ Tracked(m) /\ Named(m)
      BY <1>2, <2>2 DEF AccountInv, Accountable, Tracked, MessagesInv
    <3>2. m[1] # "notice"
      BY <2>2, <3>1 DEF Named
    <3>3. InHand(m) => InHand(m)'
      BY <1>1, <3>2 DEF InHand
    <3>4. m \in log => m \in log'
      BY <1>2, <2>2
    <3> QED BY <1>2, <1>3, <3>1, <3>3, <3>4 DEF Tracked
  <2> QED BY <2>1, <2>2
<1> QED BY <1>5, <1>6, <1>7

-----------------------------------------------------------------------------
LEMMA AccountInit == ASSUME Init PROVE AccountInv
<1>1. /\ shown = {} /\ log = {} /\ bare = {}
      /\ notice.at # "forgetting" /\ DOMAIN notice = {"at", "gen"}
      /\ \A c \in Commands : op[c].at = "idle"
  BY DEF Init
<1>2. MessagesInv /\ CollectedInv /\ Accountable
  BY <1>1 DEF MessagesInv, CollectedInv, Held, Accountable
<1> QED BY <1>2, WholeInit DEF AccountInv

LEMMA AccountStep == ASSUME AccountInv, [Next]_wfVars PROVE AccountInv'
<1>1. WholeInv'
  BY WholeStep DEF AccountInv
<1>2. MessagesInv' /\ CollectedInv' /\ Accountable'
  <2>1. CASE UNCHANGED wfVars
    BY <2>1, IdleAccounts DEF wfVars, trees
  <2>2. CASE \E p \in Prompts : Receive(p) \/ RunnerStep(p)
    BY <2>2, ReceiveAccounts, RunnerAccounts
  <2>3. CASE \E p \in Prompts : TurnStep(p)
    BY <2>3, StatusAccounts, AdmitAccounts DEF TurnStep
  <2>4. CASE \E c \in Commands : Take(c) \/ OpStep(c)
    BY <2>4, TakeAccounts, OpStepAccounts
  <2>5. CASE PublishStep
    BY <2>5, NoticeAccounts
  <2> QED BY <2>1, <2>2, <2>3, <2>4, <2>5 DEF Next
<1> QED BY <1>1, <1>2 DEF AccountInv

(* Every status message and notice a chat shows can still be cleared, or   *)
(* the platform refused to delete it, or the clear of its chat failed: for *)
(* any prompts, commands and chats no step loses track of a message.       *)
THEOREM StaysAccountable == Spec => []Accountable
<1>1. Init => AccountInv
  BY AccountInit
<1>2. AccountInv /\ [Next]_wfVars => AccountInv'
  BY AccountStep
<1>3. AccountInv => Accountable
  BY DEF AccountInv
<1> QED BY <1>1, <1>2, <1>3, PTL DEF Spec
=============================================================================
