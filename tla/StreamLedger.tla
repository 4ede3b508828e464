---------------------------- MODULE StreamLedger ----------------------------
(***************************************************************************)
(* The ledger that turns an OpenAI-chat stream into Anthropic frames       *)
(* (core/anthropic/streaming/ledger.py) and the assembly of tool calls     *)
(* over it (providers/openai_chat/tool_calls.py), as operators on one      *)
(* ledger.                                                                 *)
(*                                                                         *)
(* A frame is a tuple: <<"start", block, kind>>, <<"delta", block, kind,   *)
(* pieces>>, <<"stop", block>>, or an envelope frame.  The heartbeat of a  *)
(* buffered call is none: it goes past the hold-back and the executor      *)
(* consumes it.  The arguments of a tool call come in Whole pieces and     *)
(* parse once all of them are there; blocks count from 1.                  *)
(***************************************************************************)
EXTENDS Naturals, Sequences, FiniteSets

CONSTANTS
    Tools,          \* the upstream's tool-call indexes
    CallOf,         \* what each calls: a plain tool, one with aliased arguments, Task
    Whole           \* pieces the arguments of a tool call come in

ASSUME ToolAssumption == /\ CallOf \in [Tools -> {"plain", "aliased", "task"}]
                         /\ Whole \in Nat \ {0}

(* The arguments of these are emitted in one delta, once they parse.       *)
Buffered == {t \in Tools : CallOf[t] # "plain"}

MessageStart == <<"message_start">>
MessageDelta == <<"message_delta">>
MessageStop  == <<"message_stop">>
Heartbeat    == <<"heartbeat">>

Block == [kind : {"text", "thinking", "tool_use"}, open : BOOLEAN, pieces : 0..Whole]

(* ToolBlockState: block is 0 before the call is started, pre holds the    *)
(* pieces that came before its name, buffer those that do not parse yet.   *)
ToolState == [named : BOOLEAN, block : Nat, pre : 0..Whole, buffer : 0..Whole]

Content == {"text", "thinking"}

(* A ledger and the frames it has made since it was last handed on.        *)
(* content is the block of its kind that is started, 0 when none is.       *)
NewLedger ==
  [blocks |-> << >>, content |-> [kind \in Content |-> 0], out |-> << >>,
   tools |-> [t \in Tools |-> [named |-> FALSE, block |-> 0, pre |-> 0, buffer |-> 0]]]

Emit(l, frame) == [l EXCEPT !.out = Append(@, frame)]

ToolBlocks(l) == {i \in 1..Len(l.blocks) : l.blocks[i].kind = "tool_use"}
Has(l, kind)  == \E i \in 1..Len(l.blocks) : l.blocks[i].kind = kind

(* can_salvage_tool_use: tool blocks were emitted, with arguments that     *)
(* parse in each.                                                          *)
ToolsComplete(l) ==
  ToolBlocks(l) # {} /\ \A i \in ToolBlocks(l) : l.blocks[i].pieces = Whole

-----------------------------------------------------------------------------
StartBlock(l, kind) ==
  Emit([l EXCEPT !.blocks = Append(@, [kind |-> kind, open |-> TRUE, pieces |-> 0])],
       <<"start", Len(l.blocks) + 1, kind>>)

BlockDelta(l, i, kind, n) ==
  Emit([l EXCEPT !.blocks[i].pieces = IF kind = "tool_use" THEN @ + n ELSE @],
       <<"delta", i, kind, n>>)

StopBlock(l, i) == Emit([l EXCEPT !.blocks[i].open = FALSE], <<"stop", i>>)

StartContent(l, kind) == [StartBlock(l, kind) EXCEPT !.content[kind] = Len(l.blocks) + 1]
ContentDelta(l, kind) == BlockDelta(l, l.content[kind], kind, 1)

StopContent(l, kind) ==
  IF l.content[kind] = 0 THEN l
  ELSE [StopBlock(l, l.content[kind]) EXCEPT !.content[kind] = 0]

(* ensure_text_block, ensure_thinking_block.                               *)
EnsureBlock(l, kind, other) ==
  LET closed == StopContent(l, other)
  IN  IF closed.content[kind] = 0 THEN StartContent(closed, kind) ELSE closed

EnsureText(l)     == EnsureBlock(l, "text", "thinking")
EnsureThinking(l) == EnsureBlock(l, "thinking", "text")

CloseContentBlocks(l) == StopContent(StopContent(l, "thinking"), "text")

(* The blocks of B in the order they were started.  The code goes through  *)
(* its calls in the order it first heard of them, which makes no           *)
(* difference to what is told of each block.                               *)
InOrder(B) ==
  CHOOSE s \in [1..Cardinality(B) -> B] : \A i, j \in 1..Cardinality(B) : i < j => s[i] < s[j]

LastFirst(s) == [i \in 1..Len(s) |-> s[Len(s) + 1 - i]]

(* A stop for each block of s, one after the other.                        *)
StopBlocks(l, s) ==
  LET stopped(i) == \E k \in 1..Len(s) : s[k] = i
  IN  [l EXCEPT !.blocks = [i \in 1..Len(@) |->
                              IF stopped(i) THEN [@[i] EXCEPT !.open = FALSE] ELSE @[i]],
                !.out = @ \o [k \in 1..Len(s) |-> <<"stop", s[k]>>]]

(* A delta of n[i] pieces for each tool block i of B, one after the other. *)
DeltaBlocks(l, B, n) ==
  LET s   == InOrder(B)
      fed == [i \in 1..Len(l.blocks) |->
                IF i \in B THEN [l.blocks[i] EXCEPT !.pieces = @ + n[i]] ELSE l.blocks[i]]
  IN  [l EXCEPT !.blocks = fed,
                !.out = @ \o [k \in 1..Len(s) |-> <<"delta", s[k], "tool_use", n[s[k]]>>]]

(* Mutant: the tool calls are left open.                                   *)
CloseOnlyContent(l) == CloseContentBlocks(l)

(* Every call that was started is stopped, whether or not it still is open. *)
CloseAllBlocks(l) ==
  StopBlocks(CloseContentBlocks(l), InOrder({l.tools[t].block : t \in Tools} \ {0}))

(* What an error leaves open, the last one first.                          *)
CloseUnclosedBlocks(l) ==
  [StopBlocks(l, LastFirst(InOrder({i \in 1..Len(l.blocks) : l.blocks[i].open})))
     EXCEPT !.content = [kind \in Content |-> 0]]

-----------------------------------------------------------------------------
(* Mutant: the heartbeat of a buffered call goes through the hold-back too. *)
EmitToolArgsAsFrame(l, t, n) ==
  LET buffer == l.tools[t].buffer + n
  IN  CASE t \notin Buffered ->
             BlockDelta(l, l.tools[t].block, "tool_use", n)
        [] t \in Buffered /\ buffer = Whole ->
             BlockDelta([l EXCEPT !.tools[t].buffer = 0], l.tools[t].block, "tool_use", Whole)
        [] t \in Buffered /\ buffer < Whole ->
             Emit([l EXCEPT !.tools[t].buffer = buffer], Heartbeat)

(* _emit_tool_arg_delta: the pieces of a buffered call wait until they      *)
(* parse; only a heartbeat says meanwhile that the upstream is alive.      *)
EmitToolArgs(l, t, n) ==
  LET buffer == l.tools[t].buffer + n
  IN  CASE t \notin Buffered ->
             BlockDelta(l, l.tools[t].block, "tool_use", n)
        [] t \in Buffered /\ buffer = Whole ->
             BlockDelta([l EXCEPT !.tools[t].buffer = 0], l.tools[t].block, "tool_use", Whole)
        [] t \in Buffered /\ buffer < Whole ->
             [l EXCEPT !.tools[t].buffer = buffer]

StartTool(l, t) ==
  LET opened  == StartBlock(l, "tool_use")
      started == [opened EXCEPT !.tools[t].block = Len(opened.blocks), !.tools[t].pre = 0]
  IN  IF l.tools[t].pre = 0 THEN started ELSE EmitToolArgs(started, t, l.tools[t].pre)

(* process_tool_call: one delta of a call, with its name, with a piece of  *)
(* its arguments, or with both.                                            *)
ProcessToolCall(l, t, named, n) ==
  LET told == [l EXCEPT !.tools[t].named = @ \/ named]
      on   == IF told.tools[t].named /\ told.tools[t].block = 0 THEN StartTool(told, t) ELSE told
  IN  CASE n = 0 -> on
        [] n > 0 /\ on.tools[t].block = 0 -> [on EXCEPT !.tools[t].pre = @ + n]
        [] n > 0 /\ on.tools[t].block # 0 -> EmitToolArgs(on, t, n)

(* Pieces of a call the ledger has been given so far.                      *)
Given(l, t) ==
  l.tools[t].pre + l.tools[t].buffer
    + (IF l.tools[t].block = 0 THEN 0 ELSE l.blocks[l.tools[t].block].pieces)

(* iter_heuristic_tool_use_sse: a call found whole in the text.            *)
HeuristicTool(l) ==
  LET started == StartBlock(CloseContentBlocks(l), "tool_use")
      i       == Len(started.blocks)
  IN  StopBlock(BlockDelta(started, i, "tool_use", Whole), i)

(* The call a tool block belongs to.                                       *)
CallIn(l, i) == CHOOSE t \in Tools : l.tools[t].block = i

(* What never parsed is emitted as it is, flush_tool_argument_alias_buffers; *)
(* a Task gets an empty object instead, flush_task_arg_buffers.            *)
Flushed(l, call) ==
  LET waiting == {t \in Tools : CallOf[t] = call /\ l.tools[t].buffer > 0}
      left    == [i \in {l.tools[t].block : t \in waiting} |->
                    IF call = "task" THEN 0 ELSE l.tools[CallIn(l, i)].buffer]
  IN  [DeltaBlocks(l, DOMAIN left, left) EXCEPT
         !.tools = [t \in Tools |-> IF t \in waiting THEN [@[t] EXCEPT !.buffer = 0] ELSE @[t]]]

FlushBuffers(l) == Flushed(Flushed(l, "aliased"), "task")

(* _repair_tool_args, when the upstream completes every call: the rest of  *)
(* what was emitted, or all of what was only buffered.                     *)
RepairTools(l) ==
  LET rest == [i \in {l.tools[t].block : t \in Tools} \ {0} |-> Whole - l.blocks[i].pieces]
  IN  DeltaBlocks(l, {i \in DOMAIN rest : rest[i] > 0}, rest)
=============================================================================
