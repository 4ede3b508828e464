--------------------------- MODULE StreamRecovery ---------------------------
(***************************************************************************)
(* One streamed answer of an OpenAI-chat provider                          *)
(* (providers/openai_chat/provider.py): the attempts on the upstream, the  *)
(* ledger each fills, the buffer that holds an attempt back until it has   *)
(* shown the reader something, and what is done when an attempt fails      *)
(* (providers/stream_recovery.py).                                         *)
(*                                                                         *)
(* One chunk of the upstream is one action: between the frames of a chunk  *)
(* only the reader can suspend, which changes nothing here.  The reader is *)
(* the executor; heartbeats, which it consumes, are not in what it got.    *)
(***************************************************************************)
EXTENDS StreamLedger

CONSTANTS
    Policies,       \* the settings, see Policy
    MaxHeld,        \* frames the hold-back buffer takes (RECOVERY_BUFFER_MAX_BYTES)
    MaxChunks       \* bound: chunks the upstream sends in one attempt

Policy == [window : BOOLEAN,     \* commit_holdback_seconds > 0
           chars : Nat,          \* commit_holdback_chars, in text deltas
           reasoning : BOOLEAN,  \* reasoning_commits
           early : Nat,          \* early_retry_attempts, after the first
           midstream : BOOLEAN]  \* midstream_recovery_attempts > 0

ASSUME PolicyAssumption == Policies \subseteq Policy
ASSUME BoundsAssumption == MaxHeld \in Nat /\ MaxChunks \in Nat

VARIABLES
    policy,       \* the settings, rigid
    phase,        \* "creating", "streaming", "over"
    ledger,       \* the ledger of the attempt
    made,         \* every frame of the attempt so far (history)
    hold,         \* RecoveryHoldbackBuffer
    wire,         \* the frames the reader got (history)
    finish,       \* finish_reason was seen
    chunks,       \* chunks of the attempt so far
    early,        \* _early_retry_count
    result        \* how the answer ended

vars == <<policy, phase, ledger, made, hold, wire, finish, chunks, early, result>>

-----------------------------------------------------------------------------
(* The hold-back buffer.                                                   *)

NewHold == [committed |-> FALSE, frames |-> << >>, window |-> "shut", chars |-> 0]

Scaffolding(f) ==
  \/ f[1] \in {"message_start", "message_delta", "message_stop", "start", "stop"}
  \/ f[1] = "delta" /\ f[3] = "thinking" /\ ~policy.reasoning

Text(f) == f[1] = "delta" /\ f[3] = "text"

(* flush: s is the buffer with what the reader got.                        *)
Flush(s) ==
  IF s.hold.committed THEN s
  ELSE [hold |-> [NewHold EXCEPT !.committed = TRUE], wire |-> s.wire \o s.hold.frames]

(* The window is open from the first frame that shows the reader something *)
(* and over when the clock says so; Elapse is the clock.                   *)
Opened(window, f) ==
  CASE window # "shut" \/ Scaffolding(f) -> window
    [] window = "shut" /\ ~Scaffolding(f) -> IF policy.window THEN "open" ELSE "over"

Push(s, f) ==
  LET held == [s.hold EXCEPT !.frames = Append(@, f),
                             !.window = Opened(@, f),
                             !.chars = IF Text(f) THEN @ + 1 ELSE @]
      full == Len(held.frames) >= MaxHeld
      due  == held.window = "over" /\ held.chars >= policy.chars
  IN  CASE s.hold.committed -> [s EXCEPT !.wire = Append(@, f)]
        [] ~s.hold.committed /\ ~policy.window /\ policy.chars = 0 ->
             Flush([s EXCEPT !.hold.frames = Append(@, f)])
        [] OTHER -> IF full \/ due THEN Flush([s EXCEPT !.hold = held])
                                   ELSE [s EXCEPT !.hold = held]

Now == [hold |-> hold, wire |-> wire]

Settles(s) == hold' = s.hold /\ wire' = s.wire

(* The frames go to the buffer one by one.                                 *)
Pushed(s, frames) ==
  LET after[n \in 0..Len(frames)] == IF n = 0 THEN s ELSE Push(after[n - 1], frames[n])
  IN  after[Len(frames)]

HandOn(l) ==
  /\ ledger' = [l EXCEPT !.out = << >>]
  /\ made' = made \o l.out
  /\ Settles(Pushed(Now, l.out))

-----------------------------------------------------------------------------
(* The attempt.                                                            *)

Begun(s) == Push(s, MessageStart)

(* The opening frame is made before the upstream is asked.                 *)
Init ==
  LET s == Begun([hold |-> NewHold, wire |-> << >>])
  IN  /\ policy \in Policies
      /\ phase = "creating" /\ result = "none"
      /\ ledger = NewLedger /\ made = <<MessageStart>>
      /\ hold = s.hold /\ wire = s.wire
      /\ finish = FALSE /\ chunks = 0 /\ early = 0

(* upstream_opened re-anchors the window.                                  *)
Open ==
  /\ phase = "creating" /\ phase' = "streaming"
  /\ hold' = IF hold.committed THEN hold ELSE [hold EXCEPT !.window = "shut"]
  /\ UNCHANGED <<policy, ledger, made, wire, finish, chunks, early, result>>

Elapse ==
  /\ phase = "streaming" /\ hold.window = "open"
  /\ hold' = [hold EXCEPT !.window = "over"]
  /\ UNCHANGED <<policy, phase, ledger, made, wire, finish, chunks, early, result>>

Arrives == phase = "streaming" /\ chunks < MaxChunks

Chunk(l) ==
  /\ Arrives
  /\ chunks' = chunks + 1
  /\ HandOn(l)
  /\ UNCHANGED <<policy, phase, finish, early, result>>

Reasoning == Chunk(ContentDelta(EnsureThinking(ledger), "thinking"))
TextPart  == Chunk(ContentDelta(EnsureText(ledger), "text"))
Heuristic == Chunk(HeuristicTool(ledger))

ToolCall(t, named, n) ==
  /\ Given(ledger, t) + n <= Whole
  /\ Chunk(ProcessToolCall(CloseContentBlocks(ledger), t, named, n))

(* The chunk that says why the model stopped; others may still follow it.  *)
FinishReason ==
  /\ Arrives /\ ~finish
  /\ finish' = TRUE /\ chunks' = chunks + 1
  /\ UNCHANGED <<policy, phase, ledger, made, hold, wire, early, result>>

-----------------------------------------------------------------------------
(* The end of an answer.                                                   *)

Envelope(l) == Emit(Emit(l, MessageDelta), MessageStop)

(* The answer's last frames are handed on, then all that is still held.    *)
Concludes(l, how) ==
  LET s == Flush(Pushed(Now, l.out))
  IN  /\ phase' = "over" /\ result' = how
      /\ ledger' = [l EXCEPT !.out = << >>]
      /\ made' = made \o l.out
      /\ Settles(s)
      /\ UNCHANGED <<policy, finish, chunks, early>>

(* An answer with no text needs a blank one, unless it calls a tool.       *)
Blank(l) ==
  IF ToolBlocks(l) = {} /\ ~Has(l, "text") THEN ContentDelta(EnsureText(l), "text") ELSE l

(* What the parser of think tags, and then that of tools, still held back   *)
(* at the end.                                                             *)
Parsed(l) ==
  {l, ContentDelta(EnsureThinking(l), "thinking"), ContentDelta(EnsureText(l), "text")}

Tails(l) == Parsed(l) \cup {HeuristicTool(p) : p \in Parsed(l)}

Finishes ==
  /\ phase = "streaming" /\ finish
  /\ \E l \in Tails(ledger) :
       Concludes(Envelope(CloseAllBlocks(FlushBuffers(Blank(l)))), "completed")

(* _recovery_events: the calls the upstream was asked to complete, or the   *)
(* rest of the reasoning and of the text.                                  *)
Continued(l) ==
  LET thought == ContentDelta(EnsureThinking(l), "thinking")
      spoken(m) == ContentDelta(EnsureText(m), "text")
  IN  IF ToolBlocks(l) # {} THEN {RepairTools(l)}
                            ELSE {thought, spoken(l), spoken(thought)}

(* The buffered frames go first; the recovered ones are not held.          *)
Recovers ==
  \E l \in Continued(ledger) : Concludes(Envelope(CloseAllBlocks(l)), "recovered")

(* Mutant: whatever is held is dropped.                                    *)
FailsDropping ==
  LET closed == CloseUnclosedBlocks(ledger)
  IN  IF hold.committed
        THEN Concludes(closed, "failed")
        ELSE /\ phase' = "over" /\ result' = "failed"
             /\ hold' = NewHold
             /\ UNCHANGED <<policy, ledger, made, wire, finish, chunks, early>>

(* A failure the reader is told of.  Held frames are dropped for the next   *)
(* model to start over, but not a call that is whole.                      *)
Fails ==
  LET closed == CloseUnclosedBlocks(ledger)
  IN  IF hold.committed \/ ToolsComplete(ledger)
        THEN Concludes(closed, "failed")
        ELSE /\ phase' = "over" /\ result' = "failed"
             /\ hold' = NewHold
             /\ UNCHANGED <<policy, ledger, made, wire, finish, chunks, early>>

(* Mutant: the buffer is kept for the next attempt.                        *)
RetriesHolding ==
  /\ phase' = "creating"
  /\ ledger' = NewLedger /\ made' = <<MessageStart>>
  /\ Settles(Begun([hold |-> [hold EXCEPT !.window = "shut"], wire |-> wire]))
  /\ finish' = FALSE /\ chunks' = 0 /\ early' = early + 1
  /\ UNCHANGED <<policy, result>>

(* A new ledger, new parsers and a new buffer.                             *)
RetriesEarly ==
  /\ phase' = "creating"
  /\ ledger' = NewLedger /\ made' = <<MessageStart>>
  /\ Settles(Begun([hold |-> NewHold, wire |-> wire]))
  /\ finish' = FALSE /\ chunks' = 0 /\ early' = early + 1
  /\ UNCHANGED <<policy, result>>

(* advance_failure: an early retry, or the recovery of what was generated,  *)
(* or the failure.  A recovery that comes to nothing is a failure too; only *)
(* calls that are whole need nothing more of the upstream.                 *)
AttemptFails(retryable) ==
  LET whole    == ToolsComplete(ledger)
      retries  == retryable /\ ~hold.committed /\ ~whole /\ early < policy.early
      recovers == retryable /\ ~retries /\ policy.midstream /\ ledger.blocks # << >>
  IN  \/ retries /\ RetriesEarly
      \/ recovers /\ Recovers
      \/ ~retries /\ ~(recovers /\ whole) /\ Fails

(* A stream that was never opened is neither retried nor recovered here.   *)
CreateFails == phase = "creating" /\ Fails

(* An error of the upstream, or an end without a finish reason.            *)
StreamFails(retryable) == phase = "streaming" /\ AttemptFails(retryable)

Next ==
  \/ Open \/ CreateFails
  \/ Elapse
  \/ Reasoning \/ TextPart \/ Heuristic
  \/ \E t \in Tools, named \in BOOLEAN, n \in 0..Whole :
       (named \/ n > 0) /\ ToolCall(t, named, n)
  \/ FinishReason
  \/ Finishes
  \/ \E retryable \in BOOLEAN : StreamFails(retryable)

Spec == Init /\ [][Next]_vars

-----------------------------------------------------------------------------
(* Frame i is one of these; block b is open just before it.                *)
At(frames, i, names) == frames[i][1] \in names

OpenBefore(frames, b, i) ==
  /\ \E j \in 1..i-1 : At(frames, j, {"start"}) /\ frames[j][2] = b
  /\ \A j \in 1..i-1 : At(frames, j, {"stop"}) => frames[j][2] # b

(* One message_start, which comes first; no block index used twice; deltas *)
(* and stops only of blocks that are open, of the block's own kind;        *)
(* nothing after message_stop.                                             *)
Legal(frames) ==
  \A i \in 1..Len(frames) :
    /\ At(frames, i, {"message_start"}) <=> i = 1
    /\ At(frames, i, {"message_stop"}) => i = Len(frames)
    /\ At(frames, i, {"start"}) =>
         \A j \in 1..i-1 : At(frames, j, {"start"}) => frames[j][2] # frames[i][2]
    /\ At(frames, i, {"delta", "stop"}) => OpenBefore(frames, frames[i][2], i)
    /\ At(frames, i, {"delta"}) =>
         \E j \in 1..i-1 : frames[j] = <<"start", frames[i][2], frames[i][3]>>

(* Every block is closed, and an answer has a block and its message_stop.  *)
Closed(frames) ==
  \A i \in 1..Len(frames) :
    At(frames, i, {"start"}) => ~OpenBefore(frames, frames[i][2], Len(frames) + 1)

Answers(frames) ==
  /\ frames # << >> /\ At(frames, Len(frames), {"message_stop"})
  /\ \E i \in 1..Len(frames) : At(frames, i, {"start"})

(* What the reader has been sent is at all times a legal stream; when the  *)
(* run is over no block is left open, and an answer that did not fail is   *)
(* a whole message (core/anthropic/streaming/ledger.py).                   *)
WireLegal ==
  /\ Legal(wire)
  /\ phase = "over" => Closed(wire) /\ (result # "failed" => Answers(wire))

(* The reader gets all of one attempt or nothing: frames of an attempt     *)
(* that was given up never come before another's, none is lost when the    *)
(* held ones are let go, and an answer that ended arrived entirely.        *)
OneAttempt ==
  /\ wire = << >> \/ wire = made
  /\ phase = "over" /\ result # "failed" => wire = made

(* A model that has shown the reader nothing can still be replaced: while  *)
(* an attempt goes on, the reader has a part of it only if that part has   *)
(* content, and as much text as the operator asked for; or the operator    *)
(* asked for no hold-back; or the buffer was full.                         *)
Shows(f) == f # Heartbeat /\ ~Scaffolding(f)

HeldWhileSilent ==
  phase # "over" /\ wire # << >> =>
    \/ /\ \E i \in 1..Len(wire) : Shows(wire[i])
       /\ Cardinality({i \in 1..Len(wire) : Text(wire[i])}) >= policy.chars
    \/ ~policy.window /\ policy.chars = 0
    \/ Len(wire) >= MaxHeld

(* Arguments the reader has of the call in block b.                        *)
PiecesOf(frames, b) ==
  LET part(i) == IF At(frames, i, {"delta"}) /\ frames[i][2] = b THEN frames[i][4] ELSE 0
      sum[n \in 0..Len(frames)] == IF n = 0 THEN 0 ELSE sum[n - 1] + part(n)
  IN  sum[Len(frames)]

(* A recovered answer carries no half-written tool call, and an attempt    *)
(* that had made nothing but whole calls reaches the reader even when it   *)
(* then fails for good.                                                    *)
CallsAreWhole ==
  /\ result = "recovered" =>
       \A i \in 1..Len(wire) : At(wire, i, {"start"}) /\ wire[i][3] = "tool_use" =>
         PiecesOf(wire, wire[i][2]) = Whole
  /\ result = "failed" /\ ToolsComplete(ledger) =>
       \A b \in ToolBlocks(ledger) : PiecesOf(wire, b) = Whole
=============================================================================
