------------------------ MODULE MCMessagingWorkflow ------------------------
(* Two prompts, in one chat or in two, as roots or as a root and its reply,  *)
(* or one prompt and the startup notice.                                     *)
EXTENDS MessagingWorkflow

CONSTANTS a, b, k, l

Same  == [p \in {a, b} |-> k]
Alone == [p \in {a, b} |-> NoRef]

Shape(chat, to, sent, noticed) == [chat |-> chat, to |-> to, sent |-> sent, notice |-> noticed]

MCShapes ==
  {Shape(Same, [Alone EXCEPT ![b] = <<a, kind>>], {a, b}, FALSE) : kind \in {"prompt", "status"}}
  \cup {Shape([Same EXCEPT ![b] = l], Alone, {a, b}, FALSE), Shape(Same, Alone, {a}, TRUE)}
=============================================================================
