----------------------------- MODULE ModelStream -----------------------------
(***************************************************************************)
(* The model's answer: what it is offered (llm/prompts.ts), the deltas its  *)
(* chunks come to (llm/LlmClient.ts) and the decision they add up to        *)
(* (llm/OpenAITurnDecider.ts). A text is a sequence of pieces; a tool's      *)
(* arguments are the fragments <<call, i>>, i up to Parts, of one call.     *)
(***************************************************************************)
EXTENDS Integers, Sequences, SequencesExt, StateMachine

CONSTANT Parts

None == "none"
Blank == " "

-----------------------------------------------------------------------------
(* What is offered beside the tools of a state.                             *)
PSEUDO_TOOLS ==
    [end_call |-> "ENDING", request_human |-> "WARM_TRANSFER_PENDING", renegotiate |-> "DISCUSSING_PAYMENT"]
PSEUDO_BY_STATE ==
    [s \in States |-> CASE s = "COMPLETED"          -> {}
                        [] s = "DISCUSSING_PAYMENT" -> {"end_call", "request_human"}
                        [] s = "CONFIRMING_OUTCOME" -> {"renegotiate", "end_call", "request_human"}
                        [] OTHER                    -> {"end_call"}]
toolSpecsFor(state) == {t \in TOOL_NAMES : toolAllowed(t, state)} \cup PSEUDO_BY_STATE[state]

-----------------------------------------------------------------------------
(* A chunk may carry text, begin a call, carry a fragment of its arguments   *)
(* and end the answer; each is a delta, in this order.                      *)
Chunk(content, name, args, ends) == [content |-> content, name |-> name, args |-> args, ends |-> ends]
DeltasOf(chunk) ==
    SelectSeq(<<<<"Content", <<chunk.content>>>>, <<"ToolCallStart", <<chunk.name>>>>,
                <<"ToolCallArgs", chunk.args>>, <<"Finish", <<>>>>>>,
              LAMBDA d : CASE d[1] = "Content"       -> chunk.content # None
                           [] d[1] = "ToolCallStart" -> chunk.name # None
                           [] d[1] = "ToolCallArgs"  -> chunk.args # <<>>
                           [] d[1] = "Finish"        -> chunk.ends)

-----------------------------------------------------------------------------
Acc0 == [content |-> <<>>, mode |-> "unknown", toolName |-> None, toolArgs |-> <<>>, finished |-> FALSE]
beforeAnyOutput(acc) == acc.mode = "unknown" /\ acc.content = <<>>

(* What is said beside a tool call is dropped, unless it came first; the     *)
(* first call names the tool, and the arguments of all are run together.    *)
Took(acc, d) ==
    CASE d[1] = "Content" ->
            IF acc.mode = "tool" THEN acc ELSE [acc EXCEPT !.mode = "chat", !.content = @ \o d[2]]
      [] d[1] = "ToolCallStart" ->
            [acc EXCEPT !.mode = IF @ = "unknown" THEN "tool" ELSE @,
                        !.toolName = IF @ = None THEN d[2][1] ELSE @]
      [] d[1] = "ToolCallArgs" -> [acc EXCEPT !.toolArgs = @ \o d[2]]
      [] d[1] = "Finish" -> [acc EXCEPT !.finished = TRUE]
Read(acc, chunks) == FoldLeft(Took, acc, FlattenSeq([i \in DOMAIN chunks |-> DeltasOf(chunks[i])]))

Parses(args) == args = <<>> \/ \E call \in {args[1][1]} : args = [i \in 1 .. Parts |-> <<call, i>>]

Decision(acc, tool, args, next) ==
    [kind |-> "decision", message |-> acc.content, tool |-> tool, args |-> args, next |-> next]
Invalid(acc) == [kind |-> "invalid_output", message |-> acc.content]
Unavailable(acc) == [kind |-> "unavailable", message |-> acc.content]

(* Whether the answer was finished is not asked.                            *)
Concluded(acc) ==
    CASE acc.toolName # None /\ Parses(acc.toolArgs) /\ acc.toolName \in TOOL_NAMES ->
            Decision(acc, acc.toolName, acc.toolArgs, "null")
      [] acc.toolName # None /\ Parses(acc.toolArgs) /\ acc.toolName \in DOMAIN PSEUDO_TOOLS ->
            Decision(acc, None, <<>>, PSEUDO_TOOLS[acc.toolName])
      [] acc.toolName = None /\ ToSet(acc.content) \ {Blank} # {} -> Decision(acc, None, <<>>, "null")
      [] OTHER -> Invalid(acc)

(* An attempt's chunks come and then it ends, or fails; one that fails       *)
(* before anything came out is tried once more, with what it had read. Each  *)
(* failure is reported: as a retry if nothing had come out, as an error if   *)
(* something had. message is also what was streamed to the borrower.        *)
decide(attempts) ==
    LET first == Read(Acc0, attempts[1].chunks)
        second == Read(first, attempts[2].chunks)
        report(acc) == IF beforeAnyOutput(acc) THEN "retry" ELSE "error"
    IN  IF ~attempts[1].fails THEN [result |-> Concluded(first), events |-> <<>>]
        ELSE IF ~beforeAnyOutput(first) THEN [result |-> Unavailable(first), events |-> <<"error">>]
        ELSE IF attempts[2].fails
        THEN [result |-> Unavailable(second), events |-> <<"retry", report(second)>>]
        ELSE [result |-> Concluded(second), events |-> <<"retry">>]
==============================================================================
