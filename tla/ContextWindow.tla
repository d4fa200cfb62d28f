---------------------------- MODULE ContextWindow ----------------------------
(***************************************************************************)
(* A conversation over POST /conversation-turn.  The server keeps nothing: *)
(* the client sends the whole history with every turn and chooses a        *)
(* strategy, prepare_context assembles the prompt and refuses it when it   *)
(* is too long, and the client adds the message and the answer to its      *)
(* history.                                                                *)
(*                                                                         *)
(* A message is its place in the conversation and its length in tokens.    *)
(* Token counts add up over the lines of a prompt: what the tokenizer      *)
(* merges across lines is left out.                                        *)
(***************************************************************************)
EXTENDS Naturals, Sequences, FiniteSetsExt, Functions, Listing

CONSTANTS
    SLIDING_WINDOW_SIZE,
    SUMMARIZATION_THRESHOLD,
    MAX_CONTEXT_TOKENS,
    Sizes,          \* tokens a message or an answer may have
    LabelTokens,    \* tokens of "Turn n: " and of "Current: "
    SummaryTokens,  \* tokens of the placeholder summary
    MaxHistory,     \* bound of the instance on the length of the history
    None

ASSUME WindowAssumption ==
    /\ SLIDING_WINDOW_SIZE \in Nat \ {0} /\ SUMMARIZATION_THRESHOLD \in Nat
    /\ SLIDING_WINDOW_SIZE <= SUMMARIZATION_THRESHOLD
ASSUME TokenAssumption ==
    /\ Sizes \subseteq Nat /\ MAX_CONTEXT_TOKENS \in Nat
    /\ LabelTokens \in Nat /\ SummaryTokens \in Nat /\ MaxHistory \in Nat

Strategies == {"full", "sliding_window", "summarized"}

VARIABLES
    history,  \* what the client holds: messages and answers in order
    turn      \* the last turn: what was sent and what became of it

vars == <<history, turn>>

NoTurn == [status |-> None]

Message(at, size) == [at |-> at, size |-> size]
-----------------------------------------------------------------------------
\* history[-SLIDING_WINDOW_SIZE:]
Recent(h) ==
    IF Len(h) <= SLIDING_WINDOW_SIZE
    THEN h ELSE SubSeq(h, Len(h) - SLIDING_WINDOW_SIZE + 1, Len(h))

\* mutant: everything but the last message is summarised.
OlderButLast(h) == SubSeq(h, 1, Len(h) - 1)

\* history[:-SLIDING_WINDOW_SIZE]
Older(h) == SubSeq(h, 1, Len(h) - SLIDING_WINDOW_SIZE)

\* A line of a prompt.  Labels number the lines of a block from 0.
FormatMessages(messages) ==
    [i \in DOMAIN messages |->
        [line |-> "Turn", label |-> i - 1, message |-> messages[i]]]
Summary(old) == <<[line |-> "Summary", label |-> Len(old), message |-> None]>>
Current(message) == <<[line |-> "Current", label |-> 0, message |-> message]>>

FullContext(h, message) == FormatMessages(Append(h, message))

\* mutant: the window is not applied.
WindowUnbounded(h, message) == FormatMessages(Append(h, message))

SlidingWindowContext(h, message) == FormatMessages(Append(Recent(h), message))

\* mutant: the threshold is tested the other way round.
SummarizedWhenShort(h, message) ==
    IF Len(h) > SUMMARIZATION_THRESHOLD
    THEN FullContext(h, message)
    ELSE Summary(Older(h)) \o FormatMessages(Recent(h)) \o Current(message)

SummarizedContext(h, message) ==
    IF Len(h) <= SUMMARIZATION_THRESHOLD
    THEN FullContext(h, message)
    ELSE Summary(Older(h)) \o FormatMessages(Recent(h)) \o Current(message)

Prepared(strategy, h, message) ==
    CASE strategy = "full" -> FullContext(h, message)
      [] strategy = "sliding_window" -> SlidingWindowContext(h, message)
      [] strategy = "summarized" -> SummarizedContext(h, message)

LineTokens(line) ==
    IF line.line = "Summary" THEN SummaryTokens ELSE LabelTokens + line.message.size

CountTokens(prompt) ==
    SumFunctionOnSet([i \in DOMAIN prompt |-> LineTokens(prompt[i])], DOMAIN prompt)
-----------------------------------------------------------------------------
Init == history = <<>> /\ turn = NoTurn

Turn(strategy, message, status) ==
    LET prompt == Prepared(strategy, history, message) IN
    turn' = [status |-> status, strategy |-> strategy, message |-> message,
             turn_index |-> Len(history), prompt |-> prompt,
             context_tokens_used |-> CountTokens(prompt), sent |-> history]

\* total_tokens > max_ctx raises.
Fits(strategy, message) ==
    CountTokens(Prepared(strategy, history, message)) <= MAX_CONTEXT_TOKENS

\* call_llm answers; the client keeps the message and the answer.
Answer(strategy, message, answer) ==
    /\ Fits(strategy, message)
    /\ Turn(strategy, message, 200)
    /\ history' = history \o <<message, answer>>

\* ContextTooLargeError: the turn is refused, the history stays what it is.
TooLarge(strategy, message) ==
    /\ ~Fits(strategy, message)
    /\ Turn(strategy, message, 400)
    /\ UNCHANGED history

\* call_llm raises: the client may send the turn again.
Fail(strategy, message) ==
    /\ Fits(strategy, message)
    /\ Turn(strategy, message, 500)
    /\ UNCHANGED history

Next ==
    \E strategy \in Strategies, size \in Sizes :
        LET message == Message(Len(history) + 1, size) IN
        \/ /\ Len(history) + 2 <= MaxHistory
           /\ \E answer \in Sizes :
                Answer(strategy, message, Message(Len(history) + 2, answer))
        \/ TooLarge(strategy, message)
        \/ Fail(strategy, message)

Spec == Init /\ [][Next]_vars
-----------------------------------------------------------------------------
Taken == turn # NoTurn
SummaryLines(prompt) == {i \in DOMAIN prompt : prompt[i].line = "Summary"}
VerbatimLines(prompt) == DOMAIN prompt \ SummaryLines(prompt)

\* The messages sent verbatim, in the order of their lines, and how many
\* messages the summaries stand for.
Verbatim ==
    LET lines == Listed(VerbatimLines(turn.prompt)) IN
    [n \in DOMAIN lines |-> turn.prompt[lines[n]].message]
Summarised ==
    SumFunctionOnSet([i \in DOMAIN turn.prompt |-> turn.prompt[i].label],
                     SummaryLines(turn.prompt))

\* context_manager.py: "Summarize older history deterministically and keep
\* recent turns verbatim".  Around the split of history[:-5] and history[-5:]
\* no message is lost and none is there twice: a prompt ends with the current
\* message, the messages before it are the last ones in order, and with the
\* ones the summary counts they are the whole history, unless the strategy is
\* the sliding window, which keeps as many as fit in it.
HistoryAccounted == Taken =>
    LET kept == Len(Verbatim) - 1
        sent == Len(turn.sent)
    IN  /\ \A i \in 1 .. kept + 1 :
             Verbatim[i] = Append(turn.sent, turn.message)[sent - kept + i]
        /\ turn.strategy # "sliding_window" => Summarised + kept = sent
        /\ turn.strategy = "sliding_window" =>
             kept = IF sent < SLIDING_WINDOW_SIZE THEN sent ELSE SLIDING_WINDOW_SIZE

\* The limit leaves room for a window of messages of any one size.
WindowFits ==
    \A size \in Sizes :
        SummaryTokens + (SLIDING_WINDOW_SIZE + 1) * (LabelTokens + size)
            <= MAX_CONTEXT_TOKENS

\* "This module applies bounded context strategies": a conversation of any
\* length goes on under sliding_window, and under summarized once it has
\* passed the threshold; only histories sent in full are refused.
BoundedStrategiesServe ==
    WindowFits /\ Taken /\ turn.status = 400 =>
        /\ turn.strategy # "sliding_window"
        /\ turn.strategy = "summarized" => Len(turn.sent) <= SUMMARIZATION_THRESHOLD

\* "deterministic and reproducible": what one turn has dropped or summarised
\* is not sent verbatim again by the next turn of the same strategy, the
\* threshold included.
ForgottenStaysForgotten ==
    [][Taken /\ turn'.strategy = turn.strategy =>
        LET first(t) == Min({t.prompt[i].message.at : i \in VerbatimLines(t.prompt)})
        IN  first(turn') >= first(turn)]_vars
=============================================================================
