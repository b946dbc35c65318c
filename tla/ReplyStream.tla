---------------------------- MODULE ReplyStream ----------------------------
(***************************************************************************)
(* One generation request of the HTTP API, streamed or not, from the       *)
(* engine's chunks to the events the client receives (src/omlx/server.py). *)
(*                                                                         *)
(* A generator turns chunks into events; _with_sse_keepalive pulls from it *)
(* and looks for a client that has gone while it waits.  Every event is a  *)
(* point where the generator may be closed instead of resumed.  A request  *)
(* without streaming runs under _run_with_disconnect_guard.                *)
(***************************************************************************)
EXTENDS ReplyText

CONSTANTS
    MaxTokens,     \* bound: prose, tags and brackets in a reply
    Openings       \* what a reply may begin with before the bound counts, such as <think>

ASSUME ReplyAssumption == MaxTokens \in Nat

VARIABLES
    api,           \* none yet, completion, chat, anthropic or responses
    streamed,      \* the client asked for a stream
    hasTools,      \* the request has tools
    text,          \* what the engine has produced, accumulated_text
    parser,        \* thinking_parser
    contentFilter, thinkingFilter,
    shown,         \* content deltas sent, joined
    reasoned,      \* reasoning deltas sent, joined
    finalText,     \* text of response.output_text.done, or the reply of a whole answer
    blocks,        \* Anthropic: [started, texting, index, events] of content blocks
    ending,        \* terminal events sent, in order
    generator,     \* new, refused, streaming, flushed, finished, returned or closed
    request,       \* of the engine: none, running, finished, failed or aborted
    client         \* the client is there

replyVars == <<api, streamed, hasTools, text, parser, contentFilter, thinkingFilter, shown, reasoned, finalText,
               blocks, ending, generator, request, client>>

NoBlocks == [started |-> FALSE, texting |-> FALSE, index |-> 0, events |-> << >>]

ReplyInit ==
    /\ api = "none"
    /\ streamed = FALSE
    /\ hasTools = FALSE
    /\ text = << >>
    /\ parser = NewParser
    /\ contentFilter = NewFilter
    /\ thinkingFilter = NewFilter
    /\ shown = << >>
    /\ reasoned = << >>
    /\ finalText = << >>
    /\ blocks = NoBlocks
    /\ ending = << >>
    /\ generator = "new"
    /\ request = "none"
    /\ client = TRUE

-----------------------------------------------------------------------------
(* Content blocks of the Anthropic stream                                  *)

Start(b) == [b EXCEPT !.events = Append(@, <<"start", b.index>>)]
Stop(b) == [b EXCEPT !.events = Append(@, <<"stop", b.index>>)]

ThinkingBlock(b, delta) ==
    IF delta = << >> \/ b.started THEN b ELSE [Start(b) EXCEPT !.started = TRUE]

\* A thinking block is closed when the text begins.
TextBlock(b, delta) ==
    IF delta = << >> \/ b.texting THEN b
    ELSE LET c == IF b.started THEN [Stop(b) EXCEPT !.index = @ + 1, !.started = FALSE] ELSE b
         IN [Start(c) EXCEPT !.texting = TRUE]

CloseBlocks(b) ==
    LET c == IF b.started /\ ~b.texting THEN [Stop(b) EXCEPT !.index = @ + 1] ELSE b
    IN IF c.texting THEN Stop(c)
       ELSE IF ~c.started THEN Stop(Start(c)) ELSE c

\* One tool_use block per call, numbered on.
RECURSIVE ToolBlocks(_, _)
ToolBlocks(b, calls) ==
    IF calls = 0 THEN b
    ELSE LET c == [b EXCEPT !.index = @ + 1] IN ToolBlocks(Stop(Start(c)), calls - 1)

-----------------------------------------------------------------------------
(* The handlers: refused, answered at once or streamed                     *)

\* A stream begins with a role, message_start, or response.created and so on.
Opens(a, withTools) ==
    /\ generator = "new"
    /\ api' = a
    /\ streamed' \in BOOLEAN
    /\ hasTools' = withTools
    /\ generator' = "streaming"
    /\ request' = "running"

\* No such model, no memory for it, a template that does not take the
\* messages, a prompt beyond the context window: an HTTP error, no generation.
Refuses(a) ==
    /\ generator = "new"
    /\ api' = a
    /\ generator' = "refused"
    /\ UNCHANGED <<streamed, hasTools, request>>

unopened == <<text, parser, contentFilter, thinkingFilter, shown, reasoned, finalText, blocks, ending, client>>

\* A completion has no tools; only the first prompt of a list is streamed.
CreateCompletion == (Refuses("completion") \/ Opens("completion", FALSE)) /\ UNCHANGED unopened

\* Tools of the request and of the MCP servers.
CreateChat == (Refuses("chat") \/ \E t \in BOOLEAN : Opens("chat", t)) /\ UNCHANGED unopened
CreateMessage == (Refuses("anthropic") \/ \E t \in BOOLEAN : Opens("anthropic", t)) /\ UNCHANGED unopened
CreateResponseReply == (Refuses("responses") \/ \E t \in BOOLEAN : Opens("responses", t)) /\ UNCHANGED unopened

-----------------------------------------------------------------------------
(* The generator                                                           *)

Filtered(f, delta) ==
    IF hasTools /\ delta # << >> THEN FilterFeed(f, delta) ELSE [f EXCEPT !.out = delta]

\* One output of the engine.
Output(chunk) ==
    /\ generator = "streaming" /\ request = "running"
    /\ text' = text \o chunk
    /\ UNCHANGED <<api, streamed, hasTools, finalText, ending, generator, request, client>>

CollectWhole(chunk) ==
    /\ ~streamed
    /\ Output(chunk)
    /\ UNCHANGED <<parser, contentFilter, thinkingFilter, shown, reasoned, blocks>>

CompletionChunk(chunk) ==
    /\ api = "completion" /\ streamed
    /\ Output(chunk)
    /\ shown' = shown \o chunk
    /\ UNCHANGED <<parser, contentFilter, thinkingFilter, reasoned, blocks>>

\* The thinking parser divides the chunk, and each part goes through a filter.
Parsing(chunk) ==
    /\ streamed
    /\ Output(chunk)
    /\ LET p == ParserFeed(parser, chunk)
           c == Filtered(contentFilter, p.content)
       IN /\ parser' = [p EXCEPT !.thinking = << >>, !.content = << >>]
          /\ contentFilter' = [c EXCEPT !.out = << >>]
          /\ shown' = shown \o c.out

ThinkingDelta(chunk) == Filtered(thinkingFilter, ParserFeed(parser, chunk).thinking)
Reasoning(delta) ==
    /\ thinkingFilter' = [delta EXCEPT !.out = << >>]
    /\ reasoned' = reasoned \o delta.out

ChatChunk(chunk) ==
    /\ api = "chat"
    /\ Parsing(chunk)
    /\ Reasoning(ThinkingDelta(chunk))
    /\ UNCHANGED blocks

MessageChunk(chunk) ==
    /\ api = "anthropic"
    /\ Parsing(chunk)
    /\ Reasoning(ThinkingDelta(chunk))
    /\ blocks' = TextBlock(ThinkingBlock(blocks, ThinkingDelta(chunk).out),
                           Filtered(contentFilter, ParserFeed(parser, chunk).content).out)

\* The Responses API has no events for reasoning.
ResponsesChunk(chunk) ==
    /\ api = "responses"
    /\ Parsing(chunk)
    /\ UNCHANGED <<thinkingFilter, reasoned, blocks>>

Chunk(chunk) ==
    \/ CollectWhole(chunk) \/ CompletionChunk(chunk) \/ ChatChunk(chunk) \/ MessageChunk(chunk)
    \/ ResponsesChunk(chunk)

\* The engine's last output was taken: the parser is flushed into the filters,
\* then each filter.  What the three make of it, in order.
LastThinking == Filtered(thinkingFilter, ParserFinish(parser).thinking)
LastContent == Filtered(contentFilter, ParserFinish(parser).content)
RestOf(f) == IF hasTools THEN FilterFinish(f) ELSE << >>

Flush ==
    /\ generator = "streaming" /\ request = "running" /\ streamed
    /\ shown' = shown \o LastContent.out \o RestOf(LastContent)
    /\ parser' = NewParser
    /\ contentFilter' = NewFilter
    /\ generator' = "flushed"
    /\ request' = "finished"
    /\ UNCHANGED <<api, streamed, hasTools, text, finalText, ending, client>>

FlushReasoning ==
    /\ reasoned' = reasoned \o LastThinking.out \o RestOf(LastThinking)
    /\ thinkingFilter' = NewFilter

FlushChat == api = "chat" /\ Flush /\ FlushReasoning /\ UNCHANGED blocks

FlushMessage ==
    /\ api = "anthropic" /\ Flush /\ FlushReasoning
    /\ blocks' = TextBlock(TextBlock(ThinkingBlock(blocks, LastThinking.out \o RestOf(LastThinking)),
                                     LastContent.out), RestOf(LastContent))

FlushResponses == api = "responses" /\ Flush /\ UNCHANGED <<thinkingFilter, reasoned, blocks>>

\* Tool calls come from the accumulated text, if the request had tools.
ReplyCalls == IF hasTools /\ text # << >> THEN WholeReply(text).calls ELSE 0

\* From the flushed parsers to the last event: tool calls and the finish.
FinishChat ==
    /\ api = "chat" /\ generator = "flushed"
    /\ ending' = ending \o [i \in 1 .. ReplyCalls |-> "tool call"] \o <<"finish", "done">>
    /\ UNCHANGED <<blocks, finalText>>

FinishMessage ==
    /\ api = "anthropic" /\ generator = "flushed"
    /\ blocks' = ToolBlocks(CloseBlocks(blocks), ReplyCalls)
    /\ ending' = ending \o <<"message_delta", "message_stop">>
    /\ UNCHANGED finalText

\* The response text of the Responses API is made again from all of the text.
FinishResponses ==
    /\ api = "responses" /\ generator = "flushed"
    /\ finalText' = IF hasTools /\ text # << >> THEN WholeReply(text).content ELSE ExtractThinking(text).content
    /\ ending' = ending \o <<"output_text.done", "item.done">> \o [i \in 1 .. ReplyCalls |-> "function_call"]
                        \o <<"completed">>
    /\ UNCHANGED blocks

FinishCompletion ==
    /\ api = "completion" /\ streamed /\ generator = "streaming" /\ request = "running"
    /\ ending' = ending \o <<"done">>
    /\ UNCHANGED <<blocks, finalText>>

FinishReply ==
    /\ \/ FinishChat \/ FinishMessage \/ FinishResponses \/ FinishCompletion
    /\ generator' = "finished"
    /\ request' = "finished"
    /\ UNCHANGED <<api, streamed, hasTools, text, parser, contentFilter, thinkingFilter, shown, reasoned, client>>

\* A reply without streaming is parsed at once, with or without tools.
AnswerCompletion == api = "completion" /\ shown' = text /\ UNCHANGED reasoned
AnswerChat ==
    /\ api = "chat"
    /\ shown' = WholeReply(text).content
    /\ reasoned' = WholeReply(text).thinking

\* A reply that is nothing but calls is shown with their markup.
AnswerMessage ==
    /\ api = "anthropic"
    /\ shown' = IF WholeReply(text).content # << >> THEN WholeReply(text).content
                ELSE ExtractThinking(text).content
    /\ reasoned' = WholeReply(text).thinking
AnswerResponses == api = "responses" /\ shown' = WholeReply(text).content /\ UNCHANGED reasoned

AnswerWhole ==
    /\ ~streamed /\ generator = "streaming" /\ request = "running"
    /\ AnswerCompletion \/ AnswerChat \/ AnswerMessage \/ AnswerResponses
    /\ generator' = "returned"
    /\ request' = "finished"
    /\ UNCHANGED <<api, streamed, hasTools, text, parser, contentFilter, thinkingFilter, finalText, blocks,
                   ending, client>>

\* After the last event the generator is resumed once more and returns.
GeneratorReturns ==
    /\ generator = "finished"
    /\ generator' = "returned"
    /\ UNCHANGED <<api, streamed, hasTools, text, parser, contentFilter, thinkingFilter, shown, reasoned,
                   finalText, blocks, ending, request, client>>

\* The engine raises: one last word in the way of the interface.  Content
\* blocks stay open.
EngineRaises ==
    /\ generator = "streaming" /\ request = "running"
    /\ request' = "failed"
    /\ generator' = "returned"
    /\ ending' = CASE ~streamed -> <<"error">>
                   [] streamed /\ api = "chat" -> <<"finish", "done">>
                   [] streamed /\ api = "completion" -> <<"error", "done">>
                   [] streamed /\ api = "anthropic" -> <<"error", "message_stop">>
                   [] streamed /\ api = "responses" -> <<"failed">>
    /\ UNCHANGED <<api, streamed, hasTools, text, parser, contentFilter, thinkingFilter, shown, reasoned,
                   finalText, blocks, client>>

-----------------------------------------------------------------------------
(* The client and the wrappers                                             *)

ClientLeaves ==
    /\ generator \notin {"new", "refused"} /\ client
    /\ client' = FALSE
    /\ UNCHANGED <<api, streamed, hasTools, text, parser, contentFilter, thinkingFilter, shown, reasoned,
                   finalText, blocks, ending, generator, request>>

\* Mutant: the generator is closed and the request goes on.
CloseGenerator_NoAbort ==
    /\ ~client
    /\ generator \in {"streaming", "flushed", "finished"}
    /\ generator' = "closed"
    /\ UNCHANGED <<api, streamed, hasTools, text, parser, contentFilter, thinkingFilter, shown, reasoned,
                   finalText, blocks, ending, request, client>>

\* The poll while waiting for the engine sees it, or sending the next event
\* fails: the generator is closed where it stands and the request aborted.
CloseGenerator ==
    /\ ~client
    /\ generator \in {"streaming", "flushed", "finished"}
    /\ generator' = "closed"
    /\ request' = IF request = "running" THEN "aborted" ELSE request
    /\ UNCHANGED <<api, streamed, hasTools, text, parser, contentFilter, thinkingFilter, shown, reasoned,
                   finalText, blocks, ending, client>>

Tokens(t) == Cardinality({i \in 1 .. Len(t) : t[i] \notin TagRests})
TokenBound == MaxTokens + Max({0} \cup {Tokens(o) : o \in {o \in Openings : IsPrefix(o, text)}})
Follows(t, chunk) ==
    \A i \in 1 .. Len(t \o chunk) :
        (t \o chunk)[i] \in TagRests => i > 1 /\ (t \o chunk)[i - 1] = "lt"
Chunks == {<<p>> : p \in Pieces} \cup {<<"lt", r>> : r \in TagRests}
            \cup {<<"w", "lt">>, <<"[call", "w", "]">>, <<"lt", "/think>", "w">>}

ReplyNext ==
    \/ CreateCompletion \/ CreateChat \/ CreateMessage \/ CreateResponseReply
    \/ \E c \in Openings : text = << >> /\ Chunk(c)
    \/ \E c \in Chunks : Tokens(text \o c) <= TokenBound /\ Follows(text, c) /\ Chunk(c)
    \/ FlushChat \/ FlushMessage \/ FlushResponses
    \/ FinishReply \/ AnswerWhole \/ GeneratorReturns \/ EngineRaises
    \/ ClientLeaves \/ CloseGenerator

\* The wrappers poll for a client that has gone; an engine owes no output.
ReplyFairness == WF_replyVars(CloseGenerator)

ReplySpec == ReplyInit /\ [][ReplyNext]_replyVars /\ ReplyFairness

-----------------------------------------------------------------------------
(* Properties                                                              *)

Parsed == streamed /\ generator \in {"flushed", "finished"} /\ api # "completion"
AtOnce == LET p == ParserFeed(NewParser, text) IN
          [content |-> p.content \o ParserFinish(p).content,
           thinking |-> p.thinking \o ParserFinish(p).thinking]

\* A bracket prefix inside an open one.
BracketInBracket(t) ==
    \E i, j \in OpenBracket(t) : i < j /\ "]" \notin ToSet(SubSeq(t, i, j))

\* Where the engine cuts its chunks, inside a tag or not, does not matter: the
\* content and the reasoning sent are those of the text taken in one piece,
\* after any reply, with tools or not; except for bracket prefixes in open
\* brackets, of which only the last is held back.
ChunksDoNotMatter ==
    Parsed /\ ~BracketInBracket(text) =>
        /\ shown = IF hasTools THEN SanitizeMarkup(AtOnce.content) ELSE AtOnce.content
        /\ api # "responses" =>
             reasoned = IF hasTools THEN SanitizeMarkup(AtOnce.thinking) ELSE AtOnce.thinking

\* Thinking tags that pair up, calls of one kind that parse, no loose end.
Tidy(t) ==
    LET think == TagsAt(t, "think>") \cup TagsAt(t, "/think>")
        opens == TagsAt(t, "tool>")
    IN /\ \A i \in think : t[i + 1] = "think>" <=> Cardinality({j \in think : j < i}) % 2 = 0
       /\ Cardinality(think) % 2 = 0
       /\ \A i \in opens : i + 2 <= Len(t) /\ t[i + 2] = "w" /\ i + 3 \in TagsAt(t, "/tool>")
       /\ OpenBracket(t) = BracketCalls(t)
       /\ opens = {} \/ OpenBracket(t) = {}
       /\ ~EndsInLt(AtOnce.content) /\ ~EndsInLt(AtOnce.thinking)

\* The two ways to take a reply apart agree: what a client was sent bit by bit
\* is what it would have got at once, if the reply is tidy.
StreamIsWhole ==
    Parsed /\ hasTools /\ Tidy(text) =>
        /\ shown = WholeReply(text).content
        /\ api # "responses" => reasoned = WholeReply(text).thinking

\* The Anthropic events nest: every block is started once, under a number of
\* its own, and stopped before the next one starts; unless the model thinks
\* again after it has begun to answer.
BlocksNest ==
    /\ api = "anthropic" /\ streamed /\ generator \in {"finished", "returned"} /\ request = "finished"
    /\ TagsAt(text, "think>") \subseteq {1}
    =>
        LET e == blocks.events IN
        /\ Len(e) % 2 = 0
        /\ \A i \in 1 .. Len(e) :
             /\ e[i][1] = IF i % 2 = 1 THEN "start" ELSE "stop"
             /\ i % 2 = 0 => e[i][2] = e[i - 1][2]
             /\ i % 2 = 1 /\ i > 1 => e[i][2] > e[i - 1][2]

\* What the client of a stream puts together is the reply, however it was cut.
StreamMatchesWhole == ChunksDoNotMatter /\ StreamIsWhole /\ BlocksNest

\* A client that leaves does not keep the engine busy.
DisconnectFreesEngine == ~client ~> request # "running"
=============================================================================
