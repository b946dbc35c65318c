---------------------------- MODULE Conversation ----------------------------
(***************************************************************************)
(* From the messages of a client to those of the chat template, for the    *)
(* three APIs: src/omlx/api/utils.py (chat completions),                   *)
(* src/omlx/api/anthropic_utils.py (messages) and                          *)
(* src/omlx/api/responses_utils.py (responses, which continue stored       *)
(* ones).                                                                  *)
(*                                                                         *)
(* A conversation grows: clients add messages and get answers.  Chat and   *)
(* message clients send all of it again; a response client sends what is   *)
(* new.  Contents are sequences of parts, each known by its place in the   *)
(* conversation, so that what is lost, doubled or moved can be seen.       *)
(***************************************************************************)
EXTENDS Integers, SequencesExt

CONSTANTS
    Formats,  \* [api, model, native]: which conversion a request gets
    MaxSaid   \* bound: messages of a conversation

ASSUME ConversationAssumption ==
    /\ Formats \subseteq [api : {"chat", "messages", "responses"},
                          model : {"text", "vision", "harmony"}, native : BOOLEAN]
    /\ MaxSaid \in Nat

VARIABLES
    format,   \* the API, the engine's kind, and whether its tokenizer has_tool_calling
    said,     \* the conversation: [role, kinds], where kinds are those of its parts
    current,  \* place of the first message since the last answer
    past      \* messages stored for previous_response_id

conversationVars == <<format, said, current, past>>

Of(parts, kinds) == SelectSeq(parts, LAMBDA p : p.kind \in kinds)
Has(parts, kind) == \E j \in DOMAIN parts : parts[j].kind = kind

\* A message for the template: the parts of its content, which is a string or a
\* list, its tool_calls, and _preserve_role_boundary.
Message(role, content) ==
    [role |-> role, content |-> content, calls |-> << >>, list |-> FALSE, keep |-> FALSE]

-----------------------------------------------------------------------------
(* Order and roles                                                         *)

\* _consolidate_system_messages: one system message, at the front.
ConsolidateSystem(ms) ==
    LET system == FlattenSeq([i \in DOMAIN ms |->
                    IF ms[i].role = "system" THEN ms[i].content ELSE << >>])
    IN  IF system = << >> THEN ms
        ELSE <<Message("system", system)>> \o SelectSeq(ms, LAMBDA m : m.role # "system")

\* _merge_consecutive_roles joins the contents; a list and another content
\* cannot be joined (TypeError), which ends the request.
Mergeable_AcrossCalls(a, b) == a.role = b.role /\ a.role \in {"user", "assistant"}
Mergeable(a, b) == a.role = b.role /\ a.role \in {"user", "assistant"} /\ ~a.keep /\ ~b.keep
Raises(a, b) == a.content # << >> /\ b.content # << >> /\ (a.list \/ b.list)
Merged(a, b) ==
    IF Raises(a, b) THEN Message("failed", << >>)
    ELSE [a EXCEPT !.content = @ \o b.content,
                   !.list    = IF a.content = << >> THEN b.list ELSE @]

MergeConsecutiveRoles(ms) ==
    FoldLeft(LAMBDA acc, m : IF acc # << >> /\ Mergeable(Last(acc), m)
                             THEN Append(Front(acc), Merged(Last(acc), m)) ELSE Append(acc, m),
             << >>, ms)

-----------------------------------------------------------------------------
(* Chat completions                                                        *)

\* Tool calls and results have fields of their own for templates that know
\* them, and are text for the others.
CallingMessage(m, structured) ==
    LET text  == Of(m.parts, {"text"})
        calls == Of(m.parts, {"call"})
    IN  [Message("assistant", IF structured THEN text ELSE text \o calls)
           EXCEPT !.calls = IF structured THEN calls ELSE << >>, !.keep = TRUE]

ResultMessage(m, structured) ==
    IF structured THEN Message("tool", m.parts)
    ELSE [Message("user", m.parts) EXCEPT !.keep = TRUE]

\* One message, in extract_text_content, extract_multimodal_content and
\* extract_harmony_messages.
FromChat(f, m) ==
    LET structured == f.native \/ f.model = "harmony"
    IN  CASE m.role = "tool"                                  -> ResultMessage(m, structured)
          [] m.role = "assistant" /\ Has(m.parts, "call")     -> CallingMessage(m, structured)
          [] f.model = "vision" /\ Has(m.parts, "image")      ->
               [Message(m.role, Of(m.parts, {"text", "image"})) EXCEPT !.list = TRUE]
          [] OTHER -> Message(IF m.role = "developer" THEN "system" ELSE m.role,
                              Of(m.parts, {"text"}))

ChatPrompt(f, c) ==
    LET ms == ConsolidateSystem([i \in DOMAIN c |-> FromChat(f, c[i])])
    IN  IF f.model = "vision" THEN ms ELSE MergeConsecutiveRoles(ms)

-----------------------------------------------------------------------------
(* Messages                                                                *)

\* _build_message_from_parts: images first; nothing if there is nothing.
Build(f, role, parts) ==
    LET images == IF f.model = "vision" THEN Of(parts, {"image"}) ELSE << >>
        others == SelectSeq(parts, LAMBDA p : p.kind \notin {"image", "thinking"})
    IN  IF images \o others = << >> THEN << >>
        ELSE <<[Message(role, images \o others) EXCEPT !.list = images # << >>]>>

OrEmpty(role, ms) == IF ms = << >> THEN <<Message(role, << >>)>> ELSE ms

\* Blocks as text: tool calls and results keep their place.
TextBlocks(f, m) ==
    LET built == OrEmpty(m.role, Build(f, m.role, m.parts))
    IN  <<[built[1] EXCEPT !.keep = Has(m.parts, "call") \/ Has(m.parts, "result")]>>

\* Blocks for a template with tools: a result ends the message before it.
NativeAssistant(f, m) ==
    LET calls == Of(m.parts, {"call"})
        built == OrEmpty("assistant", Build(f, "assistant", Of(m.parts, {"text", "image"})))
    IN  <<[built[1] EXCEPT !.calls = calls, !.keep = calls # << >>]>>

NativeUser(f, m) ==
    LET split == FoldLeft(LAMBDA acc, p :
                   IF p.kind = "result"
                   THEN [done |-> acc.done \o Build(f, "user", acc.open) \o <<Message("tool", <<p>>)>>,
                         open |-> << >>]
                   ELSE [acc EXCEPT !.open = Append(@, p)],
                   [done |-> << >>, open |-> << >>], m.parts)
    IN  OrEmpty("user", split.done \o Build(f, "user", split.open))

\* convert_anthropic_to_internal_harmony: calls have a field, without
\* _preserve_role_boundary; results follow the text.
HarmonyBlocks(m) ==
    LET text    == Of(m.parts, {"text"})
        results == Of(m.parts, {"result"})
    IN  CASE m.role = "assistant" ->
               <<[Message("assistant", text) EXCEPT !.calls = Of(m.parts, {"call"})]>>
          [] m.role = "user" -> (IF text = << >> THEN << >> ELSE <<Message("user", text)>>)
                                \o [j \in DOMAIN results |-> Message("tool", <<results[j]>>)]
          [] OTHER -> <<Message(m.role, text)>>

FromMessages(f, m) ==
    CASE f.model = "harmony"                  -> HarmonyBlocks(m)
      [] f.native /\ m.role = "assistant"     -> NativeAssistant(f, m)
      [] f.native /\ m.role = "user"          -> NativeUser(f, m)
      [] OTHER                                -> TextBlocks(f, m)

MessagesPrompt(f, c) ==
    MergeConsecutiveRoles(FlattenSeq([i \in DOMAIN c |-> FromMessages(f, c[i])]))

-----------------------------------------------------------------------------
(* Responses                                                               *)

\* _flush_pending_tool_calls: calls join the assistant message before them,
\* unless it is of an earlier response.
FlushPending(ms, pending, first) ==
    IF pending = << >> THEN ms
    ELSE IF Len(ms) > first /\ Last(ms).role = "assistant" /\ Last(ms).calls = << >>
         THEN Append(Front(ms), [Last(ms) EXCEPT !.calls = pending])
         ELSE Append(ms, [Message("assistant", << >>) EXCEPT !.calls = pending])

\* An image becomes the text "[image]", whatever the model: nothing of it is left
\* but its place.
AsText(p) == IF p.kind = "image" THEN [p EXCEPT !.kind = "placeholder"] ELSE p

ReadItem(acc, m, first) ==
    LET flushed == FlushPending(acc.ms, acc.pending, first)
        texts   == Of(m.parts, {"text", "image"})
        content == [j \in DOMAIN texts |-> AsText(texts[j])]
    IN  CASE m.role \in {"call", "pasted"} -> [acc EXCEPT !.pending = @ \o m.parts]
          [] m.role = "tool" -> [acc EXCEPT !.ms = Append(flushed, Message("tool", m.parts)),
                                            !.pending = << >>]
          [] m.role = "developer" -> [acc EXCEPT !.ms = flushed, !.pending = << >>,
                                                 !.system = @ \o content]
          [] OTHER -> [acc EXCEPT !.ms = Append(flushed, Message(m.role, content)),
                                  !.pending = << >>]

\* convert_responses_input_to_messages, and normalize_response_output_to_messages
\* for the items of an answer.
ResponsesPrompt(c, previous) ==
    LET read == FoldLeft(LAMBDA acc, m : ReadItem(acc, m, Len(previous)),
                         [ms |-> previous, pending |-> << >>, system |-> << >>], c)
        ms   == FlushPending(read.ms, read.pending, Len(previous))
    IN  ConsolidateSystem(IF read.system = << >> THEN ms
                          ELSE <<Message("system", read.system)>> \o ms)

-----------------------------------------------------------------------------
(* Conversations                                                           *)

Shape(role, kinds) == [role |-> role, kinds |-> kinds]

\* What clients say and models answer, in each API.  A system message of the
\* messages API is a field of the request.
ClientSays(f) ==
    CASE f.api = "chat" ->
           {Shape("developer", <<"text">>), Shape("user", <<"text">>),
            Shape("user", <<"image", "text">>), Shape("assistant", <<"text">>),
            Shape("tool", <<"result">>)}
      [] f.api = "messages" ->
           {Shape("user", <<"text">>), Shape("user", <<"text", "image">>),
            Shape("user", <<"result", "text">>), Shape("user", <<"text", "result", "result">>),
            Shape("assistant", <<"call">>)}
           \cup IF said = << >> THEN {Shape("system", <<"text">>)} ELSE {}
      [] OTHER ->
           {Shape("developer", <<"text">>), Shape("user", <<"text">>),
            Shape("user", <<"image">>), Shape("pasted", <<"call">>), Shape("tool", <<"result">>)}

ModelAnswers(f) ==
    CASE f.api = "chat" ->
           {<<Shape("assistant", <<"text">>)>>, <<Shape("assistant", <<"text", "call">>)>>,
            <<Shape("assistant", <<"call">>)>>}
      [] f.api = "messages" ->
           {<<Shape("assistant", <<"text">>)>>, <<Shape("assistant", <<"thinking", "text", "call">>)>>,
            <<Shape("assistant", <<"call", "call">>)>>}
      [] OTHER ->
           {<<Shape("assistant", <<"text">>)>>, <<Shape("call", <<"call">>)>>,
            <<Shape("assistant", <<"text">>), Shape("call", <<"call">>), Shape("call", <<"call">>)>>}

\* The messages from lo to hi, with their parts.
Content(c, lo, hi) ==
    [i \in 1..(hi - lo + 1) |->
       [role  |-> c[lo + i - 1].role,
        parts |-> [j \in DOMAIN c[lo + i - 1].kinds |->
                     [kind |-> c[lo + i - 1].kinds[j], at |-> lo + i - 1, nr |-> j]]]]

Prompt(c, first, previous) ==
    CASE format.api = "chat"     -> ChatPrompt(format, Content(c, 1, Len(c)))
      [] format.api = "messages" -> MessagesPrompt(format, Content(c, 1, Len(c)))
      [] OTHER                   -> ResponsesPrompt(Content(c, first, Len(c)), previous)

ConversationInit ==
    /\ format \in Formats
    /\ said = << >> /\ current = 1 /\ past = << >>

Say(message) ==
    /\ Len(said) < MaxSaid
    /\ said' = Append(said, message)
    /\ UNCHANGED <<format, current, past>>

\* An answer; _store_response_state keeps the messages of a response.
Answer(items) ==
    /\ current <= Len(said)
    /\ Len(said) < MaxSaid
    /\ said' = said \o items
    /\ current' = Len(said') + 1
    /\ past' = IF format.api # "responses" THEN << >>
               ELSE past \o ResponsesPrompt(Content(said, current, Len(said)), << >>)
                         \o ResponsesPrompt(Content(said', Len(said) + 1, Len(said')), << >>)
    /\ UNCHANGED format

ConversationNext ==
    \/ \E message \in ClientSays(format) : Say(message)
    \/ \E items \in ModelAnswers(format) : Answer(items)

ConversationSpec == ConversationInit /\ [][ConversationNext]_conversationVars

-----------------------------------------------------------------------------
(* Properties                                                              *)

PartsOf(ms) == FlattenSeq([i \in DOMAIN ms |-> ms[i].content \o ms[i].calls])

\* Parts that the prompt leaves out: thinking, and images for a model that takes
\* none.  Of the images of the Responses API it has a placeholder, for any model.
Unused(p) == p.kind = "thinking" \/ (p.kind = "image" /\ format.model # "vision"
                                     /\ format.api # "responses")
Expected ==
    LET c     == Content(said, 1, Len(said))
        parts == Of(FlattenSeq([i \in DOMAIN c |-> SelectSeq(c[i].parts, LAMBDA p : ~Unused(p))]),
                    {"text", "image", "call", "result"})
    IN  IF format.api = "responses" THEN [j \in DOMAIN parts |-> AsText(parts[j])] ELSE parts

Instruction(p) == said[p.at].role \in {"system", "developer"}

\* Two answers in a row, with tool calls, of the messages API: a harmony
\* template gets only the first one's calls.
CallsJoined ==
    /\ format.api = "messages" /\ format.model = "harmony"
    /\ \E i \in 2..Len(said) : said[i - 1].role = "assistant" /\ said[i].role = "assistant"

\* Two messages in a row of the messages API, one with an image.
ImagesJoined ==
    /\ format.api = "messages" /\ format.model = "vision"
    /\ \E i \in 2..Len(said) :
         /\ said[i].role = said[i - 1].role
         /\ \E k \in {i - 1, i} : "image" \in ToSet(said[k].kinds)

ThePrompt == Prompt(said, current, past)

\* Every text, tool call and tool result the client sent or got, and every image
\* of the chat and messages APIs for a vision model, is in the prompt, once, and
\* behind what was said before it, except instructions.  An image of the Responses
\* API is lost: a placeholder stands at its place, also once and in order.
NothingLost ==
    LET parts == PartsOf(ThePrompt)
    IN  CallsJoined \/ ImagesJoined \/
        /\ Len(parts) = Len(Expected) /\ ToSet(parts) = ToSet(Expected)
        /\ \A a, b \in DOMAIN parts :
             a < b /\ ~Instruction(parts[a]) /\ ~Instruction(parts[b]) => parts[a].at <= parts[b].at

\* Strict templates: the instructions come first, in one message; no two
\* messages of the user or the model are in a row, but for tool calls and
\* results, and models that take images.
RolesAlternate ==
    LET ms == ThePrompt
    IN  /\ \A i \in DOMAIN ms : ms[i].role = "system" => i = 1
        /\ format.api # "responses" /\ format.model # "vision" =>
             \A i \in 2..Len(ms) :
               ms[i].role = ms[i - 1].role /\ ms[i].role \in {"user", "assistant"} =>
                 ms[i].keep \/ ms[i - 1].keep

\* The prompt of a conversation continues the prompt it had before the last
\* message, so that the prefix cache has it, unless that is an instruction.
PromptGrows ==
    said # << >> /\ said[Len(said)].role \notin {"system", "developer"} /\ format.api # "responses" =>
        CallsJoined \/ ImagesJoined \/
        IsPrefix(PartsOf(Prompt(Front(said), current, past)), PartsOf(ThePrompt))

\* A response that continues a stored one gets the prompt it would get if all
\* was sent again, unless the client says calls that the model made, which are
\* joined to the answer before them only then, or gives instructions later.
ContinuedIsWhole ==
    LET first == /\ \A i \in DOMAIN said : said[i].role # "pasted"
                 /\ \A i \in 2..Len(said) : said[i].role = "developer" => said[i - 1].role = "developer"
    IN  format.api = "responses" /\ first =>
            ThePrompt = ResponsesPrompt(Content(said, 1, Len(said)), << >>)

\* The comment "Pass through image content for VLM" (responses_utils.py:168): an
\* image of the Responses API is in the prompt.
\* TLC refutes it: see "Other disagreements" in the README.
ImagesPassThrough ==
    format.api = "responses" =>
        \A i \in DOMAIN said : \A nr \in DOMAIN said[i].kinds :
            said[i].kinds[nr] = "image" =>
                [kind |-> "image", at |-> i, nr |-> nr] \in ToSet(PartsOf(ThePrompt))

\* The prompt says what was said, but for the images of the Responses API.
PromptFaithful == NothingLost /\ RolesAlternate /\ PromptGrows /\ ContinuedIsWhole
=============================================================================
