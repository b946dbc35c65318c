----------------------------- MODULE ReplyText -----------------------------
(***************************************************************************)
(* How the text of a model is divided into reasoning, content and tool     *)
(* calls: twice in this program.  While streaming, a ThinkingParser        *)
(* (src/omlx/api/thinking.py) and a ToolCallStreamFilter per channel       *)
(* (src/omlx/api/tool_calling.py) take it chunk by chunk; for a whole      *)
(* reply, regular expressions take it at once.                             *)
(*                                                                         *)
(* A text is a sequence of pieces: "w" is prose (or the well-formed        *)
(* payload of a call), "lt" a '<', "think>", "/think>", "tool>" and        *)
(* "/tool>" the rest of a tag whose '<' came before, "[call" the prefix of *)
(* a bracket call and "]" its end.  A chunk may end between '<' and the    *)
(* rest of its tag.  White space is left out.                              *)
(***************************************************************************)
EXTENDS Integers, Sequences, SequencesExt, FiniteSetsExt

TagRests == {"think>", "/think>", "tool>", "/tool>"}
Pieces == {"w", "lt", "[call", "]"} \cup TagRests

Take(text, n) == SubSeq(text, 1, n)
Drop(text, n) == SubSeq(text, n + 1, Len(text))
TagsAt(text, rest) == {i \in 1 .. Len(text) - 1 : text[i] = "lt" /\ text[i + 1] = rest}
EndsInLt(text) == text # << >> /\ Last(text) = "lt"

-----------------------------------------------------------------------------
(* ThinkingParser                                                          *)

NewParser == [inside |-> FALSE, held |-> FALSE, thinking |-> << >>, content |-> << >>]

Emit(p, piece) ==
    IF p.inside THEN [p EXCEPT !.thinking = Append(@, piece)]
                ELSE [p EXCEPT !.content = Append(@, piece)]

\* One piece of the loop over a chunk: '<' waits for what follows it.
ParsePiece(p, piece) ==
    IF p.held /\ piece \in {"think>", "/think>"}
    THEN [p EXCEPT !.inside = (piece = "think>"), !.held = FALSE]
    ELSE LET q == IF p.held THEN Emit(p, "lt") ELSE p
         IN IF piece = "lt" THEN [q EXCEPT !.held = TRUE]
                            ELSE [Emit(q, piece) EXCEPT !.held = FALSE]

\* Mutant: a '<' at the end of a chunk is not carried over.
ParserFeed_NoCarry(p, chunk) ==
    FoldLeft(ParsePiece, [p EXCEPT !.thinking = << >>, !.content = << >>, !.held = FALSE], chunk)

ParserFeed(p, chunk) ==
    FoldLeft(ParsePiece, [p EXCEPT !.thinking = << >>, !.content = << >>], chunk)

ParserFinish(p) ==
    LET q == [p EXCEPT !.thinking = << >>, !.content = << >>, !.held = FALSE]
    IN IF p.held THEN Emit(q, "lt") ELSE q

-----------------------------------------------------------------------------
(* ToolCallStreamFilter                                                    *)

NewFilter == [buffer |-> << >>, until |-> "none", out |-> << >>]

\* "[Calling tool: name(args)]", complete.
BracketCalls(text) ==
    {i \in 1 .. Len(text) - 2 : text[i] = "[call" /\ text[i + 1] = "w" /\ text[i + 2] = "]"}
Envelopes(text) == TagsAt(text, "tool>") \cup BracketCalls(text)

\* _partial_suffix_len: an open bracket call, or a '<' at the end, is held.
OpenBracket(text) == {i \in 1 .. Len(text) : text[i] = "[call"}
PartialSuffixLen(text) ==
    LET last == Max({0} \cup OpenBracket(text))
    IN IF last > 0 /\ "]" \notin ToSet(Drop(text, last)) THEN Len(text) - last + 1
       ELSE IF EndsInLt(text) THEN 1 ELSE 0

\* _sanitize_prefix_before_suppression: the prefix of a bracket call that was
\* never closed goes, what follows it stays.
Sanitize(text) ==
    LET closed(i) == "]" \in ToSet(Drop(text, i))
        kept == {i \in 1 .. Len(text) : text[i] = "[call" => closed(i)}
    IN [n \in 1 .. Cardinality(kept) |-> text[CHOOSE i \in kept : Cardinality({j \in kept : j <= i}) = n]]

RECURSIVE FilterLoop(_)
FilterLoop(f) ==
    IF f.buffer = << >> THEN f
    ELSE IF f.until # "none" THEN
        LET ends == TagsAt(f.buffer, f.until)
        IN IF ends = {}
           THEN [f EXCEPT !.buffer = IF EndsInLt(@) THEN <<"lt">> ELSE << >>]
           ELSE FilterLoop([f EXCEPT !.buffer = Drop(@, Min(ends) + 1), !.until = "none"])
    ELSE IF Envelopes(f.buffer) # {} THEN
        LET i == Min(Envelopes(f.buffer))
            isTag == f.buffer[i] = "lt"
        IN FilterLoop([buffer |-> Drop(f.buffer, i + IF isTag THEN 1 ELSE 2),
                       until |-> IF isTag THEN "/tool>" ELSE "none",
                       out |-> f.out \o Sanitize(Take(f.buffer, i - 1))])
    ELSE LET safe == Len(f.buffer) - PartialSuffixLen(f.buffer)
         IN [f EXCEPT !.out = @ \o Take(f.buffer, safe), !.buffer = Drop(f.buffer, safe)]

FilterFeed(f, delta) == FilterLoop([f EXCEPT !.buffer = @ \o delta, !.out = << >>])

\* finish(): an unresolved '<' or bracket prefix is dropped.
FilterFinish(f) ==
    IF f.until # "none" THEN << >>
    ELSE Take(f.buffer, Len(f.buffer) - PartialSuffixLen(f.buffer))

\* sanitize_tool_call_markup
SanitizeMarkup(text) ==
    LET f == FilterFeed(NewFilter, text) IN f.out \o FilterFinish(f)

-----------------------------------------------------------------------------
(* The whole reply                                                         *)

\* The leftmost match of <open>(.*?)<close>: its two tags, or none.
Matches(text, open, close) ==
    {<<i, j>> \in TagsAt(text, open) \X TagsAt(text, close) :
        /\ i + 1 < j
        /\ \A k \in TagsAt(text, close) : i + 1 < k => j <= k
        /\ \A k \in TagsAt(text, open) : k < i => \A l \in TagsAt(text, close) : l <= k + 1}

Without(text, m) == Take(text, m[1] - 1) \o Drop(text, m[2] + 1)
Inside(text, m) == SubSeq(text, m[1] + 2, m[2] - 1)

\* extract_thinking
RECURSIVE RemoveThinking(_, _)
RemoveThinking(text, thinking) ==
    LET ms == Matches(text, "think>", "/think>")
    IN IF ms = {} THEN [thinking |-> thinking, content |-> text]
       ELSE LET m == CHOOSE m \in ms : TRUE
            IN RemoveThinking(Without(text, m), thinking \o Inside(text, m))

ExtractThinking(text) ==
    LET closes == TagsAt(text, "/think>")
    IN IF Matches(text, "think>", "/think>") # {} THEN RemoveThinking(text, << >>)
       ELSE IF closes # {} /\ TagsAt(text, "think>") = {}
       THEN [thinking |-> Take(text, Min(closes) - 1), content |-> Drop(text, Min(closes) + 1)]
       ELSE [thinking |-> << >>, content |-> text]

\* parse_tool_calls: with the tokenizer's parser or by the XML fallbacks, and
\* brackets if there is no tag at all.  A payload parses if it is prose.
RECURSIVE XMLCalls(_)
XMLCalls(text) ==
    LET ms == Matches(text, "tool>", "/tool>")
    IN IF ms = {} THEN [calls |-> 0, rest |-> text]
       ELSE LET m == CHOOSE m \in ms : TRUE
                after == XMLCalls(Drop(text, m[2] + 1))
            IN [calls |-> after.calls + IF Inside(text, m) = <<"w">> THEN 1 ELSE 0,
                rest |-> Take(text, m[1] - 1) \o after.rest]

RECURSIVE ParseBracketCalls(_)
ParseBracketCalls(text) ==
    IF BracketCalls(text) = {} THEN [calls |-> 0, rest |-> text]
    ELSE LET i == Min(BracketCalls(text))
             after == ParseBracketCalls(Drop(text, i + 2))
         IN [calls |-> after.calls + 1, rest |-> Take(text, i - 1) \o after.rest]

ParseToolCalls(text) ==
    LET plain == RemoveThinking(text, << >>).content
        found == IF TagsAt(plain, "tool>") # {} THEN XMLCalls(plain) ELSE ParseBracketCalls(plain)
    IN IF found.calls > 0 THEN found ELSE [calls |-> 0, rest |-> plain]

\* extract_tool_calls_with_thinking on the parts of a whole reply
WholeReply(text) ==
    LET parts == ExtractThinking(text)
        regular == ParseToolCalls(parts.content)
    IN [thinking |-> SanitizeMarkup(parts.thinking),
        content |-> regular.rest,
        calls |-> IF regular.calls > 0 THEN regular.calls ELSE ParseToolCalls(parts.thinking).calls]
=============================================================================
