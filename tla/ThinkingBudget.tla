---------------------------- MODULE ThinkingBudget ----------------------------
(***************************************************************************)
(* The limit on thinking, ThinkingBudgetProcessor of                       *)
(* src/omlx/api/thinking.py: a logits processor that is called for every   *)
(* token, counts while the model thinks, forces the closing tag when the   *)
(* budget is used up and then keeps the model from writing it again.       *)
(*                                                                         *)
(* A step is one call and the token that is sampled from what it leaves;   *)
(* the sampler may take any token that is left.                            *)
(***************************************************************************)
EXTENDS Naturals, SequencesExt, FiniteSets

CONSTANTS
    Vocabulary,  \* tokens
    ThinkStart,  \* the token that opens a thought
    Closings,    \* closing tags with what goes before and after, in a template
    Budgets,     \* budgets, of requests or of model settings
    MaxWritten   \* bound: tokens

\* A tag ends in its only ">", and what a template has around it are newlines, so
\* the last token of a tag comes once in what is forced.
ASSUME ThinkingBudgetAssumption ==
    /\ Budgets \subseteq Nat /\ MaxWritten \in Nat
    /\ \A c \in Closings :
         /\ {c.leading, c.end, c.trailing} \subseteq Seq(Vocabulary) /\ c.end # << >>
         /\ Last(c.end) \notin ToSet(Front(c.end)) \cup ToSet(c.leading) \cup ToSet(c.trailing)

VARIABLES
    closing,  \* _resolve_think_end_token_ids and _resolve_think_close_pattern
    budget,   \* _budget
    counter,  \* the state of the processor
    written   \* tokens that were generated

budgetVars == <<closing, budget, counter, written>>

\* _force_sequence.
ForceSequence == closing.leading \o closing.end \o closing.trailing

\* _resolve_thinking_budget: a request's own, or else that of the settings, which is
\* not 0; without any there is no processor.
ThinkingBudgetOf(request, settings) == IF request # {} THEN request ELSE settings

AtMostOne(S) == {{}} \cup {{x} : x \in S}

BudgetInit ==
    /\ closing \in Closings
    /\ \E request \in AtMostOne(Budgets), settings \in AtMostOne(Budgets \ {0}) :
         budget \in ThinkingBudgetOf(request, settings)
    /\ counter = [thinking |-> TRUE, used |-> 0, first |-> TRUE, forced |-> 0, phase |-> "counting",
                  recent |-> << >>]
    /\ written = << >>

LastOf(seq, n) == SubSeq(seq, IF Len(seq) > n THEN Len(seq) - n + 1 ELSE 1, Len(seq))

\* After the forced sequence the processor is not done.
PhaseAfterForced_Done == "done"
PhaseAfterForced == "suppressing"

\* _update_state after a token: the forced sequence goes on or is over, the tag
\* was written by the model, or a new thought is opened.
AfterToken(c, token) ==
    LET recent == LastOf(Append(c.recent, token), Len(closing.end))
    IN  IF c.phase = "forcing"
        THEN IF c.forced + 1 >= Len(ForceSequence)
             THEN [c EXCEPT !.forced = @ + 1, !.thinking = FALSE, !.phase = PhaseAfterForced]
             ELSE [c EXCEPT !.forced = @ + 1]
        ELSE IF recent = closing.end
        THEN [c EXCEPT !.recent = recent, !.thinking = FALSE, !.phase = "done"]
        ELSE [c EXCEPT !.recent = recent, !.thinking = @ \/ token = ThinkStart]

\* The first call has only the prompt.
Noted(c) == IF c.first \/ written = << >> THEN [c EXCEPT !.first = FALSE]
                                          ELSE AfterToken(c, Last(written))

Charged(c) ==
    IF c.phase # "counting" \/ ~c.thinking THEN c
    ELSE IF c.used + 1 >= budget
    THEN [c EXCEPT !.used = @ + 1, !.phase = "forcing", !.forced = 0]
    ELSE [c EXCEPT !.used = @ + 1]

\* __call__.
Called(c) == IF c.phase \in {"done", "suppressing"} THEN c ELSE Charged(Noted(c))

\* What the sampler may take: _force_next_token and _suppress_end_tokens.
LeftBy(c) ==
    CASE c.phase = "forcing"     -> {ForceSequence[c.forced + 1]}
      [] c.phase = "suppressing" -> Vocabulary \ ToSet(closing.end)
      [] OTHER                   -> Vocabulary

GenerateToken ==
    /\ Len(written) < MaxWritten
    /\ counter' = Called(counter)
    /\ \E token \in LeftBy(counter') : written' = Append(written, token)
    /\ UNCHANGED <<closing, budget>>

BudgetNext == GenerateToken
BudgetSpec == BudgetInit /\ [][BudgetNext]_budgetVars

-----------------------------------------------------------------------------
(* Properties                                                              *)

\* Positions where the closing tag ends.
ClosedAt ==
    {n \in Len(closing.end)..Len(written) :
        SubSeq(written, n - Len(closing.end) + 1, n) = closing.end}

FreeTokens == IF budget > 0 THEN budget - 1 ELSE 0
WasForced == counter.forced > 0 \/ counter.phase = "forcing"

\* However the model mixes parts of the tag into its thoughts, the first
\* thought is closed by the time the budget and the forced sequence take, also
\* when it had begun the tag itself; a tag that was forced is written whole,
\* with what goes around it, and no second time.
BudgetKept ==
    /\ Len(written) >= FreeTokens + Len(closing.leading) + Len(closing.end)
         => \E n \in ClosedAt : n <= FreeTokens + Len(closing.leading) + Len(closing.end)
    /\ WasForced => Cardinality(ClosedAt) <= 1
    /\ counter.phase = "suppressing"
         => SubSeq(written, FreeTokens + 1, FreeTokens + Len(ForceSequence)) = ForceSequence

\* The docstring "then becomes a no-op for the rest of generation"
\* (thinking.py:206).  TLC refutes it: see "Other disagreements" in the README.
NoOpAfterClose == ClosedAt # {} /\ counter.phase # "forcing" => LeftBy(Called(counter)) = Vocabulary

\* "Detect re-entry into thinking" (thinking.py:312): a thought that is opened
\* again after the model closed the first one is noticed.
\* TLC refutes it: see "Other disagreements" in the README.
ReentryCounted ==
    written # << >> /\ Last(written) = ThinkStart /\ ClosedAt # {} /\ ~WasForced
        => Called(counter).thinking
=============================================================================
