----------------------------- MODULE ToolCalls -----------------------------
(***************************************************************************)
(* Where a reply put its tool call, and the verdict of each case of the    *)
(* conformance battery on it.                                              *)
(*                                                                         *)
(* A text is a sequence of tokens: braces, quotes, backslashes, the tags   *)
(* and fences that models wrap calls in, and words.  CallShaped is the set *)
(* of token sequences that parse as a JSON object with a name and with     *)
(* arguments or parameters; parsing is serde's.                            *)
(***************************************************************************)
EXTENDS Messages, Integers, FiniteSets

CONSTANTS CallShaped, Json   \* Json: the texts that parse as JSON at all

-----------------------------------------------------------------------------
(* What serde's grammar says of a JSON object: its string literals, each   *)
(* from a quote to the next that no backslash escapes, and its braces      *)
(* outside of them, nested from the first token to the last.               *)

Quotes(c) == {i \in DOMAIN c : c[i] = "quote"}
\* The literal that starts at l[1] and ends at l[2] is open after these tokens.
Inside(literals) == UNION {l[1]..(l[2] - 1) : l \in literals}

Lexed(c, literals, escapes) ==
    /\ literals \subseteq {l \in Quotes(c) \X Quotes(c) : l[1] < l[2]}
    /\ \A l, k \in literals : l = k \/ l[2] < k[1] \/ k[2] < l[1]
    /\ \A i \in Quotes(c) : i - 1 \in escapes <=> ~\E l \in literals : i \in {l[1], l[2]}
    /\ \A i \in escapes : i - 1 \in Inside(literals)
    /\ \A i \in DOMAIN c : i \in escapes <=> c[i] = "backslash" /\ i - 1 \notin escapes

Braces(c, literals, n, brace) == {i \in (1..n) \ Inside(literals) : c[i] = brace}
Nesting(c, literals, n) ==
    Cardinality(Braces(c, literals, n, "{")) - Cardinality(Braces(c, literals, n, "}"))

JsonObject(c) ==
    \E literals \in SUBSET (Quotes(c) \X Quotes(c)), escapes \in SUBSET {i \in DOMAIN c : c[i] = "backslash"} :
        /\ Lexed(c, literals, escapes)
        /\ \A n \in 1..(Len(c) - 1) : Nesting(c, literals, n) > 0
        /\ Nesting(c, literals, Len(c)) = 0

ASSUME CallShapedAssumption ==
    \A c \in CallShaped :
        /\ c \in Seq(STRING) /\ Len(c) > 1 /\ c[1] = "{" /\ c[Len(c)] = "}"
        /\ JsonObject(c)

-----------------------------------------------------------------------------
Least(S) == CHOOSE i \in S : \A j \in S : i <= j

(* find_matching_brace.  s.str: inside a string literal of the candidate.  *)
\* Mutant: braces count inside string literals too.
AdvanceAnywhere(s, token) ==
    [s EXCEPT !.depth = CASE token = "{" -> @ + 1 [] token = "}" -> @ - 1 [] OTHER -> @]
Advance(s, token) ==
    IF s.str THEN [s EXCEPT !.esc = ~@ /\ token = "backslash", !.str = s.esc \/ token # "quote"]
    ELSE [s EXCEPT !.str = token = "quote",
                   !.depth = CASE token = "{" -> @ + 1 [] token = "}" -> @ - 1 [] OTHER -> @]

(* The scanner after n tokens from open on.                                *)
Scan(text, open) ==
    LET scan[n \in 0..(Len(text) + 1 - open)] ==
            IF n = 0 THEN [depth |-> 0, str |-> FALSE, esc |-> FALSE]
            ELSE Advance(scan[n - 1], text[open + n - 1])
    IN  scan

MatchingBrace(text, open) ==
    LET scan == Scan(text, open)
        ends == {i \in open..Len(text) :
                    text[i] = "}" /\ scan[i - open + 1].depth = 0 /\ ~scan[i - open].str}
    IN  IF ends = {} THEN 0 ELSE Least(ends)

(* Candidates are sets: their order only chooses the one that is shown.    *)
BalancedSpans(text) ==
    LET spans[i \in 1..(Len(text) + 1)] ==
            IF i > Len(text) THEN {}
            ELSE LET end == IF text[i] = "{" THEN MatchingBrace(text, i) ELSE 0
                 IN  IF end = 0 THEN spans[i + 1]
                     ELSE {SubSeq(text, i, end)} \cup spans[end + 1]
    IN  spans[1]

(* The pieces between an opening and a closing mark.                       *)
Between(text, open, closes) ==
    LET after(i, marks) == {j \in i..Len(text) : text[j] \in marks}
        blocks[i \in 1..(Len(text) + 1)] ==
            IF after(i, {open}) = {} THEN {}
            ELSE LET p == Least(after(i, {open}))
                 IN  IF after(p + 1, closes) = {} THEN {}
                     ELSE LET q == Least(after(p + 1, closes))
                          IN  {SubSeq(text, p + 1, q - 1)} \cup blocks[q + 1]
    IN  blocks[1]

FencedOrTagged(text) ==
    Between(text, "tool_call", {"end_tool_call"})
        \cup Between(text, "json_fence", {"json_fence", "fence"})

HoldsCall(text) == (FencedOrTagged(text) \cup BalancedSpans(text)) \cap CallShaped # {}

Structured(m) == m.calls \notin {None, <<>>}

(* classify_message, of a reply that came through a backend and so through *)
(* normalize_chat_response.                                                *)
ClassifyMessage(m) ==
    CASE Structured(m) -> "tool_calls"
      [] ~Structured(m) /\ m.content # None /\ HoldsCall(m.content) -> "plaintext"
      [] ~Structured(m) /\ ~(m.content # None /\ HoldsCall(m.content)) ->
            IF HoldsCall(m.reasoning) THEN "leaked" ELSE "none"

-----------------------------------------------------------------------------
(* The battery; None stands for a response without choices or an error.    *)
Cases == <<"single", "parallel", "reasoning", "multiturn">>

Evaluate(case, m) ==
    IF m = None THEN FALSE
    ELSE CASE case = "single" -> Structured(m) /\ ValidateProbeResponse(m) = "verified"
           [] case = "parallel" ->
                Structured(m) /\ Cardinality({m.calls[i].args : i \in DOMAIN m.calls}) >= 2
           [] case = "reasoning" -> Structured(m) /\ m.reasoning # <<>>
           [] case = "multiturn" -> m.content \notin {None, <<>>} /\ m.content \notin Json

InspectPassed(locations) ==
    locations # <<>> /\ \A i \in DOMAIN locations : locations[i] = "tool_calls"
=============================================================================
