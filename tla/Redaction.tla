------------------------------ MODULE Redaction ------------------------------
(***************************************************************************)
(* The text of a request and what RedactPII and RehydrateResponse do to    *)
(* it.  A text is a sequence of items, each with the place it has in the   *)
(* JSON document, the role of the message whose content it is or outside   *)
(* the messages a string or a bare number, and one token.  A token is a    *)
(* personal datum, a placeholder, or a word that stands for what the       *)
(* classifier looks for.                                                   *)
(*                                                                         *)
(* The patterns are matched against the document, whose strings hold       *)
(* escape sequences that are decoded only afterwards.  A datum is written  *)
(*   usual    in the style that every pattern knows,                       *)
(*   spaced   with spaces between the groups of a number, or none,         *)
(*   newline  right after a line break, which the document holds as the    *)
(*            two characters \n: what begins with a digit is then no word  *)
(*            of its own, and an address of electronic mail takes the n    *)
(*            with it and leaves a backslash,                              *)
(*   escaped  with a character that the pattern needs, as the at sign or   *)
(*            a hyphen, written as an escape sequence: nothing matches.    *)
(***************************************************************************)
EXTENDS Integers, Sequences, FiniteSets, Subsequences

CONSTANT Datum    \* values of personal data

(* The five passes, in their order. *)
Rank == [SSN |-> 1, CC |-> 2, EMAIL |-> 3, PHONE |-> 4, ADDRESS |-> 5]
Kind == DOMAIN Rank
Style == {"usual", "spaced", "newline", "escaped"}

Pii == [type : {"pii"}, kind : Kind, datum : Datum, style : Style]

(* A placeholder, and whether a backslash was left in front of it. *)
Placeholder == [type : {"placeholder"}, kind : Kind, n : Nat, dangling : BOOLEAN]

(* Other words: an instruction the classifier knows, in plain letters or   *)
(* hidden by an escape sequence, a dangerous tool, a content that is not a *)
(* string, what is no JSON, more than 50 KB.                               *)
Word == [type : {"plain", "injection", "hidden", "danger", "parts", "broken", "bulk"}]

Token == Pii \cup Placeholder \cup Word

Role == {"system", "user", "assistant", "tool"}
Outside == {"field", "number"}
Item == [role : Role \cup Outside, token : Token]

(* What the patterns find in the document, *)
Found(token) ==
    /\ token.type = "pii"
    /\ token.style # "escaped"
    /\ token.style = "newline" => token.kind = "EMAIL"

Matches(text) == {p \in DOMAIN text : Found(text[p].token)}

(* in the order the passes get there, *)
Precedes(text, q, p) ==
    LET rank(i) == Rank[text[i].token.kind]
    IN  rank(q) < rank(p) \/ (rank(q) = rank(p) /\ q < p)

\* Mutant of Number: the counter stands still within a pass.
NumberPerPass(text, p) ==
    Cardinality({q \in Matches(text) :
                    Rank[text[q].token.kind] <= Rank[text[p].token.kind]})

(* which share one counter. *)
Number(text, p) ==
    Cardinality({q \in Matches(text) : q = p \/ Precedes(text, q, p)})

Mark(text, p) ==
    [type |-> "placeholder", kind |-> text[p].token.kind, n |-> Number(text, p),
     dangling |-> text[p].token.style = "newline"]

RedactPII(text) ==
    [p \in DOMAIN text |->
        IF p \in Matches(text) THEN [text[p] EXCEPT !.token = Mark(text, p)] ELSE text[p]]

(* The same the way replaceFunc goes about it: one pass after the other    *)
(* over what the last one left, each from left to right and with the next  *)
(* value of the counter for what its pattern matches.                      *)
PassHits(state, kind) == {p \in Matches(state.text) : state.text[p].token.kind = kind}

PassMark(state, kind, p) ==
    [type |-> "placeholder", kind |-> kind,
     n |-> state.counter + Cardinality({q \in PassHits(state, kind) : q < p}),
     dangling |-> state.text[p].token.style = "newline"]

Pass(state, kind) ==
    [text |-> [p \in DOMAIN state.text |->
        IF p \in PassHits(state, kind)
        THEN [state.text[p] EXCEPT !.token = PassMark(state, kind, p)] ELSE state.text[p]],
     counter |-> state.counter + Cardinality(PassHits(state, kind))]

RedactInPasses(text) ==
    LET start == [text |-> text, counter |-> 1]
    IN  Pass(Pass(Pass(Pass(Pass(start, "SSN"), "CC"), "EMAIL"), "PHONE"), "ADDRESS").text

(* rehydrateMap, from placeholders to what they replaced *)
RehydrateMap(text) ==
    [mark \in {Mark(text, p) : p \in Matches(text)} |->
        text[CHOOSE p \in Matches(text) : Mark(text, p) = mark].token]

(* Whatever the order of the map: no datum contains a bracket, so none     *)
(* brings in another placeholder.                                          *)
RehydrateResponse(tokens, map) ==
    [i \in DOMAIN tokens |-> IF tokens[i] \in DOMAIN map THEN map[tokens[i]] ELSE tokens[i]]

-----------------------------------------------------------------------------
Messages(text) == Subsequence(text, {p \in DOMAIN text : text[p].role \in Role})

(* json.Unmarshal accepts the document: it is not empty, and no            *)
(* placeholder stands for a number or behind a backslash,                  *)
ValidJSON(text) ==
    /\ text # <<>>
    /\ \A p \in DOMAIN text :
          LET token == text[p].token
          IN  /\ token.type # "broken"
              /\ token.type = "placeholder" => text[p].role # "number" /\ ~token.dangling

(* and every content is a string. *)
Decodes(text) ==
    ValidJSON(text) /\ \A p \in DOMAIN text : text[p].token.type # "parts"
=============================================================================
