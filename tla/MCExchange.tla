------------------------------ MODULE MCExchange ------------------------------
(***************************************************************************)
(* Exchange with a set of bodies that lets every case of the modules it    *)
(* composes happen; on it the closed forms of filters and passes are       *)
(* compared with the recursions they stand for.                            *)
(***************************************************************************)
EXTENDS Exchange, SequencesExt

CONSTANTS a, b

pii(kind, datum, style) ==
    [type |-> "pii", kind |-> kind, datum |-> datum, style |-> style]
word(type) == [type |-> type]

MCDatum == {a, b}

plain == word("plain")
literal == [type |-> "placeholder", kind |-> "SSN", n |-> 1, dangling |-> FALSE]
ssn == pii("SSN", a, "usual")
email == pii("EMAIL", a, "usual")

(* One item in any string of the document or for a number: there is no     *)
(* separator between the digits of a number, and no escape sequence;       *)
OneItem ==
    {<<[role |-> r, token |-> t]>> :
        r \in {"system", "user", "assistant", "field"},
        t \in Word \cup {literal} \cup
              {pii(k, a, s) : k \in {"SSN", "PHONE"}, s \in Style} \cup
              {pii("EMAIL", a, s) : s \in Style \ {"spaced"}}}
    \cup {<<[role |-> "number", token |-> t]>> :
        t \in {plain, pii("SSN", a, "spaced"), pii("PHONE", a, "usual")}}

(* three messages, several data of a kind and a placeholder among them;    *)
ThreeTokens ==
    {[i \in 1..3 |-> [role |-> <<"user", "assistant", "user">>[i], token |-> w[i]]] :
        w \in [1..3 -> {ssn, pii("SSN", b, "usual"), email, literal}]}

(* three messages of all roles; *)
ThreeRoles ==
    {[i \in 1..3 |-> [role |-> r[i], token |-> <<email, plain, ssn>>[i]]] : r \in [1..3 -> Role]}

(* a message with something in front: a string, or a number.               *)
TwoItems ==
    {<<[role |-> r, token |-> t], [role |-> "user", token |-> w]>> :
        r \in {"user", "field"},
        t \in Word \cup {ssn, pii("SSN", a, "newline"), pii("EMAIL", a, "escaped")},
        w \in {email, pii("EMAIL", b, "escaped"), word("hidden")}}
    \cup {<<[role |-> "number", token |-> t], [role |-> "user", token |-> w]>> :
        t \in {plain, pii("SSN", a, "spaced"), pii("PHONE", a, "usual")},
        w \in {email, pii("EMAIL", b, "escaped"), word("hidden")}}

MCBodies == {<<>>} \cup OneItem \cup ThreeTokens \cup ThreeRoles \cup TwoItems

(* The subsequences are what a filter gives. *)
ASSUME SubsequenceFilters ==
    \A items \in MCBodies \cup {RedactPII(t) : t \in MCBodies} :
       /\ Messages(items) = SelectSeq(items, LAMBDA item : item.role \in Role)
       /\ SystemPrompt(items) = Tokens(SelectSeq(items, LAMBDA item : item.role = "system"))
       /\ Turns(items) = SelectSeq(Messages(items), LAMBDA item : item.role # "system")

-----------------------------------------------------------------------------
(* A pass replaces one match after the other. *)
PassByFold(acc, kind) ==
    FoldLeft(LAMBDA state, p :
        LET token == state.text[p].token
        IN  IF Found(token) /\ token.kind = kind
            THEN [text |-> [state.text EXCEPT ![p].token =
                      [type |-> "placeholder", kind |-> kind, n |-> state.counter,
                       dangling |-> token.style = "newline"]],
                  counter |-> state.counter + 1]
            ELSE state,
        acc, [p \in DOMAIN acc.text |-> p])

ASSUME PassesFold ==
    \A items \in MCBodies :
       RedactInPasses(items) =
           FoldLeft(PassByFold, [text |-> items, counter |-> 1],
                    <<"SSN", "CC", "EMAIL", "PHONE", "ADDRESS">>).text
=============================================================================
