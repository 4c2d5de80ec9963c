----------------------------- MODULE Translation -----------------------------
(***************************************************************************)
(* TranslateRequest and TranslateResponse: from the OpenAI form that       *)
(* clients speak to the form of the provider and back.  "openai" stands    *)
(* for every provider of the default branch.  Numbers of the requests and  *)
(* answers (temperature, tokens, usage) and the name of the model are left *)
(* out.                                                                    *)
(***************************************************************************)
EXTENDS Redaction

CONSTANT None    \* no request, answer or reply

Provider == {"gemini", "anthropic", "openai"}

Tokens(items) == [i \in DOMAIN items |-> items[i].token]

(* Messages with the role "system" are gathered in front, in their order,  *)
SystemPrompt(text) ==
    Tokens(Subsequence(text, {p \in DOMAIN text : text[p].role = "system"}))

(* the others keep theirs, *)
Turns(text) ==
    Subsequence(text, {p \in DOMAIN text : text[p].role \in Role \ {"system"}})

(* and who is not the assistant is the user. *)
Speaker(provider, role) ==
    IF role # "assistant" THEN "user"
    ELSE IF provider = "gemini" THEN "model" ELSE "assistant"

\* Mutant of TranslateRequest: a request without messages is an error.
TranslateRequestStrict(provider, text) ==
    IF ~Decodes(text) \/ Messages(text) = <<>> THEN None
    ELSE IF provider = "openai"
    THEN [form |-> provider, system |-> <<>>, messages |-> Messages(text)]
    ELSE [form |-> provider, system |-> SystemPrompt(text),
          messages |-> [i \in DOMAIN Turns(text) |->
              [role |-> Speaker(provider, Turns(text)[i].role), token |-> Turns(text)[i].token]]]

(* The body for the provider, or None for an error. *)
TranslateRequest(provider, text) ==
    IF ~Decodes(text) THEN None
    ELSE IF provider = "openai"
    THEN [form |-> provider, system |-> <<>>, messages |-> Messages(text)]
    ELSE [form |-> provider, system |-> SystemPrompt(text),
          messages |-> [i \in DOMAIN Turns(text) |->
              [role |-> Speaker(provider, Turns(text)[i].role), token |-> Turns(text)[i].token]]]

Body ==
    [form : Provider, system : Seq(Token),
     messages : Seq([role : Role \cup {"model"}, token : Token])]

(* Every personal datum a translated body holds. *)
DataOf(body) ==
    {t \in {body.messages[i].token : i \in DOMAIN body.messages}
           \cup {body.system[i] : i \in DOMAIN body.system} : t.type = "pii"}

-----------------------------------------------------------------------------
(* What an upstream says: the form of its document, whether it reports an  *)
(* error, and its parts.  "text" is a document that is no JSON.            *)
Answer(parts) == [form : Provider \cup {"text"}, error : BOOLEAN, parts : parts]

(* What is made of it. *)
Translated == [form : Provider \cup {"text"}, tokens : Seq(Token)]

\* Mutant of TranslateResponse: the status of the upstream decides.
TranslateResponseByStatus(provider, answer) ==
    IF provider = "openai" \/ answer.error
    THEN [form |-> answer.form, tokens |-> answer.parts]
    ELSE [form |-> "openai", tokens |-> <<>>]

(* An answer of another form decodes to one without parts, as does the     *)
(* report of an error: an error for Gemini, an empty message for Claude.   *)
(* Of several parts the first is taken; the default branch looks at        *)
(* nothing.                                                                *)
TranslateResponse(provider, answer) ==
    LET parts == IF answer.form = provider /\ ~answer.error THEN answer.parts ELSE <<>>
    IN  CASE provider = "openai" -> [form |-> answer.form, tokens |-> answer.parts]
          [] provider = "gemini" ->
               IF parts = <<>> THEN None ELSE [form |-> "openai", tokens |-> <<Head(parts)>>]
          [] provider = "anthropic" ->
               IF answer.form = "text" THEN None
               ELSE [form |-> "openai",
                     tokens |-> IF parts = <<>> THEN <<>> ELSE <<Head(parts)>>]
=============================================================================
