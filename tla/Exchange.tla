------------------------------- MODULE Exchange -------------------------------
(***************************************************************************)
(* One request on its way through the gateway: classified, redacted and    *)
(* translated, sent to the upstream, and its answer translated back and    *)
(* rehydrated.  The handler reads GatewayConfig.Provider at three places,  *)
(* and a save may put another one in between.  What refuses a request      *)
(* (keys, policy, deduplication, threshold) is RequestPipeline's: here a   *)
(* verdict is a free choice.                                               *)
(***************************************************************************)
EXTENDS Classifier, Translation

CONSTANTS
    Bodies,     \* texts a client may send
    MaxParts   \* bound: parts of an answer

ASSUME ExchangeAssumption ==
    /\ Bodies \subseteq Seq(Item)
    /\ MaxParts \in Nat

(* What the client gets. *)
Reply ==
    [status : {"ok", "error", "forbidden", "bad", "gateway"}, tokens : Seq(Token),
     form : Provider \cup {"text", "gateway"},
     reason : Reason \cup {"none", "mismatch", "unreachable", "format"}]

ASSUME NoneAssumption ==
    /\ None \notin Provider \cup {"execute"}
    /\ None \notin Answer(Seq(Token)) \cup Translated \cup Reply \cup Body

VARIABLES
    provider,   \* GatewayConfig.Provider
    switched,   \* history: a save changed it since the request was translated
    phase,      \* where the handler is
    route, text, obs,   \* the request and its classification
    seen,       \* the items whose tokens the upstream gets
    body,       \* the translated body, or None
    endpoint,   \* the form the addressed endpoint of the upstream speaks
    answer,     \* what the upstream said
    echo,       \* history: the items of the request its parts repeat
    reply       \* what the client gets

requestVars == <<route, text, obs>>
upstreamVars == <<seen, body, endpoint, answer, echo>>
vars == <<provider, switched, phase, requestVars, upstreamVars, reply>>

Init ==
    /\ provider \in Provider
    /\ switched = FALSE
    /\ phase = "idle"
    /\ route = "chat" /\ text = <<>> /\ obs = "READ"
    /\ seen = <<>> /\ body = None /\ endpoint = None /\ answer = None /\ echo = <<>>
    /\ reply = None

(* A request arrives and is classified. *)
Receive ==
    /\ phase = "idle"
    /\ phase' = "decide"
    /\ route' \in Route /\ text' \in Bodies
    /\ \E limited, surprising \in BOOLEAN :
          obs' = ClassifyRequest(text', route', limited, surprising)
    /\ UNCHANGED <<provider, switched, upstreamVars, reply>>

Respond(status, tokens, form, reason) ==
    /\ phase' = "done"
    /\ reply' = [status |-> status, tokens |-> tokens, form |-> form, reason |-> reason]

(* The threshold blocks it; redaction and translation are only recorded.   *)
Block ==
    /\ phase = "decide"
    /\ Respond("forbidden", <<>>, "gateway", BlockReason(text, obs))
    /\ UNCHANGED <<provider, switched, requestVars, upstreamVars>>

\* Mutant of TranslateChat: what is translated is the client's text.
TranslateRaw ==
    /\ phase = "decide" /\ route = "chat"
    /\ seen' = RedactPII(text)
    /\ body' = TranslateRequest(provider, text)
    /\ switched' = FALSE
    /\ IF body' = None
       THEN Respond("bad", <<>>, "gateway", "mismatch")
       ELSE phase' = "forward" /\ UNCHANGED reply
    /\ UNCHANGED <<provider, requestVars, endpoint, answer, echo>>

(* A chat is redacted and translated, or is a bad request; *)
TranslateChat ==
    /\ phase = "decide" /\ route = "chat"
    /\ seen' = RedactPII(text)
    /\ body' = TranslateRequest(provider, seen')
    /\ switched' = FALSE
    /\ IF body' = None
       THEN Respond("bad", <<>>, "gateway", "mismatch")
       ELSE phase' = "forward" /\ UNCHANGED reply
    /\ UNCHANGED <<provider, requestVars, endpoint, answer, echo>>

(* an agent's tool call is forwarded as it is. *)
ForwardTool ==
    /\ phase = "decide" /\ route = "agent"
    /\ seen' = text
    /\ endpoint' = "execute"
    /\ switched' = FALSE
    /\ phase' = "upstream"
    /\ UNCHANGED <<provider, requestVars, body, answer, echo, reply>>

(* forwardToUpstream looks up the provider again for the address. *)
Forward ==
    /\ phase = "forward"
    /\ phase' = "upstream"
    /\ endpoint' = provider
    /\ UNCHANGED <<provider, switched, requestVars, seen, body, answer, echo, reply>>

(* The upstream answers in the form of the endpoint, with the tokens of    *)
(* any of the items it has seen, reports an error, or sends no JSON, ...   *)
UpstreamAnswers ==
    /\ phase = "upstream"
    /\ phase' = "answered"
    /\ \E n \in 0..MaxParts : echo' \in [1..n -> {p \in DOMAIN seen : seen[p].role \in Role}]
    /\ answer' \in [form : {IF endpoint = "execute" THEN "text" ELSE endpoint, "text"},
                    error : BOOLEAN,
                    parts : {[i \in DOMAIN echo' |-> seen[echo'[i]].token]}]
    /\ UNCHANGED <<provider, switched, requestVars, seen, body, endpoint, reply>>

(* ... or cannot be reached in time. *)
UpstreamFails ==
    /\ phase = "upstream"
    /\ Respond("gateway", <<>>, "gateway", "unreachable")
    /\ UNCHANGED <<provider, switched, requestVars, upstreamVars>>

(* The status the upstream gave is passed on, and looked at by nothing. *)
Status == IF answer.error THEN "error" ELSE "ok"

\* Mutant of AnswerChat: the placeholders stay.
AnswerUnhydrated ==
    /\ phase = "answered" /\ route = "chat"
    /\ LET translated == TranslateResponse(provider, answer)
       IN  IF translated = None
           THEN Respond("gateway", <<>>, "gateway", "format")
           ELSE Respond(Status, translated.tokens, translated.form, "none")
    /\ UNCHANGED <<provider, switched, requestVars, upstreamVars>>

(* The answer to a chat is translated, by the provider of this moment, and *)
(* rehydrated, or is a bad gateway;                                        *)
AnswerChat ==
    /\ phase = "answered" /\ route = "chat"
    /\ LET translated == TranslateResponse(provider, answer)
       IN  IF translated = None
           THEN Respond("gateway", <<>>, "gateway", "format")
           ELSE Respond(Status, RehydrateResponse(translated.tokens, RehydrateMap(text)),
                        translated.form, "none")
    /\ UNCHANGED <<provider, switched, requestVars, upstreamVars>>

(* the answer to a tool call is passed on. *)
AnswerTool ==
    /\ phase = "answered" /\ route = "agent"
    /\ Respond(Status, answer.parts, answer.form, "none")
    /\ UNCHANGED <<provider, switched, requestVars, upstreamVars>>

(* The handler returns. *)
Return ==
    /\ phase = "done"
    /\ phase' = "idle"
    /\ route' = "chat" /\ text' = <<>> /\ obs' = "READ"
    /\ seen' = <<>> /\ body' = None /\ endpoint' = None /\ answer' = None /\ echo' = <<>>
    /\ reply' = None
    /\ switched' = FALSE
    /\ UNCHANGED provider

(* An operator saves another provider. *)
SaveProvider ==
    /\ provider' \in Provider \ {provider}
    /\ switched' = TRUE
    /\ UNCHANGED <<phase, requestVars, upstreamVars, reply>>

Next ==
    \/ Receive \/ Block \/ TranslateChat \/ ForwardTool \/ Forward
    \/ UpstreamAnswers \/ UpstreamFails \/ AnswerChat \/ AnswerTool \/ Return
    \/ SaveProvider

Spec == Init /\ [][Next]_vars

-----------------------------------------------------------------------------
(* Values of the variables. *)
TypeOK ==
    /\ provider \in Provider
    /\ switched \in BOOLEAN
    /\ phase \in {"idle", "decide", "forward", "upstream", "answered", "done"}
    /\ route \in Route
    /\ text \in Seq(Item)
    /\ obs \in Observation
    /\ seen \in Seq(Item)
    /\ body \in Body \cup {None}
    /\ endpoint \in Provider \cup {None, "execute"}
    /\ answer \in Answer(Seq(Token)) \cup {None}
    /\ echo \in Seq(DOMAIN seen)
    /\ reply \in Reply \cup {None}
    /\ phase = "done" <=> reply # None

(* Of a chat's personal data the upstream gets only those that an escape   *)
(* sequence keeps from the patterns, in whatever message and under         *)
(* whatever provider; and when one of them is the last message, the        *)
(* classifier, which decodes it, has observed that or a flood              *)
(* (ClassifyRequest, RedactPII before TranslateRequest).                   *)
DataStayIn ==
    body # None =>
       /\ \A t \in DataOf(body) :
             t.style = "escaped" \/ (t.style = "newline" /\ t.kind # "EMAIL")
       /\ Messages(text) # <<>> /\ LastContent(text) \in DataOf(body)
          => obs \in {"INPUT_ERROR", "INGRESS_FLOOD"}

(* A text in which the client wrote a placeholder that redaction uses too. *)
Ambiguous(items) ==
    \E p \in DOMAIN items : items[p].token \in {Mark(items, q) : q \in Matches(items)}

(* Whatever the upstream repeats, in whatever order and however often,     *)
(* comes back to the client as it wrote it: passes, counter and map of     *)
(* RedactPII give every datum a placeholder of its own.                    *)
OwnValuesBack ==
    phase = "done" /\ route = "chat" /\ ~Ambiguous(text) =>
       \A i \in DOMAIN reply.tokens : reply.tokens[i] = text[echo[i]].token

(* A chat that the upstream has answered with text gets a first part, in   *)
(* the client's form and with the status ok, unless a save changed the     *)
(* provider since the request was translated or the answer was no JSON:    *)
(* only then an empty message, a document of another form or an error.     *)
AnswerArrives ==
    /\ phase = "done" /\ route = "chat" /\ answer # None /\ ~switched
    /\ ~answer.error /\ answer.form # "text" /\ echo # <<>>
    => reply.status = "ok" /\ reply.form = "openai" /\ reply.tokens # <<>>

(* A document that decodes is a bad request only by its own redaction: a   *)
(* number outside a string, or an address after a line break.              *)
BadOnlyByRedaction ==
    phase = "done" /\ reply.status = "bad" /\ Decodes(text) =>
       \E p \in Matches(text) : text[p].role = "number" \/ text[p].token.style = "newline"

(* A block is put down to the schema only when the classifier found a      *)
(* datum or an injection that the explanation, with stricter patterns and  *)
(* without decoding, cannot name: a number with other separators, a datum  *)
(* or an instruction with an escape sequence in it or in front.            *)
BlockExplained ==
    phase = "done" /\ reply.status = "forbidden" /\ reply.reason = "schema" =>
       /\ obs = "INPUT_ERROR"
       /\ ~Has(text, "injection")
       /\ \A p \in DOMAIN text :
             text[p].token.type = "pii" => text[p].token.style # "usual"
       /\ \/ HasPII(text, route)
          \/ ByLastContent(text, route) /\ LastContent(text).type = "hidden"

(* What is sent is what the five passes of RedactPII with their one counter *)
(* leave, although here every placeholder's number is found by counting     *)
(* what the passes reach before it.                                         *)
NumberedInPasses ==
    phase = "forward" => seen = RedactInPasses(text)
=============================================================================
