------------------------------ MODULE Classifier ------------------------------
(***************************************************************************)
(* ClassifyRequest, which turns a request into the observation that layer  *)
(* 2 perceives, and generateDetailedBlockReason, which explains a block    *)
(* with patterns of its own.  The surprise of layer 1 is a number: that it *)
(* exceeds 2 is an input here, as is the verdict of the rate limiter.      *)
(***************************************************************************)
EXTENDS Redaction

Route == {"chat", "agent"}
Observation == {"READ", "STRUCTURE_SHIFT", "INPUT_ERROR", "INGRESS_FLOOD"}

Has(text, type) == \E p \in DOMAIN text : text[p].token.type = type

(* A chat is judged by the content of its last message, decoded, ...       *)
LastContent(text) ==
    LET messages == Messages(text) IN messages[Len(messages)].token

(* ... unless it has none or one that is not a string; then, as on the     *)
(* agent route, the document itself is searched, escape sequences and all. *)
ByLastContent(text, route) ==
    route = "chat" /\ Decodes(text) /\ Messages(text) # <<>>

HasPII(text, route) ==
    IF ByLastContent(text, route)
    THEN LastContent(text).type = "pii"
    ELSE Matches(text) # {}

HasInjection(text, route) ==
    IF ByLastContent(text, route)
    THEN LastContent(text).type \in {"injection", "hidden"}
    ELSE Has(text, "injection")

(* An empty body is no JSON, but only the agent route minds. *)
Malformed(text, route) ==
    IF text = <<>> THEN route = "agent" ELSE ~ValidJSON(text)

ClassifyRequest(text, route, limited, surprising) ==
    IF Has(text, "bulk") \/ limited THEN "INGRESS_FLOOD"
    ELSE IF Malformed(text, route) \/ HasPII(text, route) \/ HasInjection(text, route)
    THEN "INPUT_ERROR"
    ELSE IF surprising \/ (route = "agent" /\ Has(text, "danger")) THEN "STRUCTURE_SHIFT"
    ELSE "READ"

-----------------------------------------------------------------------------
(* The patterns of the explanation know a number only in its usual style.  *)
Named(text) ==
    {text[p].token.kind : p \in {q \in Matches(text) :
        text[q].token.style = "spaced" => text[q].token.kind \notin {"SSN", "CC"}}}

\* Mutant of BlockReason: the observation is explained before the body is searched.
BlockReasonByObs(text, obs) ==
    CASE obs = "INGRESS_FLOOD"   -> "flood"
      [] obs = "INPUT_ERROR"     -> IF ValidJSON(text) THEN "schema" ELSE "syntax"
      [] obs = "STRUCTURE_SHIFT" -> "dangerous"
      [] OTHER                   -> "cumulative"

(* generateDetailedBlockReason: the first kind it finds anywhere in the    *)
(* document, then an injection, then what the observation says.  It never  *)
(* decodes what it searches.                                               *)
BlockReason(text, obs) ==
    IF Named(text) # {}
    THEN CHOOSE k \in Named(text) : \A l \in Named(text) : Rank[k] <= Rank[l]
    ELSE IF Has(text, "injection") THEN "injection"
    ELSE CASE obs = "INGRESS_FLOOD"   -> "flood"
           [] obs = "INPUT_ERROR"     -> IF ValidJSON(text) THEN "schema" ELSE "syntax"
           [] obs = "STRUCTURE_SHIFT" -> "dangerous"
           [] OTHER                   -> "cumulative"

Reason == Kind \cup {"injection", "flood", "schema", "syntax", "dangerous", "cumulative"}
=============================================================================
