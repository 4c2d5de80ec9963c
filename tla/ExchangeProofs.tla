---------------------------- MODULE ExchangeProofs ----------------------------
(***************************************************************************)
(* Proofs about the exchange: redaction gives every datum of a text of any *)
(* length a placeholder of its own, so that whatever the upstream repeats  *)
(* of it comes back as the client wrote it, whoever the provider is and    *)
(* whenever it is changed.                                                 *)
(***************************************************************************)
EXTENDS Exchange, SubsequenceTheorems, FiniteSetTheorems, TLAPS

-----------------------------------------------------------------------------
(* The order in which the passes reach the matches of a text. *)
LEMMA RankType == \A k \in Kind : Rank[k] \in Int
  BY DEF Rank, Kind

LEMMA ItemAt ==
    ASSUME NEW items \in Seq(Item), NEW p \in DOMAIN items
    PROVE  items[p] \in Item /\ items[p].token \in Token
<1>1. items[p] \in Item
  OBVIOUS
<1> QED
  BY <1>1 DEF Item

LEMMA MatchKind ==
    ASSUME NEW items \in Seq(Item), NEW p \in Matches(items)
    PROVE  p \in DOMAIN items /\ p \in Int /\ items[p].token.kind \in Kind
<1>1. p \in DOMAIN items /\ items[p] \in Item /\ p \in Int
  BY DEF Matches
<1>2. items[p].token \in Token /\ items[p].token.type = "pii"
  BY <1>1 DEF Matches, Found, Item
<1>3. items[p].token \in Pii
  BY <1>2 DEF Token, Placeholder, Word
<1> QED
  BY <1>1, <1>3 DEF Pii

Reached(items, p) == {q \in Matches(items) : q = p \/ Precedes(items, q, p)}

LEMMA ReachedGrows ==
    ASSUME NEW items \in Seq(Item), NEW p \in Matches(items), NEW q \in Matches(items),
           Precedes(items, p, q)
    PROVE  Cardinality(Reached(items, p)) # Cardinality(Reached(items, q))
<1> DEFINE rank(i) == Rank[items[i].token.kind]
<1>1. \A r \in Matches(items) : r \in Int /\ rank(r) \in Int
  BY MatchKind, RankType
<1>2. Reached(items, p) \subseteq Reached(items, q)
  <2> SUFFICES ASSUME NEW r \in Matches(items), Precedes(items, r, p)
               PROVE  Precedes(items, r, q)
    BY DEF Reached
  <2> QED
    BY <1>1 DEF Precedes
<1>3. q \in Reached(items, q)
  BY DEF Reached
<1>4. q \notin Reached(items, p)
  BY <1>1 DEF Reached, Precedes
<1>5. IsFiniteSet(Reached(items, q))
  <2>1. DOMAIN items = 1..Len(items) /\ Len(items) \in Nat
    OBVIOUS
  <2>2. IsFiniteSet(1..Len(items))
    BY <2>1, FS_Interval
  <2>3. Reached(items, q) \subseteq 1..Len(items)
    BY <2>1 DEF Reached, Matches
  <2> QED
    BY <2>2, <2>3, FS_Subset
<1> QED
  BY <1>2, <1>3, <1>4, <1>5, FS_Subset

(* No two data of a text share a placeholder, whatever their kinds, values *)
(* and number (RedactPII).                                                 *)
THEOREM PlaceholdersDiffer ==
    ASSUME NEW items \in Seq(Item), NEW p \in Matches(items), NEW q \in Matches(items),
           Mark(items, p) = Mark(items, q)
    PROVE  p = q
<1> DEFINE rank(i) == Rank[items[i].token.kind]
<1>1. \A r \in Matches(items) : r \in Int /\ rank(r) \in Int
  BY MatchKind, RankType
<1>2. Cardinality(Reached(items, p)) = Cardinality(Reached(items, q))
  BY DEF Mark, Number, Reached
<1>3. ~Precedes(items, p, q) /\ ~Precedes(items, q, p)
  BY <1>2, ReachedGrows
<1> QED
  BY <1>1, <1>3 DEF Precedes

(* Rehydration restores every token of a redacted text in which the client *)
(* wrote no placeholder of the redaction itself.                           *)
LEMMA Restored ==
    ASSUME NEW items \in Seq(Item), ~Ambiguous(items), NEW p \in DOMAIN items,
           NEW tokens, NEW i \in DOMAIN tokens, tokens[i] = RedactPII(items)[p].token
    PROVE  RehydrateResponse(tokens, RehydrateMap(items))[i] = items[p].token
<1> DEFINE map == RehydrateMap(items)
<1>1. DOMAIN map = {Mark(items, q) : q \in Matches(items)}
  BY DEF RehydrateMap
<1>2. CASE p \in Matches(items)
  <2>1. tokens[i] = Mark(items, p)
    <3>1. items[p] \in Item
      OBVIOUS
    <3> QED
      BY <1>2, <3>1 DEF RedactPII, Item
  <2>2. \A q \in Matches(items) : Mark(items, q) = Mark(items, p) => q = p
    BY <1>2, PlaceholdersDiffer
  <2>3. (CHOOSE q \in Matches(items) : Mark(items, q) = Mark(items, p)) = p
    BY <1>2, <2>2
  <2>4. map[Mark(items, p)] = items[p].token
    BY <1>2, <2>3 DEF RehydrateMap
  <2> QED
    BY <1>1, <1>2, <2>1, <2>4 DEF RehydrateResponse
<1>3. CASE p \notin Matches(items)
  <2>1. tokens[i] = items[p].token
    BY <1>3 DEF RedactPII
  <2>2. tokens[i] \notin DOMAIN map
    BY <1>1, <2>1 DEF Ambiguous
  <2> QED
    BY <2>1, <2>2 DEF RehydrateResponse
<1> QED
  BY <1>2, <1>3

-----------------------------------------------------------------------------
(* Types. *)
LEMMA RedactType ==
    ASSUME NEW items \in Seq(Item)
    PROVE  RedactPII(items) \in Seq(Item)
<1>1. \A p \in Matches(items) : Mark(items, p) \in Token
  <2> SUFFICES ASSUME NEW p \in Matches(items) PROVE Mark(items, p) \in Token
    OBVIOUS
  <2>1. Number(items, p) \in Nat
    <3>1. DOMAIN items = 1..Len(items) /\ Len(items) \in Nat
      OBVIOUS
    <3>2. {q \in Matches(items) : q = p \/ Precedes(items, q, p)} \subseteq 1..Len(items)
      BY <3>1 DEF Matches
    <3>3. IsFiniteSet(1..Len(items))
      BY <3>1, FS_Interval
    <3>4. IsFiniteSet({q \in Matches(items) : q = p \/ Precedes(items, q, p)})
      BY <3>2, <3>3, FS_Subset
    <3> QED
      BY <3>4, FS_CardinalityType DEF Number
  <2>2. items[p].token.kind \in Kind
    BY MatchKind
  <2>3. Mark(items, p) \in Placeholder
    BY <2>1, <2>2 DEF Mark, Placeholder
  <2> QED
    BY <2>3 DEF Token
<1>2. \A p \in DOMAIN items : RedactPII(items)[p] \in Item
  <2> SUFFICES ASSUME NEW p \in DOMAIN items PROVE RedactPII(items)[p] \in Item
    OBVIOUS
  <2>1. items[p] \in Item
    BY ItemAt
  <2>2. p \in Matches(items) => [items[p] EXCEPT !.token = Mark(items, p)] \in Item
    BY <1>1, <2>1 DEF Item
  <2> QED
    BY <2>1, <2>2 DEF RedactPII
<1> QED
  BY <1>2 DEF RedactPII

LEMMA RehydrateType ==
    ASSUME NEW items \in Seq(Item), NEW tokens \in Seq(Token)
    PROVE  RehydrateResponse(tokens, RehydrateMap(items)) \in Seq(Token)
<1> DEFINE map == RehydrateMap(items)
<1>1. \A mark \in DOMAIN map : map[mark] \in Token
  <2> SUFFICES ASSUME NEW p \in Matches(items)
               PROVE  map[Mark(items, p)] \in Token
    BY DEF RehydrateMap
  <2>1. (CHOOSE q \in Matches(items) : Mark(items, q) = Mark(items, p)) \in Matches(items)
    OBVIOUS
  <2>2. \A q \in Matches(items) : items[q].token \in Token
    BY ItemAt DEF Matches
  <2> QED
    BY <2>1, <2>2 DEF RehydrateMap
<1> QED
  BY <1>1 DEF RehydrateResponse

LEMMA ReasonType ==
    ASSUME NEW items \in Seq(Item), NEW o
    PROVE  BlockReason(items, o) \in Reason
<1>1. CASE Named(items) = {}
  BY <1>1 DEF BlockReason, Reason
<1>2. CASE Named(items) # {}
  <2>1. Named(items) \subseteq {"SSN", "CC", "EMAIL", "PHONE", "ADDRESS"}
    BY MatchKind DEF Named, Kind, Rank
  <2>2. \E k \in Named(items) : \A l \in Named(items) : Rank[k] <= Rank[l]
    BY <1>2, <2>1 DEF Rank
  <2> QED
    BY <1>2, <2>1, <2>2 DEF BlockReason, Reason, Kind, Rank
<1> QED
  BY <1>1, <1>2

LEMMA TranslatedType ==
    ASSUME NEW s \in Provider, NEW x \in Answer(Seq(Token)), TranslateResponse(s, x) # None
    PROVE  TranslateResponse(s, x) \in Translated
  BY DEF TranslateResponse, Translated, Answer, Provider

(* A subsequence of a text: its items are items of the text. *)
LEMMA ItemsOf ==
    ASSUME NEW items \in Seq(Item), NEW places \in SUBSET DOMAIN items
    PROVE  /\ Subsequence(items, places) \in Seq(Item)
           /\ \A i \in DOMAIN Subsequence(items, places) :
                 \E p \in places : Subsequence(items, places)[i] = items[p]
<1>1. /\ Subsequence(items, places) \in Seq(Item)
      /\ DOMAIN Subsequence(items, places) = 1..Cardinality(places)
      /\ \A n \in 1..Cardinality(places) :
            /\ Nth(places, n) \in places
            /\ Subsequence(items, places)[n] = items[Nth(places, n)]
  BY SubsequenceElements
<1> QED
  BY <1>1

LEMMA TokensType ==
    ASSUME NEW items \in Seq(Item)
    PROVE  Tokens(items) \in Seq(Token) /\ DOMAIN Tokens(items) = DOMAIN items
<1>1. \A i \in DOMAIN items : items[i].token \in Token
  BY ItemAt
<1> QED
  BY <1>1 DEF Tokens

LEMMA BodyType ==
    ASSUME NEW s \in Provider, NEW items \in Seq(Item), Decodes(items)
    PROVE  TranslateRequest(s, items) \in Body
<1>1. Messages(items) \in Seq(Item) /\ \A i \in DOMAIN Messages(items) :
         Messages(items)[i].role \in Role /\ Messages(items)[i].token \in Token
  <2>1. {p \in DOMAIN items : items[p].role \in Role} \in SUBSET DOMAIN items
    OBVIOUS
  <2>2. \A p \in DOMAIN items : items[p].token \in Token
    BY ItemAt DEF Item
  <2> QED
    BY <2>1, <2>2, ItemsOf DEF Messages
<1>2. Turns(items) \in Seq(Item) /\ \A i \in DOMAIN Turns(items) : Turns(items)[i].token \in Token
  <2>1. {p \in DOMAIN items : items[p].role \in Role \ {"system"}} \in SUBSET DOMAIN items
    OBVIOUS
  <2>2. Turns(items) \in Seq(Item)
    BY <2>1, ItemsOf DEF Turns
  <2> QED
    BY <2>2, ItemAt
<1>3. SystemPrompt(items) \in Seq(Token)
  <2>1. {p \in DOMAIN items : items[p].role = "system"} \in SUBSET DOMAIN items
    OBVIOUS
  <2> QED
    BY <2>1, ItemsOf, TokensType DEF SystemPrompt
<1> DEFINE M == [role : Role \cup {"model"}, token : Token]
           spoken == [i \in DOMAIN Turns(items) |->
              [role |-> Speaker(s, Turns(items)[i].role), token |-> Turns(items)[i].token]]
<1>4. CASE s = "openai"
  <2>1. \A i \in DOMAIN Messages(items) : Messages(items)[i] \in M
    <3> SUFFICES ASSUME NEW i \in DOMAIN Messages(items) PROVE Messages(items)[i] \in M
      OBVIOUS
    <3>1. Messages(items)[i] \in Item
      BY <1>1, ItemAt
    <3> QED
      BY <1>1, <3>1 DEF Item
  <2>2. Messages(items) \in Seq(M)
    <3>1. Len(Messages(items)) \in Nat /\ Messages(items) \in [1..Len(Messages(items)) -> M]
      BY <1>1, <2>1
    <3> HIDE DEF M
    <3> QED
      BY <3>1
  <2>3. TranslateRequest(s, items) = [form |-> s, system |-> <<>>, messages |-> Messages(items)]
    BY <1>4 DEF TranslateRequest
  <2>4. <<>> \in Seq(Token)
    OBVIOUS
  <2> QED
    BY <2>2, <2>3, <2>4 DEF Body
<1>5. CASE s # "openai"
  <2>1. \A i \in DOMAIN Turns(items) : spoken[i] \in M
    BY <1>2 DEF Speaker, Role
  <2>2. spoken \in Seq(M)
    <3>1. Len(Turns(items)) \in Nat /\ DOMAIN spoken = 1..Len(Turns(items))
      BY <1>2
    <3>2. spoken \in [1..Len(Turns(items)) -> M]
      BY <2>1, <3>1
    <3> HIDE DEF M, spoken
    <3> QED
      BY <3>1, <3>2
  <2>3. TranslateRequest(s, items)
          = [form |-> s, system |-> SystemPrompt(items), messages |-> spoken]
    BY <1>5 DEF TranslateRequest
  <2> HIDE DEF spoken, M
  <2> QED
    BY <1>3, <2>2, <2>3 DEF Body, M
<1> QED
  BY <1>4, <1>5

LEMMA TranslateRequestType ==
    ASSUME NEW s \in Provider, NEW items \in Seq(Item)
    PROVE  TranslateRequest(s, items) \in Body \cup {None}
<1>1. CASE Decodes(items)
  BY <1>1, BodyType
<1>2. CASE ~Decodes(items)
  BY <1>2 DEF TranslateRequest
<1> QED
  BY <1>1, <1>2

(* Nothing has been heard of the upstream before it answers. *)
Heard ==
    /\ phase \in {"idle", "decide", "forward", "upstream"} => answer = None /\ echo = <<>>
    /\ phase = "upstream" => endpoint # None
    /\ phase = "answered" => answer # None

Types == TypeOK /\ Heard

LEMMA InitTypes == Init => Types
<1> SUFFICES ASSUME Init PROVE Types
  OBVIOUS
<1>1. text \in Seq(Item) /\ seen \in Seq(Item) /\ echo \in Seq(DOMAIN seen)
  BY DEF Init
<1> QED
  BY <1>1 DEF Init, Types, TypeOK, Heard, Route, Observation

LEMMA Responds ==
    ASSUME NEW status \in {"ok", "error", "forbidden", "bad", "gateway"},
           NEW tokens \in Seq(Token), NEW form \in Provider \cup {"text", "gateway"},
           NEW reason \in Reason \cup {"none", "mismatch", "unreachable", "format"},
           Respond(status, tokens, form, reason)
    PROVE  reply' \in Reply /\ reply' # None /\ phase' = "done"
<1>1. reply' \in Reply
  BY DEF Respond, Reply
<1> QED
  BY <1>1, NoneAssumption DEF Respond

LEMMA FunctionIsSequence ==
    ASSUME NEW S, NEW n \in Nat, NEW f \in [1..n -> S]
    PROVE  f \in Seq(S)
  OBVIOUS

LEMMA NextTypes == Types /\ [Next]_vars => Types'
<1> SUFFICES ASSUME Types, [Next]_vars PROVE Types'
  OBVIOUS
<1> USE DEF Types, TypeOK, Heard, requestVars, upstreamVars
<1>0. <<>> \in Seq(Token)
  OBVIOUS
<1>1. CASE Receive
  <2>1. obs' \in Observation
    BY <1>1 DEF Receive, ClassifyRequest, Observation
  <2> QED
    BY <1>1, <2>1, ExchangeAssumption DEF Receive
<1>2. CASE Block
  <2>1. BlockReason(text, obs) \in Reason
    BY ReasonType
  <2>2. reply' \in Reply /\ reply' # None /\ phase' = "done"
    BY <1>0, <1>2, <2>1, Responds DEF Block
  <2> QED
    BY <1>2, <2>2 DEF Block
<1>3. CASE TranslateChat
  <2>1. seen' \in Seq(Item)
    BY <1>3, RedactType DEF TranslateChat
  <2>2. echo' = <<>> /\ answer' = None /\ reply = None
    BY <1>3 DEF TranslateChat
  <2>0. body' \in Body \cup {None}
    BY <1>3, <2>1, TranslateRequestType DEF TranslateChat
  <2>3. echo' \in Seq(DOMAIN seen')
    BY <2>2
  <2>4. CASE body' = None
    <3>1. reply' \in Reply /\ reply' # None /\ phase' = "done"
      BY <1>0, <1>3, <2>4, Responds DEF TranslateChat
    <3> QED
      BY <1>3, <2>0, <2>1, <2>3, <3>1 DEF TranslateChat
  <2>5. CASE body' # None
    BY <1>3, <2>0, <2>1, <2>2, <2>3, <2>5 DEF TranslateChat
  <2> QED
    BY <2>4, <2>5
<1>4. CASE ForwardTool
  <2>1. echo' = <<>> /\ echo' \in Seq(DOMAIN seen')
    BY <1>4 DEF ForwardTool
  <2> QED
    BY <1>4, <2>1, NoneAssumption DEF ForwardTool
<1>5. CASE Forward
  BY <1>5, NoneAssumption DEF Forward
<1>6. CASE UpstreamAnswers
  <2>1. PICK n \in 0..MaxParts :
           echo' \in [1..n -> {p \in DOMAIN seen : seen[p].role \in Role}]
    BY <1>6 DEF UpstreamAnswers
  <2>2. n \in Nat /\ echo' \in Seq(DOMAIN seen)
    BY <2>1, ExchangeAssumption
  <2>3. PICK f \in {IF endpoint = "execute" THEN "text" ELSE endpoint, "text"}, e \in BOOLEAN :
           answer' = [form |-> f, error |-> e,
                      parts |-> [i \in DOMAIN echo' |-> seen[echo'[i]].token]]
    BY <1>6 DEF UpstreamAnswers
  <2>4. answer'.parts \in Seq(Token)
    <3>1. \A p \in DOMAIN seen : seen[p].token \in Token
      BY ItemAt
    <3>2. answer'.parts = [i \in 1..n |-> seen[echo'[i]].token]
      BY <2>1, <2>3
    <3>3. \A i \in 1..n : seen[echo'[i]].token \in Token
      BY <2>1, <3>1
    <3>4. answer'.parts \in [1..n -> Token]
      BY <3>2, <3>3
    <3> QED
      BY ONLY <2>2, <3>4, FunctionIsSequence
  <2>5. f \in Provider \cup {"text"}
    BY <1>6, <2>3 DEF UpstreamAnswers
  <2>6. answer' \in Answer(Seq(Token))
    BY <2>3, <2>4, <2>5 DEF Answer
  <2>7. answer' # None
    BY <2>6, NoneAssumption
  <2>8. /\ phase' = "answered"
        /\ UNCHANGED <<provider, switched, requestVars, seen, body, endpoint, reply>>
    BY <1>6 DEF UpstreamAnswers
  <2> QED
    BY <1>6, <2>2, <2>6, <2>7, <2>8 DEF UpstreamAnswers
<1>7. CASE UpstreamFails
  <2>1. reply' \in Reply /\ reply' # None /\ phase' = "done"
    BY <1>0, <1>7, Responds DEF UpstreamFails
  <2> QED
    BY <1>7, <2>1 DEF UpstreamFails
<1>8. CASE AnswerChat
  <2>1. reply' \in Reply /\ reply' # None /\ phase' = "done"
    <3>1. CASE TranslateResponse(provider, answer) = None
      BY <1>0, <1>8, <3>1, Responds DEF AnswerChat
    <3>2. CASE TranslateResponse(provider, answer) # None
      <4> DEFINE t == TranslateResponse(provider, answer)
      <4>1. t \in Translated
        BY <1>8, <3>2, TranslatedType DEF AnswerChat
      <4>2. /\ RehydrateResponse(t.tokens, RehydrateMap(text)) \in Seq(Token)
            /\ t.form \in Provider \cup {"text", "gateway"}
        BY <4>1, RehydrateType DEF Translated
      <4>3. Respond(Status, RehydrateResponse(t.tokens, RehydrateMap(text)), t.form, "none")
        BY <1>8, <3>2 DEF AnswerChat
      <4>4. Status \in {"ok", "error", "forbidden", "bad", "gateway"}
        BY DEF Status
      <4> HIDE DEF t
      <4> QED
        BY <4>2, <4>3, <4>4, Responds
    <3> QED
      BY <3>1, <3>2
  <2> QED
    BY <1>8, <2>1 DEF AnswerChat
<1>9. CASE AnswerTool
  <2>1. /\ answer.parts \in Seq(Token)
        /\ answer.form \in Provider \cup {"text", "gateway"}
        /\ Status \in {"ok", "error", "forbidden", "bad", "gateway"}
    BY <1>9 DEF AnswerTool, Answer, Status
  <2>2. reply' \in Reply /\ reply' # None /\ phase' = "done"
    BY <1>9, <2>1, Responds DEF AnswerTool
  <2> QED
    BY <1>9, <2>2 DEF AnswerTool
<1>10. CASE Return
  <2>1. text' \in Seq(Item) /\ seen' \in Seq(Item) /\ echo' \in Seq(DOMAIN seen')
    BY <1>10 DEF Return
  <2> QED
    BY <1>10, <2>1 DEF Return, Route, Observation
<1>11. CASE SaveProvider
  BY <1>11 DEF SaveProvider
<1>12. CASE UNCHANGED vars
  BY <1>12 DEF vars
<1> QED
  BY <1>1, <1>2, <1>3, <1>4, <1>5, <1>6, <1>7, <1>8, <1>9, <1>10, <1>11, <1>12 DEF Next

(* Every variable stays in its type: redaction, translation in both        *)
(* directions and the explanation of a block are defined on all that gets  *)
(* there.                                                                  *)
THEOREM Typing == Spec => []TypeOK
<1>1. Types => TypeOK
  BY DEF Types
<1> QED
  BY <1>1, InitTypes, NextTypes, PTL DEF Spec

-----------------------------------------------------------------------------
(* What holds between the redaction of a chat and its reply. *)
InFlight ==
    /\ provider \in Provider
    /\ text \in Seq(Item)
    /\ phase = "forward" => route = "chat"
    /\ phase \in {"forward", "upstream", "answered"} /\ route = "chat" => seen = RedactPII(text)
    /\ phase = "answered" =>
          /\ \E n \in Nat : echo \in [1..n -> DOMAIN seen]
          /\ answer.parts = [i \in DOMAIN echo |-> seen[echo[i]].token]

IInv == InFlight /\ OwnValuesBack

LEMMA InitIInv == Init => IInv
<1> SUFFICES ASSUME Init PROVE IInv
  OBVIOUS
<1>1. text \in Seq(Item)
  BY DEF Init
<1> QED
  BY <1>1 DEF Init, IInv, InFlight, OwnValuesBack

(* What is translated back are the first parts of the answer, in place. *)
LEMMA TranslatedParts ==
    ASSUME NEW n \in Nat, NEW S, answer.parts \in [1..n -> S], provider \in Provider,
           TranslateResponse(provider, answer) # None,
           NEW i \in DOMAIN TranslateResponse(provider, answer).tokens
    PROVE  /\ i \in DOMAIN answer.parts
           /\ TranslateResponse(provider, answer).tokens[i] = answer.parts[i]
  BY DEF TranslateResponse, Provider

LEMMA AnswerChatReturns == IInv /\ AnswerChat => OwnValuesBack'
<1> SUFFICES ASSUME IInv, AnswerChat, ~Ambiguous(text)
             PROVE  \A i \in DOMAIN reply'.tokens : reply'.tokens[i] = text[echo[i]].token
  BY DEF OwnValuesBack, AnswerChat, requestVars, upstreamVars, Ambiguous
<1> DEFINE translated == TranslateResponse(provider, answer)
           map == RehydrateMap(text)
<1>1. /\ text \in Seq(Item) /\ provider \in Provider
      /\ seen = RedactPII(text)
      /\ answer.parts = [i \in DOMAIN echo |-> seen[echo[i]].token]
  BY DEF IInv, InFlight, AnswerChat
<1>2. PICK n \in Nat : echo \in [1..n -> DOMAIN seen]
  BY DEF IInv, InFlight, AnswerChat
<1>3. DOMAIN seen = DOMAIN text
  BY <1>1 DEF RedactPII
<1>4. CASE translated = None
  BY <1>4 DEF AnswerChat, Respond
<1>5. CASE translated # None
  <2>1. reply'.tokens = RehydrateResponse(translated.tokens, map)
    BY <1>5 DEF AnswerChat, Respond
  <2> SUFFICES ASSUME NEW i \in DOMAIN translated.tokens
               PROVE  RehydrateResponse(translated.tokens, map)[i] = text[echo[i]].token
    BY <2>1 DEF RehydrateResponse
  <2>2. answer.parts \in [1..n -> {seen[p].token : p \in DOMAIN seen}]
    BY <1>1, <1>2
  <2>3. i \in DOMAIN answer.parts /\ translated.tokens[i] = answer.parts[i]
    BY <1>1, <1>5, <2>2, TranslatedParts
  <2>4. echo[i] \in DOMAIN text /\ translated.tokens[i] = RedactPII(text)[echo[i]].token
    BY <1>1, <1>2, <1>3, <2>3
  <2> QED
    BY <1>1, <2>4, Restored
<1> QED
  BY <1>4, <1>5

LEMMA NextIInv == IInv /\ [Next]_vars => IInv'
<1> SUFFICES ASSUME IInv, [Next]_vars PROVE IInv'
  OBVIOUS
<1> USE DEF IInv, InFlight, OwnValuesBack, Ambiguous, requestVars, upstreamVars, Respond
<1>1. CASE Receive
  BY <1>1, ExchangeAssumption DEF Receive
<1>2. CASE Block
  BY <1>2 DEF Block
<1>3. CASE TranslateChat
  BY <1>3 DEF TranslateChat
<1>4. CASE ForwardTool
  BY <1>4 DEF ForwardTool
<1>5. CASE Forward
  BY <1>5 DEF Forward
<1>6. CASE UpstreamAnswers
  <2>1. PICK n \in 0..MaxParts :
           echo' \in [1..n -> {p \in DOMAIN seen : seen[p].role \in Role}]
    BY <1>6 DEF UpstreamAnswers
  <2>2. n \in Nat /\ echo' \in [1..n -> DOMAIN seen]
    BY <2>1, ExchangeAssumption
  <2>3. answer'.parts = [i \in DOMAIN echo' |-> seen[echo'[i]].token]
    BY <1>6 DEF UpstreamAnswers
  <2> QED
    BY <1>6, <2>2, <2>3 DEF UpstreamAnswers
<1>7. CASE UpstreamFails
  BY <1>7 DEF UpstreamFails
<1>8. CASE AnswerChat
  <2>1. OwnValuesBack'
    BY <1>8, AnswerChatReturns
  <2>2. InFlight'
    BY <1>8 DEF AnswerChat
  <2> QED
    BY <2>1, <2>2
<1>9. CASE AnswerTool
  BY <1>9 DEF AnswerTool
<1>10. CASE Return
  BY <1>10 DEF Return
<1>11. CASE SaveProvider
  BY <1>11 DEF SaveProvider
<1>12. CASE UNCHANGED vars
  BY <1>12 DEF vars
<1> QED
  BY <1>1, <1>2, <1>3, <1>4, <1>5, <1>6, <1>7, <1>8, <1>9, <1>10, <1>11, <1>12 DEF Next

(* Every token of a reply to a chat is the client's own, restored from     *)
(* what the upstream repeated (RedactPII, TranslateResponse,               *)
(* RehydrateResponse), for texts and answers of any length.                *)
THEOREM ValuesReturn == Spec => []OwnValuesBack
<1>1. IInv => OwnValuesBack
  BY DEF IInv
<1> QED
  BY <1>1, InitIInv, NextIInv, PTL DEF Spec

-----------------------------------------------------------------------------
(* Without a save the three reads of the provider agree. *)
SameProvider ==
    /\ phase \in {"upstream", "answered"} /\ route = "chat" /\ ~switched => endpoint = provider
    /\ phase = "answered" =>
          /\ route = "chat" => answer.form \in {endpoint, "text"}
          /\ DOMAIN answer.parts = DOMAIN echo

LEMMA FirstPart ==
    ASSUME NEW parts \in Seq(Token), parts # <<>>
    PROVE  /\ <<Head(parts)>> \in Seq(Token)
           /\ DOMAIN <<Head(parts)>> # {}
           /\ DOMAIN parts # {}
<1>1. Len(parts) \in Nat \ {0} /\ DOMAIN parts = 1..Len(parts)
  OBVIOUS
<1>2. 1 \in DOMAIN parts /\ Head(parts) = parts[1]
  BY <1>1
<1>3. parts[1] \in Token
  BY <1>2
<1>4. DOMAIN <<Head(parts)>> = 1..1
  OBVIOUS
<1>5. 1 \in 1..1
  OBVIOUS
<1> QED
  BY <1>2, <1>3, <1>4, <1>5

LEMMA NextAnswerArrives ==
    Types /\ SameProvider /\ AnswerArrives /\ [Next]_vars => (SameProvider /\ AnswerArrives)'
<1> SUFFICES ASSUME Types, SameProvider, AnswerArrives, [Next]_vars
             PROVE  (SameProvider /\ AnswerArrives)'
  OBVIOUS
<1> USE DEF Types, TypeOK, Heard, SameProvider, AnswerArrives, requestVars, upstreamVars, Respond
<1>1. CASE Receive
  BY <1>1 DEF Receive
<1>2. CASE Block
  BY <1>2 DEF Block
<1>3. CASE TranslateChat
  BY <1>3 DEF TranslateChat
<1>4. CASE ForwardTool
  BY <1>4 DEF ForwardTool
<1>5. CASE Forward
  BY <1>5 DEF Forward
<1>6. CASE UpstreamAnswers
  <2>1. PICK f \in {IF endpoint = "execute" THEN "text" ELSE endpoint, "text"}, e \in BOOLEAN :
           answer' = [form |-> f, error |-> e,
                      parts |-> [i \in DOMAIN echo' |-> seen[echo'[i]].token]]
    BY <1>6 DEF UpstreamAnswers
  <2> QED
    BY <1>6, <2>1 DEF UpstreamAnswers
<1>7. CASE UpstreamFails
  BY <1>7 DEF UpstreamFails
<1>8. CASE AnswerChat
  <2>1. SameProvider'
    BY <1>8 DEF AnswerChat
  <2>2. ASSUME ~switched, ~answer.error, answer.form # "text", echo # <<>>
        PROVE  reply'.status = "ok" /\ reply'.form = "openai" /\ reply'.tokens # <<>>
    <3>1. answer.form = provider
      BY <1>8, <2>2 DEF AnswerChat
    <3>2. answer \in Answer(Seq(Token)) /\ DOMAIN answer.parts = DOMAIN echo
      BY <1>8 DEF AnswerChat
    <3>3. answer.parts \in Seq(Token) /\ answer.parts # <<>>
      BY <2>2, <3>2 DEF Answer
    <3>4. /\ [form |-> "openai", tokens |-> <<Head(answer.parts)>>] \in Translated
          /\ [form |-> "openai", tokens |-> answer.parts] \in Translated
      BY <3>3, FirstPart DEF Translated, Provider
    <3>5. TranslateResponse(provider, answer) \in
            {[form |-> "openai", tokens |-> <<Head(answer.parts)>>],
             [form |-> "openai", tokens |-> answer.parts]}
      BY <2>2, <3>1, <3>3 DEF TranslateResponse, Provider
    <3>6. /\ TranslateResponse(provider, answer) # None
          /\ TranslateResponse(provider, answer).form = "openai"
          /\ DOMAIN TranslateResponse(provider, answer).tokens # {}
      <4> DEFINE t == TranslateResponse(provider, answer)
                 first == <<Head(answer.parts)>>
      <4>1. DOMAIN first # {} /\ DOMAIN answer.parts # {}
        BY <3>3, FirstPart
      <4>2. t = [form |-> "openai", tokens |-> first] \/ t = [form |-> "openai", tokens |-> answer.parts]
        BY <3>5
      <4>3. t # None
        BY <3>4, <4>2, NoneAssumption
      <4> HIDE DEF t, first
      <4>4. t.form = "openai" /\ (t.tokens = first \/ t.tokens = answer.parts)
        BY <4>2
      <4>5. t.form = "openai" /\ DOMAIN t.tokens # {}
        BY <4>1, <4>4
      <4> QED
        BY <4>3, <4>5 DEF t
    <3>7. /\ reply'.status = "ok" /\ reply'.form = "openai"
          /\ DOMAIN reply'.tokens = DOMAIN TranslateResponse(provider, answer).tokens
      BY <1>8, <2>2, <3>6 DEF AnswerChat, RehydrateResponse, Status
    <3> QED
      BY <3>6, <3>7
  <2> QED
    BY <1>8, <2>1, <2>2 DEF AnswerChat
<1>9. CASE AnswerTool
  BY <1>9 DEF AnswerTool
<1>10. CASE Return
  BY <1>10 DEF Return
<1>11. CASE SaveProvider
  BY <1>11 DEF SaveProvider
<1>12. CASE UNCHANGED vars
  BY <1>12 DEF vars
<1> QED
  BY <1>1, <1>2, <1>3, <1>4, <1>5, <1>6, <1>7, <1>8, <1>9, <1>10, <1>11, <1>12 DEF Next

(* A chat answered with text gets it, in the client's form, unless a save  *)
(* changed the provider after the request was translated                   *)
(* (handleChatCompletions, forwardToUpstream).                             *)
THEOREM TextArrives == Spec => []AnswerArrives
<1>1. Init => SameProvider /\ AnswerArrives
  BY DEF Init, SameProvider, AnswerArrives
<1> QED
  BY <1>1, InitTypes, NextTypes, NextAnswerArrives, PTL DEF Spec

-----------------------------------------------------------------------------
(* What is known of a request: how it was classified, and how its body was *)
(* made.                                                                   *)
Judged ==
    phase = "decide" \/ body # None =>
       \E limited, surprising \in BOOLEAN :
          obs = ClassifyRequest(text, route, limited, surprising)

Made ==
    /\ phase \in {"idle", "decide"} => body = None
    /\ body # None =>
          /\ route = "chat"
          /\ seen = RedactPII(text)
          /\ Decodes(seen)
          /\ \E s \in Provider : body = TranslateRequest(s, seen)

(* Redaction makes a document that decodes into one that does not only by  *)
(* a placeholder in a wrong place.                                         *)
LEMMA RedactionBreaks ==
    ASSUME NEW items \in Seq(Item), Decodes(items), ~Decodes(RedactPII(items))
    PROVE  \E p \in Matches(items) :
              items[p].role = "number" \/ items[p].token.style = "newline"
<1> DEFINE red == RedactPII(items)
<1>1. DOMAIN red = DOMAIN items
  BY DEF RedactPII
<1>2. \A p \in DOMAIN items : p \notin Matches(items) => red[p] = items[p]
  BY DEF RedactPII
<1>3. \A p \in Matches(items) : red[p].token = Mark(items, p) /\ red[p].role = items[p].role
                                /\ p \in DOMAIN items
  <2> SUFFICES ASSUME NEW p \in Matches(items)
               PROVE  red[p].token = Mark(items, p) /\ red[p].role = items[p].role
                      /\ p \in DOMAIN items
    OBVIOUS
  <2>1. p \in DOMAIN items /\ items[p] \in Item
    BY MatchKind, ItemAt
  <2>2. red[p] = [items[p] EXCEPT !.token = Mark(items, p)]
    BY <2>1 DEF RedactPII
  <2> QED
    BY <2>1, <2>2 DEF Item
<1>4. red # <<>>
  <2>1. items # <<>>
    BY DEF Decodes, ValidJSON
  <2>2. Len(items) \in Nat /\ DOMAIN items = 1..Len(items)
    OBVIOUS
  <2>3. 1 \in DOMAIN red
    BY <1>1, <2>1, <2>2
  <2> QED
    BY <2>3
<1> HIDE DEF red
<1>5. PICK p \in DOMAIN items :
         \/ red[p].token.type \in {"broken", "parts"}
         \/ red[p].token.type = "placeholder" /\ ~(red[p].role # "number" /\ ~red[p].token.dangling)
  BY <1>1, <1>4 DEF Decodes, ValidJSON, red
<1>6. p \in Matches(items)
  BY <1>2, <1>5 DEF Decodes, ValidJSON
<1>7. items[p].role = "number" \/ items[p].token.style = "newline"
  <2>1. /\ Mark(items, p).type = "placeholder"
        /\ Mark(items, p).dangling = (items[p].token.style = "newline")
    BY DEF Mark
  <2>2. red[p].token = Mark(items, p) /\ red[p].role = items[p].role
    BY <1>3, <1>6
  <2>3. red[p].role = "number" \/ red[p].token.dangling
    BY <1>5, <2>1, <2>2
  <2> QED
    BY <2>1, <2>2, <2>3
<1> QED
  BY <1>6, <1>7

(* A block that the explanation puts down to the schema. *)
LEMMA SchemaReason ==
    ASSUME NEW items \in Seq(Item), NEW r \in Route, NEW limited, NEW surprising, NEW o,
           o = ClassifyRequest(items, r, limited, surprising),
           BlockReason(items, o) = "schema"
    PROVE  /\ o = "INPUT_ERROR"
           /\ ~Has(items, "injection")
           /\ \A p \in DOMAIN items :
                 items[p].token.type = "pii" => items[p].token.style # "usual"
           /\ \/ HasPII(items, r)
              \/ ByLastContent(items, r) /\ LastContent(items).type = "hidden"
<1>1. Named(items) = {}
  <2> SUFFICES ASSUME Named(items) # {} PROVE FALSE
    OBVIOUS
  <2>1. Named(items) \subseteq {"SSN", "CC", "EMAIL", "PHONE", "ADDRESS"}
    BY MatchKind DEF Named, Kind, Rank
  <2>2. \E k \in Named(items) : \A l \in Named(items) : Rank[k] <= Rank[l]
    BY <2>1 DEF Rank
  <2>3. BlockReason(items, o) \in Named(items)
    BY <2>2 DEF BlockReason
  <2> QED
    BY <2>1, <2>3
<1>2. ~Has(items, "injection") /\ o = "INPUT_ERROR" /\ ValidJSON(items)
  BY <1>1 DEF BlockReason
<1>3. ASSUME NEW p \in DOMAIN items, items[p].token.type = "pii"
      PROVE  items[p].token.style # "usual"
  <2>1. items[p].token.style = "usual" => p \in Matches(items)
    BY <1>3 DEF Matches, Found
  <2> QED
    BY <1>1, <2>1 DEF Named
<1>4. HasInjection(items, r) =>
         ByLastContent(items, r) /\ LastContent(items).type = "hidden"
  <2> SUFFICES ASSUME ByLastContent(items, r) PROVE LastContent(items).type # "injection"
    BY <1>2 DEF HasInjection
  <2> DEFINE places == {p \in DOMAIN items : items[p].role \in Role}
  <2>1. Messages(items) \in Seq(Item) /\ Messages(items) # <<>>
        /\ \A i \in DOMAIN Messages(items) : \E p \in DOMAIN items : Messages(items)[i] = items[p]
    <3>1. places \in SUBSET DOMAIN items /\ Messages(items) = Subsequence(items, places)
      BY DEF Messages
    <3>2. Messages(items) # <<>>
      BY DEF ByLastContent
    <3> HIDE DEF places
    <3> QED
      BY <3>1, <3>2, ItemsOf
  <2>2. Len(Messages(items)) \in DOMAIN Messages(items)
    BY <2>1
  <2>3. PICK p \in DOMAIN items : LastContent(items) = items[p].token
    BY <2>1, <2>2 DEF LastContent
  <2> QED
    BY <1>2, <2>3 DEF Has
<1>5. ~Malformed(items, r)
  BY <1>2 DEF Malformed, ValidJSON
<1>6. HasPII(items, r) \/ HasInjection(items, r)
  BY <1>2, <1>5 DEF ClassifyRequest
<1> QED
  BY <1>2, <1>3, <1>4, <1>6

RequestInv == Judged /\ Made /\ BlockExplained /\ BadOnlyByRedaction

LEMMA InitRequest == Init => RequestInv
  BY DEF Init, RequestInv, Judged, Made, BlockExplained, BadOnlyByRedaction

LEMMA NextRequest == Types /\ RequestInv /\ [Next]_vars => RequestInv'
<1> SUFFICES ASSUME Types, RequestInv, [Next]_vars PROVE RequestInv'
  OBVIOUS
<1> USE DEF Types, TypeOK, Heard, RequestInv, requestVars, upstreamVars, Respond
<1> USE DEF Judged, Made, BlockExplained, BadOnlyByRedaction
<1>1. CASE Receive
  BY <1>1 DEF Receive
<1>2. CASE Block
  <2>1. PICK limited \in BOOLEAN, surprising \in BOOLEAN :
           obs = ClassifyRequest(text, route, limited, surprising)
    BY <1>2 DEF Block
  <2>2. BlockExplained'
    BY <1>2, <2>1, SchemaReason DEF Block
  <2> QED
    BY <1>2, <2>2 DEF Block
<1>3. CASE TranslateChat
  <2>1. seen' \in Seq(Item) /\ seen' = RedactPII(text)
    BY <1>3, RedactType DEF TranslateChat
  <2>2. Made'
    BY <1>3, <2>1 DEF TranslateChat, TranslateRequest
  <2>3. body' = None => ~Decodes(RedactPII(text))
    <3>1. Decodes(seen') => body' \in Body
      BY <1>3, <2>1, BodyType DEF TranslateChat
    <3> QED
      BY <2>1, <3>1, NoneAssumption
  <2>4. BadOnlyByRedaction'
    BY <1>3, <2>3, RedactionBreaks DEF TranslateChat
  <2> QED
    BY <1>3, <2>2, <2>4 DEF TranslateChat
<1>4. CASE ForwardTool
  BY <1>4 DEF ForwardTool
<1>5. CASE Forward
  BY <1>5 DEF Forward
<1>6. CASE UpstreamAnswers
  BY <1>6 DEF UpstreamAnswers
<1>7. CASE UpstreamFails
  BY <1>7 DEF UpstreamFails
<1>8. CASE AnswerChat
  BY <1>8 DEF AnswerChat, Status
<1>9. CASE AnswerTool
  BY <1>9 DEF AnswerTool, Status
<1>10. CASE Return
  BY <1>10 DEF Return
<1>11. CASE SaveProvider
  BY <1>11 DEF SaveProvider
<1>12. CASE UNCHANGED vars
  BY <1>12 DEF vars
<1> QED
  BY <1>1, <1>2, <1>3, <1>4, <1>5, <1>6, <1>7, <1>8, <1>9, <1>10, <1>11, <1>12 DEF Next

LEMMA RequestInvariance == Spec => [](Types /\ RequestInv)
  BY InitTypes, NextTypes, InitRequest, NextRequest, PTL DEF Spec

(* A chat whose document decodes is refused as a bad request only when its *)
(* own redaction put a placeholder where JSON allows none, for documents   *)
(* of any length (RedactPII, TranslateRequest).                            *)
THEOREM BadByRedaction == Spec => []BadOnlyByRedaction
<1>1. RequestInv => BadOnlyByRedaction
  BY DEF RequestInv
<1> QED
  BY <1>1, RequestInvariance, PTL

(* A block explained by the schema is an input error whose datum or        *)
(* injection the classifier found and the explanation cannot name: none of *)
(* the data is in the usual style, no injection is in plain letters        *)
(* (ClassifyRequest, generateDetailedBlockReason).                         *)
THEOREM Explained == Spec => []BlockExplained
<1>1. RequestInv => BlockExplained
  BY DEF RequestInv
<1> QED
  BY <1>1, RequestInvariance, PTL

(* Every token of a translated body is the token of an item of the text.   *)
LEMMA BodyTokens ==
    ASSUME NEW s \in Provider, NEW items \in Seq(Item), Decodes(items),
           NEW t \in DataOf(TranslateRequest(s, items))
    PROVE  t.type = "pii" /\ \E p \in DOMAIN items : t = items[p].token
<1>1. \A places \in SUBSET DOMAIN items : \A i \in DOMAIN Subsequence(items, places) :
         \E p \in DOMAIN items : Subsequence(items, places)[i] = items[p]
  BY ItemsOf
<1>2. /\ \A i \in DOMAIN Messages(items) : \E p \in DOMAIN items : Messages(items)[i] = items[p]
      /\ \A i \in DOMAIN Turns(items) : \E p \in DOMAIN items : Turns(items)[i] = items[p]
  BY <1>1 DEF Messages, Turns
<1>3. \A i \in DOMAIN SystemPrompt(items) :
         \E p \in DOMAIN items : SystemPrompt(items)[i] = items[p].token
  <2> DEFINE own == Subsequence(items, {p \in DOMAIN items : items[p].role = "system"})
  <2>1. \A i \in DOMAIN own : \E p \in DOMAIN items : own[i] = items[p]
    BY <1>1
  <2>2. SystemPrompt(items) = [i \in DOMAIN own |-> own[i].token]
    BY DEF SystemPrompt, Tokens
  <2> HIDE DEF own
  <2> QED
    BY <2>1, <2>2
<1>4. CASE s = "openai"
  <2>1. TranslateRequest(s, items) = [form |-> s, system |-> <<>>, messages |-> Messages(items)]
    BY <1>4 DEF TranslateRequest
  <2> QED
    BY <1>2, <2>1 DEF DataOf
<1>5. CASE s # "openai"
  <2> DEFINE spoken == [i \in DOMAIN Turns(items) |->
              [role |-> Speaker(s, Turns(items)[i].role), token |-> Turns(items)[i].token]]
  <2>1. TranslateRequest(s, items)
          = [form |-> s, system |-> SystemPrompt(items), messages |-> spoken]
    BY <1>5 DEF TranslateRequest
  <2>2. \A i \in DOMAIN spoken : \E p \in DOMAIN items : spoken[i].token = items[p].token
    BY <1>2
  <2> HIDE DEF spoken
  <2> QED
    BY <1>3, <2>1, <2>2 DEF DataOf
<1> QED
  BY <1>4, <1>5

(* What decodes after its redaction decoded before. *)
LEMMA RedactedDecodes ==
    ASSUME NEW items \in Seq(Item), Decodes(RedactPII(items))
    PROVE  Decodes(items)
<1> DEFINE red == RedactPII(items)
<1>1. DOMAIN red = DOMAIN items
  BY DEF RedactPII
<1>2. items # <<>>
  <2>1. red # <<>> /\ red \in Seq(Item)
    BY RedactType DEF Decodes, ValidJSON
  <2>2. Len(red) \in Nat /\ DOMAIN red = 1..Len(red) /\ Len(red) # 0
    BY <2>1
  <2>3. 1 \in DOMAIN red
    BY <2>2
  <2> QED
    BY <1>1, <2>3
<1>3. ASSUME NEW p \in DOMAIN items
      PROVE  /\ items[p].token.type \notin {"broken", "parts"}
             /\ items[p].token.type = "placeholder"
                => items[p].role # "number" /\ ~items[p].token.dangling
  <2>1. CASE p \in Matches(items)
    BY <2>1 DEF Matches, Found
  <2>2. CASE p \notin Matches(items)
    <3>1. red[p] = items[p]
      BY <2>2 DEF RedactPII
    <3> HIDE DEF red
    <3>2. Decodes(red)
      BY DEF red
    <3> QED
      BY <1>1, <3>1, <3>2 DEF Decodes, ValidJSON
  <2> QED
    BY <2>1, <2>2
<1> QED
  BY <1>2, <1>3 DEF Decodes, ValidJSON

(* Of the personal data of a chat of any length only those that an escape  *)
(* sequence keeps from the patterns reach the upstream, in whatever        *)
(* message and under whatever provider, and not unobserved when they are   *)
(* the last message (ClassifyRequest, RedactPII before TranslateRequest).  *)
THEOREM DataStays == Spec => []DataStayIn
<1>1. Types /\ RequestInv => DataStayIn
  <2> SUFFICES ASSUME Types, RequestInv, body # None PROVE DataStayIn
    BY DEF DataStayIn
  <2>1. text \in Seq(Item) /\ seen \in Seq(Item) /\ seen = RedactPII(text) /\ Decodes(seen)
    BY DEF Types, TypeOK, RequestInv, Made
  <2>2. ASSUME NEW t \in DataOf(body)
        PROVE  t.style = "escaped" \/ (t.style = "newline" /\ t.kind # "EMAIL")
    <3>1. t.type = "pii" /\ \E p \in DOMAIN seen : t = seen[p].token
      BY <2>1, <2>2, BodyTokens DEF RequestInv, Made
    <3>2. PICK p \in DOMAIN seen : t = seen[p].token
      BY <3>1
    <3>3. p \in DOMAIN text /\ text[p] \in Item
      BY <2>1, ItemAt DEF RedactPII
    <3>4. p \notin Matches(text)
      BY <2>1, <3>1, <3>2, <3>3 DEF RedactPII, Mark, Item
    <3>5. t = text[p].token /\ ~Found(t)
      BY <2>1, <3>2, <3>3, <3>4 DEF RedactPII, Matches
    <3> QED
      BY <3>1, <3>5 DEF Found
  <2>3. ASSUME Messages(text) # <<>>, LastContent(text) \in DataOf(body)
        PROVE  obs \in {"INPUT_ERROR", "INGRESS_FLOOD"}
    <3>1. LastContent(text).type = "pii"
      BY <2>3 DEF DataOf
    <3>2. route = "chat" /\ Decodes(text)
      BY <2>1, RedactedDecodes DEF RequestInv, Made
    <3>3. HasPII(text, route)
      BY <2>3, <3>1, <3>2 DEF HasPII, ByLastContent
    <3>4. PICK limited \in BOOLEAN, surprising \in BOOLEAN :
             obs = ClassifyRequest(text, route, limited, surprising)
      BY DEF RequestInv, Judged
    <3> QED
      BY <3>3, <3>4 DEF ClassifyRequest
  <2> QED
    BY <2>2, <2>3 DEF DataStayIn
<1> QED
  BY <1>1, RequestInvariance, PTL

-----------------------------------------------------------------------------
(* The passes of RedactPII, one after the other. *)

(* The matches that the first k passes replace, *)
Replaced(items, k) == {p \in Matches(items) : Rank[items[p].token.kind] <= k}

(* and what they leave. *)
After(items, k) ==
    [text |-> [p \in DOMAIN items |->
        IF p \in Replaced(items, k) THEN [items[p] EXCEPT !.token = Mark(items, p)] ELSE items[p]],
     counter |-> 1 + Cardinality(Replaced(items, k))]

LEMMA MatchesFinite ==
    ASSUME NEW items \in Seq(Item), NEW S, S \subseteq Matches(items)
    PROVE  IsFiniteSet(S) /\ Cardinality(S) \in Nat
<1>1. DOMAIN items = 1..Len(items) /\ Len(items) \in Nat
  OBVIOUS
<1>2. IsFiniteSet(1..Len(items)) /\ S \subseteq 1..Len(items)
  BY <1>1, FS_Interval DEF Matches
<1> QED
  BY <1>2, FS_Subset, FS_CardinalityType

LEMMA Retokened ==
    ASSUME NEW item \in Item, NEW token
    PROVE  [item EXCEPT !.token = token].token = token
  BY DEF Item

LEMMA AfterIs ==
    ASSUME NEW items, NEW k
    PROVE  /\ After(items, k).counter = 1 + Cardinality(Replaced(items, k))
           /\ DOMAIN After(items, k).text = DOMAIN items
           /\ \A p \in DOMAIN items :
                 After(items, k).text[p] =
                    IF p \in Replaced(items, k)
                    THEN [items[p] EXCEPT !.token = Mark(items, p)] ELSE items[p]
  BY DEF After

LEMMA DisjointUnion ==
    ASSUME NEW S, NEW T, IsFiniteSet(S), IsFiniteSet(T), S \cap T = {}
    PROVE  /\ IsFiniteSet(S \cup T)
           /\ Cardinality(S \cup T) = Cardinality(S) + Cardinality(T)
<1>1. Cardinality(S \cap T) = 0
  BY FS_EmptySet
<1>2. Cardinality(S \cup T) = Cardinality(S) + Cardinality(T) - Cardinality(S \cap T)
  BY FS_Union
<1>3. Cardinality(S) \in Nat /\ Cardinality(T) \in Nat
  BY FS_CardinalityType
<1> QED
  BY <1>1, <1>2, <1>3, FS_Union

LEMMA RankedOnce ==
    ASSUME NEW items \in Seq(Item), NEW p \in Matches(items)
    PROVE  /\ p \in DOMAIN items /\ p \in Int /\ items[p] \in Item
           /\ Rank[items[p].token.kind] \in 1..5
           /\ \A kind \in Kind :
                 Rank[items[p].token.kind] = Rank[kind] => items[p].token.kind = kind
<1>1. p \in DOMAIN items /\ p \in Int /\ items[p].token.kind \in Kind
  BY MatchKind
<1>2. \A x, y \in Kind : Rank[x] \in 1..5 /\ (Rank[x] = Rank[y] => x = y)
  BY DEF Rank, Kind
<1> QED
  BY <1>1, <1>2

(* The next pass finds the matches of its kind, which nothing before it    *)
(* changed, and gives each the number that counting gives it.              *)
LEMMA NextPass ==
    ASSUME NEW items \in Seq(Item), NEW k \in 0..4, NEW kind \in Kind, Rank[kind] = k + 1
    PROVE  Pass(After(items, k), kind) = After(items, k + 1)
<1> SUFFICES ASSUME NEW state, state = After(items, k),
                    NEW done, done = Replaced(items, k),
                    NEW ours, ours = {p \in Matches(items) : items[p].token.kind = kind}
             PROVE  Pass(state, kind) = After(items, k + 1)
  OBVIOUS
<1>1. \A p \in Matches(items) :
         /\ p \in DOMAIN items /\ p \in Int /\ items[p] \in Item
         /\ Rank[items[p].token.kind] \in Int
         /\ Rank[items[p].token.kind] = k + 1 <=> items[p].token.kind = kind
  BY RankedOnce
<1>2. /\ state.counter = 1 + Cardinality(done)
      /\ DOMAIN state.text = DOMAIN items
      /\ \A p \in DOMAIN items : state.text[p] =
            IF p \in done THEN [items[p] EXCEPT !.token = Mark(items, p)] ELSE items[p]
  BY AfterIs
<1>3. \A p \in Matches(items) : p \in done <=> Rank[items[p].token.kind] <= k
  BY DEF Replaced
<1>4. done \subseteq Matches(items) /\ ours \subseteq Matches(items)
  BY DEF Replaced
<1>5. ours \cap done = {}
  <2> SUFFICES ASSUME NEW p \in ours, p \in done PROVE FALSE
    OBVIOUS
  <2>1. Rank[items[p].token.kind] = k + 1 /\ Rank[items[p].token.kind] <= k
    BY <1>1, <1>3, <1>4
  <2> QED
    BY <2>1
<1>6. \A p \in DOMAIN items \ done : state.text[p] = items[p]
  BY <1>2
<1>7. \A p \in done : state.text[p].token.type = "placeholder"
  <2> SUFFICES ASSUME NEW p \in done PROVE state.text[p].token.type = "placeholder"
    OBVIOUS
  <2>1. state.text[p] = [items[p] EXCEPT !.token = Mark(items, p)] /\ items[p] \in Item
    BY <1>1, <1>2, <1>4
  <2>2. state.text[p].token = Mark(items, p)
    BY <2>1, Retokened
  <2> QED
    BY <2>2 DEF Mark
<1>8. PassHits(state, kind) = ours
  <2>1. ASSUME NEW p \in PassHits(state, kind) PROVE p \in ours
    <3>1. p \in DOMAIN items /\ Found(state.text[p].token) /\ state.text[p].token.kind = kind
      BY <1>2, <2>1 DEF PassHits, Matches
    <3>2. p \notin done
      BY <1>7, <3>1 DEF Found
    <3>3. state.text[p] = items[p]
      BY <1>6, <3>1, <3>2
    <3> QED
      BY <3>1, <3>3 DEF Matches
  <2>2. ASSUME NEW p \in ours PROVE p \in PassHits(state, kind)
    <3>1. p \in DOMAIN items /\ Found(items[p].token) /\ items[p].token.kind = kind
      BY <2>2 DEF Matches
    <3>2. state.text[p] = items[p]
      BY <1>5, <1>6, <2>2, <3>1
    <3> QED
      BY <1>2, <3>1, <3>2 DEF PassHits, Matches
  <2> QED
    BY <2>1, <2>2
<1>9. /\ IsFiniteSet(done) /\ Cardinality(done) \in Nat
      /\ IsFiniteSet(ours) /\ Cardinality(ours) \in Nat
  BY <1>4, MatchesFinite
<1>10. Replaced(items, k + 1) = done \cup ours
  <2>1. \A p \in Matches(items) :
           Rank[items[p].token.kind] <= k + 1
           <=> Rank[items[p].token.kind] <= k \/ Rank[items[p].token.kind] = k + 1
    BY <1>1
  <2>2. \A p \in Matches(items) :
           p \in ours <=> Rank[items[p].token.kind] = k + 1
    BY <1>1
  <2>3. Replaced(items, k + 1) \subseteq Matches(items)
        /\ \A p \in Matches(items) :
              p \in Replaced(items, k + 1) <=> Rank[items[p].token.kind] <= k + 1
    BY DEF Replaced
  <2> QED
    BY <1>3, <1>4, <2>1, <2>2, <2>3
<1>11. ASSUME NEW p \in ours PROVE PassMark(state, kind, p) = Mark(items, p)
  <2> SUFFICES ASSUME NEW before, before = {q \in ours : q < p}
               PROVE  PassMark(state, kind, p) = Mark(items, p)
    OBVIOUS
  <2>1. {q \in Matches(items) : q = p \/ Precedes(items, q, p)} = (done \cup before) \cup {p}
    <3>1. p \in Matches(items) /\ Rank[items[p].token.kind] = k + 1
      BY <1>1
    <3>2. ASSUME NEW q \in Matches(items)
          PROVE  Precedes(items, q, p) <=> q \in done \/ q \in before
      <4>1. Precedes(items, q, p)
            <=> Rank[items[q].token.kind] < k + 1
                \/ (Rank[items[q].token.kind] = k + 1 /\ q < p)
        BY <3>1 DEF Precedes
      <4>2. Rank[items[q].token.kind] < k + 1 <=> q \in done
        BY <1>1, <1>3, <3>2
      <4>3. Rank[items[q].token.kind] = k + 1 <=> q \in ours
        BY <1>1, <3>2
      <4> QED
        BY <4>1, <4>2, <4>3
    <3> QED
      BY <1>4, <3>1, <3>2
  <2>2. IsFiniteSet(before) /\ Cardinality(before) \in Nat /\ done \cap before = {}
    BY <1>4, <1>5, MatchesFinite
  <2>3. /\ IsFiniteSet(done \cup before)
        /\ Cardinality(done \cup before) = Cardinality(done) + Cardinality(before)
    BY <1>9, <2>2, DisjointUnion
  <2>4. p \notin done \cup before
    <3>1. ~(p < p)
      BY <1>1, <1>4
    <3> QED
      BY <1>5, <1>11, <3>1
  <2>5. Cardinality((done \cup before) \cup {p}) = Cardinality(done \cup before) + 1
    BY <2>3, <2>4, FS_AddElement
  <2>6. Number(items, p) = Cardinality(done) + Cardinality(before) + 1
    BY <2>1, <2>3, <2>5 DEF Number
  <2>7. {q \in PassHits(state, kind) : q < p} = before
    BY <1>8
  <2>8. state.counter + Cardinality({q \in PassHits(state, kind) : q < p}) = Number(items, p)
    <3>1. state.counter = 1 + Cardinality(done)
      BY <1>2
    <3>2. Cardinality({q \in PassHits(state, kind) : q < p}) = Cardinality(before)
      BY <2>7
    <3>3. Cardinality(done) \in Nat /\ Cardinality(before) \in Nat
      BY <1>9, <2>2
    <3> QED
      BY <2>6, <3>1, <3>2, <3>3
  <2>9. items[p].token.kind = kind /\ state.text[p] = items[p]
    BY <1>1, <1>4, <1>5, <1>6
  <2> QED
    BY <2>8, <2>9 DEF Mark, PassMark
<1>12. \A p \in DOMAIN items :
         (IF p \in PassHits(state, kind)
          THEN [state.text[p] EXCEPT !.token = PassMark(state, kind, p)] ELSE state.text[p])
         = IF p \in Replaced(items, k + 1)
           THEN [items[p] EXCEPT !.token = Mark(items, p)] ELSE items[p]
  <2> SUFFICES ASSUME NEW p \in DOMAIN items
               PROVE  (IF p \in PassHits(state, kind)
                       THEN [state.text[p] EXCEPT !.token = PassMark(state, kind, p)]
                       ELSE state.text[p])
                      = IF p \in Replaced(items, k + 1)
                        THEN [items[p] EXCEPT !.token = Mark(items, p)] ELSE items[p]
    OBVIOUS
  <2>1. CASE p \in ours
    <3>1. state.text[p] = items[p] /\ PassMark(state, kind, p) = Mark(items, p)
      BY <1>5, <1>6, <1>11, <2>1
    <3>2. p \in PassHits(state, kind) /\ p \in Replaced(items, k + 1)
      BY <1>8, <1>10, <2>1
    <3> QED
      BY <3>1, <3>2
  <2>2. CASE p \notin ours
    BY <1>2, <1>8, <1>10, <2>2
  <2> QED
    BY <2>1, <2>2
<1>13. state.counter + Cardinality(PassHits(state, kind))
       = 1 + Cardinality(Replaced(items, k + 1))
  <2>1. Cardinality(done \cup ours) = Cardinality(done) + Cardinality(ours)
    BY <1>5, <1>9, DisjointUnion
  <2> QED
    <3>1. state.counter = 1 + Cardinality(done)
      BY <1>2
    <3>2. Cardinality(PassHits(state, kind)) = Cardinality(ours)
      BY <1>8
    <3>3. Cardinality(Replaced(items, k + 1)) = Cardinality(done) + Cardinality(ours)
      BY <1>10, <2>1
    <3>4. Cardinality(done) \in Nat /\ Cardinality(ours) \in Nat
      BY <1>9
    <3> QED
      BY <3>1, <3>2, <3>3, <3>4
<1> QED
  BY <1>2, <1>12, <1>13 DEF After, Pass

(* Passes with a shared counter number the placeholders by what is reached *)
(* before them, for texts of any length (RedactPII).                       *)
THEOREM PassesNumber ==
    ASSUME NEW items \in Seq(Item)
    PROVE  RedactInPasses(items) = RedactPII(items)
<1>1. After(items, 0) = [text |-> items, counter |-> 1]
  <2>1. \A p \in Matches(items) : Rank[items[p].token.kind] \in 1..5
    BY RankedOnce
  <2>2. Replaced(items, 0) = {}
    BY <2>1 DEF Replaced
  <2>3. [p \in DOMAIN items |->
            IF p \in Replaced(items, 0)
            THEN [items[p] EXCEPT !.token = Mark(items, p)] ELSE items[p]] = items
    BY <2>2
  <2>4. 1 + Cardinality(Replaced(items, 0)) = 1
    <3>1. Cardinality({}) = 0
      BY FS_EmptySet
    <3>2. Cardinality(Replaced(items, 0)) = 0
      BY <2>2, <3>1
    <3> QED
      BY <3>2
  <2> QED
    BY <2>3, <2>4 DEF After
<1>2. {"SSN", "CC", "EMAIL", "PHONE", "ADDRESS"} \subseteq Kind
      /\ Rank["SSN"] = 0 + 1 /\ Rank["CC"] = 1 + 1 /\ Rank["EMAIL"] = 2 + 1
      /\ Rank["PHONE"] = 3 + 1 /\ Rank["ADDRESS"] = 4 + 1
  BY DEF Kind, Rank
<1>3. Pass(After(items, 0), "SSN") = After(items, 1)
  BY <1>2, NextPass
<1>4. Pass(After(items, 1), "CC") = After(items, 2)
  BY <1>2, NextPass
<1>5. Pass(After(items, 2), "EMAIL") = After(items, 3)
  BY <1>2, NextPass
<1>6. Pass(After(items, 3), "PHONE") = After(items, 4)
  BY <1>2, NextPass
<1>7. Pass(After(items, 4), "ADDRESS") = After(items, 5)
  BY <1>2, NextPass
<1>8. After(items, 5).text = RedactPII(items)
  <2>1. \A p \in Matches(items) : Rank[items[p].token.kind] \in 1..5
    BY RankedOnce
  <2>2. Replaced(items, 5) = Matches(items)
    BY <2>1 DEF Replaced
  <2> QED
    BY <2>2 DEF After, RedactPII
<1> QED
  BY <1>1, <1>3, <1>4, <1>5, <1>6, <1>7, <1>8 DEF RedactInPasses

(* What a chat sends is what the code's passes leave of it, whatever its   *)
(* length, its data and the provider (RedactPII, handleChatCompletions).   *)
THEOREM Numbered == Spec => []NumberedInPasses
<1>1. IInv => NumberedInPasses
  <2> SUFFICES ASSUME IInv, phase = "forward" PROVE seen = RedactInPasses(text)
    BY DEF NumberedInPasses
  <2>1. text \in Seq(Item) /\ seen = RedactPII(text)
    BY DEF IInv, InFlight
  <2> QED
    BY <2>1, PassesNumber
<1> QED
  BY <1>1, InitIInv, NextIInv, PTL DEF Spec
=============================================================================
