--------------------------- MODULE DecisionParsing ---------------------------
(***************************************************************************)
(* From the model's answer to the actions a policy task runs:              *)
(* parseModelDecision of src/runtime/ask-real-claude.ts, which takes the   *)
(* strict parser of decision-protocol.ts or, for an answer of a legacy     *)
(* shape, its own normalisation, and the check with which                  *)
(* local-session-loop.ts admits what came out.                             *)
(*                                                                         *)
(* An answer is an object of which the fields are kept that the code looks *)
(* at. Names are tokens: case, hyphens and surrounding space are gone, and *)
(* the camelCase and snake_case spellings of a field are one.              *)
(***************************************************************************)
EXTENDS Answers, Naturals, Sequences, FiniteSets, SequencesExt, FiniteSetsExt

CONSTANT
  MaxContainers     \* bound: the containers of an answer that are present

VARIABLES
  answer,    \* the JSON object in the model's text
  stage,     \* asked, decided, admitted or refused
  decision   \* what askRealClaudeDecision returned

vars == <<answer, stage, decision>>

-----------------------------------------------------------------------------
(* Answers *)

Fillings ==
  UNION {{[c \in Containers |-> IF c \in chosen THEN f[c] ELSE Absent] :
            f \in {g \in [chosen -> UNION {ArraysOf(c) : c \in chosen}] :
                     \A c \in chosen : g[c] \in ArraysOf(c)}} :
         chosen \in UNION {kSubset(k, Containers) : k \in 0..MaxContainers}}

\* judged: the kind of field that gives a judgment or a reason, if one does;
\* packaged: there is a final package that is an object; final: final_decision, if
\* it asks for both.
Answers ==
  [decision : DECISIONS \cup OtherDecisions \cup {None}, status : Statuses \cup {None},
   final : {None, "search_and_fetch"},
   judged : {None, "reasoning", "stopDecision"}, packaged : BOOLEAN,
   actions : Fillings]

Refused == [ok |-> FALSE, kind |-> None, searches |-> <<>>, fetches |-> <<>>]
Decision(kind, searches, fetches) ==
  [ok |-> TRUE, kind |-> kind, searches |-> searches, fetches |-> fetches]

ItemsOf(a, c) == a.actions[c].items

\* The field of the items that are wanted, in their order.
FieldOf(items, wanted, field) ==
  LET taken[n \in 0..Len(items)] ==
        IF n = 0 THEN <<>>
        ELSE IF items[n] \in wanted THEN Append(taken[n - 1], items[n][field])
        ELSE taken[n - 1]
  IN taken[Len(items)]

\* The first of each value.
Distinct(s) ==
  LET deduped[n \in 0..Len(s)] ==
        IF n = 0 THEN <<>>
        ELSE IF s[n] \in ToSet(deduped[n - 1]) THEN deduped[n - 1]
        ELSE Append(deduped[n - 1], s[n])
  IN deduped[Len(s)]

-----------------------------------------------------------------------------
(* The strict parser *)

Inconsistent(kind, searches, fetches) ==
  \/ kind = "continue_search" /\ fetches # <<>>
  \/ kind = "continue_fetch" /\ searches # <<>>
  \/ kind \in Terminal /\ searches \o fetches # <<>>

\* parseDecisionEnvelope()
Strict(a) ==
  LET searches == ItemsOf(a, "searchActions")
      fetches == ItemsOf(a, "fetchActions")
      wellFormed ==
        /\ a.decision \in DECISIONS
        /\ \A c \in {"searchActions", "fetchActions"} :
             a.actions[c].present => a.actions[c].array
        /\ \A i \in DOMAIN searches : searches[i].query # None
        /\ \A i \in DOMAIN fetches : fetches[i].url \in Links
        /\ ~Inconsistent(a.decision, searches, fetches)
        /\ a.decision \in Terminal => a.packaged
  IN IF wellFormed
     THEN Decision(a.decision, [i \in DOMAIN searches |-> searches[i].query],
                   [i \in DOMAIN fetches |-> fetches[i].url])
     ELSE Refused

-----------------------------------------------------------------------------
(* The normalisation of a legacy answer *)

\* The items with a query, those with a URL, those that say they are a kind.
WithQuery(items) == {item \in ToSet(items) : item.query # None}
WithUrl(items) == {item \in ToSet(items) : item.url # None}
Saying(kind, items) == {item \in ToSet(items) : Says(item) = kind}

\* Mutant: a fetch that carries a context query is also a search for it.
RevivedSearches(items) ==
  FieldOf(items, Saying("search", items) \cap WithQuery(items), "query")
    \o FieldOf(items, {item \in Saying("fetch", items) : item.context # None}, "context")

SearchesIn(items) ==
  FieldOf(items, Saying("search", items) \cap WithQuery(items), "query")

FetchesIn(items) ==
  FieldOf(items, Saying("fetch", items) \cap WithUrl(items), "url")

Required(a) ==
  LET items == ItemsOf(a, "requiredSearches") IN FieldOf(items, WithQuery(items), "query")

SearchesOf(a, c) == SearchesIn(ItemsOf(a, c))
FetchesOf(a, c) == FetchesIn(ItemsOf(a, c))

\* The searches wherever they stand but in combinedActions.
Combined(a) ==
  Required(a) \o SearchesOf(a, "recommendedNextActions") \o SearchesOf(a, "nextActions")
    \o SearchesOf(a, "radarActions") \o SearchesOf(a, "searchActions")

\* The type of what stands in fetchActions is overwritten.
TypedFetches(items) ==
  FetchesIn([i \in DOMAIN items |-> [items[i] EXCEPT !.type = "fetch"]])

\* detectCompositeIntent()
IsComposite(a) ==
  \/ a.status \in {"search_and_fetch", "need_fetch"}
  \/ "search_and_fetch" \in {a.decision, a.final}
  \/ \E c \in {"combinedActions", "nextActions", "fetchActions"} :
       LET said == {Says(ItemsOf(a, c)[i]) : i \in DOMAIN ItemsOf(a, c)}
       IN {"search", "fetch"} \subseteq said

\* normalizeCompositeDecision()
Composite(a) ==
  LET searches == Distinct(Combined(a) \o SearchesOf(a, "combinedActions"))
      fetches == FetchesOf(a, "fetchActions") \o FetchesOf(a, "nextActions")
                   \o FetchesOf(a, "combinedActions")
      explicit == IF a.decision # None THEN a.decision ELSE a.status
      kind == IF searches = <<>> \/ explicit \in {"continue_fetch", "search_and_fetch"}
              THEN "continue_fetch" ELSE "continue_search"
  IN IF searches = <<>> /\ fetches = <<>> THEN Decision("stop", <<>>, <<>>)
     ELSE Decision(kind, searches, fetches)

\* Mutant: a judgment decides although there is a decision.
NoMatterWhat(a) == TRUE

Undecided(a) == a.decision \in {None, "continue"}

\* legacyNormalizeDecision()
Legacy(a) ==
  LET own == ItemsOf(a, "searchActions")
      fetches == TypedFetches(ItemsOf(a, "fetchActions"))
      status == IF a.status # None THEN a.status ELSE a.decision
      indicated == IF a.decision # None THEN a.decision
                   ELSE IF a.status # None THEN a.status ELSE "stop"
      kind == IF status = "continue" /\ own # <<>> THEN "continue_search"
              ELSE IF status = "continue" /\ fetches # <<>> THEN "continue_fetch"
              ELSE IF status = "continue_fetch" THEN "continue_fetch"
              ELSE indicated
  IN IF Combined(a) # <<>> /\ Undecided(a)
     THEN Decision("continue_search", Combined(a), <<>>)
     ELSE IF a.judged # None /\ Undecided(a) THEN Decision("stop", <<>>, <<>>)
     ELSE Decision(kind, [i \in DOMAIN own |-> own[i].query], fetches)

\* normalizeDecision()
Normalized(a) ==
  IF a.decision = "summarize_and_stop" THEN Decision(a.decision, <<>>, <<>>)
  ELSE IF IsComposite(a) THEN Composite(a) ELSE Legacy(a)

\* isLegacyModelShape(): fetchActions is among its keys.
IsLegacy(a) ==
  \/ a.status # None
  \/ a.judged = "stopDecision"
  \/ \E c \in Containers \ {"searchActions"} : a.actions[c].present

-----------------------------------------------------------------------------
(* The two steps *)

Init ==
  /\ answer \in Answers
  /\ stage = "asked"
  /\ decision = Refused

\* cleanJsonModelOutput(): the text is JSON, or a fenced block of it, or has one
\* JSON value in it, or several or none.
Texts == {"json", "fenced", "one", "several", "none"}
Found(text) == text \in {"json", "fenced", "one"}

\* parseModelDecision()
Parse(text) ==
  IF ~Found(text) THEN Refused
  ELSE IF IsLegacy(answer) THEN Normalized(answer)
  ELSE Strict(answer)

\* askRealClaudeDecision(): the call of the model answers or throws, and so does
\* what is made of its text.
Ask ==
  /\ stage = "asked"
  /\ decision' \in {Parse(text) : text \in Texts} \cup {Refused}
  /\ stage' = IF decision'.ok THEN "decided" ELSE "refused"
  /\ UNCHANGED answer

\* runOneSessionIteration() before it runs an action.
Admit ==
  /\ stage = "decided"
  /\ stage' = IF Inconsistent(decision.kind, decision.searches, decision.fetches)
              THEN "refused" ELSE "admitted"
  /\ UNCHANGED <<answer, decision>>

Next == Ask \/ Admit

Spec == Init /\ [][Next]_vars

-----------------------------------------------------------------------------
(* Properties *)

TypeOK ==
  /\ stage \in {"asked", "decided", "admitted", "refused"}
  /\ decision.ok \in BOOLEAN
  /\ decision.searches \in Seq(SearchTexts \cup {None})
  /\ decision.fetches \in Seq(Links \cup {BadLink})

\* What is decided is the whole of what one of the parsers made of the answer.
ParserInv ==
  /\ answer \in Answers
  /\ stage \in {"asked", "decided", "admitted", "refused"}
  /\ decision \in {Refused} \cup {Parse(text) : text \in Texts}
  /\ stage \in {"decided", "admitted"} => decision.ok
  /\ stage = "admitted" =>
       ~Inconsistent(decision.kind, decision.searches, decision.fetches)

Admitted == stage = "admitted"

\* Nothing the model did not ask for is run, through whichever of the three ways
\* the answer came: a query that is searched is that of an action that says it is
\* a search or stands where only searches do (the context of a fetch is not
\* revived as a search, docs/audits/2026-07-25-p0-p3-reaudit.md:103), a URL that
\* is fetched that of one that says it is a fetch or stands in fetchActions and
\* does not say otherwise, and what runs is of one kind unless the decision is
\* none the protocol knows.
NothingInvented ==
  /\ TypeOK
  /\ Admitted =>
       /\ \A query \in ToSet(decision.searches) :
            \E c \in Containers : \E item \in ToSet(ItemsOf(answer, c)) :
              /\ item.query = query
              /\ Says(item) = "search" \/ c \in {"requiredSearches", "searchActions"}
       /\ \A url \in ToSet(decision.fetches) :
            \E c \in Containers : \E item \in ToSet(ItemsOf(answer, c)) :
              /\ item.url = url
              /\ Says(item) = "fetch" \/ (c = "fetchActions" /\ item.action = None)
       /\ decision.kind \in DECISIONS => decision.searches = <<>> \/ decision.fetches = <<>>

\* The answer has no field but those of the output contract
\* (prompt-builder.ts:45).
IsCanonical(a) ==
  /\ a.status = None /\ a.final = None
  /\ a.judged # "stopDecision"
  /\ \A c \in Containers : a.actions[c].present => a.actions[c].array
  /\ \A c \in Containers \ {"searchActions", "fetchActions"} : ~a.actions[c].present
  /\ \A item \in ToSet(ItemsOf(a, "searchActions")) \cup ToSet(ItemsOf(a, "fetchActions")) :
       Says(item) = None /\ item.context = None

\* An answer that keeps the contract comes out as it went in: the same decision
\* and the same actions in the same order, although the key fetchActions sends
\* it through the legacy normalisation and an answer without it does not go
\* there.
CanonicalIsUnchanged ==
  IsCanonical(answer) /\ Strict(answer).ok /\ stage \in {"decided", "admitted"} =>
    decision = Strict(answer)

\* "Unknown or missing decisions are protocol errors, never implicit `stop`"
\* (docs/superpowers/specs/2026-07-25-model-owned-execution-design.md:40).
UnknownIsRefused ==
  IsCanonical(answer) /\ answer.decision \notin DECISIONS => ~Admitted
=============================================================================
